\* Three threads and three connections around a pool of one.
SPECIFICATION Spec
CONSTANTS
  Threads = {t1, t2, t3}
  Sockets = {s1, s2, s3}
  initConn = 2
  maxActiveConn = 1
  inactiveSocketTimeout = 1
  MaxClosed = 2
  MaxPipeline = 2
INVARIANTS OnePlace NoCrossTalk StrandedOnlyByRace
SYMMETRY Symmetry
