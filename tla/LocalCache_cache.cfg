\* Two threads, two keys of which values of different sizes are stored.
SPECIFICATION Spec
CONSTANTS
    Threads = {t1, t2}
    Keys = {k1, k2}
    Vals = {a}
    Ops = {"get", "set", "append", "drop", "flush"}
    MaxId = 2
    MaxWatch = 2
    MaxLen = 2
    maxCacheSize = 2
    warningCacheSize = 1
    maxDropCount = 1
    NULL = NULL
INVARIANTS
    Findable
    SizeExact
    StaleOnlyIfOvertaken
SYMMETRY Symmetry
VIEW View
