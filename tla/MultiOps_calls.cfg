\* Two servers, four keys, buffers that hold one or two requests.
SPECIFICATION MultiSpec
CONSTANTS
  Hosts <- MCHosts
  Items <- MCItems
  KeyLen <- MCKeyLen
  DataLens <- MCDataLens
  PartLen = 1
  Capacity = 2
  MaxLost = 1
  Kinds = {"get", "update", "delete", "expiration"}
INVARIANTS RequestsInOrder RepliesMatched PooledClean StallsOnlyFor
PROPERTY Returns
