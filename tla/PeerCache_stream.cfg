\* Three requests of any kind, cut anywhere, at most two answered at a time.
SPECIFICATION Spec
CONSTANTS
    Kinds = {"hello", "bad", "flush", "check", "get", "get_long", "update", "empty"}
    MaxReq = 3
    BatchLimit = 2
INVARIANTS
    RepliesInOrder
    PendingIntact
    Framed
    NeverOrphaned
PROPERTY AnsweredUnlessStalled
