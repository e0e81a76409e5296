\* Two watches, three connections (two failures), two changes to a watch.
SPECIFICATION Spec
CONSTANTS
    MaxConn = 3
    MaxWatch = 2
    MaxId = 2
    SeqMod = 4
    NULL = NULL
INVARIANTS
    NothingLost
    NoMissedWakeup
PROPERTIES
    ChangeArrives
    ChannelSpec
