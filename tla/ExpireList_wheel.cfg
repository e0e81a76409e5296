\* Lists of width 1, 2, 4 and 15, times of four bits, clock steps of up to 3.
SPECIFICATION Spec
CONSTANTS
    Items = {x1}
    Last = 3
    expiration_time_ <- MCWidths
    Expirations = {0, 1, 3, 6}
    MaxStep = 3
    TimeMod = 16
    Start = 1
    MaxTime = 14
INVARIANTS
    TypeOK
    WheelInTime
    SweptClean
