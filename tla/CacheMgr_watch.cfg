\* Versions and watches: two connection handles, one watch.
SPECIFICATION Spec
CONSTANTS
    k1 = k1
    k2 = k2
    g1 = g1
    g2 = g2
    Keys = {k1}
    Groups = {g1, g2}
    GroupOf <- MCGroupOf
    Items = {i1, i2, i3}
    Handles = {h1, h2}
    Values = {v1}
    Expirations = {1}
    MaxWatch = 1
    RefMod = 16
    MaxId = 2
    MaxTime = 2
    MaxLeak = 0
    NULL = NULL
SYMMETRY Symmetry
INVARIANTS
    TypeOK
    WatchCoherence
