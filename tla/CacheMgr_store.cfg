\* References, table, lists and versions: two connections, two contents, references
\* lost, expiry, no watch.
SPECIFICATION Spec
CONSTANTS
    k1 = k1
    k2 = k2
    g1 = g1
    g2 = g2
    Keys = {k1}
    Groups = {g1, g2}
    GroupOf <- MCGroupOf
    Items = {i1, i2, i3}
    Handles = {h1, h2}
    Values = {v1, v2}
    Expirations = {0, 1}
    RefMod = 16
    MaxId = 3
    MaxWatch = 0
    MaxTime = 1
    MaxLeak = 1
    NULL = NULL
INVARIANTS
    RefCountExact
    TableAndListsAgree
    NoUseAfterFree
    OneItemPerKey
PROPERTY IdNamesContent
SYMMETRY Symmetry
\* When closed uploads have lost every block nothing is left to do.
CHECK_DEADLOCK FALSE
