SPECIFICATION FairSpec
CONSTANTS
    g1 = g1
    g2 = g2
    p = p
    q = q
    NoOne = NoOne
    Objects = {g1, g2}
    Privileges = {p, q}
    Lists <- TwoLists
    MaxEdits = 3
    MaxFaults = 1
INVARIANTS TypeOK ReadyIsGranted GrantsAreRecorded
PROPERTIES Settles
CHECK_DEADLOCK FALSE
