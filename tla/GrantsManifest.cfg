SPECIFICATION Spec
CONSTANTS
    g1 = g1
    g2 = g2
    p = p
    q = q
    NoOne = NoOne
    Objects = {g1}
    Privileges = {p, q}
    Lists <- TwoLists
    MaxEdits = 2
    MaxFaults = 0
INVARIANTS ManifestIsComplete
CHECK_DEADLOCK FALSE
