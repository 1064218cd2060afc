SPECIFICATION FairSpec
CONSTANTS
    Specs = {s1, s2}
    NoSpec = NoSpec
    Kinds <- AllKinds
    MaxEdits = 3
    MaxFaults = 1
    MaxStale = 1
INVARIANTS TypeOK LeavesNothing NoDuplicates SavedIsRight
PROPERTIES Settles
CHECK_DEADLOCK FALSE
