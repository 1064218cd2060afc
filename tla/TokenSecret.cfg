SPECIFICATION FairSpec
CONSTANTS
    a = a
    b = b
    Objects = {a, b}
    NKinds = 2
    KindOf <- KindsOfObjects
    Setups <- AllSetups
INVARIANTS TypeOK KeepsWhatIsOwed
PROPERTIES Settles
CHECK_DEADLOCK FALSE
