SPECIFICATION FairSpec
CONSTANTS
    s1 = s1
    s2 = s2
    Specs = {s1, s2}
    NoSpec = NoSpec
    Setups <- AllSetups
INVARIANTS TypeOK NoLeak ReadyIsApplied HoldInv ReadyInv ProtectInv
PROPERTIES ProtectedIsKept HoldsWhatItMakes Converges
CHECK_DEADLOCK FALSE
