SPECIFICATION FairSpec
CONSTANTS
    o1 = o1
    o2 = o2
    Objects = {o1, o2}
    Sources = {1, 2}
    Setups <- HouseSetup
PROPERTIES UpdatesReachAiven
CHECK_DEADLOCK FALSE
