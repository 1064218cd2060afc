SPECIFICATION FairSpec
CONSTANTS
    o1 = o1
    o2 = o2
    Objects = {o1, o2}
    Sources = {1, 2}
    Setups <- AllSetups
INVARIANTS TypeOK RotationIsNotForgotten LastOneDeletes
PROPERTIES Settles
CHECK_DEADLOCK FALSE
