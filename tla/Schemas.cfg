SPECIFICATION FairSpec
CONSTANTS
    a = a
    b = b
    Names = {a, b}
    NoOne = NoOne
    Levels = {"NONE", "BACKWARD", "FULL"}
    Global = "BACKWARD"
    Rejects <- Strict
    Setups <- AllSetups
    MaxVersions = 5
INVARIANTS TypeOK ReadyIsRegistered NoRunaway
PROPERTIES Settles
CHECK_DEADLOCK FALSE
