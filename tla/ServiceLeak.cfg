SPECIFICATION Spec
CONSTANTS
    plain = plain
    off = off
    keeps = keeps
    cleans = cleans
    Specs = {plain, off, keeps, cleans}
    NoSpec = NoSpec
    ProtectedSpecs = {off}
    OffSpecs = {off}
    MigratingSpecs = {keeps, cleans}
    CleaningSpecs = {cleans}
    Setups <- PlainSetups
INVARIANTS NoLeak
CHECK_DEADLOCK FALSE
