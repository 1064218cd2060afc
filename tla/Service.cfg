SPECIFICATION FairSpec
CONSTANTS
    plain = plain
    off = off
    keeps = keeps
    cleans = cleans
    Specs = {plain, off, keeps, cleans}
    NoSpec = NoSpec
    ProtectedSpecs = {off}
    OffSpecs = {off}
    MigratingSpecs = {keeps, cleans}
    CleaningSpecs = {cleans}
    Setups <- AllSetups
INVARIANTS TypeOK ReadyIsApplied LeaksOnlyUnsaved
PROPERTIES KeptWhileAnnotated SourceIsHandedOver Converges
CHECK_DEADLOCK FALSE
