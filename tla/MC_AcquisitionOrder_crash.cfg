SPECIFICATION FairSpec
CONSTANTS
    NCells <- One_NCells
    EventOf <- One_EventOf
    UnitOf <- One_UnitOf
    Units <- One_Units
    AcqCell <- One_AcqCell
    Verdicts = {"ship", "fix"}
    MaxCrashes = 2
INVARIANTS
    TypeOK
    NothingOutOfOrder
    FailureAuthorizesNothing
    ConsumedUnderOwnLock
PROPERTIES
    WrittenOnce
    LedgerImplemented
    OrderCompletes
\* the order may be finished, or stuck behind a torn file
CHECK_DEADLOCK FALSE
