SPECIFICATION Spec
CONSTANTS
    Lanes = {"P", "Q"}
    Arrivals <- SomeArrivals
    Usages <- SomeUsages
    Outputs = {"answer", "F-records"}
    Coverings = {1}
    MaxAttempts = 2
    MaxFaults = 1
INVARIANTS
    TypeOK
    ProvenMeansCaused
    PaidCallsTraced
    CompletedCellOwnsItsEvidence
    AdmittedIffCoherent
    
    LedgerAcceptedUnlessUnfinished
CHECK_DEADLOCK FALSE
