SPECIFICATION FairSpec
CONSTANTS
    NCells <- One_NCells
    EventOf <- One_EventOf
    UnitOf <- One_UnitOf
    Units <- One_Units
    AcqCell <- One_AcqCell
    Verdicts = {"ship", "fix"}
    MaxCrashes = 0
PROPERTY
    AcquisitionSettles
\* the order ends, or the walk may be stuck
CHECK_DEADLOCK FALSE
