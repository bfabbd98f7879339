SPECIFICATION Spec
CONSTANTS
    Holders = {h1}
    Arms = {"A", "B"}
    Settings = {"v1", "v2"}
    RunIds = {"n1", "n2"}
    MaxRuns = 3
    MaxCrashes = 1
INVARIANTS
    TypeOK
    OneReplacement
    GateOpensLawfully
PROPERTY
    OriginalsKept
\* a crash while saving leaves a ledger nobody can open
CHECK_DEADLOCK FALSE
