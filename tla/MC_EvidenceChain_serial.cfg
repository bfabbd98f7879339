SPECIFICATION Spec
CONSTANTS
    Runners = {r1}
    Wired <- MC_WiredT1
    MaxAttempts = 4
    MaxCrashes = 3
INVARIANTS
    OneAuthor
    ReportedComplete
PROPERTIES
    ManifestFinal
    RunImplemented
\* the attempts are used up, or the run is complete
CHECK_DEADLOCK FALSE
