SPECIFICATION Spec
CONSTANTS
    Runners = {r1, r2}
    Wired <- MC_Wired
    MaxAttempts = 3
    MaxCrashes = 1
INVARIANTS
    TypeOK
    GradedByOne
    TamperEvident
\* the attempts are used up, or the run is complete
CHECK_DEADLOCK FALSE
