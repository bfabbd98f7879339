SPECIFICATION Spec
CONSTANTS
    Runners = {r1, r2}
    Wired <- MC_Wired
    MaxAttempts = 2
    MaxCrashes = 0
PROPERTY
    ManifestFinal
\* the attempts are used up, or the run is complete
CHECK_DEADLOCK FALSE
