SPECIFICATION Spec
CONSTANTS
    Harness = {"h1", "h2"}
    ClosedHarness = "h0"
    Governed = {"g1", "g2"}
    StatusArgs = {"open-round2", "FINAL"}
    MaxAmendments = 2
    MaxCrashes = 2
INVARIANTS
    TypeOK
    RunsKeepTheirLock
    HalfTransitionAuthorizesNothing
    LineageSound
PROPERTY
    ClosedEpochKept
\* a torn record or lock is never replaced by any tool
CHECK_DEADLOCK FALSE
