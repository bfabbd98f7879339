SPECIFICATION Spec
CONSTANTS
    Holders = {h1}
    Arms = {"A", "B"}
    Settings = {"v1", "v2"}
    RunIds = {"n1", "n2"}
    MaxRuns = 2
    MaxCrashes = 0
INVARIANT
    BothArmsReplaced
