SPECIFICATION Spec
CONSTANTS
    Lanes = {"Q"}
    Arrivals <- SomeArrivals
    Usages <- SomeUsages
    Outputs = {"answer", "F-records"}
    Coverings = {1}
    MaxAttempts = 1
    MaxFaults = 0
INVARIANT ContributionRecorded
CHECK_DEADLOCK FALSE
