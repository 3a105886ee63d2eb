\* Two meters, a pause, a clear and a midnight in any order, one failing read or write.
SPECIFICATION FairSpec
CONSTANTS
    MaxFailures = 2
    MaxRefusals = 1
    Cap <- MCCap
    MaxCents = 2
    MaxFaults = 1
INVARIANTS
    CauseMatchesLevel
PROPERTIES
    OnlyStaleLowers
    StopHalts
