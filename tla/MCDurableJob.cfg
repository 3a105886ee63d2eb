\* A job through two workers: restarts, lost replies, a lease outlived.
SPECIFICATION FairSpec
CONSTANTS
    w1 = w1
    w2 = w2
    k1 = k1
    Workers = {w1, w2}
    StepKeys = {k1}
    Budget = 2
    MaxAttempts = 2
    MaxCost = 2
    MaxFaults = 2
INVARIANTS
    PaidBounded
    DoneMeansDelivered
    QuietRunDeliversOnce
    CancelStopsWork
    StepFiredOnce
PROPERTIES
    SpentNeverFalls
    TerminalIsFinal
    JobSettles
CHECK_DEADLOCK FALSE
