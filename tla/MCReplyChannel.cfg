\* Safety of the reply channel with store faults and one restart.
SPECIFICATION Spec
CONSTANTS
    m1 = m1
    m2 = m2
    m3 = m3
    ann = ann
    bob = bob
    Messages = {m1, m2}
    Recipients = {ann, bob}
    To <- MCTo
    Internal = {}
    SendPolicy <- MCPolicy
    Horizon = 1
    HeldTTL = 1
    SweepLimit = 2
    StoreFaults = TRUE
    MaxCalls = 2
    MaxBoots = 1
INVARIANTS
    AnsweredAtMostOnce
PROPERTIES
    KeepsPromise
    ReleasedInOrder
