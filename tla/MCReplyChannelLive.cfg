\* Held replies settle: two people share a seat cap of one, one row a pass.
SPECIFICATION FairSpec
CONSTANTS
    m1 = m1
    m2 = m2
    m3 = m3
    ann = ann
    bob = bob
    Messages = {m1, m3}
    Recipients = {ann, bob}
    To <- MCTo
    Internal = {}
    SendPolicy <- MCSeatPolicy
    Horizon = 1
    HeldTTL = 1
    SweepLimit = 1
    StoreFaults = FALSE
    MaxCalls = 2
    MaxBoots = 0
PROPERTIES
    HeldSettles
