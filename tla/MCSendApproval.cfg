\* Two calls side by side, three sends withheld.
SPECIFICATION Spec
CONSTANTS
    ann = ann
    bob = bob
    group = group
    dm = dm
    first = first
    second = second
    t1 = t1
    t2 = t2
    NoOne = NoOne
    Users = {ann, bob}
    Chats = {group, dm}
    Turns <- MCTurns
    Payloads = {first, second}
    Key <- MCKey
    Threads = {t1, t2}
    MaxCaptures = 3
SYMMETRY MCSymmetry
INVARIANTS
    ReleasedByRequester
    OneMeaning
    InDoubtNeverResent
