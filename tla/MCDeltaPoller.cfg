\* Crashes, lost answers, failed reads and writes, expired cursors, mail that
\* is rejected, the seat's own, and late.
SPECIFICATION FairSpec
CONSTANTS
    N = 3
    Received <- MCReceived
    Own = {1}
    Bad = {2}
    MaxPoison = 1
    MaxSeen = 2
    MaxResets = 1
    MaxFaults = 2
INVARIANTS
    NoneLost
    TurnsBounded
    HistoryStaysHistory
PROPERTIES
    HeldNeverSkipped
    MailSettles
