\* The end-of-turn delivery: hooks skipped or repeated, transport answers lost.
SPECIFICATION FairSpec
CONSTANTS
    s1 = s1
    Sessions = {s1}
    ConfigFaults = TRUE
    HookFaults = TRUE
    MaxTurns = 3
INVARIANTS
    SeatLineOnce
    TextAloneAnswers
    LoudOrAnswered
PROPERTIES
    TurnsSettle
CHECK_DEADLOCK FALSE
