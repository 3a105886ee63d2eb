\* An act runs that nobody was read.
SPECIFICATION Spec
CONSTANTS
    s1 = s1
    s2 = s2
    matter = matter
    order = order
    reorder = reorder
    Sessions = {s1, s2}
    Payloads = {matter, order, reorder}
    Tool <- MCTool
    MaxActs = 2
    MaxAnswers = 2
INVARIANT
    ReadBeforeItRuns
