\* The caps under a changing policy, two callers, one internal person.
SPECIFICATION LimiterSpec
CONSTANTS
    relay = relay
    sweeper = sweeper
    ann = ann
    bob = bob
    Recipients = {ann, bob}
    Horizon = 2
    Callers = {relay, sweeper}
    Internal = {bob}
    Policies <- MCPolicies
    Default <- MCDefault
    Malformed = Malformed
    MaxSent = 4
INVARIANTS
    CapsHold
    RefusalJustified
