---------------------------- MODULE MCReplyLimiter ----------------------------
(***************************************************************************)
(* Three blocks with the same windows and different caps and exemptions,   *)
(* and a roster with one internal person.                                  *)
(***************************************************************************)
EXTENDS ReplyLimiter

CONSTANTS relay, sweeper, ann, bob

MCDefault == [internalExempt |-> FALSE,
              perSenderMax |-> 2, perSenderWindow |-> 1,
              globalMax    |-> 3, globalWindow    |-> 2,
              backstopMax  |-> 0, backstopWindow  |-> 2]

\* Internal people are exempt, and a backstop bounds everyone.
MCOpen == [MCDefault EXCEPT !.internalExempt = TRUE, !.globalMax = 2, !.backstopMax = 3]

\* Stricter than the platform default.
MCTight == [MCDefault EXCEPT !.perSenderMax = 1, !.globalMax = 2]

MCPolicies == {MCDefault, MCOpen, MCTight}
===============================================================================
