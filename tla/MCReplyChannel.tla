---------------------------- MODULE MCReplyChannel ----------------------------
(***************************************************************************)
(* Emails of one person or of two, under caps so small that the            *)
(* second reply inside a window is rate-held.                              *)
(***************************************************************************)
EXTENDS ReplyChannel

CONSTANTS m1, m2, m3, ann, bob

MCTo == [m \in Messages |-> IF m = m3 THEN bob ELSE ann]

\* One reply per person and two per seat inside one clock step.
MCPolicy == [internalExempt |-> FALSE,
             perSenderMax |-> 1, perSenderWindow |-> 1,
             globalMax    |-> 2, globalWindow    |-> 1,
             backstopMax  |-> 0, backstopWindow  |-> 1]

\* One reply per seat, whoever it is to.
MCSeatPolicy == [MCPolicy EXCEPT !.globalMax = 1]
===============================================================================
