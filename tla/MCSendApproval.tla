---------------------------- MODULE MCSendApproval ----------------------------
(***************************************************************************)
(* Two people who share a group and have a chat of their own, a routine    *)
(* into the group and a turn without a chat; two wordings of one send.     *)
(***************************************************************************)
EXTENDS SendApproval, TLC

CONSTANTS ann, bob, group, dm, first, second, t1, t2

MCTurns == {[user |-> ann, chat |-> group], [user |-> ann, chat |-> dm],
            [user |-> bob, chat |-> group], [user |-> NoOne, chat |-> group], Nobody}

MCKey == [m \in {first, second} |-> "send"]

\* The wordings and the threads can be exchanged.
MCSymmetry == Permutations({first, second}) \cup Permutations({t1, t2})
===============================================================================
