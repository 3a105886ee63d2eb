------------------------------ MODULE MCEndOfTurn ------------------------------
(***************************************************************************)
(* One session of several turns, an email first and wakes after it.        *)
(***************************************************************************)
EXTENDS EndOfTurn

CONSTANT s1
===============================================================================
