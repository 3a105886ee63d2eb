----------------------------- MODULE MCDurableJob ------------------------------
(***************************************************************************)
(* Two gateway processes, one side effect, a budget of two cents.          *)
(***************************************************************************)
EXTENDS DurableJob

CONSTANTS w1, w2, k1
===============================================================================
