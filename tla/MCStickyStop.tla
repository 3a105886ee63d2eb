----------------------------- MODULE MCStickyStop -----------------------------
(***************************************************************************)
(* The two breakers were built over different configs: the gateway's stops *)
(* at one cent, the worker's at two.                                       *)
(***************************************************************************)
EXTENDS StickyStop

MCCap == [h \in Handles |-> IF h = "gateway" THEN 1 ELSE 2]
===============================================================================
