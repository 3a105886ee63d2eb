---------------------------- MODULE MCActRegister -----------------------------
(***************************************************************************)
(* Two conversations, two tools, two payloads of one of them.              *)
(***************************************************************************)
EXTENDS ActRegister

CONSTANTS s1, s2, matter, order, reorder

MCTool == [p \in Payloads |-> IF p = matter THEN "create_matter" ELSE "place_records_order"]
===============================================================================
