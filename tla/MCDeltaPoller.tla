---------------------------- MODULE MCDeltaPoller -----------------------------
(***************************************************************************)
(* Three mails: the seat sent the first itself, the adapter rejects the    *)
(* second, and the third shows late, with the stamp of the first.          *)
(***************************************************************************)
EXTENDS DeltaPoller

MCReceived == << 1, 2, 1 >>
===============================================================================
