----------------------------- MODULE MCNrtIndex -----------------------------
(***************************************************************************)
(* A small instance of NrtIndex for TLC.                                   *)
(***************************************************************************)
EXTENDS NrtIndex

CONSTANTS d1, v1, v2

\* Every document is there at the first start.
FirstValue == [d \in Docs |-> v1]
=============================================================================
