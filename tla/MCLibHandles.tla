---------------------------- MODULE MCLibHandles ----------------------------
(***************************************************************************)
(* Small instances of LibHandles for TLC.                                  *)
(***************************************************************************)
EXTENDS LibHandles, TLC

CONSTANTS t1, t2, t3, d1, d2, d3

\* Each thread writes a document of its own.
OwnDocs == [t \in Threads |-> IF t = t1 THEN {d1} ELSE IF t = t2 THEN {d2} ELSE {d3}]
=============================================================================
