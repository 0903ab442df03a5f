--------------------------- MODULE MCDurableStore ---------------------------
(***************************************************************************)
(* Small instances of DurableStore for TLC.                                *)
(***************************************************************************)
EXTENDS DurableStore, TLC

CONSTANTS t1, t2, v1, v2

\* Threads and contents are only compared: permuting them changes nothing.
Symmetry == Permutations(Threads) \cup Permutations(Values)
=============================================================================
