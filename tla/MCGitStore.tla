----------------------------- MODULE MCGitStore -----------------------------
(***************************************************************************)
(* Small instances of GitStore for TLC: two threads on the node that       *)
(* seeded the remote and, in runs with a clone, one on the clone.          *)
(***************************************************************************)
EXTENDS GitStore, TLC

CONSTANTS n1, n2, t1, t2, t3

NodeOfThreads == [t \in Threads |-> IF t = t3 THEN n2 ELSE n1]

\* The two threads of one node are interchangeable.
Symmetry == Permutations({t1, t2})
=============================================================================
