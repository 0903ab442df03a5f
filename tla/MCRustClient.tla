---------------------------- MODULE MCRustClient ----------------------------
(***************************************************************************)
(* Small instances of RustClient for TLC.                                  *)
(***************************************************************************)
EXTENDS RustClient, TLC

CONSTANTS c1, c2, c3, p, q, n

\* q is another way to write p, n a path with a NUL byte.
CanonOf == [s \in Spellings |-> IF s = q THEN p ELSE s]

\* The second client writes the path the other way and also opens one that fails.
OpenedBy == [c \in Clients |-> IF c = c2 THEN {<<q, FALSE>>, <<n, FALSE>>} ELSE {<<p, TRUE>>}]

\* Each group of commands is sent by a client, and results of one kind by two.
SentBy == [c \in Clients |->
  IF c = c1 THEN {"put", "list_by_prefix", "last_error"}
  ELSE IF c = c2 THEN {"query", "push", "create_backup"}
  ELSE {"get"}]

WrappedBy == [c \in Clients |-> IF c = c1 THEN "crate" ELSE IF c = c2 THEN "uniffi" ELSE "node"]

\* Every client opens p, written canonically.
OpenedCanonically == [c \in Clients |-> {<<p, FALSE>>}]
=============================================================================
