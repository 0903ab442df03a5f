---------------------------- MODULE AtomicStore ----------------------------
(***************************************************************************)
(* What the durable document store promises its callers, with no log, no   *)
(* lock and no recovery procedure in sight: a map from branch and document *)
(* to content, changed by calls that take effect at one instant between    *)
(* their start and their answer.                                           *)
(*                                                                         *)
(*   - a call answered with success has taken effect exactly once;         *)
(*   - a call answered with an error or a conflict has not taken effect;   *)
(*   - a call that was open when the process died takes effect at most     *)
(*     once more, and only before the store answers calls again.           *)
(*                                                                         *)
(* DurableStore implements this specification (see Implements there).      *)
(***************************************************************************)
CONSTANTS
  Threads,   \* callers
  Branches,  \* git branches
  Docs,      \* document ids
  Values,    \* document contents
  Absent     \* "no such document"

VARIABLES
  store,     \* store[b][d]: the content a read of d on b returns
  call,      \* call[t]: what thread t is waiting for
  orphans,   \* the writes a crash left undecided
  serving    \* does the store answer calls

vars == <<store, call, orphans, serving>>

Contents == Values \cup {Absent}

\* A save writes a value, a delete writes Absent.
Writes == [branch : Branches, doc : Docs, val : Contents]

NoCall == [status |-> "idle"]
Calls  == {NoCall} \cup [status : {"open", "done"}, write : Writes]

After(w) == [store EXCEPT ![w.branch][w.doc] = w.val]

TypeOK ==
  /\ store \in [Branches -> [Docs -> Contents]]
  /\ call \in [Threads -> Calls]
  /\ orphans \subseteq Writes
  /\ serving \in BOOLEAN

Init ==
  /\ store = [b \in Branches |-> [d \in Docs |-> Absent]]
  /\ call = [t \in Threads |-> NoCall]
  /\ orphans = {}
  /\ serving = TRUE

Begin(t, w) ==
  /\ serving
  /\ call[t] = NoCall
  /\ call' = [call EXCEPT ![t] = [status |-> "open", write |-> w]]
  /\ UNCHANGED <<store, orphans, serving>>

\* The instant at which an open call takes effect.
Commit(t) ==
  /\ serving
  /\ call[t].status = "open"
  /\ store' = After(call[t].write)
  /\ call' = [call EXCEPT ![t].status = "done"]
  /\ UNCHANGED <<orphans, serving>>

\* Success is answered to a call that took effect, an error to one that did not.
Succeed(t) ==
  /\ serving
  /\ call[t].status = "done"
  /\ call' = [call EXCEPT ![t] = NoCall]
  /\ UNCHANGED <<store, orphans, serving>>

Fail(t) ==
  /\ serving
  /\ call[t].status = "open"
  /\ call' = [call EXCEPT ![t] = NoCall]
  /\ UNCHANGED <<store, orphans, serving>>

OpenWrites == {w \in Writes : \E t \in Threads : call[t].status = "open" /\ call[t].write = w}

\* The process dies: nobody is answered, and writes not yet made may survive as orphans.
Crash ==
  /\ serving' = FALSE
  /\ call' = [t \in Threads |-> NoCall]
  /\ orphans' \in SUBSET (orphans \cup OpenWrites)
  /\ UNCHANGED store

\* Before it serves again the store settles each orphan: it is made, or it is dropped.
MakeOrphan(w) ==
  /\ ~serving
  /\ w \in orphans
  /\ store' = After(w)
  /\ orphans' = orphans \ {w}
  /\ UNCHANGED <<call, serving>>

DropOrphan(w) ==
  /\ ~serving
  /\ w \in orphans
  /\ orphans' = orphans \ {w}
  /\ UNCHANGED <<store, call, serving>>

Resume ==
  /\ ~serving
  /\ orphans = {}
  /\ serving' = TRUE
  /\ UNCHANGED <<store, call, orphans>>

Next ==
  \/ \E t \in Threads :
       \/ \E w \in Writes : Begin(t, w)
       \/ Commit(t)
       \/ Succeed(t)
       \/ Fail(t)
  \/ Crash
  \/ \E w \in Writes : MakeOrphan(w) \/ DropOrphan(w)
  \/ Resume

Spec == Init /\ [][Next]_vars
=============================================================================
