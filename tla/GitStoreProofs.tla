--------------------------- MODULE GitStoreProofs ---------------------------
(***************************************************************************)
(* Proofs about GitStore for every set of nodes, threads and documents,    *)
(* every choice of operations, and every bound.                            *)
(***************************************************************************)
EXTENDS GitStore, TLAPS

\* A request at work names an operation and, if it is a write, a document.
RequestOK ==
  \A t \in Threads : pc[t] # "idle" =>
    /\ req[t] \in Requests
    /\ req[t].op \in Writes => req[t].doc \in Docs

\* Only writes and the creation of a storage go through commit-virtual.
Committing == {"check", "commit", "note", "annotate", "move"}
CommitterOK ==
  \A t \in Threads : pc[t] \in Committing => req[t].op \in Writes \cup {"create"}

\* The tracking ref is there once the branch has been fetched.
FetchedOK ==
  \A t \in Threads : pc[t] \in {"fetch-notes", "compare"} => tracking[Node(t)] \in Commits

\* A with-batch ends only for a thread that is inside its body.
Leaving == {"end", "switch", "clear"}
LeavingOK == \A t \in Threads : pc[t] \in Leaving => inBatch[t] > 0

WorkInv == TypeOK /\ RequestOK /\ CommitterOK /\ FetchedOK
TypeInv == TypeOK /\ RequestOK /\ CommitterOK /\ FetchedOK /\ LeavingOK

LEMMA NodeOfThread == ASSUME NEW t \in Threads PROVE Node(t) \in Nodes
  BY GitConstants DEF Node

LEMMA FreshType == Fresh \in Locals
<1>1. 1 \in Commits
  BY GitConstants DEF Commits
<1>2. Fresh.src \in Refs
  BY <1>1 DEF Fresh, Refs
<1> QED
  BY <1>1, <1>2 DEF Fresh, Locals

\* The local variables of one thread, when it sets some of them.
LEMMA SetBaseNew ==
  ASSUME NEW l \in Locals, NEW b \in Commits, NEW c \in Commits
  PROVE  [l EXCEPT !.base = b, !.new = c] \in Locals
  BY DEF Locals

LEMMA SetSeen ==
  ASSUME NEW l \in Locals, NEW seen \in SUBSET Commits
  PROVE  [l EXCEPT !.seen = seen] \in Locals
  BY DEF Locals

LEMMA SetSrc ==
  ASSUME NEW l \in Locals, NEW src \in Refs
  PROVE  [l EXCEPT !.src = src] \in Locals
  BY DEF Locals

LEMMA SetDue ==
  ASSUME NEW l \in Locals, NEW due \in BOOLEAN
  PROVE  [l EXCEPT !.due = due] \in Locals
  BY DEF Locals

LEMMA SetLocal ==
  ASSUME local \in [Threads -> Locals], NEW t \in Threads, NEW l \in Locals
  PROVE  [local EXCEPT ![t] = l] \in [Threads -> Locals]
  OBVIOUS

\* What every return does to the variables of its thread.
LEMMA ReturnTypes ==
  ASSUME TypeOK, NEW t \in Threads, Return(t)
  PROVE  /\ pc' \in [Threads -> PCs]
         /\ req' \in [Threads -> Requests \cup {NoRequest}]
         /\ local' \in [Threads -> Locals]
  BY FreshType DEF TypeOK, Return, Goto, PCs

LEMMA FinishTypes ==
  ASSUME TypeOK, NEW t \in Threads, Finish(t)
  PROVE  acked' \in [Nodes -> SUBSET Commits] /\ refused' \subseteq Commits
<1>1. local[t].new \in Commits
  BY DEF TypeOK, Locals
<1> QED
  BY <1>1, NodeOfThread DEF TypeOK, Finish

LEMMA ThrowTypes ==
  ASSUME TypeOK, NEW t \in Threads, Throw(t)
  PROVE  acked' \in [Nodes -> SUBSET Commits] /\ refused' \subseteq Commits
<1>1. local[t].new \in Commits
  BY DEF TypeOK, Locals
<1> QED
  BY <1>1 DEF TypeOK, Throw

LEMMA FaultTypes ==
  ASSUME TypeOK, Fault
  PROVE  /\ calls' \in 0 .. MaxCalls /\ faults' \in 0 .. MaxFaults /\ crashes' \in 0 .. MaxCrashes
         /\ alone' \in BOOLEAN
<1>1. faults \in 0 .. MaxFaults /\ faults < MaxFaults /\ faults' = faults + 1
  BY DEF TypeOK, Fault
<1>2. faults' \in 0 .. MaxFaults
  BY <1>1, GitConstants
<1>3. alone' \in BOOLEAN
  BY DEF Fault
<1> QED
  BY <1>2, <1>3 DEF TypeOK, Fault

\* What a thread that returns, or one that moves on alone, does to the others.
LEMMA ReturnOthers ==
  ASSUME TypeInv, NEW t \in Threads, Return(t), UNCHANGED tracking
  PROVE  RequestOK' /\ CommitterOK' /\ FetchedOK'
<1>1. \A u \in Threads \ {t} : pc'[u] = pc[u] /\ req'[u] = req[u]
  BY DEF TypeInv, TypeOK, Return, Goto
<1>2. pc'[t] = "idle"
  BY DEF TypeInv, TypeOK, Return, Goto
<1>3. RequestOK'
  BY <1>1, <1>2 DEF TypeInv, RequestOK
<1>4. CommitterOK'
  BY <1>1, <1>2 DEF TypeInv, CommitterOK, Committing
<1>5. FetchedOK'
  BY <1>1, <1>2 DEF TypeInv, FetchedOK, Node
<1> QED
  BY <1>3, <1>4, <1>5

LEMMA GotoOthers ==
  ASSUME TypeInv, NEW t \in Threads, NEW step, Goto(t, step), UNCHANGED <<req, tracking>>,
         pc[t] # "idle",
         step \in Committing => req[t].op \in Writes \cup {"create"},
         step \in {"fetch-notes", "compare"} => tracking[Node(t)] \in Commits
  PROVE  RequestOK' /\ CommitterOK' /\ FetchedOK'
<1>1. \A u \in Threads \ {t} : pc'[u] = pc[u] /\ req'[u] = req[u]
  BY DEF TypeInv, TypeOK, Goto
<1>2. pc'[t] = step /\ req'[t] = req[t]
  BY DEF TypeInv, TypeOK, Goto
<1>3. RequestOK'
  BY <1>1, <1>2 DEF TypeInv, RequestOK
<1>4. CommitterOK'
  BY <1>1, <1>2 DEF TypeInv, CommitterOK
<1>5. FetchedOK'
  BY <1>1, <1>2 DEF TypeInv, FetchedOK, Node
<1> QED
  BY <1>3, <1>4, <1>5

LEMMA InitTypes == Init => TypeInv
<1> SUFFICES ASSUME Init PROVE TypeInv
  OBVIOUS
<1>1. 1 \in Commits /\ 0 \in 0 .. MaxCalls /\ 0 \in 0 .. MaxFaults /\ 0 \in 0 .. MaxCrashes
  BY GitConstants DEF Commits
<1>2. TypeOK
  BY <1>1, FreshType, GitConstants DEF Init, TypeOK, Refs, PCs
<1> QED
  BY <1>2 DEF Init, TypeInv, RequestOK, CommitterOK, FetchedOK, Committing, LeavingOK, Leaving

\* A call starts: the entry of its operation is reached with its request.
LEMMA StartTypes ==
  ASSUME TypeInv, NEW t \in Threads, NEW r \in Requests, Start(t, r),
         r.op \in Writes => r.doc \in Docs
  PROVE  WorkInv'
<1>1. /\ Entry[r.op] \in PCs \ {"fetch-notes", "compare", "note", "annotate", "move", "idle"}
      /\ Entry[r.op] \in {"check", "commit"} => r.op \in Writes \cup {"create"}
  BY DEF Entry, PCs, Requests, AllOps, Writes
<1>2. pc' = [pc EXCEPT ![t] = Entry[r.op]] /\ req' = [req EXCEPT ![t] = r]
  BY DEF Start, Goto
<1>3. TypeOK'
  <2>1. pc' \in [Threads -> PCs] /\ req' \in [Threads -> Requests \cup {NoRequest}]
    BY <1>1, <1>2 DEF TypeInv, TypeOK
  <2>2. calls' \in 0 .. MaxCalls
    BY GitConstants DEF TypeInv, TypeOK, Start
  <2>3. alone' \in BOOLEAN
    BY DEF Start
  <2> QED
    BY <2>1, <2>2, <2>3
    DEF TypeInv, TypeOK, Start, repoVars, objectVars, batchVars
<1>4. \A u \in Threads \ {t} : pc'[u] = pc[u] /\ req'[u] = req[u]
  BY <1>2 DEF TypeInv, TypeOK
<1>5. pc'[t] = Entry[r.op] /\ req'[t] = r
  BY <1>2 DEF TypeInv, TypeOK
<1>6. RequestOK'
  BY <1>4, <1>5 DEF TypeInv, RequestOK
<1>7. CommitterOK'
  BY <1>1, <1>4, <1>5 DEF TypeInv, CommitterOK, Committing
<1>8. FetchedOK'
  BY <1>1, <1>4, <1>5 DEF TypeInv, FetchedOK, Node, Start, repoVars
<1> QED
  BY <1>3, <1>6, <1>7, <1>8 DEF WorkInv

LEMMA CallStarts ==
  ASSUME NEW t \in Threads, Calls(t)
  PROVE  \E r \in Requests : Start(t, r) /\ (r.op \in Writes => r.doc \in Docs)
<1>1. ASSUME NEW op \in Writes, NEW d \in Docs, Start(t, [op |-> op, doc |-> d])
      PROVE  \E r \in Requests : Start(t, r) /\ (r.op \in Writes => r.doc \in Docs)
  <2>1. [op |-> op, doc |-> d] \in Requests
    BY DEF Requests, AllOps, Writes
  <2> QED
    BY <1>1, <2>1
<1>2. ASSUME NEW op \in AllOps \ Writes, Start(t, [op |-> op, doc |-> NoDoc])
      PROVE  \E r \in Requests : Start(t, r) /\ (r.op \in Writes => r.doc \in Docs)
  <2>1. [op |-> op, doc |-> NoDoc] \in Requests
    BY DEF Requests
  <2> QED
    BY <1>2, <2>1
<1>3. {"push", "pull", "fetch", "batch", "end", "throw", "create", "open"} \subseteq AllOps \ Writes
  BY DEF AllOps, Writes
<1>4. CASE CallDocument(t)
  BY <1>1, <1>4 DEF CallDocument
<1>5. CASE CallRemote(t)
  BY <1>2, <1>3, <1>5 DEF CallRemote
<1>6. CASE CallBatch(t)
  BY <1>2, <1>3, <1>6 DEF CallBatch
<1>7. CASE LeaveBatch(t)
  BY <1>2, <1>3, <1>7 DEF LeaveBatch
<1>8. CASE CallOpen(t)
  BY <1>2, <1>3, <1>8 DEF CallOpen
<1> QED
  BY <1>4, <1>5, <1>6, <1>7, <1>8 DEF Calls

LEMMA CallTypes == ASSUME TypeInv, NEW t \in Threads, Calls(t) PROVE WorkInv'
  BY CallStarts, StartTypes

LEMMA WrittenType ==
  ASSUME NEW base \in SUBSET Docs, NEW r, r.op \in Writes => r.doc \in Docs,
         r.op \in Writes \cup {"create"}
  PROVE  Written(base, r) \in SUBSET Docs
  BY DEF Written, Writes

LEMMA CommitTypes == ASSUME TypeInv, NEW t \in Threads, Commit(t) PROVE WorkInv'
<1> USE NodeOfThread DEF TypeInv, WorkInv, repoVars, objectVars, batchVars, historyVars, counters
<1>1. CASE Check(t)
  <2>1. CASE Return(t)
    BY <1>1, <2>1, ReturnTypes, ReturnOthers DEF Check, TypeOK
  <2>2. CASE Goto(t, "commit") /\ UNCHANGED <<req, local>>
    <3>1. RequestOK' /\ CommitterOK' /\ FetchedOK'
      BY <1>1, <2>2, GotoOthers DEF Check, CommitterOK, Committing
    <3>2. pc' \in [Threads -> PCs]
      BY <2>2 DEF TypeOK, Goto, PCs
    <3> QED
      BY <1>1, <2>2, <3>1, <3>2 DEF Check, TypeOK
  <2> QED
    BY <1>1, <2>1, <2>2 DEF Check
<1>2. CASE InsertCommit(t)
  <2> DEFINE base == head[Node(t)]
  <2>1. base \in Commits /\ next \in Commits
    BY <1>2 DEF InsertCommit, TypeOK
  <2>2. Written(tree[base], req[t]) \in SUBSET Docs
    BY <1>2, <2>1, WrittenType DEF InsertCommit, TypeOK, RequestOK, CommitterOK, Committing
  <2>3. tree' \in [Commits -> SUBSET Docs]
    BY <1>2, <2>1, <2>2 DEF InsertCommit, TypeOK
  <2>4. past' \in [Commits -> SUBSET Commits]
    BY <1>2, <2>1 DEF InsertCommit, TypeOK
  <2>5. local' \in [Threads -> Locals]
    <3>1. local' = [local EXCEPT ![t] = [local[t] EXCEPT !.base = base, !.new = next]]
      BY <1>2 DEF InsertCommit
    <3>2. [local[t] EXCEPT !.base = base, !.new = next] \in Locals
      BY <2>1, SetBaseNew DEF TypeOK
    <3> QED
      BY <3>1, <3>2, SetLocal DEF TypeOK
  <2>6. next' \in Nat
    BY <1>2 DEF InsertCommit, TypeOK
  <2>7. RequestOK' /\ CommitterOK' /\ FetchedOK'
    BY <1>2, GotoOthers DEF InsertCommit, CommitterOK, Committing
  <2>8. pc' \in [Threads -> PCs]
    BY <1>2 DEF InsertCommit, TypeOK, Goto, PCs
  <2> QED
    BY <1>2, <2>3, <2>4, <2>5, <2>6, <2>7, <2>8 DEF InsertCommit, TypeOK
<1>3. CASE ReadNotes(t)
  <2>1. local' \in [Threads -> Locals]
    <3>1. local' = [local EXCEPT ![t] = [local[t] EXCEPT !.seen = notes[Node(t)]]]
      BY <1>3 DEF ReadNotes
    <3>2. [local[t] EXCEPT !.seen = notes[Node(t)]] \in Locals
      BY SetSeen DEF TypeOK
    <3> QED
      BY <3>1, <3>2, SetLocal DEF TypeOK
  <2>2. RequestOK' /\ CommitterOK' /\ FetchedOK'
    BY <1>3, GotoOthers DEF ReadNotes, CommitterOK, Committing
  <2>3. pc' \in [Threads -> PCs]
    BY <1>3 DEF ReadNotes, TypeOK, Goto, PCs
  <2> QED
    BY <1>3, <2>1, <2>2, <2>3 DEF ReadNotes, TypeOK
<1>4. CASE WriteNotes(t)
  <2>1. notes' \in [Nodes -> SUBSET Commits]
    BY <1>4 DEF WriteNotes, Annotated, TypeOK, Locals
  <2>2. RequestOK' /\ CommitterOK' /\ FetchedOK'
    BY <1>4, GotoOthers DEF WriteNotes, CommitterOK, Committing
  <2>3. pc' \in [Threads -> PCs]
    BY <1>4 DEF WriteNotes, TypeOK, Goto, PCs
  <2> QED
    BY <1>4, <2>1, <2>2, <2>3 DEF WriteNotes, TypeOK
<1>5. CASE CommitFails(t)
  <2>1. Return(t)
    BY <1>5 DEF CommitFails, Throw
  <2> QED
    BY <1>5, <2>1, ReturnTypes, ReturnOthers, ThrowTypes, FaultTypes DEF CommitFails, TypeOK
<1>6. CASE MoveBranch(t)
  <2>1. local[t].new \in Commits
    BY DEF TypeOK, Locals
  <2>2. RequestOK' /\ CommitterOK' /\ FetchedOK'
    BY <1>6, GotoOthers DEF MoveBranch, Committing
  <2>3. pc' \in [Threads -> PCs]
    BY <1>6 DEF MoveBranch, TypeOK, Goto, PCs
  <2> QED
    BY <1>6, <2>1, <2>2, <2>3 DEF MoveBranch, TypeOK
<1>7. CASE MoveRefused(t)
  <2>1. Return(t)
    BY <1>7 DEF MoveRefused, Throw
  <2> QED
    BY <1>7, <2>1, ReturnTypes, ReturnOthers, ThrowTypes DEF MoveRefused, TypeOK
<1> QED
  BY <1>1, <1>2, <1>3, <1>4, <1>5, <1>6, <1>7 DEF Commit

LEMMA RejectedTypes ==
  ASSUME NEW r \in Refs, NEW src \in Refs
  PROVE  [r EXCEPT !.head = src.head] \in Refs /\ [r EXCEPT !.notes = src.notes] \in Refs
  BY DEF Refs

LEMMA PushThrowsTypes ==
  ASSUME TypeInv, NEW t \in Threads, PushThrows(t), UNCHANGED tracking, pc[t] # "idle"
  PROVE  /\ pc' \in [Threads -> PCs]
         /\ req' \in [Threads -> Requests \cup {NoRequest}]
         /\ local' \in [Threads -> Locals]
         /\ acked' \in [Nodes -> SUBSET Commits] /\ refused' \subseteq Commits
         /\ RequestOK' /\ CommitterOK' /\ FetchedOK'
<1>1. CASE Finish(t)
  <2>1. Return(t)
    BY <1>1 DEF Finish
  <2> QED
    BY <1>1, <2>1, ReturnTypes, ReturnOthers, FinishTypes DEF TypeInv
<1>2. CASE Throw(t)
  <2>1. Return(t)
    BY <1>2 DEF Throw
  <2> QED
    BY <1>2, <2>1, ReturnTypes, ReturnOthers, ThrowTypes DEF TypeInv
<1>3. CASE Goto(t, "switch-again") /\ UNCHANGED <<req, local, acked, refused>>
  <2>1. RequestOK' /\ CommitterOK' /\ FetchedOK'
    BY <1>3, GotoOthers DEF Committing
  <2>2. pc' \in [Threads -> PCs]
    BY <1>3 DEF TypeInv, TypeOK, Goto, PCs
  <2> QED
    BY <1>3, <2>1, <2>2 DEF TypeInv, TypeOK
<1> QED
  BY <1>1, <1>2, <1>3 DEF PushThrows

LEMMA PushTypes == ASSUME TypeInv, NEW t \in Threads, Pushing(t) PROVE WorkInv'
<1> USE NodeOfThread DEF TypeInv, WorkInv, repoVars, objectVars, batchVars, historyVars, counters
<1>1. local[t] \in Locals /\ local[t].src \in Refs
  BY DEF TypeOK, Locals
<1>2. CASE Push(t)
  <2>1. pc' \in [Threads -> PCs]
    BY <1>2 DEF Push, TypeOK, Goto, PCs
  <2>2. RequestOK' /\ CommitterOK' /\ FetchedOK'
    BY <1>2, GotoOthers DEF Push, Committing
  <2>3. local' \in [Threads -> Locals]
    <3> DEFINE src == [head |-> head[Node(t)], notes |-> notes[Node(t)]]
    <3>1. src \in Refs
      BY DEF TypeOK, Refs
    <3>2. [local[t] EXCEPT !.src = src] \in Locals
      BY <1>1, <3>1, SetSrc
    <3>3. local' = local \/ local' = [local EXCEPT ![t] = [local[t] EXCEPT !.src = src]]
      BY <1>2 DEF Push
    <3> QED
      BY <3>2, <3>3, SetLocal DEF TypeOK
  <2> QED
    BY <1>2, <2>1, <2>2, <2>3 DEF Push, TypeOK
<1>3. CASE Defer(t)
  <2>1. Return(t)
    BY <1>3 DEF Defer, Finish
  <2> QED
    BY <1>3, <2>1, ReturnTypes, ReturnOthers, FinishTypes DEF Defer, TypeOK
<1>4. CASE Send(t)
  <2>1. Return(t)
    BY <1>4 DEF Send, Finish
  <2> QED
    BY <1>1, <1>4, <2>1, ReturnTypes, ReturnOthers, FinishTypes DEF Send, TypeOK
<1>5. CASE SendRejected(t)
  <2>1. Return(t)
    BY <1>5 DEF SendRejected, Finish
  <2>2. remote' \in Refs
    <3>1. remote' \in {remote, [remote EXCEPT !.head = local[t].src.head],
                       [remote EXCEPT !.notes = local[t].src.notes]}
      BY <1>5 DEF SendRejected
    <3>2. remote \in Refs
      BY DEF TypeOK
    <3> QED
      BY <1>1, <3>1, <3>2, RejectedTypes
  <2> QED
    BY <1>5, <2>1, <2>2, ReturnTypes, ReturnOthers, FinishTypes, FaultTypes
    DEF SendRejected, TypeOK
<1>6. CASE SendFails(t)
  <2>1. remote' \in Refs
    BY <1>1, <1>6, RejectedTypes DEF SendFails, TypeOK
  <2> QED
    BY <1>6, <2>1, PushThrowsTypes, FaultTypes DEF SendFails, TypeOK
<1>7. CASE NothingToSend(t)
  BY <1>7, PushThrowsTypes DEF NothingToSend, TypeOK
<1> QED
  BY <1>2, <1>3, <1>4, <1>5, <1>6, <1>7 DEF Pushing

LEMMA BatchTypes == ASSUME TypeInv, NEW t \in Threads, Batching(t) PROVE WorkInv'
<1> USE NodeOfThread DEF TypeInv, WorkInv, repoVars, objectVars, batchVars, historyVars, counters
<1>1. local[t] \in Locals
  BY DEF TypeOK
<1>2. CASE SwitchOn(t)
  <2>1. RequestOK' /\ CommitterOK' /\ FetchedOK'
    BY <1>2, GotoOthers DEF SwitchOn, Committing
  <2>2. inBatch[t] + 1 \in Nat /\ (nested \/ inBatch[t] > 0) \in BOOLEAN
    BY DEF TypeOK
  <2>3. inBatch' \in [Threads -> Nat] /\ nested' \in BOOLEAN
    BY <1>2, <2>2 DEF SwitchOn, TypeOK
  <2> QED
    BY <1>2, <2>1, <2>3 DEF SwitchOn, TypeOK, Goto, PCs
<1>3. CASE ClearPending(t)
  BY <1>3, ReturnTypes, ReturnOthers DEF ClearPending, TypeOK
<1>4. CASE ReadPending(t)
  <2>1. RequestOK' /\ CommitterOK' /\ FetchedOK'
    BY <1>4, GotoOthers DEF ReadPending, Committing
  <2>2. local' \in [Threads -> Locals]
    <3>1. [local[t] EXCEPT !.due = pending[Node(t)]] \in Locals
      BY <1>1, SetDue DEF TypeOK
    <3>2. local' = [local EXCEPT ![t] = [local[t] EXCEPT !.due = pending[Node(t)]]]
      BY <1>4 DEF ReadPending, HasPending
    <3> QED
      BY <3>1, <3>2, SetLocal DEF TypeOK
  <2>3. pc' \in [Threads -> PCs]
    BY <1>4 DEF ReadPending, TypeOK, Goto, PCs
  <2> QED
    BY <1>4, <2>1, <2>2, <2>3 DEF ReadPending, TypeOK
<1>5. CASE SwitchOff(t)
  <2>1. RequestOK' /\ CommitterOK' /\ FetchedOK'
    <3>1. PICK step \in {"clear", "clear-again"} : Goto(t, step)
      BY <1>5 DEF SwitchOff
    <3> QED
      BY <1>5, <3>1, GotoOthers DEF SwitchOff, Committing
  <2> QED
    BY <1>5, <2>1 DEF SwitchOff, TypeOK, Goto, PCs
<1>6. CASE EndBatch(t)
  <2>0. inBatch' \in [Threads -> Nat]
    <3>1. inBatch[t] \in Nat /\ inBatch[t] > 0
      BY <1>6 DEF EndBatch, TypeOK, LeavingOK, Leaving
    <3>2. inBatch[t] - 1 \in Nat
      BY <3>1
    <3> QED
      BY <1>6, <3>2 DEF EndBatch, TypeOK
  <2>1. CASE local[t].due
    <3>1. RequestOK' /\ CommitterOK' /\ FetchedOK'
      BY <1>6, <2>1, GotoOthers DEF EndBatch, Committing
    <3>2. local' \in [Threads -> Locals]
      <4>1. [local[t] EXCEPT !.due = FALSE] \in Locals
        BY <1>1, SetDue
      <4>2. local' = [local EXCEPT ![t] = [local[t] EXCEPT !.due = FALSE]]
        BY <1>6, <2>1 DEF EndBatch
      <4> QED
        BY <4>1, <4>2, SetLocal DEF TypeOK
    <3>3. pc' \in [Threads -> PCs]
      BY <1>6, <2>1 DEF EndBatch, TypeOK, Goto, PCs
    <3> QED
      BY <1>6, <2>0, <2>1, <3>1, <3>2, <3>3 DEF EndBatch, TypeOK
  <2>2. CASE ~local[t].due
    BY <1>6, <2>0, <2>2, ReturnTypes, ReturnOthers DEF EndBatch, TypeOK
  <2> QED
    BY <2>1, <2>2
<1> QED
  BY <1>2, <1>3, <1>4, <1>5, <1>6 DEF Batching

LEMMA AfterFetchTypes ==
  ASSUME TypeInv, NEW t \in Threads, pc[t] = "fetch-notes", AfterFetch(t), UNCHANGED tracking
  PROVE  /\ pc' \in [Threads -> PCs]
         /\ req' \in [Threads -> Requests \cup {NoRequest}]
         /\ local' \in [Threads -> Locals]
         /\ up' \in [Nodes -> BOOLEAN]
         /\ RequestOK' /\ CommitterOK' /\ FetchedOK'
<1> USE DEF TypeInv
<1>1. CASE Pulled(t)
  BY <1>1, ReturnTypes, ReturnOthers DEF Pulled, TypeOK
<1>2. CASE Goto(t, "compare") /\ UNCHANGED <<req, local, up>>
  <2>1. RequestOK' /\ CommitterOK' /\ FetchedOK'
    BY <1>2, GotoOthers DEF Committing, FetchedOK
  <2>2. pc' \in [Threads -> PCs]
    BY <1>2 DEF TypeOK, Goto, PCs
  <2> QED
    BY <1>2, <2>1, <2>2 DEF TypeOK
<1> QED
  BY <1>1, <1>2 DEF AfterFetch

LEMMA PullTypes == ASSUME TypeInv, NEW t \in Threads, Pulling(t) PROVE WorkInv'
<1> USE NodeOfThread DEF TypeInv, WorkInv, repoVars, objectVars, batchVars, historyVars, counters
<1>1. CASE FetchBranch(t)
  <2>1. remote.head \in Commits
    BY DEF TypeOK, Refs
  <2>2. tracking' \in [Nodes -> Commits \cup {0}]
    BY <1>1, <2>1 DEF FetchBranch, TypeOK
  <2>3. pc' = [pc EXCEPT ![t] = "fetch-notes"] /\ req' = req
    BY <1>1 DEF FetchBranch, Goto
  <2>4. \A n \in Nodes : tracking[n] \in Commits => tracking'[n] \in Commits
    BY <1>1, <2>1 DEF FetchBranch, TypeOK
  <2>5. tracking'[Node(t)] \in Commits
    BY <1>1, <2>1 DEF FetchBranch, TypeOK
  <2>6. FetchedOK'
    BY <2>3, <2>4, <2>5 DEF FetchedOK, TypeOK, Node
  <2>7. RequestOK' /\ CommitterOK'
    BY <1>1, <2>3 DEF FetchBranch, RequestOK, CommitterOK, Committing, TypeOK
  <2>8. pc' \in [Threads -> PCs]
    BY <2>3 DEF TypeOK, PCs
  <2> QED
    BY <1>1, <2>2, <2>6, <2>7, <2>8 DEF FetchBranch, TypeOK
<1>2. CASE FetchFails(t)
  BY <1>2, ReturnTypes, ReturnOthers, FaultTypes DEF FetchFails, Pulled, TypeOK
<1>3. CASE FetchNotes(t)
  <2>1. notes' \in [Nodes -> SUBSET Commits]
    BY <1>3 DEF FetchNotes, TypeOK, Refs
  <2> QED
    BY <1>3, <2>1, AfterFetchTypes DEF FetchNotes, TypeOK
<1>4. CASE FetchNotesFails(t)
  BY <1>4, AfterFetchTypes, FaultTypes DEF FetchNotesFails, TypeOK
<1>5. CASE UpToDateOrDiverged(t)
  BY <1>5, ReturnTypes, ReturnOthers DEF UpToDateOrDiverged, Pulled, TypeOK
<1>6. CASE Forwardable(t)
  <2>1. RequestOK' /\ CommitterOK' /\ FetchedOK'
    BY <1>6, GotoOthers DEF Forwardable, Committing
  <2>2. local' \in [Threads -> Locals]
    <3> DEFINE l == [local[t] EXCEPT !.base = head[Node(t)], !.new = tracking[Node(t)]]
    <3>1. l \in Locals
      BY <1>6, SetBaseNew DEF Forwardable, FetchedOK, TypeOK
    <3>2. local' = [local EXCEPT ![t] = l]
      BY <1>6 DEF Forwardable
    <3> QED
      BY <3>1, <3>2, SetLocal DEF TypeOK
  <2>3. pc' \in [Threads -> PCs]
    BY <1>6 DEF Forwardable, TypeOK, Goto, PCs
  <2> QED
    BY <1>6, <2>1, <2>2, <2>3 DEF Forwardable, TypeOK
<1>7. CASE FastForward(t)
  <2>1. local[t].new \in Commits
    BY DEF TypeOK, Locals
  <2>2. head' \in [Nodes -> Commits]
    BY <1>7, <2>1 DEF FastForward, TypeOK
  <2> QED
    BY <1>7, <2>2, ReturnTypes, ReturnOthers DEF FastForward, Pulled, TypeOK
<1> QED
  BY <1>1, <1>2, <1>3, <1>4, <1>5, <1>6, <1>7 DEF Pulling

LEMMA CrashTypes == ASSUME TypeInv, NEW n \in Nodes, Crash(n) PROVE WorkInv'
<1> USE DEF TypeInv, WorkInv, repoVars, objectVars, batchVars, historyVars, counters
<1>1. /\ pc' = [t \in Threads |-> IF Node(t) = n THEN "idle" ELSE pc[t]]
      /\ req' = [t \in Threads |-> IF Node(t) = n THEN NoRequest ELSE req[t]]
      /\ local' = [t \in Threads |-> IF Node(t) = n THEN Fresh ELSE local[t]]
      /\ inBatch' = [t \in Threads |-> IF Node(t) = n THEN 0 ELSE inBatch[t]]
  BY DEF Crash
<1>2. crashes' \in 0 .. MaxCrashes
  <2>1. crashes \in 0 .. MaxCrashes /\ crashes < MaxCrashes /\ crashes' = crashes + 1
    BY DEF TypeOK, Crash
  <2> QED
    BY <2>1, GitConstants
<1>3. /\ pc' \in [Threads -> PCs] /\ req' \in [Threads -> Requests \cup {NoRequest}]
      /\ local' \in [Threads -> Locals] /\ inBatch' \in [Threads -> Nat]
  BY <1>1, FreshType DEF TypeOK, PCs
<1>4. TypeOK'
  BY <1>2, <1>3 DEF Crash, TypeOK
<1>5. \A t \in Threads : pc'[t] # "idle" => pc'[t] = pc[t] /\ req'[t] = req[t]
  BY <1>1
<1>6. RequestOK' /\ CommitterOK'
  BY <1>5 DEF RequestOK, CommitterOK, Committing
<1>7. FetchedOK'
  BY <1>5 DEF FetchedOK, Crash, Node
<1> QED
  BY <1>4, <1>6, <1>7

\* Only a body is left, and a storage that is open is not opened.
Asked(t, r) == /\ r.op \in {"end", "throw"} => inBatch[t] > 0
               /\ r.op \in {"create", "open"} => ~up[Node(t)]

LEMMA CallAsks ==
  ASSUME NEW t \in Threads, Calls(t)
  PROVE  \E r \in Requests : Start(t, r) /\ Asked(t, r)
<1>1. ASSUME NEW op \in AllOps, NEW d \in Docs \cup {NoDoc}, Start(t, [op |-> op, doc |-> d]),
             op \in {"end", "throw"} => inBatch[t] > 0, op \in {"create", "open"} => ~up[Node(t)]
      PROVE  \E r \in Requests : Start(t, r) /\ Asked(t, r)
  <2>1. [op |-> op, doc |-> d] \in Requests
    BY DEF Requests
  <2> QED
    BY <1>1, <2>1 DEF Asked
<1>2. CASE CallDocument(t)
  BY <1>1, <1>2 DEF CallDocument, Writes, AllOps
<1>3. CASE CallRemote(t)
  BY <1>1, <1>3 DEF CallRemote, AllOps
<1>4. CASE CallBatch(t)
  BY <1>1, <1>4 DEF CallBatch, AllOps
<1>5. CASE LeaveBatch(t)
  BY <1>1, <1>5 DEF LeaveBatch, AllOps
<1>6. CASE CallOpen(t)
  BY <1>1, <1>6 DEF CallOpen, AllOps
<1> QED
  BY <1>2, <1>3, <1>4, <1>5, <1>6 DEF Calls

\* What the steps outside with-batch, and those after its end, do to the batches.
Going(t) == /\ UNCHANGED <<batch, inBatch>>
            /\ \E step \in PCs \ Leaving : pc' = [pc EXCEPT ![t] = step]

LEMMA CommitGoes == ASSUME NEW t \in Threads, Commit(t) PROVE Going(t)
<1>1. UNCHANGED <<batch, inBatch>>
  BY DEF Commit, Check, InsertCommit, ReadNotes, WriteNotes, CommitFails, MoveBranch,
         MoveRefused, batchVars
<1>2. \E step \in PCs \ Leaving : pc' = [pc EXCEPT ![t] = step]
  BY DEF Commit, Check, InsertCommit, ReadNotes, WriteNotes, CommitFails, MoveBranch,
         MoveRefused, Throw, Return, Goto, PCs, Leaving
<1> QED
  BY <1>1, <1>2 DEF Going

LEMMA PushGoes == ASSUME NEW t \in Threads, Pushing(t) PROVE Going(t)
<1>1. UNCHANGED <<batch, inBatch>>
  BY DEF Pushing, Push, Defer, Send, SendRejected, SendFails, NothingToSend, batchVars
<1>2. PushThrows(t) => \E step \in PCs \ Leaving : pc' = [pc EXCEPT ![t] = step]
  BY DEF PushThrows, Finish, Throw, Return, Goto, PCs, Leaving
<1>3. \E step \in PCs \ Leaving : pc' = [pc EXCEPT ![t] = step]
  BY <1>2
  DEF Pushing, Push, Defer, Send, SendRejected, SendFails, NothingToSend, Finish, Return,
      Goto, PCs, Leaving
<1> QED
  BY <1>1, <1>3 DEF Going

LEMMA PullGoes == ASSUME NEW t \in Threads, Pulling(t) PROVE Going(t)
<1>1. UNCHANGED <<batch, inBatch>>
  BY DEF Pulling, FetchBranch, FetchFails, FetchNotes, FetchNotesFails, UpToDateOrDiverged,
         Forwardable, FastForward, batchVars
<1>2. \E step \in PCs \ Leaving : pc' = [pc EXCEPT ![t] = step]
  BY DEF Pulling, FetchBranch, FetchFails, FetchNotes, FetchNotesFails, UpToDateOrDiverged,
         Forwardable, FastForward, AfterFetch, Pulled, Return, Goto, PCs, Leaving
<1> QED
  BY <1>1, <1>2 DEF Going

LEMMA CallLeaves == ASSUME TypeInv, NEW t \in Threads, Calls(t) PROVE LeavingOK'
<1>1. PICK r \in Requests : Start(t, r) /\ Asked(t, r)
  BY CallAsks
<1>2. Entry[r.op] \in Leaving => r.op \in {"end", "throw"}
  BY DEF Requests, AllOps, Entry, Leaving
<1>3. pc' = [pc EXCEPT ![t] = Entry[r.op]] /\ inBatch' = inBatch
  BY <1>1 DEF Start, Goto, batchVars
<1>4. \A u \in Threads : pc'[u] = IF u = t THEN Entry[r.op] ELSE pc[u]
  BY <1>3 DEF TypeInv, TypeOK
<1> QED
  BY <1>1, <1>2, <1>3, <1>4 DEF TypeInv, LeavingOK, Asked

LEMMA OthersLeave == ASSUME TypeInv, NEW t \in Threads, Going(t) PROVE LeavingOK'
<1>1. PICK step \in PCs \ Leaving : pc' = [pc EXCEPT ![t] = step]
  BY DEF Going
<1>2. \A u \in Threads : pc'[u] = IF u = t THEN step ELSE pc[u]
  BY <1>1 DEF TypeInv, TypeOK
<1> QED
  BY <1>2 DEF TypeInv, LeavingOK, Going

LEMMA BatchLeaves == ASSUME TypeInv, NEW t \in Threads, Batching(t) PROVE LeavingOK'
<1>1. \A u \in Threads \ {t} : pc'[u] = pc[u] /\ inBatch'[u] = inBatch[u]
  BY DEF TypeInv, TypeOK, Batching, SwitchOn, ClearPending, ReadPending, SwitchOff, EndBatch,
         Return, Goto, batchVars
<1>2. pc'[t] \in Leaving => pc[t] \in Leaving /\ inBatch'[t] = inBatch[t]
  BY DEF TypeInv, TypeOK, Batching, SwitchOn, ClearPending, ReadPending, SwitchOff, EndBatch,
         Return, Goto, batchVars, Leaving
<1> QED
  BY <1>1, <1>2 DEF TypeInv, LeavingOK

LEMMA CrashLeaves == ASSUME TypeInv, NEW n \in Nodes, Crash(n) PROVE LeavingOK'
<1>1. \A t \in Threads : pc'[t] # "idle" => pc'[t] = pc[t] /\ inBatch'[t] = inBatch[t]
  BY DEF Crash
<1> QED
  BY <1>1 DEF TypeInv, LeavingOK, Leaving

LEMMA StepLeaves == ASSUME TypeInv, [Next]_vars PROVE LeavingOK'
<1>1. CASE Next
  BY <1>1, CommitGoes, PushGoes, PullGoes, OthersLeave, CallLeaves, BatchLeaves, CrashLeaves
     DEF Next
<1>2. CASE UNCHANGED vars
  BY <1>2 DEF vars, batchVars, TypeInv, LeavingOK
<1> QED
  BY <1>1, <1>2

LEMMA StepTypes == ASSUME TypeInv, [Next]_vars PROVE TypeInv'
<1>1. CASE Next
  <2>1. WorkInv'
    BY <1>1, CallTypes, CommitTypes, PushTypes, BatchTypes, PullTypes, CrashTypes DEF Next
  <2> QED
    BY <2>1, StepLeaves DEF WorkInv, TypeInv
<1>2. CASE UNCHANGED vars
  <2>1. WorkInv'
    BY <1>2 DEF vars, TypeInv, WorkInv, TypeOK, RequestOK, CommitterOK, FetchedOK, Node, repoVars,
                objectVars, batchVars, historyVars, counters
  <2> QED
    BY <2>1, StepLeaves DEF WorkInv, TypeInv
<1> QED
  BY <1>1, <1>2

LEMMA TypeInvariant == Spec => []TypeInv
  BY InitTypes, StepTypes, PTL DEF Spec

\* Every variable keeps its type: in particular no commit is made under a name
\* the trees do not know, and no thread acts on refs it has not read.
THEOREM GitTypesCorrect == Spec => []TypeOK
<1>1. TypeInv => TypeOK
  BY DEF TypeInv
<1> QED
  BY <1>1, TypeInvariant, PTL

-----------------------------------------------------------------------------
(* Histories *)

\* Ancestry is reflexive, transitive and closed over the commits inserted so far.
Histories ==
  /\ next >= 2
  /\ \A c \in Commits :
       /\ c < next => c \in past[c]
       /\ \A d \in past[c] : d < next /\ past[d] \subseteq past[c]

\* Every ref, also one a thread holds in its variables, names an inserted commit.
NodeRefs == remote.head < next /\ \A n \in Nodes : head[n] < next /\ tracking[n] < next
LocalRefs ==
  \A t \in Threads : local[t].base < next /\ local[t].new < next /\ local[t].src.head < next
RefsInserted == NodeRefs /\ LocalRefs

\* A thread about to move the branch moves it to a descendant of what it compares.
InFlight(t) == pc[t] \in {"note", "annotate", "move"}
MovesForward ==
  \A t \in Threads :
    InFlight(t) \/ pc[t] = "forward" => local[t].base \in past[local[t].new]

HistoryInv == Histories /\ RefsInserted /\ MovesForward

LEMMA InitHistory == Init => HistoryInv
<1> SUFFICES ASSUME Init PROVE HistoryInv
  OBVIOUS
<1>1. 1 \in Commits
  BY GitConstants DEF Commits
<1>2. Histories
  BY <1>1 DEF Init, Histories, Commits
<1>3. RefsInserted
  BY DEF Init, RefsInserted, NodeRefs, LocalRefs, Fresh
<1>4. MovesForward
  BY DEF Init, MovesForward, InFlight
<1> QED
  BY <1>2, <1>3, <1>4 DEF HistoryInv

LEMMA InsertHistory ==
  ASSUME TypeInv, HistoryInv, NEW t \in Threads, InsertCommit(t)
  PROVE  HistoryInv' /\ \A c \in Commits \ {next} : past'[c] = past[c]
<1> DEFINE base == head[Node(t)]
<1>1. base \in Commits /\ next \in Commits /\ base < next /\ next' = next + 1 /\ next \in Nat
  BY NodeOfThread DEF InsertCommit, HistoryInv, RefsInserted, NodeRefs, LocalRefs, TypeInv, TypeOK
<1>2. past' = [past EXCEPT ![next] = past[base] \cup {next}]
  BY DEF InsertCommit
<1>3. past'[next] = past[base] \cup {next} /\ \A c \in Commits \ {next} : past'[c] = past[c]
  BY <1>1, <1>2 DEF TypeInv, TypeOK
<1>4. \A c \in Commits : past[c] \subseteq Commits
  BY DEF TypeInv, TypeOK
<1>5. Histories'
  <2>1. next' >= 2
    BY <1>1 DEF HistoryInv, Histories
  <2>2. ASSUME NEW c \in Commits, c < next' PROVE c \in past'[c]
    BY <1>1, <1>3, <2>2 DEF HistoryInv, Histories, Commits
  <2>3. ASSUME NEW c \in Commits, NEW d \in past'[c]
        PROVE  d < next' /\ past'[d] \subseteq past'[c]
    <3>1. CASE c # next
      <4>1. d \in past[c] /\ d \in Commits
        BY <1>3, <1>4, <2>3, <3>1
      <4>2. d < next /\ past[d] \subseteq past[c]
        BY <4>1 DEF HistoryInv, Histories
      <4>3. d # next /\ d < next'
        BY <1>1, <4>1, <4>2 DEF Commits
      <4> QED
        BY <1>3, <3>1, <4>1, <4>2, <4>3
    <3>2. CASE c = next /\ d = next
      BY <1>1, <3>2 DEF Commits
    <3>3. CASE c = next /\ d # next
      <4>1. d \in past[base] /\ d \in Commits
        BY <1>1, <1>3, <1>4, <2>3, <3>3
      <4>2. d < next /\ past[d] \subseteq past[base]
        BY <1>1, <4>1 DEF HistoryInv, Histories
      <4>3. d < next'
        BY <1>1, <4>1, <4>2 DEF Commits
      <4> QED
        BY <1>3, <3>3, <4>1, <4>2, <4>3
    <3> QED
      BY <3>1, <3>2, <3>3
  <2> QED
    BY <2>1, <2>2, <2>3 DEF Histories
<1>6. /\ \A u \in Threads \ {t} : local'[u] = local[u] /\ pc'[u] = pc[u]
      /\ local'[t].base = base /\ local'[t].new = next /\ local'[t].src = local[t].src
      /\ pc'[t] = "note"
  BY DEF InsertCommit, Goto, TypeInv, TypeOK, Locals
<1>7. RefsInserted'
  <2>1. \A c \in Nat : c < next => c < next'
    BY <1>1
  <2>2. /\ \A n \in Nodes : head[n] \in Nat /\ tracking[n] \in Nat
        /\ remote.head \in Nat
        /\ \A u \in Threads : /\ local[u].base \in Nat /\ local[u].new \in Nat
                              /\ local[u].src.head \in Nat
    <3>1. \A n \in Nodes : head[n] \in Commits /\ tracking[n] \in Commits \cup {0}
      BY DEF TypeInv, TypeOK
    <3>2. remote.head \in Commits
      BY DEF TypeInv, TypeOK, Refs
    <3>3. \A u \in Threads : /\ local[u].base \in Commits /\ local[u].new \in Commits
                              /\ local[u].src.head \in Commits
      BY DEF TypeInv, TypeOK, Locals, Refs
    <3>4. Commits \cup {0} \subseteq Nat
      BY DEF Commits
    <3> QED
      BY <3>1, <3>2, <3>3, <3>4
  <2>3. next < next'
    BY <1>1
  <2>4. \A n \in Nodes : head'[n] < next' /\ tracking'[n] < next'
    BY <2>1, <2>2 DEF InsertCommit, repoVars, HistoryInv, RefsInserted, NodeRefs, LocalRefs
  <2>5. remote'.head < next'
    BY <2>1, <2>2 DEF InsertCommit, HistoryInv, RefsInserted, NodeRefs, LocalRefs
  <2>6. \A u \in Threads \ {t} :
          local'[u].base < next' /\ local'[u].new < next' /\ local'[u].src.head < next'
    BY <1>6, <2>1, <2>2 DEF HistoryInv, RefsInserted, NodeRefs, LocalRefs
  <2>7. local'[t].base < next' /\ local'[t].new < next' /\ local'[t].src.head < next'
    BY <1>1, <1>6, <2>1, <2>2, <2>3 DEF HistoryInv, RefsInserted, NodeRefs, LocalRefs, Commits
  <2> QED
    BY <2>4, <2>5, <2>6, <2>7 DEF RefsInserted, NodeRefs, LocalRefs
<1>8. MovesForward'
  <2>1. ASSUME NEW u \in Threads \ {t}, InFlight(u)' \/ pc'[u] = "forward"
        PROVE  local'[u].base \in past'[local'[u].new]
    <3>1. local[u].new \in Commits /\ local[u].new < next
      BY DEF HistoryInv, RefsInserted, NodeRefs, LocalRefs, TypeInv, TypeOK, Locals
    <3>2. local[u].new # next
      BY <1>1, <3>1 DEF Commits
    <3>3. local[u].base \in past[local[u].new]
      BY <1>6, <2>1 DEF InFlight, HistoryInv, MovesForward
    <3> QED
      BY <1>3, <1>6, <3>1, <3>2, <3>3
  <2>2. local'[t].base \in past'[local'[t].new]
    BY <1>1, <1>3, <1>6 DEF HistoryInv, Histories
  <2> QED
    BY <2>1, <2>2 DEF MovesForward
<1> QED
  BY <1>3, <1>5, <1>7, <1>8 DEF HistoryInv

\* No other step inserts a commit, and every ref a step writes is one it read.
LEMMA KeepHistory ==
  ASSUME HistoryInv, UNCHANGED objectVars, NodeRefs', LocalRefs', MovesForward'
  PROVE  HistoryInv'
  BY DEF HistoryInv, Histories, RefsInserted, objectVars

LEMMA KeepNodeRefs ==
  ASSUME HistoryInv, UNCHANGED <<next, head, tracking, remote>>
  PROVE  NodeRefs'
  BY DEF HistoryInv, RefsInserted, NodeRefs

LEMMA ReturnHistory ==
  ASSUME TypeInv, HistoryInv, NEW t \in Threads, Return(t), UNCHANGED objectVars
  PROVE  LocalRefs' /\ MovesForward'
<1>1. /\ \A u \in Threads \ {t} : local'[u] = local[u] /\ pc'[u] = pc[u]
      /\ local'[t] = Fresh /\ pc'[t] = "idle"
  BY DEF Return, Goto, TypeInv, TypeOK
<1>2. Fresh.base < next /\ Fresh.new < next /\ Fresh.src.head < next
  BY DEF HistoryInv, Histories, Fresh, TypeInv, TypeOK
<1>3. LocalRefs'
  BY <1>1, <1>2 DEF LocalRefs, HistoryInv, RefsInserted, objectVars
<1>4. MovesForward'
  BY <1>1 DEF MovesForward, InFlight, HistoryInv, objectVars
<1> QED
  BY <1>3, <1>4

\* A thread that only goes on: into the steps that move a branch only from one of them.
LEMMA GotoHistory ==
  ASSUME TypeInv, HistoryInv, NEW t \in Threads, NEW step, Goto(t, step),
         UNCHANGED <<objectVars, local>>,
         step \in {"note", "annotate", "move", "forward"} => InFlight(t)
  PROVE  LocalRefs' /\ MovesForward'
<1>1. pc' = [pc EXCEPT ![t] = step]
  BY DEF Goto
<1>2. \A u \in Threads \ {t} : pc'[u] = pc[u]
  BY <1>1 DEF TypeInv, TypeOK
<1>3. pc'[t] = step
  BY <1>1 DEF TypeInv, TypeOK
<1>4. LocalRefs'
  BY DEF LocalRefs, HistoryInv, RefsInserted, objectVars
<1>5. MovesForward'
  BY <1>2, <1>3 DEF MovesForward, InFlight, HistoryInv, objectVars
<1> QED
  BY <1>4, <1>5

\* A thread that goes on with variables that keep the two commits it moves between.
LEMMA SetHistory ==
  ASSUME TypeInv, HistoryInv, NEW t \in Threads, NEW step, NEW l \in Locals, Goto(t, step),
         local' = [local EXCEPT ![t] = l], UNCHANGED objectVars,
         l.base = local[t].base, l.new = local[t].new, l.src.head < next,
         step \in {"note", "annotate", "move", "forward"} => InFlight(t)
  PROVE  LocalRefs' /\ MovesForward'
<1>1. pc' = [pc EXCEPT ![t] = step]
  BY DEF Goto
<1>2. \A u \in Threads \ {t} : pc'[u] = pc[u] /\ local'[u] = local[u]
  BY <1>1 DEF TypeInv, TypeOK
<1>3. pc'[t] = step /\ local'[t] = l
  BY <1>1 DEF TypeInv, TypeOK
<1>4. LocalRefs'
  BY <1>2, <1>3 DEF LocalRefs, HistoryInv, RefsInserted, objectVars
<1>5. MovesForward'
  BY <1>2, <1>3 DEF MovesForward, InFlight, HistoryInv, objectVars
<1> QED
  BY <1>4, <1>5

LEMMA CallHistory ==
  ASSUME TypeInv, HistoryInv, NEW t \in Threads, Calls(t)
  PROVE  HistoryInv' /\ UNCHANGED <<objectVars, head>>
<1>1. PICK r \in Requests : Start(t, r)
  BY CallStarts
<1>2. Entry[r.op] \notin {"note", "annotate", "move", "forward"}
  BY DEF Entry, Requests, AllOps
<1>3. Goto(t, Entry[r.op]) /\ UNCHANGED <<objectVars, repoVars, remote, local>>
  BY <1>1 DEF Start
<1>4. LocalRefs' /\ MovesForward'
  BY <1>2, <1>3, GotoHistory
<1> QED
  BY <1>3, <1>4, KeepHistory, KeepNodeRefs DEF objectVars, repoVars

LEMMA CommitHistory ==
  ASSUME TypeInv, HistoryInv, NEW t \in Threads, Commit(t), ~InsertCommit(t)
  PROVE  HistoryInv' /\ UNCHANGED objectVars
<1> USE DEF repoVars
<1>1. CASE Check(t)
  <2>1. CASE Return(t)
    BY <1>1, <2>1, ReturnHistory, KeepHistory, KeepNodeRefs DEF Check, objectVars
  <2>2. CASE Goto(t, "commit") /\ UNCHANGED <<req, local>>
    BY <1>1, <2>2, GotoHistory, KeepHistory, KeepNodeRefs DEF Check, objectVars
  <2> QED
    BY <1>1, <2>1, <2>2 DEF Check
<1>2. CASE ReadNotes(t)
  <2> DEFINE l == [local[t] EXCEPT !.seen = notes[Node(t)]]
  <2>1. l \in Locals
    BY SetSeen, NodeOfThread DEF TypeInv, TypeOK
  <2>2. l.base = local[t].base /\ l.new = local[t].new /\ l.src.head < next
    BY DEF TypeInv, TypeOK, Locals, HistoryInv, RefsInserted, LocalRefs
  <2>3. local' = [local EXCEPT ![t] = l] /\ Goto(t, "annotate") /\ UNCHANGED objectVars
    BY <1>2 DEF ReadNotes
  <2>4. LocalRefs' /\ MovesForward'
    BY <1>2, <2>1, <2>2, <2>3, SetHistory DEF ReadNotes, InFlight
  <2> QED
    BY <1>2, <2>4, KeepHistory, KeepNodeRefs DEF ReadNotes, objectVars
<1>3. CASE WriteNotes(t)
  <2>1. LocalRefs' /\ MovesForward'
    BY <1>3, GotoHistory DEF WriteNotes, InFlight
  <2> QED
    BY <1>3, <2>1, KeepHistory, KeepNodeRefs DEF WriteNotes, objectVars
<1>4. CASE CommitFails(t)
  BY <1>4, ReturnHistory, KeepHistory, KeepNodeRefs DEF CommitFails, Throw, objectVars
<1>5. CASE MoveBranch(t)
  <2>1. LocalRefs' /\ MovesForward'
    BY <1>5, GotoHistory DEF MoveBranch
  <2>2. NodeRefs'
    BY <1>5 DEF MoveBranch, objectVars, HistoryInv, RefsInserted, NodeRefs, LocalRefs, TypeInv, TypeOK
  <2> QED
    BY <1>5, <2>1, <2>2, KeepHistory DEF MoveBranch
<1>6. CASE MoveRefused(t)
  BY <1>6, ReturnHistory, KeepHistory, KeepNodeRefs DEF MoveRefused, Throw, objectVars
<1> QED
  BY <1>1, <1>2, <1>3, <1>4, <1>5, <1>6 DEF Commit

LEMMA PushThrowsHistory ==
  ASSUME TypeInv, HistoryInv, NEW t \in Threads, PushThrows(t), UNCHANGED objectVars
  PROVE  LocalRefs' /\ MovesForward'
<1>1. CASE Return(t)
  BY <1>1, ReturnHistory
<1>2. CASE Goto(t, "switch-again") /\ UNCHANGED local
  BY <1>2, GotoHistory
<1> QED
  BY <1>1, <1>2 DEF PushThrows, Finish, Throw

LEMMA PushHistory ==
  ASSUME TypeInv, HistoryInv, NEW t \in Threads, Pushing(t)
  PROVE  HistoryInv' /\ UNCHANGED <<objectVars, head>>
<1> USE DEF repoVars
<1>1. local[t].src.head < next /\ remote.head < next
  BY DEF HistoryInv, RefsInserted, NodeRefs, LocalRefs
<1>2. CASE Push(t)
  <2> DEFINE src == [head |-> head[Node(t)], notes |-> notes[Node(t)]]
             l == [local[t] EXCEPT !.src = src]
  <2>1. CASE batch[Node(t)]
    BY <1>2, <2>1, GotoHistory, KeepHistory, KeepNodeRefs DEF Push, objectVars
  <2>2. CASE ~batch[Node(t)]
    <3>1. src \in Refs /\ src.head < next
      BY NodeOfThread DEF TypeInv, TypeOK, Refs, HistoryInv, RefsInserted, NodeRefs
    <3>2. l \in Locals
      BY <3>1, SetSrc DEF TypeInv, TypeOK
    <3>3. l.base = local[t].base /\ l.new = local[t].new /\ l.src.head < next
      BY <3>1 DEF TypeInv, TypeOK, Locals
    <3>4. local' = [local EXCEPT ![t] = l] /\ Goto(t, "send") /\ UNCHANGED objectVars
      BY <1>2, <2>2 DEF Push
    <3>5. LocalRefs' /\ MovesForward'
      BY <3>2, <3>3, <3>4, SetHistory
    <3> QED
      BY <1>2, <3>5, KeepHistory, KeepNodeRefs DEF Push, objectVars
  <2> QED
    BY <2>1, <2>2
<1>3. CASE Defer(t)
  BY <1>3, ReturnHistory, KeepHistory, KeepNodeRefs DEF Defer, Finish, objectVars
<1>4. CASE Send(t)
  <2>1. NodeRefs'
    BY <1>1, <1>4 DEF Send, objectVars, HistoryInv, RefsInserted, NodeRefs
  <2> QED
    BY <1>4, <2>1, ReturnHistory, KeepHistory DEF Send, Finish
<1>5. CASE SendRejected(t)
  <2>1. remote'.head < next
    BY <1>1, <1>5 DEF SendRejected, TypeInv, TypeOK, Refs
  <2>2. NodeRefs'
    BY <1>5, <2>1 DEF SendRejected, objectVars, HistoryInv, RefsInserted, NodeRefs
  <2> QED
    BY <1>5, <2>2, ReturnHistory, KeepHistory DEF SendRejected, Finish
<1>6. CASE SendFails(t)
  <2>1. remote'.head < next
    BY <1>1, <1>6 DEF SendFails, TypeInv, TypeOK, Refs
  <2>2. NodeRefs'
    BY <1>6, <2>1 DEF SendFails, objectVars, HistoryInv, RefsInserted, NodeRefs
  <2> QED
    BY <1>6, <2>2, PushThrowsHistory, KeepHistory DEF SendFails
<1>7. CASE NothingToSend(t)
  BY <1>7, PushThrowsHistory, KeepHistory, KeepNodeRefs DEF NothingToSend, objectVars
<1> QED
  BY <1>2, <1>3, <1>4, <1>5, <1>6, <1>7 DEF Pushing

LEMMA BatchHistory ==
  ASSUME TypeInv, HistoryInv, NEW t \in Threads, Batching(t)
  PROVE  HistoryInv' /\ UNCHANGED <<objectVars, head>>
<1> USE DEF repoVars
<1>1. CASE SwitchOn(t)
  BY <1>1, GotoHistory, KeepHistory, KeepNodeRefs DEF SwitchOn, objectVars
<1>2. CASE ClearPending(t)
  BY <1>2, ReturnHistory, KeepHistory, KeepNodeRefs DEF ClearPending, objectVars
<1>3. ASSUME NEW due \in BOOLEAN, NEW step \in {"switch", "push"}, Goto(t, step),
             local' = [local EXCEPT ![t] = [local[t] EXCEPT !.due = due]],
             UNCHANGED <<objectVars, head, tracking, remote>>
      PROVE  HistoryInv'
  <2> DEFINE l == [local[t] EXCEPT !.due = due]
  <2>1. l \in Locals
    BY SetDue DEF TypeInv, TypeOK
  <2>2. l.base = local[t].base /\ l.new = local[t].new /\ l.src.head < next
    BY DEF TypeInv, TypeOK, Locals, HistoryInv, RefsInserted, LocalRefs
  <2>3. LocalRefs' /\ MovesForward'
    BY <1>3, <2>1, <2>2, SetHistory
  <2> QED
    BY <1>3, <2>3, KeepHistory, KeepNodeRefs DEF objectVars
<1>4. CASE ReadPending(t)
  <2>1. pending[Node(t)] \in BOOLEAN
    BY NodeOfThread DEF TypeInv, TypeOK
  <2> QED
    BY <1>3, <1>4, <2>1 DEF ReadPending, HasPending
<1>5. CASE SwitchOff(t)
  <2>1. PICK step \in {"clear", "clear-again"} : Goto(t, step)
    BY <1>5 DEF SwitchOff
  <2> QED
    BY <1>5, <2>1, GotoHistory, KeepHistory, KeepNodeRefs DEF SwitchOff, objectVars
<1>6. CASE EndBatch(t)
  <2>1. CASE local[t].due
    BY <1>3, <1>6, <2>1 DEF EndBatch
  <2>2. CASE ~local[t].due
    BY <1>6, <2>2, ReturnHistory, KeepHistory, KeepNodeRefs DEF EndBatch, objectVars
  <2> QED
    BY <1>6, <2>1, <2>2 DEF EndBatch
<1> QED
  BY <1>1, <1>2, <1>4, <1>5, <1>6 DEF Batching, SwitchOn, ClearPending, ReadPending, SwitchOff, EndBatch

LEMMA AfterFetchHistory ==
  ASSUME TypeInv, HistoryInv, NEW t \in Threads, AfterFetch(t), UNCHANGED objectVars
  PROVE  LocalRefs' /\ MovesForward'
<1>1. CASE Return(t)
  BY <1>1, ReturnHistory
<1>2. CASE Goto(t, "compare") /\ UNCHANGED local
  BY <1>2, GotoHistory
<1> QED
  BY <1>1, <1>2 DEF AfterFetch, Pulled

LEMMA PullHistory ==
  ASSUME TypeInv, HistoryInv, NEW t \in Threads, Pulling(t)
  PROVE  HistoryInv' /\ UNCHANGED objectVars
<1> USE DEF repoVars
<1>1. CASE FetchBranch(t)
  <2>1. LocalRefs' /\ MovesForward'
    BY <1>1, GotoHistory DEF FetchBranch
  <2>2. NodeRefs'
    BY <1>1 DEF FetchBranch, objectVars, HistoryInv, RefsInserted, NodeRefs, TypeInv, TypeOK
  <2> QED
    BY <1>1, <2>1, <2>2, KeepHistory DEF FetchBranch
<1>2. CASE FetchFails(t)
  BY <1>2, ReturnHistory, KeepHistory, KeepNodeRefs DEF FetchFails, Pulled, objectVars
<1>3. CASE FetchNotes(t)
  BY <1>3, AfterFetchHistory, KeepHistory, KeepNodeRefs DEF FetchNotes, objectVars
<1>4. CASE FetchNotesFails(t)
  BY <1>4, AfterFetchHistory, KeepHistory, KeepNodeRefs DEF FetchNotesFails, objectVars
<1>5. CASE UpToDateOrDiverged(t)
  BY <1>5, ReturnHistory, KeepHistory, KeepNodeRefs DEF UpToDateOrDiverged, Pulled, objectVars
<1>6. CASE Forwardable(t)
  <2> DEFINE n == Node(t)
             l == [local[t] EXCEPT !.base = head[n], !.new = tracking[n]]
  <2>1. local' = [local EXCEPT ![t] = l] /\ pc' = [pc EXCEPT ![t] = "forward"]
    BY <1>6 DEF Forwardable, Goto
  <2>2. /\ \A u \in Threads \ {t} : pc'[u] = pc[u] /\ local'[u] = local[u]
        /\ pc'[t] = "forward" /\ local'[t] = l
    BY <2>1 DEF TypeInv, TypeOK
  <2>3. l.base = head[n] /\ l.new = tracking[n] /\ l.src = local[t].src
    BY DEF TypeInv, TypeOK, Locals
  <2>4. head[n] < next /\ tracking[n] < next /\ head[n] \in past[tracking[n]]
    BY <1>6, NodeOfThread DEF Forwardable, Merged, HistoryInv, RefsInserted, NodeRefs
  <2>5. local'[t].base = head[n] /\ local'[t].new = tracking[n] /\ local'[t].src = local[t].src
    BY <2>2, <2>3
  <2>6. next' = next /\ past' = past
    BY <1>6 DEF Forwardable, objectVars
  <2>7. LocalRefs'
    <3>1. \A u \in Threads \ {t} :
            local'[u].base < next' /\ local'[u].new < next' /\ local'[u].src.head < next'
      BY <2>2, <2>6 DEF LocalRefs, HistoryInv, RefsInserted
    <3>2. local'[t].base < next' /\ local'[t].new < next' /\ local'[t].src.head < next'
      BY <2>4, <2>5, <2>6 DEF LocalRefs, HistoryInv, RefsInserted
    <3> QED
      BY <3>1, <3>2 DEF LocalRefs
  <2>8. MovesForward'
    <3>1. \A u \in Threads \ {t} :
            InFlight(u)' \/ pc'[u] = "forward" => local'[u].base \in past'[local'[u].new]
      BY <2>2, <2>6 DEF MovesForward, InFlight, HistoryInv
    <3>2. local'[t].base \in past'[local'[t].new]
      BY <2>4, <2>5, <2>6
    <3> QED
      BY <3>1, <3>2 DEF MovesForward
  <2> QED
    BY <1>6, <2>7, <2>8, KeepHistory, KeepNodeRefs DEF Forwardable, objectVars
<1>7. CASE FastForward(t)
  <2>1. NodeRefs'
    BY <1>7 DEF FastForward, objectVars, HistoryInv, RefsInserted, NodeRefs, LocalRefs, TypeInv, TypeOK
  <2> QED
    BY <1>7, <2>1, ReturnHistory, KeepHistory DEF FastForward, Pulled
<1> QED
  BY <1>1, <1>2, <1>3, <1>4, <1>5, <1>6, <1>7 DEF Pulling, FetchBranch, FetchFails, FetchNotes,
     FetchNotesFails, UpToDateOrDiverged, Forwardable, FastForward

LEMMA CrashHistory ==
  ASSUME TypeInv, HistoryInv, NEW n \in Nodes, Crash(n)
  PROVE  HistoryInv' /\ UNCHANGED <<objectVars, head>>
<1>1. /\ pc' = [t \in Threads |-> IF Node(t) = n THEN "idle" ELSE pc[t]]
      /\ local' = [t \in Threads |-> IF Node(t) = n THEN Fresh ELSE local[t]]
  BY DEF Crash
<1>2. \A t \in Threads : \/ pc'[t] = pc[t] /\ local'[t] = local[t]
                         \/ pc'[t] = "idle" /\ local'[t] = Fresh
  BY <1>1
<1>3. Fresh.base < next /\ Fresh.new < next /\ Fresh.src.head < next
  BY DEF HistoryInv, Histories, Fresh, TypeInv, TypeOK
<1>4. LocalRefs'
  BY <1>2, <1>3 DEF Crash, objectVars, LocalRefs, HistoryInv, RefsInserted
<1>5. MovesForward'
  BY <1>2 DEF Crash, objectVars, MovesForward, InFlight, HistoryInv
<1> QED
  BY <1>4, <1>5, KeepHistory, KeepNodeRefs DEF Crash, objectVars, repoVars

LEMMA StepHistory == ASSUME TypeInv, HistoryInv, [Next]_vars PROVE HistoryInv'
<1>1. CASE UNCHANGED vars
  BY <1>1 DEF vars, HistoryInv, Histories, RefsInserted, NodeRefs, LocalRefs, MovesForward, InFlight,
              repoVars, objectVars
<1>2. CASE Next
  BY <1>2, CallHistory, InsertHistory, CommitHistory, PushHistory, BatchHistory, PullHistory,
     CrashHistory DEF Next
<1> QED
  BY <1>1, <1>2

LEMMA HistoryInvariant == Spec => [](TypeInv /\ HistoryInv)
<1>1. Init => TypeInv /\ HistoryInv
  BY InitTypes, InitHistory
<1>2. TypeInv /\ HistoryInv /\ [Next]_vars => (TypeInv /\ HistoryInv)'
  BY StepTypes, StepHistory
<1> QED
  BY <1>1, <1>2, PTL DEF Spec

\* The head of a node after a step descends from its head before it.
HeadAdvances(n) == head[n] \in past'[head'[n]]

LEMMA SameHead ==
  ASSUME TypeInv, HistoryInv, NEW n \in Nodes, head'[n] = head[n], UNCHANGED objectVars
  PROVE  HeadAdvances(n)
<1>1. head[n] \in Commits /\ head[n] < next
  BY DEF TypeInv, TypeOK, HistoryInv, RefsInserted, NodeRefs
<1> QED
  BY <1>1 DEF HeadAdvances, HistoryInv, Histories, objectVars

LEMMA StepAdvances ==
  ASSUME TypeInv, HistoryInv, [Next]_vars, NEW n \in Nodes
  PROVE  HeadAdvances(n)
<1>1. CASE UNCHANGED vars
  BY <1>1, SameHead DEF vars, repoVars
<1>2. ASSUME NEW t \in Threads, Calls(t) \/ Pushing(t) \/ Batching(t) PROVE HeadAdvances(n)
  BY <1>2, SameHead, CallHistory, PushHistory, BatchHistory
<1>3. ASSUME NEW m \in Nodes, Crash(m) PROVE HeadAdvances(n)
  BY <1>3, SameHead, CrashHistory
<1>4. ASSUME NEW t \in Threads, InsertCommit(t) PROVE HeadAdvances(n)
  <2>1. head'[n] = head[n]
    BY <1>4 DEF InsertCommit, repoVars
  <2>2. head[n] \in Commits /\ head[n] < next
    BY DEF TypeInv, TypeOK, HistoryInv, RefsInserted, NodeRefs
  <2>3. head[n] # next
    BY <2>2 DEF Commits
  <2>4. head[n] \in past[head[n]]
    BY <2>2 DEF HistoryInv, Histories
  <2> QED
    BY <1>4, <2>1, <2>2, <2>3, <2>4, InsertHistory DEF HeadAdvances
<1>5. ASSUME NEW t \in Threads, MoveBranch(t) PROVE HeadAdvances(n)
  <2>1. CASE n = Node(t)
    <3>1. head[n] = local[t].base /\ head'[n] = local[t].new /\ UNCHANGED objectVars
      BY <1>5, <2>1 DEF MoveBranch, Unmoved, TypeInv, TypeOK
    <3>2. local[t].base \in past[local[t].new]
      BY <1>5 DEF MoveBranch, InFlight, HistoryInv, MovesForward
    <3> QED
      BY <3>1, <3>2 DEF HeadAdvances, objectVars
  <2>2. CASE n # Node(t)
    BY <1>5, <2>2, SameHead DEF MoveBranch, TypeInv, TypeOK
  <2> QED
    BY <2>1, <2>2
<1>6. ASSUME NEW t \in Threads, Commit(t), ~InsertCommit(t), ~MoveBranch(t)
      PROVE  HeadAdvances(n)
  <2>1. UNCHANGED head
    BY <1>6 DEF Commit, Check, ReadNotes, WriteNotes, CommitFails, MoveRefused, repoVars
  <2> QED
    BY <1>6, <2>1, CommitHistory, SameHead
<1>7. ASSUME NEW t \in Threads, FastForward(t) PROVE HeadAdvances(n)
  <2>1. CASE n = Node(t) /\ Unmoved(n, local[t].base)
    <3>1. head[n] = local[t].base /\ head'[n] = local[t].new /\ UNCHANGED objectVars
      BY <1>7, <2>1 DEF FastForward, Unmoved, TypeInv, TypeOK
    <3>2. local[t].base \in past[local[t].new]
      BY <1>7 DEF FastForward, HistoryInv, MovesForward
    <3> QED
      BY <3>1, <3>2 DEF HeadAdvances, objectVars
  <2>2. CASE ~(n = Node(t) /\ Unmoved(n, local[t].base))
    BY <1>7, <2>2, SameHead DEF FastForward, TypeInv, TypeOK
  <2> QED
    BY <2>1, <2>2
<1>8. ASSUME NEW t \in Threads, Pulling(t), ~FastForward(t) PROVE HeadAdvances(n)
  <2>1. UNCHANGED head
    BY <1>8 DEF Pulling, FetchBranch, FetchFails, FetchNotes, FetchNotesFails,
                UpToDateOrDiverged, Forwardable, repoVars
  <2> QED
    BY <1>8, <2>1, PullHistory, SameHead
<1> QED
  BY <1>1, <1>2, <1>3, <1>4, <1>5, <1>6, <1>7, <1>8 DEF Next

\* Saves, deletions, restores, pulls and starts of a node, none of which takes a
\* lock, only ever move its branch to a descendant of where it is.
THEOREM BranchesAdvance == Spec => HeadsAdvance
<1>1. TypeInv /\ HistoryInv /\ [Next]_vars => [\A n \in Nodes : head[n] \in past'[head'[n]]]_vars
  BY StepAdvances DEF HeadAdvances
<1> QED
  BY <1>1, HistoryInvariant, PTL DEF Spec, HeadsAdvance

-----------------------------------------------------------------------------
(* Answers *)

\* The commits some ref names, also a ref a thread has read, and their ancestors.
Published(p) ==
  \/ p = 1 \/ p = remote.head
  \/ \E n \in Nodes : p = head[n] \/ p = tracking[n]
  \/ \E t \in Threads : \/ p = local[t].base \/ p = local[t].src.head
                        \/ pc[t] = "forward" /\ p = local[t].new
Landed(c) == \E p \in Commits : Published(p) /\ c \in past[p]

\* A commit on its way to the branch is known to its thread only.
OwnCommit(t) ==
  /\ past[local[t].new] = past[local[t].base] \cup {local[t].new}
  /\ ~Landed(local[t].new)
  /\ local[t].new \notin refused
  /\ \A u \in Threads \ {t} : InFlight(u) => local[u].new # local[t].new
InFlightInv == \A t \in Threads : InFlight(t) => OwnCommit(t)

RefusedInv == \A c \in refused : c < next /\ ~Landed(c)

AckedInv == \A n \in Nodes : acked[n] \subseteq past[head[n]]

\* A write that is pushing has moved the branch.
PushingInv ==
  \A t \in Threads :
    pc[t] \in {"push", "defer", "send"} /\ req[t].op \in Writes =>
      local[t].new \in past[head[Node(t)]]

\* with-batch is no write.
BatchingInv ==
  \A t \in Threads : pc[t] \in {"end", "switch", "clear"} => req[t].op \notin Writes

AnswerInv == InFlightInv /\ RefusedInv /\ AckedInv /\ PushingInv /\ BatchingInv

\* No step takes a commit out of the history of a node.
HeadsGrow == \A n \in Nodes : past[head[n]] \subseteq past'[head'[n]]

LEMMA PastKept ==
  ASSUME TypeInv, HistoryInv, [Next]_vars, NEW c \in Commits, c < next
  PROVE  past'[c] = past[c]
<1>1. CASE UNCHANGED vars
  BY <1>1 DEF vars, objectVars
<1>2. ASSUME NEW t \in Threads, InsertCommit(t) PROVE past'[c] = past[c]
  <2>1. c # next
    BY DEF Commits
  <2> QED
    BY <1>2, <2>1, InsertHistory
<1>3. ASSUME NEW t \in Threads, Calls(t) \/ Pushing(t) \/ Batching(t) \/ Pulling(t)
      PROVE  past'[c] = past[c]
  BY <1>3, CallHistory, PushHistory, BatchHistory, PullHistory DEF objectVars
<1>4. ASSUME NEW t \in Threads, Commit(t), ~InsertCommit(t) PROVE past'[c] = past[c]
  BY <1>4, CommitHistory DEF objectVars
<1>5. ASSUME NEW n \in Nodes, Crash(n) PROVE past'[c] = past[c]
  BY <1>5, CrashHistory DEF objectVars
<1> QED
  BY <1>1, <1>2, <1>3, <1>4, <1>5 DEF Next

LEMMA StepGrows == ASSUME TypeInv, HistoryInv, [Next]_vars PROVE HeadsGrow
<1> SUFFICES ASSUME NEW n \in Nodes PROVE past[head[n]] \subseteq past'[head'[n]]
  BY DEF HeadsGrow
<1>1. head[n] \in Commits /\ head[n] < next
  BY DEF TypeInv, TypeOK, HistoryInv, RefsInserted, NodeRefs
<1>2. past'[head[n]] = past[head[n]]
  BY <1>1, PastKept
<1>3. TypeInv' /\ HistoryInv'
  BY StepTypes, StepHistory
<1>4. head'[n] \in Commits
  BY <1>3 DEF TypeInv, TypeOK
<1>5. head[n] \in past'[head'[n]]
  BY StepAdvances DEF HeadAdvances
<1>6. past'[head[n]] \subseteq past'[head'[n]]
  BY <1>3, <1>4, <1>5 DEF HistoryInv, Histories
<1> QED
  BY <1>2, <1>6

LEMMA InitAnswers == Init => AnswerInv
<1> SUFFICES ASSUME Init PROVE AnswerInv
  OBVIOUS
<1>1. \A t \in Threads : pc[t] = "idle"
  BY DEF Init
<1>2. InFlightInv /\ PushingInv /\ BatchingInv
  BY <1>1 DEF InFlightInv, InFlight, PushingInv, BatchingInv
<1>3. RefusedInv /\ AckedInv
  BY DEF Init, RefusedInv, AckedInv
<1> QED
  BY <1>2, <1>3 DEF AnswerInv

\* A step of t that publishes no ref: nothing new lands, and t takes its commit
\* out of flight at most by having it refused.
LEMMA NothingLands ==
  ASSUME TypeInv, HistoryInv, AnswerInv, NEW t \in Threads, UNCHANGED objectVars,
         \A u \in Threads \ {t} : pc'[u] = pc[u] /\ local'[u] = local[u],
         Published(local'[t].base), Published(local'[t].src.head),
         pc'[t] = "forward" => Published(local'[t].new),
         InFlight(t)' => /\ InFlight(t)
                         /\ local'[t].base = local[t].base /\ local'[t].new = local[t].new,
         \A n \in Nodes : Published(head'[n]) /\ Published(tracking'[n]),
         Published(remote'.head),
         \/ refused' = refused
         \/ refused' = refused \cup {local[t].new} /\ InFlight(t) /\ ~InFlight(t)'
  PROVE  InFlightInv' /\ RefusedInv'
<1>1. ASSUME NEW p \in Commits, Published(p)' PROVE Published(p)
  <2>1. CASE \E u \in Threads \ {t} : \/ p = local'[u].base \/ p = local'[u].src.head
                                      \/ pc'[u] = "forward" /\ p = local'[u].new
    BY <2>1 DEF Published
  <2>2. CASE \/ p = local'[t].base \/ p = local'[t].src.head
             \/ pc'[t] = "forward" /\ p = local'[t].new
    BY <2>2
  <2>3. CASE p = 1 \/ p = remote'.head \/ \E n \in Nodes : p = head'[n] \/ p = tracking'[n]
    BY <2>3 DEF Published
  <2> QED
    BY <1>1, <2>1, <2>2, <2>3 DEF Published
<1>2. past' = past /\ next' = next
  BY DEF objectVars
<1>3. ASSUME NEW c, ~Landed(c) PROVE ~Landed(c)'
  BY <1>1, <1>2, <1>3 DEF Landed
<1>4. \A u \in Threads : InFlight(u)' =>
        /\ InFlight(u) /\ local'[u].base = local[u].base /\ local'[u].new = local[u].new
  BY DEF InFlight
<1>5. ASSUME NEW u \in Threads, InFlight(u)' PROVE OwnCommit(u)'
  <2>1. OwnCommit(u) /\ InFlight(u)
    BY <1>4, <1>5 DEF AnswerInv, InFlightInv
  <2>2. local[u].new \notin refused'
    BY <1>5, <2>1, <1>4 DEF OwnCommit
  <2>3. \A v \in Threads \ {u} : InFlight(v)' => local'[v].new # local'[u].new
    BY <1>4, <1>5, <2>1 DEF OwnCommit
  <2>4. ~Landed(local[u].new)'
    <3>1. ~Landed(local[u].new)
      BY <2>1 DEF OwnCommit
    <3>2. local'[u].new = local[u].new
      BY <1>4, <1>5
    <3> QED
      BY <1>3, <3>1, <3>2
  <2> QED
    BY <1>2, <1>4, <1>5, <2>1, <2>2, <2>3, <2>4 DEF OwnCommit
<1>6. ASSUME NEW c \in refused' PROVE c < next' /\ ~Landed(c)'
  <2>1. CASE c \in refused
    BY <1>2, <1>3, <2>1 DEF AnswerInv, RefusedInv
  <2>2. CASE c = local[t].new /\ InFlight(t)
    <3>1. ~Landed(c) /\ c < next
      BY <2>2 DEF AnswerInv, InFlightInv, OwnCommit, HistoryInv, RefsInserted, LocalRefs
    <3> QED
      BY <1>2, <1>3, <3>1
  <2> QED
    BY <1>6, <2>1, <2>2
<1> QED
  BY <1>5, <1>6 DEF InFlightInv, RefusedInv

\* What is to be shown of a step, but for the commits it answers with.
AnswerFrame == InFlightInv' /\ RefusedInv' /\ PushingInv' /\ BatchingInv'

\* Refs that t may have read are published already.
LEMMA RefsPublished ==
  ASSUME NEW t \in Threads
  PROVE  /\ Published(1) /\ Published(remote.head)
         /\ \A n \in Nodes : Published(head[n]) /\ Published(tracking[n])
         /\ Published(local[t].base) /\ Published(local[t].src.head)
  BY DEF Published

\* The conditions on where a step of t leads.
LEMMA PhasesKept ==
  ASSUME TypeInv, HistoryInv, AnswerInv, HeadsGrow, NEW t \in Threads,
         \A u \in Threads \ {t} : pc'[u] = pc[u] /\ local'[u] = local[u] /\ req'[u] = req[u],
         pc'[t] \in {"push", "defer", "send"} /\ req'[t].op \in Writes =>
           /\ req'[t] = req[t] /\ local'[t].new = local[t].new
           /\ pc[t] \in {"push", "defer", "send"},
         pc'[t] \in {"end", "switch", "clear"} => req'[t].op \notin Writes
  PROVE  PushingInv' /\ BatchingInv'
<1>1. ASSUME NEW u \in Threads, pc'[u] \in {"push", "defer", "send"}, req'[u].op \in Writes
      PROVE  local'[u].new \in past'[head'[Node(u)]]
  <2>1. /\ pc[u] \in {"push", "defer", "send"} /\ req[u].op \in Writes
        /\ local'[u].new = local[u].new
    BY <1>1
  <2>2. local[u].new \in past[head[Node(u)]]
    BY <2>1 DEF AnswerInv, PushingInv
  <2> QED
    BY <2>1, <2>2, NodeOfThread DEF HeadsGrow
<1>2. PushingInv'
  BY <1>1 DEF PushingInv, Node
<1>3. BatchingInv'
  BY DEF AnswerInv, BatchingInv
<1> QED
  BY <1>2, <1>3

LEMMA ReturnAnswers ==
  ASSUME TypeInv, HistoryInv, AnswerInv, HeadsGrow, NEW t \in Threads, Return(t),
         UNCHANGED <<objectVars, tracking>>,
         \A n \in Nodes : Published(head'[n]),
         Published(remote'.head),
         \/ refused' = refused
         \/ refused' = refused \cup {local[t].new} /\ InFlight(t)
  PROVE  AnswerFrame
<1>1. /\ \A u \in Threads \ {t} : pc'[u] = pc[u] /\ local'[u] = local[u] /\ req'[u] = req[u]
      /\ local'[t] = Fresh /\ pc'[t] = "idle"
  BY DEF Return, Goto, TypeInv, TypeOK
<1>2. Fresh.base = 1 /\ Fresh.src.head = 1
  BY DEF Fresh
<1>3. PushingInv' /\ BatchingInv'
  BY <1>1, PhasesKept
<1>4. ~InFlight(t)'
  BY <1>1 DEF InFlight
<1>5. InFlightInv' /\ RefusedInv'
  BY <1>1, <1>2, <1>4, RefsPublished, NothingLands
<1> QED
  BY <1>3, <1>5 DEF AnswerFrame

LEMMA SetAnswers ==
  ASSUME TypeInv, HistoryInv, AnswerInv, HeadsGrow, NEW t \in Threads, NEW step,
         NEW l \in Locals, Goto(t, step), local' = [local EXCEPT ![t] = l],
         UNCHANGED <<objectVars, req, head, refused>>,
         l.new = local[t].new, l.base = local[t].base, Published(l.src.head),
         \A n \in Nodes : Published(tracking'[n]), Published(remote'.head),
         step \in {"note", "annotate", "move"} => InFlight(t), step # "forward",
         step \in {"push", "defer", "send"} /\ req[t].op \in Writes =>
           pc[t] \in {"push", "defer", "send"},
         step \in {"end", "switch", "clear"} => req[t].op \notin Writes
  PROVE  AnswerFrame
<1>1. pc' = [pc EXCEPT ![t] = step]
  BY DEF Goto
<1>2. /\ \A u \in Threads \ {t} : pc'[u] = pc[u] /\ local'[u] = local[u] /\ req'[u] = req[u]
      /\ local'[t] = l /\ pc'[t] = step
  BY <1>1 DEF TypeInv, TypeOK
<1>3. PushingInv' /\ BatchingInv'
  BY <1>2, PhasesKept
<1>4. InFlight(t)' => InFlight(t)
  BY <1>2 DEF InFlight
<1>5. \A n \in Nodes : Published(head'[n]) /\ Published(tracking'[n])
  BY RefsPublished
<1>6. InFlightInv' /\ RefusedInv'
  BY <1>2, <1>4, <1>5, RefsPublished, NothingLands
<1> QED
  BY <1>3, <1>6 DEF AnswerFrame

LEMMA GotoAnswers ==
  ASSUME TypeInv, HistoryInv, AnswerInv, HeadsGrow, NEW t \in Threads, NEW step, Goto(t, step),
         UNCHANGED <<objectVars, req, local, head, refused>>,
         \A n \in Nodes : Published(tracking'[n]), Published(remote'.head),
         step \in {"note", "annotate", "move"} => InFlight(t), step # "forward",
         step \in {"push", "defer", "send"} /\ req[t].op \in Writes =>
           pc[t] \in {"push", "defer", "send"},
         step \in {"end", "switch", "clear"} => req[t].op \notin Writes
  PROVE  AnswerFrame
<1>1. local[t] \in Locals /\ local' = [local EXCEPT ![t] = local[t]]
  BY DEF TypeInv, TypeOK
<1> QED
  BY <1>1, RefsPublished, SetAnswers

\* The commits answered so far stay where they are.
LEMMA AckedKept ==
  ASSUME AnswerInv, HeadsGrow, acked' = acked
  PROVE  AckedInv'
  BY DEF AnswerInv, AckedInv, HeadsGrow

LEMMA FinishAcks ==
  ASSUME TypeInv, AnswerInv, HeadsGrow, NEW t \in Threads, Finish(t),
         pc[t] \in {"push", "defer", "send"}
  PROVE  AckedInv' /\ refused' = refused /\ Return(t)
<1>1. req[t].op \in Writes => local[t].new \in past'[head'[Node(t)]]
  BY NodeOfThread DEF AnswerInv, PushingInv, HeadsGrow
<1>2. /\ acked' = [acked EXCEPT ![Node(t)] =
                     IF req[t].op \in Writes THEN @ \cup {local[t].new} ELSE @]
      /\ refused' = refused /\ Return(t)
  BY DEF Finish
<1>3. ASSUME NEW n \in Nodes PROVE acked'[n] \subseteq past'[head'[n]]
  <2>1. acked[n] \subseteq past'[head'[n]]
    BY DEF AnswerInv, AckedInv, HeadsGrow
  <2> QED
    BY <1>1, <1>2, <2>1, NodeOfThread DEF TypeInv, TypeOK
<1> QED
  BY <1>2, <1>3 DEF AckedInv

LEMMA CallAnswers ==
  ASSUME TypeInv, HistoryInv, AnswerInv, HeadsGrow, NEW t \in Threads, Calls(t)
  PROVE  AnswerInv'
<1>1. PICK r \in Requests : Start(t, r)
  BY CallStarts
<1>2. /\ pc' = [pc EXCEPT ![t] = Entry[r.op]] /\ req' = [req EXCEPT ![t] = r]
      /\ UNCHANGED <<repoVars, objectVars, remote, local, acked, refused>>
  BY <1>1 DEF Start, Goto
<1>3. /\ \A u \in Threads \ {t} : pc'[u] = pc[u] /\ local'[u] = local[u] /\ req'[u] = req[u]
      /\ local'[t] = local[t] /\ pc'[t] = Entry[r.op] /\ req'[t] = r
  BY <1>2 DEF TypeInv, TypeOK
<1>4. /\ Entry[r.op] \notin {"note", "annotate", "move", "forward", "defer", "send"}
      /\ Entry[r.op] \in {"push", "end", "switch", "clear"} => r.op \notin Writes
  BY DEF Entry, Requests, AllOps, Writes
<1>5. PushingInv' /\ BatchingInv'
  BY <1>3, <1>4, PhasesKept
<1>6. ~InFlight(t)'
  BY <1>3, <1>4 DEF InFlight
<1>7. UNCHANGED <<objectVars, head, tracking, remote, refused>>
  BY <1>2 DEF repoVars
<1>8. InFlightInv' /\ RefusedInv'
  BY <1>3, <1>4, <1>6, <1>7, RefsPublished, NothingLands
<1> QED
  BY <1>2, <1>5, <1>8, AckedKept DEF AnswerInv

\* The commit inserted is new to every ref and to every thread.
LEMMA InsertAnswers ==
  ASSUME TypeInv, HistoryInv, AnswerInv, HeadsGrow, NEW t \in Threads, InsertCommit(t)
  PROVE  AnswerInv'
<1> DEFINE base == head[Node(t)]
<1>1. /\ base \in Commits /\ next \in Commits /\ base < next /\ next' = next + 1 /\ next \in Nat
      /\ next >= 2
  BY NodeOfThread
  DEF InsertCommit, HistoryInv, Histories, RefsInserted, NodeRefs, TypeInv, TypeOK
<1>2. past'[next] = past[base] \cup {next} /\ \A c \in Commits \ {next} : past'[c] = past[c]
  BY <1>1 DEF InsertCommit, TypeInv, TypeOK
<1>3. /\ \A u \in Threads \ {t} : local'[u] = local[u] /\ pc'[u] = pc[u] /\ req'[u] = req[u]
      /\ local'[t].base = base /\ local'[t].new = next /\ local'[t].src = local[t].src
      /\ pc'[t] = "note"
  BY DEF InsertCommit, Goto, TypeInv, TypeOK, Locals
<1>4. UNCHANGED <<head, tracking, remote, refused, acked>>
  BY DEF InsertCommit, repoVars, historyVars
<1>5. PushingInv' /\ BatchingInv'
  BY <1>3, PhasesKept
<1>6. ASSUME NEW p \in Commits, Published(p)' PROVE Published(p)
  <2>1. CASE \E u \in Threads \ {t} : \/ p = local'[u].base \/ p = local'[u].src.head
                                      \/ pc'[u] = "forward" /\ p = local'[u].new
    BY <1>3, <2>1 DEF Published
  <2>2. CASE \/ p = local'[t].base \/ p = local'[t].src.head
             \/ pc'[t] = "forward" /\ p = local'[t].new
    BY <1>3, <2>2, NodeOfThread DEF Published
  <2>3. CASE p = 1 \/ p = remote'.head \/ \E n \in Nodes : p = head'[n] \/ p = tracking'[n]
    BY <1>4, <2>3 DEF Published
  <2> QED
    BY <1>6, <2>1, <2>2, <2>3 DEF Published
<1>7. ASSUME NEW p \in Commits, Published(p) PROVE p < next
  BY <1>1, <1>7 DEF Published, HistoryInv, RefsInserted, NodeRefs, LocalRefs
<1>8. ASSUME NEW c, Landed(c)' PROVE Landed(c) /\ c < next
  <2>1. PICK p \in Commits : Published(p)' /\ c \in past'[p]
    BY <1>8 DEF Landed
  <2>2. Published(p) /\ p < next
    BY <1>6, <1>7, <2>1
  <2>3. c \in past[p]
    BY <1>1, <1>2, <2>1, <2>2 DEF Commits
  <2> QED
    BY <2>2, <2>3 DEF Landed, HistoryInv, Histories
<1>9. \A c \in refused : c < next
  BY DEF AnswerInv, RefusedInv
<1>10. ~(next < next)
  BY <1>1
<1>11. \A u \in Threads : local[u].new \in Commits /\ local[u].new < next /\ local[u].base \in Commits
                          /\ local[u].base < next
  BY DEF HistoryInv, RefsInserted, LocalRefs, TypeInv, TypeOK, Locals
<1>12. OwnCommit(t)'
  <2>1. past'[local'[t].new] = past'[local'[t].base] \cup {local'[t].new}
    <3>1. base # next
      BY <1>1, <1>10
    <3> QED
      BY <1>1, <1>2, <1>3, <3>1
  <2>2. ~Landed(local[t].new)'
    BY <1>3, <1>8, <1>10
  <2>3. local'[t].new \notin refused'
    BY <1>3, <1>4, <1>9, <1>10
  <2>4. \A u \in Threads \ {t} : local'[u].new # local'[t].new
    BY <1>3, <1>10, <1>11
  <2> QED
    BY <2>1, <2>2, <2>3, <2>4 DEF OwnCommit
<1>13. ASSUME NEW u \in Threads \ {t}, InFlight(u)' PROVE OwnCommit(u)'
  <2>1. InFlight(u) /\ OwnCommit(u)
    BY <1>3, <1>13 DEF InFlight, AnswerInv, InFlightInv
  <2>2. past'[local'[u].new] = past'[local'[u].base] \cup {local'[u].new}
    BY <1>2, <1>3, <1>10, <1>11, <2>1 DEF OwnCommit
  <2>3. ~Landed(local[u].new)'
    BY <1>3, <1>8, <2>1 DEF OwnCommit
  <2>4. local'[u].new \notin refused'
    BY <1>3, <1>4, <2>1 DEF OwnCommit
  <2>5. \A v \in Threads \ {u} : InFlight(v)' => local'[v].new # local'[u].new
    BY <1>3, <1>10, <1>11, <2>1 DEF OwnCommit, InFlight
  <2> QED
    BY <2>2, <2>3, <2>4, <2>5 DEF OwnCommit
<1>14. InFlightInv'
  BY <1>12, <1>13 DEF InFlightInv
<1>15. RefusedInv'
  <2> SUFFICES ASSUME NEW c \in refused PROVE c < next' /\ ~Landed(c)'
    BY <1>4 DEF RefusedInv
  <2>1. c \in Commits /\ c < next /\ ~Landed(c)
    BY DEF AnswerInv, RefusedInv, TypeInv, TypeOK
  <2>2. c < next'
    BY <1>1, <2>1 DEF Commits
  <2> QED
    BY <1>8, <2>1, <2>2
<1> QED
  BY <1>4, <1>5, <1>14, <1>15, AckedKept DEF AnswerInv

LEMMA CommitAnswers ==
  ASSUME TypeInv, HistoryInv, AnswerInv, HeadsGrow, NEW t \in Threads, Commit(t),
         ~InsertCommit(t)
  PROVE  AnswerInv'
<1> USE RefsPublished DEF repoVars
<1>1. CASE Check(t)
  <2>1. CASE Return(t)
    BY <1>1, <2>1, ReturnAnswers, AckedKept DEF Check, AnswerInv, AnswerFrame, historyVars
  <2>2. CASE Goto(t, "commit") /\ UNCHANGED <<req, local>>
    BY <1>1, <2>2, GotoAnswers, AckedKept DEF Check, AnswerInv, AnswerFrame, historyVars
  <2> QED
    BY <1>1, <2>1, <2>2 DEF Check
<1>2. CASE ReadNotes(t)
  <2> DEFINE l == [local[t] EXCEPT !.seen = notes[Node(t)]]
  <2>1. l \in Locals
    BY SetSeen, NodeOfThread DEF TypeInv, TypeOK
  <2>2. l.base = local[t].base /\ l.new = local[t].new /\ Published(l.src.head)
    BY DEF TypeInv, TypeOK, Locals
  <2>3. local' = [local EXCEPT ![t] = l] /\ Goto(t, "annotate") /\ UNCHANGED objectVars
    BY <1>2 DEF ReadNotes
  <2>4. UNCHANGED <<head, tracking, remote, req, refused, acked>> /\ InFlight(t)
    BY <1>2 DEF ReadNotes, historyVars, InFlight
  <2>5. AnswerFrame
    BY <2>1, <2>2, <2>3, <2>4, SetAnswers
  <2> QED
    BY <2>4, <2>5, AckedKept DEF AnswerInv, AnswerFrame
<1>3. CASE WriteNotes(t)
  BY <1>3, GotoAnswers, AckedKept DEF WriteNotes, AnswerInv, AnswerFrame, historyVars, InFlight
<1>4. CASE CommitFails(t)
  BY <1>4, ReturnAnswers, AckedKept DEF CommitFails, Throw, AnswerInv, AnswerFrame, InFlight
<1>5. CASE MoveRefused(t)
  BY <1>5, ReturnAnswers, AckedKept DEF MoveRefused, Throw, AnswerInv, AnswerFrame, InFlight
<1>6. CASE MoveBranch(t)
  <2> DEFINE new == local[t].new
  <2>1. InFlight(t) /\ OwnCommit(t)
    BY <1>6 DEF MoveBranch, InFlight, AnswerInv, InFlightInv
  <2>2. /\ \A u \in Threads \ {t} : pc'[u] = pc[u]
        /\ pc'[t] \in {"fetch", "push"}
    BY <1>6 DEF MoveBranch, Goto, TypeInv, TypeOK
  <2>3. UNCHANGED <<objectVars, local, req, tracking, remote, refused, acked>>
    BY <1>6 DEF MoveBranch
  <2>4. past' = past /\ next' = next
    BY <2>3 DEF objectVars
  <2>5. head'[Node(t)] = new /\ \A n \in Nodes \ {Node(t)} : head'[n] = head[n]
    BY <1>6, NodeOfThread DEF MoveBranch, TypeInv, TypeOK
  <2>6. ASSUME NEW p \in Commits, Published(p)' PROVE Published(p) \/ p = new
    BY <2>2, <2>3, <2>5, <2>6 DEF Published
  <2>7. ASSUME NEW c, Landed(c)' PROVE Landed(c) \/ c = new
    <3>1. PICK p \in Commits : Published(p)' /\ c \in past[p]
      BY <2>4, <2>7 DEF Landed
    <3>2. CASE Published(p)
      BY <3>1, <3>2 DEF Landed
    <3>3. CASE p = new
      <4>1. c \in past[local[t].base] \/ c = new
        BY <2>1, <3>1, <3>3 DEF OwnCommit
      <4>2. local[t].base \in Commits
        BY DEF TypeInv, TypeOK, Locals
      <4> QED
        BY <4>1, <4>2 DEF Landed
    <3> QED
      BY <2>6, <3>1, <3>2, <3>3
  <2>8. ASSUME NEW u \in Threads, InFlight(u)' PROVE OwnCommit(u)'
    <3>1. u # t /\ InFlight(u) /\ OwnCommit(u)
      BY <2>2, <2>8 DEF InFlight, AnswerInv, InFlightInv
    <3>2. local[u].new # new /\ ~Landed(local[u].new)
      BY <2>1, <3>1 DEF OwnCommit
    <3>3. ~Landed(local[u].new)'
      BY <2>3, <2>7, <3>2
    <3>4. \A v \in Threads \ {u} : InFlight(v)' => local[v].new # local[u].new
      BY <2>2, <3>1 DEF OwnCommit, InFlight
    <3> QED
      BY <2>3, <2>4, <3>1, <3>3, <3>4 DEF OwnCommit
  <2>9. RefusedInv'
    <3> SUFFICES ASSUME NEW c \in refused PROVE c < next' /\ ~Landed(c)'
      BY <2>3 DEF RefusedInv
    <3>1. c < next /\ ~Landed(c) /\ c # new
      BY <2>1 DEF AnswerInv, RefusedInv, OwnCommit
    <3> QED
      BY <2>4, <2>7, <3>1
  <2>10. PushingInv'
    <3>1. new \in past[new]
      BY <2>1 DEF OwnCommit
    <3>2. ASSUME NEW u \in Threads \ {t}, pc'[u] \in {"push", "defer", "send"},
                 req'[u].op \in Writes
          PROVE  local'[u].new \in past'[head'[Node(u)]]
      BY <2>2, <2>3, <3>2, NodeOfThread DEF AnswerInv, PushingInv, HeadsGrow
    <3> QED
      BY <2>3, <2>4, <2>5, <3>1, <3>2 DEF PushingInv, Node
  <2>11. BatchingInv'
    BY <2>2, <2>3 DEF AnswerInv, BatchingInv
  <2> QED
    BY <2>3, <2>8, <2>9, <2>10, <2>11, AckedKept DEF AnswerInv, InFlightInv
<1> QED
  BY <1>1, <1>2, <1>3, <1>4, <1>5, <1>6 DEF Commit

LEMMA PushThrowsAnswers ==
  ASSUME TypeInv, HistoryInv, AnswerInv, HeadsGrow, NEW t \in Threads, PushThrows(t),
         pc[t] \in {"push", "send"}, UNCHANGED <<objectVars, head, tracking>>,
         Published(remote'.head)
  PROVE  AnswerInv'
<1> USE RefsPublished
<1>1. CASE Finish(t)
  BY <1>1, FinishAcks, ReturnAnswers DEF AnswerInv, AnswerFrame
<1>2. CASE req[t].op \notin Writes /\ Throw(t)
  BY <1>2, ReturnAnswers, AckedKept DEF Throw, AnswerInv, AnswerFrame
<1>3. CASE /\ req[t].op = "end" /\ Goto(t, "switch-again")
           /\ UNCHANGED <<req, local, acked, refused>>
  <2>1. req[t].op \notin Writes
    BY <1>3 DEF Writes
  <2> QED
    BY <1>3, <2>1, GotoAnswers, AckedKept DEF AnswerInv, AnswerFrame
<1> QED
  BY <1>1, <1>2, <1>3 DEF PushThrows, Swallows

LEMMA PushAnswers ==
  ASSUME TypeInv, HistoryInv, AnswerInv, HeadsGrow, NEW t \in Threads, Pushing(t)
  PROVE  AnswerInv'
<1> USE RefsPublished DEF repoVars
<1>1. CASE Push(t)
  <2> DEFINE src == [head |-> head[Node(t)], notes |-> notes[Node(t)]]
             l == [local[t] EXCEPT !.src = src]
  <2>1. CASE batch[Node(t)]
    BY <1>1, <2>1, GotoAnswers, AckedKept DEF Push, AnswerInv, AnswerFrame, historyVars
  <2>2. CASE ~batch[Node(t)]
    <3>1. src \in Refs /\ Published(src.head)
      BY NodeOfThread DEF TypeInv, TypeOK, Refs
    <3>2. l \in Locals
      BY <3>1, SetSrc DEF TypeInv, TypeOK
    <3>3. l.base = local[t].base /\ l.new = local[t].new /\ Published(l.src.head)
      BY <3>1 DEF TypeInv, TypeOK, Locals
    <3>4. local' = [local EXCEPT ![t] = l] /\ Goto(t, "send") /\ UNCHANGED objectVars
      BY <1>1, <2>2 DEF Push
    <3>5. UNCHANGED <<head, tracking, remote, req, refused, acked>> /\ pc[t] = "push"
      BY <1>1 DEF Push, historyVars
    <3>6. AnswerFrame
      BY <3>2, <3>3, <3>4, <3>5, SetAnswers
    <3> QED
      BY <3>5, <3>6, AckedKept DEF AnswerInv, AnswerFrame
  <2> QED
    BY <2>1, <2>2
<1>2. CASE Defer(t)
  BY <1>2, FinishAcks, ReturnAnswers DEF Defer, AnswerInv, AnswerFrame
<1>3. CASE Send(t)
  BY <1>3, FinishAcks, ReturnAnswers DEF Send, AnswerInv, AnswerFrame
<1>4. CASE SendRejected(t)
  <2>1. Published(remote'.head)
    <3>1. remote'.head \in {remote.head, local[t].src.head}
      BY <1>4 DEF SendRejected, TypeInv, TypeOK, Refs
    <3> QED
      BY <3>1
  <2> QED
    BY <1>4, <2>1, FinishAcks, ReturnAnswers DEF SendRejected, AnswerInv, AnswerFrame
<1>5. CASE SendFails(t)
  <2>1. Published(remote'.head)
    <3>1. remote'.head \in {remote.head, local[t].src.head}
      BY <1>5 DEF SendFails, TypeInv, TypeOK, Refs
    <3> QED
      BY <3>1
  <2> QED
    BY <1>5, <2>1, PushThrowsAnswers DEF SendFails
<1>6. CASE NothingToSend(t)
  BY <1>6, PushThrowsAnswers DEF NothingToSend
<1> QED
  BY <1>1, <1>2, <1>3, <1>4, <1>5, <1>6 DEF Pushing

LEMMA BatchAnswers ==
  ASSUME TypeInv, HistoryInv, AnswerInv, HeadsGrow, NEW t \in Threads, Batching(t)
  PROVE  AnswerInv'
<1> USE RefsPublished DEF repoVars
<1>1. CASE SwitchOn(t)
  BY <1>1, GotoAnswers, AckedKept DEF SwitchOn, AnswerInv, AnswerFrame, historyVars
<1>2. CASE ClearPending(t)
  BY <1>2, ReturnAnswers, AckedKept DEF ClearPending, AnswerInv, AnswerFrame, historyVars
<1>3. ASSUME NEW due \in BOOLEAN, NEW step \in {"switch", "push"}, Goto(t, step),
             local' = [local EXCEPT ![t] = [local[t] EXCEPT !.due = due]],
             UNCHANGED <<objectVars, head, tracking, remote, req, refused, acked>>,
             pc[t] \in {"end", "clear"}
      PROVE  AnswerInv'
  <2> DEFINE l == [local[t] EXCEPT !.due = due]
  <2>1. l \in Locals
    BY SetDue DEF TypeInv, TypeOK
  <2>2. l.base = local[t].base /\ l.new = local[t].new /\ Published(l.src.head)
    BY DEF TypeInv, TypeOK, Locals
  <2>3. req[t].op \notin Writes
    BY <1>3 DEF AnswerInv, BatchingInv
  <2>4. AnswerFrame
    BY <1>3, <2>1, <2>2, <2>3, SetAnswers
  <2> QED
    BY <1>3, <2>4, AckedKept DEF AnswerInv, AnswerFrame
<1>4. CASE ReadPending(t)
  <2>1. pending[Node(t)] \in BOOLEAN
    BY NodeOfThread DEF TypeInv, TypeOK
  <2> QED
    BY <1>3, <1>4, <2>1 DEF ReadPending, HasPending, historyVars
<1>5. CASE SwitchOff(t)
  <2>1. PICK step \in {"clear", "clear-again"} :
          Goto(t, step) /\ (step = "clear" => req[t].op \notin Writes)
    BY <1>5 DEF SwitchOff, AnswerInv, BatchingInv
  <2> QED
    BY <1>5, <2>1, GotoAnswers, AckedKept DEF SwitchOff, AnswerInv, AnswerFrame, historyVars
<1>6. CASE EndBatch(t)
  <2>1. CASE local[t].due
    BY <1>3, <1>6, <2>1 DEF EndBatch, historyVars
  <2>2. CASE ~local[t].due
    BY <1>6, <2>2, ReturnAnswers, AckedKept DEF EndBatch, AnswerInv, AnswerFrame, historyVars
  <2> QED
    BY <2>1, <2>2
<1> QED
  BY <1>1, <1>2, <1>4, <1>5, <1>6 DEF Batching

LEMMA AfterFetchAnswers ==
  ASSUME TypeInv, HistoryInv, AnswerInv, HeadsGrow, NEW t \in Threads, AfterFetch(t),
         UNCHANGED <<objectVars, head, tracking, remote, refused, acked>>
  PROVE  AnswerInv'
<1> USE RefsPublished
<1>1. CASE Return(t)
  BY <1>1, ReturnAnswers, AckedKept DEF AnswerInv, AnswerFrame
<1>2. CASE Goto(t, "compare") /\ UNCHANGED <<req, local>>
  BY <1>2, GotoAnswers, AckedKept DEF AnswerInv, AnswerFrame
<1> QED
  BY <1>1, <1>2 DEF AfterFetch, Pulled

LEMMA PullAnswers ==
  ASSUME TypeInv, HistoryInv, AnswerInv, HeadsGrow, NEW t \in Threads, Pulling(t)
  PROVE  AnswerInv'
<1> USE RefsPublished DEF repoVars
<1>1. CASE FetchBranch(t)
  <2>1. \A n \in Nodes : Published(tracking'[n])
    BY <1>1 DEF FetchBranch, TypeInv, TypeOK
  <2> QED
    BY <1>1, <2>1, GotoAnswers, AckedKept DEF FetchBranch, AnswerInv, AnswerFrame, historyVars
<1>2. CASE FetchFails(t)
  BY <1>2, ReturnAnswers, AckedKept DEF FetchFails, Pulled, AnswerInv, AnswerFrame
<1>3. CASE FetchNotes(t)
  BY <1>3, AfterFetchAnswers DEF FetchNotes, historyVars
<1>4. CASE FetchNotesFails(t)
  BY <1>4, AfterFetchAnswers DEF FetchNotesFails
<1>5. CASE UpToDateOrDiverged(t)
  BY <1>5, ReturnAnswers, AckedKept
  DEF UpToDateOrDiverged, Pulled, AnswerInv, AnswerFrame, historyVars
<1>6. CASE Forwardable(t)
  <2> DEFINE l == [local[t] EXCEPT !.base = head[Node(t)], !.new = tracking[Node(t)]]
  <2>1. local' = [local EXCEPT ![t] = l] /\ pc' = [pc EXCEPT ![t] = "forward"]
    BY <1>6 DEF Forwardable, Goto
  <2>2. /\ \A u \in Threads \ {t} : pc'[u] = pc[u] /\ local'[u] = local[u]
        /\ pc'[t] = "forward" /\ local'[t] = l
    BY <2>1 DEF TypeInv, TypeOK
  <2>3. l.base = head[Node(t)] /\ l.new = tracking[Node(t)] /\ l.src = local[t].src
    BY DEF TypeInv, TypeOK, Locals
  <2>4. UNCHANGED <<objectVars, req, head, tracking, remote, refused, acked>>
    BY <1>6 DEF Forwardable, historyVars
  <2>5. PushingInv' /\ BatchingInv'
    BY <2>2, <2>4, PhasesKept
  <2>6. ~InFlight(t)'
    BY <2>2 DEF InFlight
  <2>7. /\ Published(local'[t].base) /\ Published(local'[t].new)
        /\ Published(local'[t].src.head)
    BY <2>2, <2>3, NodeOfThread
  <2>8. InFlightInv' /\ RefusedInv'
    BY <2>2, <2>4, <2>6, <2>7, NothingLands
  <2> QED
    BY <2>4, <2>5, <2>8, AckedKept DEF AnswerInv
<1>7. CASE FastForward(t)
  <2>1. Published(local[t].new)
    BY <1>7 DEF FastForward, Published
  <2>2. \A n \in Nodes : Published(head'[n])
    BY <1>7, <2>1 DEF FastForward, TypeInv, TypeOK
  <2> QED
    BY <1>7, <2>2, ReturnAnswers, AckedKept
    DEF FastForward, Pulled, AnswerInv, AnswerFrame, historyVars
<1> QED
  BY <1>1, <1>2, <1>3, <1>4, <1>5, <1>6, <1>7 DEF Pulling

LEMMA CrashAnswers ==
  ASSUME TypeInv, HistoryInv, AnswerInv, HeadsGrow, NEW m \in Nodes, Crash(m)
  PROVE  AnswerInv'
<1>1. \A t \in Threads :
        \/ pc'[t] = pc[t] /\ local'[t] = local[t] /\ req'[t] = req[t]
        \/ pc'[t] = "idle" /\ local'[t] = Fresh
  BY DEF Crash
<1>2. UNCHANGED <<objectVars, head, tracking, remote, refused, acked>>
  BY DEF Crash, repoVars
<1>3. past' = past /\ next' = next
  BY <1>2 DEF objectVars
<1>4. ASSUME NEW p \in Commits, Published(p)' PROVE Published(p)
  <2>1. Fresh.base = 1 /\ Fresh.src.head = 1
    BY DEF Fresh
  <2> QED
    BY <1>1, <1>2, <1>4, <2>1 DEF Published
<1>5. ASSUME NEW c, ~Landed(c) PROVE ~Landed(c)'
  BY <1>3, <1>4, <1>5 DEF Landed
<1>6. \A t \in Threads : InFlight(t)' => InFlight(t) /\ local'[t] = local[t]
  BY <1>1 DEF InFlight
<1>7. ASSUME NEW t \in Threads, InFlight(t)' PROVE OwnCommit(t)'
  <2>1. OwnCommit(t) /\ local'[t] = local[t]
    BY <1>6, <1>7 DEF AnswerInv, InFlightInv
  <2>2. ~Landed(local[t].new)'
    BY <1>5, <2>1 DEF OwnCommit
  <2> QED
    BY <1>2, <1>3, <1>6, <2>1, <2>2 DEF OwnCommit
<1>8. RefusedInv'
  BY <1>2, <1>3, <1>5 DEF AnswerInv, RefusedInv
<1>9. PushingInv' /\ BatchingInv'
  BY <1>1, <1>2, <1>3 DEF AnswerInv, PushingInv, BatchingInv, Node
<1> QED
  BY <1>2, <1>7, <1>8, <1>9, AckedKept DEF AnswerInv, InFlightInv

LEMMA StepAnswers == ASSUME TypeInv, HistoryInv, AnswerInv, [Next]_vars PROVE AnswerInv'
<1>1. CASE UNCHANGED vars
  BY <1>1
  DEF vars, repoVars, objectVars, historyVars, AnswerInv, InFlightInv, InFlight, OwnCommit,
      Landed, Published, RefusedInv, AckedInv, PushingInv, BatchingInv, Node
<1>2. CASE Next
  BY <1>2, StepGrows, CallAnswers, InsertAnswers, CommitAnswers, PushAnswers, BatchAnswers,
     PullAnswers, CrashAnswers DEF Next
<1> QED
  BY <1>1, <1>2

\* A write answered without an exception is in the history of its node for good,
\* and one answered with an exception never reaches a branch, a tracking ref or
\* the remote: the answer is decided by the compare-and-swap of the branch alone.
THEOREM AnswersTrue == Spec => []AnsweredTruly
<1>1. Init => AnswerInv
  BY InitAnswers
<1>2. TypeInv /\ HistoryInv /\ AnswerInv /\ [Next]_vars => AnswerInv'
  BY StepAnswers
<1>3. TypeInv /\ HistoryInv /\ AnswerInv => AnsweredTruly
  <2> SUFFICES ASSUME TypeInv, HistoryInv, AnswerInv, NEW n \in Nodes
               PROVE  acked[n] \subseteq past[head[n]] /\ refused \cap past[head[n]] = {}
    BY DEF AnsweredTruly
  <2>1. head[n] \in Commits /\ Published(head[n])
    BY DEF TypeInv, TypeOK, Published
  <2>2. ASSUME NEW c \in refused PROVE c \notin past[head[n]]
    BY <2>1, <2>2 DEF AnswerInv, RefusedInv, Landed
  <2> QED
    BY <2>2 DEF AnswerInv, AckedInv
<1> QED
  BY <1>1, <1>2, <1>3, HistoryInvariant, PTL DEF Spec

-----------------------------------------------------------------------------
(* Batches *)

\* Whoever keeps the batch mode on has not reached the end of its batch.
HeldInv ==
  \A n \in Nodes : batch[n] =>
    \E t \in Threads : Node(t) = n /\ inBatch[t] > 0 /\ pc[t] # "clear"

\* A step of one thread that does not touch the batch variables.
LEMMA OthersHold ==
  ASSUME TypeInv, HeldInv, NEW t \in Threads, UNCHANGED <<batch, inBatch>>,
         \E step \in PCs \ {"clear"} : pc' = [pc EXCEPT ![t] = step]
  PROVE  HeldInv'
<1>1. PICK step \in PCs \ {"clear"} : pc' = [pc EXCEPT ![t] = step]
  OBVIOUS
<1>2. \A u \in Threads : pc[u] # "clear" => pc'[u] # "clear"
  BY <1>1 DEF TypeInv, TypeOK
<1> QED
  BY <1>2 DEF HeldInv, Node

LEMMA CallHolds == ASSUME TypeInv, HeldInv, NEW t \in Threads, Calls(t) PROVE HeldInv'
<1>1. PICK r \in Requests : Start(t, r)
  BY CallStarts
<1>2. Entry[r.op] \in PCs \ {"clear"}
  BY DEF Requests, AllOps, Entry, PCs
<1> QED
  BY <1>1, <1>2, OthersHold DEF Start, Goto, batchVars

LEMMA GoingHolds == ASSUME TypeInv, HeldInv, NEW t \in Threads, Going(t) PROVE HeldInv'
  BY OthersHold DEF Going, Leaving

LEMMA BatchHolds == ASSUME TypeInv, HeldInv, NEW t \in Threads, Batching(t) PROVE HeldInv'
<1>1. CASE SwitchOn(t)
  <2>1. /\ batch' = [batch EXCEPT ![Node(t)] = TRUE]
        /\ inBatch' = [inBatch EXCEPT ![t] = @ + 1]
        /\ pc' = [pc EXCEPT ![t] = "clear-begin"]
    BY <1>1 DEF SwitchOn, Goto
  <2>2. inBatch'[t] > 0 /\ pc'[t] # "clear"
    BY <2>1 DEF TypeInv, TypeOK
  <2>3. ASSUME NEW n \in Nodes, n # Node(t), batch'[n]
        PROVE  \E u \in Threads : Node(u) = n /\ inBatch'[u] > 0 /\ pc'[u] # "clear"
    <3>1. batch[n]
      BY <2>1, <2>3 DEF TypeInv, TypeOK
    <3>2. PICK u \in Threads : Node(u) = n /\ inBatch[u] > 0 /\ pc[u] # "clear"
      BY <3>1 DEF HeldInv
    <3>3. inBatch'[u] > 0 /\ pc'[u] # "clear"
      BY <2>1, <2>3, <3>2 DEF TypeInv, TypeOK
    <3> QED
      BY <3>2, <3>3
  <2> QED
    BY <2>2, <2>3 DEF HeldInv, Node
<1>2. CASE ClearPending(t) \/ ReadPending(t)
  <2>1. UNCHANGED <<batch, inBatch>>
    BY <1>2 DEF ClearPending, ReadPending, batchVars
  <2>2. \E step \in PCs \ {"clear"} : pc' = [pc EXCEPT ![t] = step]
    BY <1>2 DEF ClearPending, ReadPending, Return, Goto, PCs
  <2> QED
    BY <2>1, <2>2, OthersHold
<1>3. CASE SwitchOff(t)
  <2>1. /\ batch' = [batch EXCEPT ![Node(t)] = FALSE] /\ inBatch' = inBatch
        /\ \A u \in Threads \ {t} : pc'[u] = pc[u]
    BY <1>3 DEF SwitchOff, Goto, TypeInv, TypeOK
  <2>2. ASSUME NEW n \in Nodes, batch'[n]
        PROVE  \E u \in Threads : Node(u) = n /\ inBatch'[u] > 0 /\ pc'[u] # "clear"
    <3>1. n # Node(t) /\ batch[n]
      BY <2>1, <2>2, NodeOfThread DEF TypeInv, TypeOK
    <3>2. PICK u \in Threads : Node(u) = n /\ inBatch[u] > 0 /\ pc[u] # "clear"
      BY <3>1 DEF HeldInv
    <3>3. u # t
      BY <3>1, <3>2
    <3> QED
      BY <2>1, <3>2, <3>3
  <2> QED
    BY <2>2 DEF HeldInv, Node
<1>4. CASE EndBatch(t)
  <2>1. /\ pc[t] = "clear" /\ batch' = batch
        /\ inBatch' = [inBatch EXCEPT ![t] = @ - 1]
    BY <1>4 DEF EndBatch
  <2>2. pc' = [pc EXCEPT ![t] = "push"] \/ pc' = [pc EXCEPT ![t] = "idle"]
    BY <1>4 DEF EndBatch, Return, Goto
  <2>3. ASSUME NEW u \in Threads, inBatch[u] > 0, pc[u] # "clear"
        PROVE  inBatch'[u] > 0 /\ pc'[u] # "clear"
    <3>1. u # t
      BY <2>1, <2>3
    <3> QED
      BY <2>1, <2>2, <2>3, <3>1 DEF TypeInv, TypeOK
  <2> QED
    BY <2>1, <2>3 DEF HeldInv, Node
<1> QED
  BY <1>1, <1>2, <1>3, <1>4 DEF Batching

LEMMA CrashHolds == ASSUME TypeInv, HeldInv, NEW n \in Nodes, Crash(n) PROVE HeldInv'
<1>1. /\ batch' = [batch EXCEPT ![n] = FALSE]
      /\ pc' = [t \in Threads |-> IF Node(t) = n THEN "idle" ELSE pc[t]]
      /\ inBatch' = [t \in Threads |-> IF Node(t) = n THEN 0 ELSE inBatch[t]]
  BY DEF Crash
<1>2. ASSUME NEW m \in Nodes, batch'[m]
      PROVE  \E u \in Threads : Node(u) = m /\ inBatch'[u] > 0 /\ pc'[u] # "clear"
  <2>1. m # n /\ batch[m]
    BY <1>1, <1>2 DEF TypeInv, TypeOK
  <2>2. PICK u \in Threads : Node(u) = m /\ inBatch[u] > 0 /\ pc[u] # "clear"
    BY <2>1 DEF HeldInv
  <2>3. inBatch'[u] > 0 /\ pc'[u] # "clear"
    BY <1>1, <2>1, <2>2
  <2> QED
    BY <2>2, <2>3
<1> QED
  BY <1>2 DEF HeldInv, Node

LEMMA StepHolds == ASSUME TypeInv, HeldInv, [Next]_vars PROVE HeldInv'
<1>1. CASE UNCHANGED vars
  BY <1>1 DEF vars, batchVars, HeldInv, Node
<1>2. CASE Next
  BY <1>2, CallHolds, CommitGoes, PushGoes, PullGoes, GoingHolds, BatchHolds, CrashHolds
     DEF Next
<1> QED
  BY <1>1, <1>2

\* The batch mode is on only while a with-batch of its node runs: an exception in
\* the body or in the push at its end, the batches of other threads and a crash
\* leave no process that puts off every later push.
THEOREM BatchesHeld == Spec => []BatchHeld
<1>1. Init => HeldInv
  BY DEF Init, HeldInv
<1>2. TypeInv /\ HeldInv /\ [Next]_vars => HeldInv'
  BY StepHolds
<1>3. HeldInv => BatchHeld
  BY DEF HeldInv, BatchHeld
<1> QED
  BY <1>1, <1>2, <1>3, TypeInvariant, PTL DEF Spec

-----------------------------------------------------------------------------
(* Turns *)

\* As long as no two calls overlap, one thread at most has something under way.
OneAtWork == \A t, u \in Threads : ~Idle(t) /\ ~Idle(u) => t = u

\* No process has died, so none is opened again.
NoRestart == \A t \in Threads : up[Node(t)] /\ req[t].op \notin {"create", "open"}

\* What the thread at work has read is still so.
AtWork(t) ==
  LET n == Node(t)
      l == local[t]
  IN /\ InFlight(t) => l.base = head[n]
     /\ pc[t] = "annotate" => l.seen = notes[n]
     /\ pc[t] = "move" => notes[n] # {}
     /\ pc[t] = "defer" => inBatch[t] > 0
     /\ pc[t] = "send" => l.src.head = head[n] /\ l.src.notes # {}
     /\ pc[t] \in {"fetch-notes", "compare", "forward"} => tracking[n] = remote.head
     /\ pc[t] = "forward" => /\ l.base = head[n] /\ l.new = remote.head
                             /\ head[n] \in past[remote.head]

\* A push of thread t is still to come: it is under way, put off by the batch t is
\* in, or handed over by the end of that batch.
Owes(t) ==
  \/ pc[t] \in {"push", "send", "defer"}
  \/ /\ inBatch[t] > 0 /\ pending[Node(t)]
     /\ pc[t] \notin {"clear-begin", "switch", "clear", "switch-again", "clear-again"}
  \/ pc[t] \in {"switch", "clear"} /\ local[t].due

\* A remote that is not at the head of the last writer does not have that head at
\* all, so that no pull overtakes the push, and the writer has notes to send.
Behind == remote.head # head[writer]
Lagging == head[writer] \notin past[remote.head] /\ notes[writer] # {}
PaidBy(t) == Behind => Lagging /\ Node(t) = writer /\ Owes(t)

Turns ==
  /\ OneAtWork /\ NoRestart /\ remote.notes # {}
  /\ \A t \in Threads : AtWork(t)
  /\ Behind => Lagging /\ \E t \in Threads : Node(t) = writer /\ Owes(t)
TurnsInv == alone /\ ~nested => Turns

\* The turn of one thread.
TurnOf(t) == OthersIdle(t) /\ NoRestart /\ remote.notes # {} /\ AtWork(t) /\ PaidBy(t)

LEMMA TurnTaken ==
  ASSUME Turns, NEW t \in Threads, OthersIdle(t)
  PROVE  TurnOf(t)
<1>1. \A u \in Threads \ {t} : ~Owes(u)
  BY DEF OthersIdle, Idle, Owes
<1> QED
  BY <1>1 DEF Turns, TurnOf, PaidBy

LEMMA AtWorkAlone ==
  ASSUME Turns, NEW t \in Threads, ~Idle(t)
  PROVE  TurnOf(t)
<1>1. OthersIdle(t)
  BY DEF Turns, OneAtWork, OthersIdle
<1> QED
  BY <1>1, TurnTaken

\* The state a step leads to, where only its thread has something under way.
LEMMA TurnGiven ==
  ASSUME NEW t \in Threads, TurnOf(t)'
  PROVE  Turns'
<1>1. OneAtWork'
  BY DEF TurnOf, OthersIdle, OneAtWork
<1>2. ASSUME NEW u \in Threads PROVE AtWork(u)'
  <2>1. CASE u = t
    BY <2>1 DEF TurnOf
  <2>2. CASE u # t
    <3>1. pc'[u] = "idle"
      BY <2>2 DEF TurnOf, OthersIdle, Idle
    <3> QED
      BY <3>1 DEF AtWork, InFlight
  <2> QED
    BY <2>1, <2>2
<1> QED
  BY <1>1, <1>2 DEF TurnOf, PaidBy, Turns

\* A step touches the variables of its own thread only.
LEMMA OthersStay ==
  ASSUME TypeInv, NEW t \in Threads, TurnOf(t),
         \A u \in Threads \ {t} : pc'[u] = pc[u] /\ req'[u] = req[u] /\ inBatch'[u] = inBatch[u],
         req'[t].op \notin {"create", "open"},
         \A n \in Nodes : up[n] => up'[n]
  PROVE  OthersIdle(t)' /\ NoRestart'
<1>1. OthersIdle(t)'
  BY DEF TurnOf, OthersIdle, Idle
<1>2. ASSUME NEW u \in Threads PROVE up'[Node(u)] /\ req'[u].op \notin {"create", "open"}
  BY NodeOfThread DEF TurnOf, NoRestart
<1> QED
  BY <1>1, <1>2 DEF NoRestart, Node

\* A step that moves neither the heads nor the remote leaves the debt with the thread.
LEMMA DebtStays ==
  ASSUME TypeInv, HistoryInv, NEW t \in Threads, TurnOf(t), UNCHANGED <<head, remote, writer>>,
         past'[remote.head] = past[remote.head],
         notes[writer] # {} => notes'[writer] # {},
         Behind /\ Owes(t) => Owes(t)'
  PROVE  PaidBy(t)'
<1>1. Lagging => Lagging'
  BY DEF Lagging
<1>2. Behind' = Behind
  BY DEF Behind
<1> QED
  BY <1>1, <1>2 DEF PaidBy, TurnOf, Node

LEMMA ReturnStays ==
  ASSUME TypeInv, NEW t \in Threads, TurnOf(t), Return(t), UNCHANGED inBatch,
         \A n \in Nodes : up[n] => up'[n]
  PROVE  OthersIdle(t)' /\ NoRestart' /\ AtWork(t)' /\ pc'[t] = "idle"
<1>1. /\ pc' = [pc EXCEPT ![t] = "idle"]
      /\ req' = [req EXCEPT ![t] = NoRequest]
  BY DEF Return, Goto
<1>2. /\ \A u \in Threads \ {t} : pc'[u] = pc[u] /\ req'[u] = req[u]
      /\ pc'[t] = "idle" /\ req'[t] = NoRequest
  BY <1>1 DEF TypeInv, TypeOK
<1>3. OthersIdle(t)' /\ NoRestart'
  BY <1>2, OthersStay DEF NoRequest
<1> QED
  BY <1>2, <1>3 DEF AtWork, InFlight

LEMMA GotoStays ==
  ASSUME TypeInv, NEW t \in Threads, TurnOf(t), NEW step, Goto(t, step),
         UNCHANGED <<req, inBatch, up>>
  PROVE  OthersIdle(t)' /\ NoRestart' /\ pc'[t] = step
<1>1. pc' = [pc EXCEPT ![t] = step]
  BY DEF Goto
<1>2. /\ \A u \in Threads \ {t} : pc'[u] = pc[u]
      /\ pc'[t] = step
  BY <1>1 DEF TypeInv, TypeOK
<1>3. req'[t].op \notin {"create", "open"}
  BY DEF TurnOf, NoRestart
<1> QED
  BY <1>2, <1>3, OthersStay

LEMMA CallTurns ==
  ASSUME TypeInv, HistoryInv, NEW t \in Threads, Turns, Calls(t), alone'
  PROVE  TurnOf(t)'
<1>1. PICK r \in Requests : Start(t, r) /\ Asked(t, r)
  BY CallAsks
<1>2. OthersIdle(t) /\ r.op # "throw" /\ pc[t] = "idle"
  BY <1>1 DEF Start
<1>3. TurnOf(t)
  BY <1>2, TurnTaken
<1>4. up[Node(t)]
  BY <1>3 DEF TurnOf, NoRestart
<1>5. /\ pc' = [pc EXCEPT ![t] = Entry[r.op]] /\ req' = [req EXCEPT ![t] = r]
      /\ UNCHANGED <<repoVars, objectVars, remote, up, batchVars, local, writer>>
  BY <1>1 DEF Start, Goto
<1>6. /\ \A u \in Threads \ {t} : pc'[u] = pc[u] /\ req'[u] = req[u]
      /\ pc'[t] = Entry[r.op] /\ req'[t] = r
  BY <1>5 DEF TypeInv, TypeOK
<1>7. OthersIdle(t)' /\ NoRestart'
  BY <1>1, <1>3, <1>4, <1>5, <1>6, OthersStay DEF batchVars, Asked
<1>8. pc'[t] \in {"check", "commit", "push", "fetch", "begin", "end"}
  BY <1>1, <1>2, <1>4, <1>6 DEF Entry, Requests, AllOps, Asked
<1>9. AtWork(t)'
  BY <1>8 DEF AtWork, InFlight
<1>10. Owes(t) => Owes(t)'
  BY <1>2, <1>5, <1>8 DEF Owes, batchVars, Node
<1>11. PaidBy(t)'
  BY <1>3, <1>5, <1>10, DebtStays DEF repoVars, objectVars
<1> QED
  BY <1>3, <1>5, <1>7, <1>9, <1>11 DEF TurnOf

\* How the steps end that may end a call.
LEMMA CheckEnds ==
  ASSUME NEW t \in Threads, Check(t)
  PROVE  \/ Return(t)
         \/ Goto(t, "commit") /\ UNCHANGED <<req, local>>
  BY DEF Check

LEMMA PushThrowsEnds ==
  ASSUME NEW t \in Threads, PushThrows(t)
  PROVE  \/ Return(t)
         \/ Goto(t, "switch-again") /\ UNCHANGED <<req, local, acked, refused>>
  BY DEF PushThrows, Finish, Throw

LEMMA WriterNode == ASSUME TypeInv PROVE writer \in Nodes
  BY DEF TypeInv, TypeOK

LEMMA InsertTurns ==
  ASSUME TypeInv, HistoryInv, NEW t \in Threads, TurnOf(t), InsertCommit(t)
  PROVE  TurnOf(t)'
<1>1. /\ pc[t] = "commit" /\ Goto(t, "note")
      /\ UNCHANGED <<head, notes, remote, up, pending, inBatch, req, writer>>
  BY DEF InsertCommit, repoVars, batchVars, historyVars
<1>2. OthersIdle(t)' /\ NoRestart' /\ pc'[t] = "note"
  BY <1>1, GotoStays
<1>3. AtWork(t)'
  <2>1. local'[t].base = head[Node(t)]
    BY NodeOfThread DEF InsertCommit, TypeInv, TypeOK, Locals
  <2> QED
    BY <1>1, <1>2, <2>1 DEF AtWork, InFlight, Node
<1>4. past'[remote.head] = past[remote.head]
  <2>1. past' = [past EXCEPT ![next] = past[head[Node(t)]] \cup {next}]
    BY DEF InsertCommit
  <2>2. remote.head # next
    BY DEF HistoryInv, RefsInserted, NodeRefs, TypeInv, TypeOK, Refs, Commits
  <2> QED
    BY <2>1, <2>2 DEF TypeInv, TypeOK, Refs
<1>5. Owes(t) => Owes(t)'
  BY <1>1, <1>2 DEF Owes, Node
<1>6. PaidBy(t)'
  BY <1>1, <1>4, <1>5, DebtStays
<1> QED
  BY <1>1, <1>2, <1>3, <1>6 DEF TurnOf

LEMMA CommitTurns ==
  ASSUME TypeInv, HistoryInv, AnswerInv, NEW t \in Threads, TurnOf(t), Commit(t), alone'
  PROVE  TurnOf(t)'
<1> USE NodeOfThread, WriterNode DEF repoVars, objectVars, batchVars, historyVars
<1>1. CASE Check(t)
  <2>1. /\ pc[t] = "check"
        /\ UNCHANGED <<head, notes, past, remote, up, pending, inBatch, writer>>
    BY <1>1 DEF Check
  <2>2. \/ Return(t)
        \/ Goto(t, "commit") /\ UNCHANGED <<req, local>>
    BY <1>1, CheckEnds
  <2>3. OthersIdle(t)' /\ NoRestart' /\ pc'[t] \in {"idle", "commit"}
    BY <2>1, <2>2, ReturnStays, GotoStays
  <2>4. AtWork(t)'
    BY <2>3 DEF AtWork, InFlight
  <2>5. Owes(t) => Owes(t)'
    BY <2>1, <2>3 DEF Owes, Node
  <2>6. PaidBy(t)'
    BY <2>1, <2>5, DebtStays
  <2> QED
    BY <2>1, <2>3, <2>4, <2>6 DEF TurnOf
<1>2. CASE InsertCommit(t)
  BY <1>2, InsertTurns
<1>3. CASE ReadNotes(t)
  <2>1. /\ pc[t] = "note" /\ Goto(t, "annotate")
        /\ local' = [local EXCEPT ![t].seen = notes[Node(t)]]
        /\ UNCHANGED <<head, notes, past, remote, up, pending, inBatch, req, writer>>
    BY <1>3 DEF ReadNotes
  <2>2. OthersIdle(t)' /\ NoRestart' /\ pc'[t] = "annotate"
    BY <2>1, GotoStays
  <2>3. local'[t].seen = notes[Node(t)] /\ local'[t].base = head[Node(t)]
    BY <2>1 DEF TypeInv, TypeOK, Locals, TurnOf, AtWork, InFlight
  <2>4. AtWork(t)'
    BY <2>1, <2>2, <2>3 DEF AtWork, InFlight, Node
  <2>5. Owes(t) => Owes(t)'
    BY <2>1, <2>2 DEF Owes, Node
  <2>6. PaidBy(t)'
    BY <2>1, <2>5, DebtStays
  <2> QED
    BY <2>1, <2>2, <2>4, <2>6 DEF TurnOf
<1>4. CASE WriteNotes(t)
  <2>1. /\ pc[t] = "annotate" /\ Goto(t, "move")
        /\ notes' = [notes EXCEPT ![Node(t)] = Annotated(notes[Node(t)], local[t].seen,
                                                         local[t].new)]
        /\ UNCHANGED <<head, past, remote, up, pending, inBatch, req, local, writer>>
    BY <1>4 DEF WriteNotes
  <2>2. OthersIdle(t)' /\ NoRestart' /\ pc'[t] = "move"
    BY <2>1, GotoStays
  <2>3. notes'[Node(t)] = notes[Node(t)] \cup {local[t].new}
    BY <2>1 DEF TurnOf, AtWork, Annotated, TypeInv, TypeOK
  <2>4. notes[writer] # {} => notes'[writer] # {}
    <3>1. CASE writer = Node(t)
      BY <2>3, <3>1
    <3>2. CASE writer # Node(t)
      BY <2>1, <3>2 DEF TypeInv, TypeOK
    <3> QED
      BY <3>1, <3>2
  <2>5. local[t].base = head[Node(t)]
    BY <2>1 DEF TurnOf, AtWork, InFlight
  <2>6. AtWork(t)'
    BY <2>1, <2>2, <2>3, <2>5 DEF AtWork, InFlight, Node
  <2>7. Owes(t) => Owes(t)'
    BY <2>1, <2>2 DEF Owes, Node
  <2>8. PaidBy(t)'
    BY <2>1, <2>4, <2>7, DebtStays
  <2> QED
    BY <2>1, <2>2, <2>6, <2>8 DEF TurnOf
<1>5. CASE CommitFails(t)
  BY <1>5 DEF CommitFails, Fault
<1>6. CASE MoveBranch(t)
  <2>1. /\ pc[t] = "move" /\ Goto(t, "push")
        /\ head' = [head EXCEPT ![Node(t)] = local[t].new]
        /\ writer' = Node(t)
        /\ UNCHANGED <<notes, past, remote, up, pending, inBatch, req>>
    BY <1>6 DEF MoveBranch, TurnOf, NoRestart
  <2>2. OthersIdle(t)' /\ NoRestart' /\ pc'[t] = "push"
    BY <2>1, GotoStays
  <2>3. AtWork(t)'
    BY <2>2 DEF AtWork, InFlight
  <2>4. head'[writer'] = local[t].new /\ notes'[writer'] # {}
    BY <2>1 DEF TurnOf, AtWork, TypeInv, TypeOK
  <2>5. local[t].new \notin past[remote.head]
    <3>1. ~Landed(local[t].new)
      BY <2>1 DEF AnswerInv, InFlightInv, InFlight, OwnCommit
    <3>2. Published(remote.head) /\ remote.head \in Commits
      BY DEF Published, TypeInv, TypeOK, Refs
    <3> QED
      BY <3>1, <3>2 DEF Landed
  <2>6. PaidBy(t)'
    BY <2>1, <2>2, <2>4, <2>5 DEF PaidBy, Lagging, Owes, Node
  <2> QED
    BY <2>1, <2>2, <2>3, <2>6 DEF TurnOf
<1>7. CASE MoveRefused(t)
  BY <1>7 DEF MoveRefused, Unmoved, TurnOf, AtWork, InFlight
<1> QED
  BY <1>1, <1>2, <1>3, <1>4, <1>5, <1>6, <1>7 DEF Commit

LEMMA PushTurns ==
  ASSUME TypeInv, HistoryInv, HeldInv, NEW t \in Threads, TurnOf(t), Pushing(t), alone'
  PROVE  TurnOf(t)'
<1> USE NodeOfThread, WriterNode DEF repoVars, objectVars, batchVars, historyVars
<1>1. CASE Push(t)
  <2>1. pc[t] = "push" /\ UNCHANGED <<head, notes, past, remote, up, batch, inBatch, req, writer>>
    BY <1>1 DEF Push
  <2>2. CASE batch[Node(t)]
    <3>1. Goto(t, "defer")
      BY <1>1, <2>2 DEF Push
    <3>2. OthersIdle(t)' /\ NoRestart' /\ pc'[t] = "defer"
      BY <2>1, <3>1, GotoStays
    <3>3. inBatch[t] > 0
      BY <2>2 DEF HeldInv, TurnOf, OthersIdle, Idle
    <3>4. AtWork(t)'
      BY <2>1, <3>2, <3>3 DEF AtWork, InFlight
    <3>5. PaidBy(t)'
      BY <2>1, <3>2, DebtStays DEF Owes
    <3> QED
      BY <2>1, <3>2, <3>4, <3>5 DEF TurnOf
  <2>3. CASE ~batch[Node(t)]
    <3> DEFINE sent == [head |-> head[Node(t)], notes |-> notes[Node(t)]]
    <3>1. /\ Goto(t, "send") /\ notes[Node(t)] # {}
          /\ local' = [local EXCEPT ![t].src = sent]
      BY <1>1, <2>3 DEF Push
    <3>2. OthersIdle(t)' /\ NoRestart' /\ pc'[t] = "send"
      BY <2>1, <3>1, GotoStays
    <3>3. local'[t].src = sent
      BY <3>1 DEF TypeInv, TypeOK, Locals
    <3>4. local'[t].src.head = head'[Node(t)] /\ local'[t].src.notes # {}
      BY <2>1, <3>1, <3>3
    <3>5. AtWork(t)'
      BY <3>2, <3>4 DEF AtWork, InFlight, Node
    <3>6. PaidBy(t)'
      BY <2>1, <3>2, DebtStays DEF Owes
    <3> QED
      BY <2>1, <3>2, <3>5, <3>6 DEF TurnOf
  <2> QED
    BY <2>2, <2>3
<1>2. CASE Defer(t)
  <2>1. /\ pc[t] = "defer" /\ Return(t)
        /\ pending' = [pending EXCEPT ![Node(t)] = TRUE]
        /\ UNCHANGED <<head, notes, past, remote, up, inBatch, writer>>
    BY <1>2 DEF Defer, Finish
  <2>2. OthersIdle(t)' /\ NoRestart' /\ AtWork(t)' /\ pc'[t] = "idle"
    BY <2>1, ReturnStays
  <2>3. pending'[Node(t)] /\ inBatch'[t] > 0
    BY <2>1 DEF TurnOf, AtWork, TypeInv, TypeOK
  <2>4. Owes(t)'
    BY <2>2, <2>3 DEF Owes, Node
  <2>5. PaidBy(t)'
    BY <2>1, <2>4, DebtStays
  <2> QED
    BY <2>1, <2>2, <2>5 DEF TurnOf
<1>3. CASE Send(t)
  <2>1. /\ pc[t] = "send" /\ Return(t)
        /\ remote' = local[t].src /\ writer' = Node(t)
        /\ UNCHANGED <<head, up, inBatch>>
    BY <1>3 DEF Send, Finish
  <2>2. OthersIdle(t)' /\ NoRestart' /\ AtWork(t)'
    BY <2>1, ReturnStays
  <2>3. remote'.head = head'[writer'] /\ remote'.notes # {}
    BY <2>1 DEF TurnOf, AtWork, InFlight
  <2> QED
    BY <2>2, <2>3 DEF TurnOf, PaidBy, Behind
<1>4. CASE SendRejected(t) \/ SendFails(t)
  BY <1>4 DEF SendRejected, SendFails, Fault
<1>5. CASE NothingToSend(t)
  <2>1. /\ pc[t] = "push" /\ notes[Node(t)] = {} /\ PushThrows(t)
        /\ UNCHANGED <<head, remote, up, inBatch, writer>>
    BY <1>5 DEF NothingToSend
  <2>2. \/ Return(t)
        \/ Goto(t, "switch-again") /\ UNCHANGED <<req, local, acked, refused>>
    BY <2>1, PushThrowsEnds
  <2>3. OthersIdle(t)' /\ NoRestart' /\ pc'[t] \in {"idle", "switch-again"}
    BY <2>1, <2>2, ReturnStays, GotoStays
  <2>4. AtWork(t)'
    BY <2>3 DEF AtWork, InFlight
  <2>5. ~Behind
    BY <2>1 DEF TurnOf, PaidBy, Lagging
  <2>6. PaidBy(t)'
    BY <2>1, <2>5 DEF PaidBy, Behind
  <2> QED
    BY <2>1, <2>3, <2>4, <2>6 DEF TurnOf
<1> QED
  BY <1>1, <1>2, <1>3, <1>4, <1>5 DEF Pushing

LEMMA BatchTurns ==
  ASSUME TypeInv, HistoryInv, NEW t \in Threads, TurnOf(t), Batching(t), ~nested'
  PROVE  TurnOf(t)'
<1> USE NodeOfThread, WriterNode DEF repoVars, objectVars, batchVars, historyVars
<1>1. UNCHANGED <<head, notes, past, remote, up, writer>>
  BY DEF Batching, SwitchOn, ClearPending, ReadPending, SwitchOff, EndBatch
<1>2. SUFFICES /\ OthersIdle(t)' /\ NoRestart' /\ AtWork(t)'
               /\ Behind /\ Owes(t) => Owes(t)'
  BY <1>1, <1>2, DebtStays DEF TurnOf
<1>3. CASE SwitchOn(t)
  <2>1. /\ pc[t] = "begin" /\ pc' = [pc EXCEPT ![t] = "clear-begin"] /\ req' = req
        /\ inBatch' = [inBatch EXCEPT ![t] = @ + 1] /\ ~(inBatch[t] > 0)
    BY <1>3 DEF SwitchOn, Goto
  <2>2. /\ \A u \in Threads \ {t} : pc'[u] = pc[u] /\ inBatch'[u] = inBatch[u]
        /\ pc'[t] = "clear-begin"
    BY <2>1 DEF TypeInv, TypeOK
  <2>3. req'[t].op \notin {"create", "open"}
    BY <2>1 DEF TurnOf, NoRestart
  <2>4. OthersIdle(t)' /\ NoRestart'
    BY <1>1, <2>1, <2>2, <2>3, OthersStay
  <2>5. AtWork(t)'
    BY <2>2 DEF AtWork, InFlight
  <2>6. ~Owes(t)
    BY <2>1 DEF Owes
  <2> QED
    BY <2>4, <2>5, <2>6
<1>4. CASE ClearPending(t)
  <2>1. pc[t] \in {"clear-begin", "clear-again"} /\ Return(t) /\ UNCHANGED inBatch
    BY <1>4 DEF ClearPending
  <2>2. OthersIdle(t)' /\ NoRestart' /\ AtWork(t)'
    BY <1>1, <2>1, ReturnStays
  <2>3. ~Owes(t)
    BY <2>1 DEF Owes
  <2> QED
    BY <2>2, <2>3
<1>5. CASE ReadPending(t)
  <2>1. /\ pc[t] = "end" /\ Goto(t, "switch") /\ UNCHANGED <<req, inBatch>>
        /\ local' = [local EXCEPT ![t].due = HasPending(Node(t))]
    BY <1>5 DEF ReadPending
  <2>2. OthersIdle(t)' /\ NoRestart' /\ pc'[t] = "switch"
    BY <1>1, <2>1, GotoStays
  <2>3. AtWork(t)'
    BY <2>2 DEF AtWork, InFlight
  <2>4. local'[t].due = pending[Node(t)]
    BY <2>1 DEF HasPending, TypeInv, TypeOK, Locals
  <2>5. Owes(t) => Owes(t)'
    BY <2>1, <2>2, <2>4 DEF Owes
  <2> QED
    BY <2>2, <2>3, <2>5
<1>6. CASE SwitchOff(t)
  <2>1. PICK step \in {"clear", "clear-again"} :
          /\ step = "clear-again" => pc[t] = "switch-again"
          /\ pc[t] \in {"switch", "switch-again"} /\ Goto(t, step)
          /\ UNCHANGED <<req, local, inBatch>>
    BY <1>6 DEF SwitchOff
  <2>2. OthersIdle(t)' /\ NoRestart' /\ pc'[t] = step
    BY <1>1, <2>1, GotoStays
  <2>3. AtWork(t)'
    BY <2>2 DEF AtWork, InFlight
  <2>4. Owes(t) => Owes(t)'
    BY <2>1, <2>2 DEF Owes
  <2> QED
    BY <2>2, <2>3, <2>4
<1>7. CASE EndBatch(t)
  <2>1. pc[t] = "clear" /\ inBatch' = [inBatch EXCEPT ![t] = @ - 1]
    BY <1>7 DEF EndBatch
  <2>2. CASE local[t].due
    <3>1. pc' = [pc EXCEPT ![t] = "push"] /\ req' = req
      BY <1>7, <2>2 DEF EndBatch, Goto
    <3>2. /\ \A u \in Threads \ {t} : pc'[u] = pc[u] /\ inBatch'[u] = inBatch[u]
          /\ pc'[t] = "push"
      BY <2>1, <3>1 DEF TypeInv, TypeOK
    <3>3. req'[t].op \notin {"create", "open"}
      BY <3>1 DEF TurnOf, NoRestart
    <3>4. OthersIdle(t)' /\ NoRestart'
      BY <1>1, <3>1, <3>2, <3>3, OthersStay
    <3>5. AtWork(t)' /\ Owes(t)'
      BY <3>2 DEF AtWork, InFlight, Owes
    <3> QED
      BY <3>4, <3>5
  <2>3. CASE ~local[t].due
    <3>1. pc' = [pc EXCEPT ![t] = "idle"] /\ req' = [req EXCEPT ![t] = NoRequest]
      BY <1>7, <2>3 DEF EndBatch, Return, Goto
    <3>2. /\ \A u \in Threads \ {t} : /\ pc'[u] = pc[u] /\ req'[u] = req[u]
                                      /\ inBatch'[u] = inBatch[u]
          /\ pc'[t] = "idle" /\ req'[t] = NoRequest
      BY <2>1, <3>1 DEF TypeInv, TypeOK
    <3>3. OthersIdle(t)' /\ NoRestart'
      BY <1>1, <3>2, OthersStay DEF NoRequest
    <3>4. AtWork(t)'
      BY <3>2 DEF AtWork, InFlight
    <3>5. ~Owes(t)
      BY <2>1, <2>3 DEF Owes
    <3> QED
      BY <3>3, <3>4, <3>5
  <2> QED
    BY <2>2, <2>3
<1> QED
  BY <1>3, <1>4, <1>5, <1>6, <1>7 DEF Batching

\* How a fetch goes on.
LEMMA AfterFetchEnds ==
  ASSUME NEW t \in Threads, AfterFetch(t)
  PROVE  \/ Pulled(t)
         \/ Goto(t, "compare") /\ UNCHANGED <<req, local, up>>
  BY DEF AfterFetch

LEMMA PulledStays ==
  ASSUME TypeInv, NEW t \in Threads, TurnOf(t), Pulled(t), UNCHANGED inBatch
  PROVE  OthersIdle(t)' /\ NoRestart' /\ AtWork(t)' /\ pc'[t] = "idle"
<1>1. Return(t) /\ up' = [up EXCEPT ![Node(t)] = TRUE]
  BY DEF Pulled
<1>2. \A n \in Nodes : up[n] => up'[n]
  BY <1>1 DEF TypeInv, TypeOK
<1> QED
  BY <1>1, <1>2, ReturnStays

LEMMA PullTurns ==
  ASSUME TypeInv, HistoryInv, NEW t \in Threads, TurnOf(t), Pulling(t), alone'
  PROVE  TurnOf(t)'
<1> USE NodeOfThread, WriterNode DEF repoVars, objectVars, batchVars, historyVars
<1>1. UNCHANGED <<past, remote, pending, inBatch, writer>>
  BY DEF Pulling, FetchBranch, FetchFails, FetchNotes, FetchNotesFails, UpToDateOrDiverged,
         Forwardable, FastForward
<1>2. CASE FetchBranch(t)
  <2>1. /\ pc[t] = "fetch" /\ Goto(t, "fetch-notes")
        /\ tracking' = [tracking EXCEPT ![Node(t)] = remote.head]
        /\ UNCHANGED <<head, notes, up, req>>
    BY <1>2 DEF FetchBranch
  <2>2. OthersIdle(t)' /\ NoRestart' /\ pc'[t] = "fetch-notes"
    BY <1>1, <2>1, GotoStays
  <2>3. tracking'[Node(t)] = remote'.head
    BY <1>1, <2>1 DEF TypeInv, TypeOK
  <2>4. AtWork(t)'
    BY <2>2, <2>3 DEF AtWork, InFlight, Node
  <2>5. Owes(t) => Owes(t)'
    BY <1>1, <2>1, <2>2 DEF Owes, Node
  <2>6. PaidBy(t)'
    BY <1>1, <2>1, <2>5, DebtStays
  <2> QED
    BY <1>1, <2>2, <2>4, <2>6 DEF TurnOf
<1>3. CASE FetchNotes(t)
  <2>1. /\ pc[t] = "fetch-notes" /\ AfterFetch(t)
        /\ notes' = [notes EXCEPT ![Node(t)] = remote.notes]
        /\ UNCHANGED <<head, tracking>>
    BY <1>3 DEF FetchNotes
  <2>2. \/ Pulled(t)
        \/ Goto(t, "compare") /\ UNCHANGED <<req, local, up>>
    BY <2>1, AfterFetchEnds
  <2>3. OthersIdle(t)' /\ NoRestart' /\ pc'[t] \in {"idle", "compare"}
    BY <1>1, <2>2, PulledStays, GotoStays
  <2>4. AtWork(t)'
    BY <1>1, <2>1, <2>3 DEF AtWork, InFlight, Node, TurnOf
  <2>5. notes[writer] # {} => notes'[writer] # {}
    <3>1. CASE writer = Node(t)
      BY <2>1, <3>1 DEF TurnOf, TypeInv, TypeOK
    <3>2. CASE writer # Node(t)
      BY <2>1, <3>2 DEF TypeInv, TypeOK
    <3> QED
      BY <3>1, <3>2
  <2>6. Owes(t) => Owes(t)'
    BY <1>1, <2>1, <2>3 DEF Owes, Node
  <2>7. PaidBy(t)'
    BY <1>1, <2>1, <2>5, <2>6, DebtStays
  <2> QED
    BY <1>1, <2>3, <2>4, <2>7 DEF TurnOf
<1>4. CASE FetchFails(t) \/ FetchNotesFails(t)
  BY <1>4 DEF FetchFails, FetchNotesFails, Fault
<1>5. CASE UpToDateOrDiverged(t)
  <2>1. pc[t] = "compare" /\ Pulled(t) /\ UNCHANGED <<head, notes>>
    BY <1>5 DEF UpToDateOrDiverged
  <2>2. OthersIdle(t)' /\ NoRestart' /\ AtWork(t)' /\ pc'[t] = "idle"
    BY <1>1, <2>1, PulledStays
  <2>3. Owes(t) => Owes(t)'
    BY <1>1, <2>1, <2>2 DEF Owes, Node
  <2>4. PaidBy(t)'
    BY <1>1, <2>1, <2>3, DebtStays
  <2> QED
    BY <1>1, <2>2, <2>4 DEF TurnOf
<1>6. CASE Forwardable(t)
  <2>1. /\ pc[t] = "compare" /\ Goto(t, "forward")
        /\ head[Node(t)] \in past[tracking[Node(t)]]
        /\ local' = [local EXCEPT ![t].base = head[Node(t)], ![t].new = tracking[Node(t)]]
        /\ UNCHANGED <<head, notes, tracking, up, req>>
    BY <1>6 DEF Forwardable, Merged
  <2>2. OthersIdle(t)' /\ NoRestart' /\ pc'[t] = "forward"
    BY <1>1, <2>1, GotoStays
  <2>3. tracking[Node(t)] = remote.head
    BY <2>1 DEF TurnOf, AtWork
  <2>4. local'[t].base = head[Node(t)] /\ local'[t].new = tracking[Node(t)]
    BY <2>1 DEF TypeInv, TypeOK, Locals
  <2>5. AtWork(t)'
    BY <1>1, <2>1, <2>2, <2>3, <2>4 DEF AtWork, InFlight, Node
  <2>6. Owes(t) => Owes(t)'
    BY <1>1, <2>1, <2>2 DEF Owes, Node
  <2>7. PaidBy(t)'
    BY <1>1, <2>1, <2>6, DebtStays
  <2> QED
    BY <1>1, <2>2, <2>5, <2>7 DEF TurnOf
<1>7. CASE FastForward(t)
  <2>1. /\ pc[t] = "forward" /\ Pulled(t)
        /\ head' = [head EXCEPT ![Node(t)] = IF Unmoved(Node(t), local[t].base)
                                             THEN local[t].new ELSE head[Node(t)]]
    BY <1>7 DEF FastForward
  <2>2. OthersIdle(t)' /\ NoRestart' /\ AtWork(t)'
    BY <1>1, <2>1, PulledStays
  <2>3. ~Behind
    BY <2>1 DEF TurnOf, AtWork, PaidBy, Lagging
  <2>4. head'[writer] = remote.head
    <3>1. CASE writer = Node(t)
      BY <2>1, <3>1 DEF Unmoved, TurnOf, AtWork, TypeInv, TypeOK
    <3>2. CASE writer # Node(t)
      BY <2>1, <2>3, <3>2 DEF Behind, TypeInv, TypeOK
    <3> QED
      BY <3>1, <3>2
  <2>5. PaidBy(t)'
    BY <1>1, <2>4 DEF PaidBy, Behind
  <2> QED
    BY <1>1, <2>2, <2>5 DEF TurnOf
<1> QED
  BY <1>2, <1>3, <1>4, <1>5, <1>6, <1>7 DEF Pulling

LEMMA InitTurns == Init => TurnsInv
<1> SUFFICES ASSUME Init PROVE Turns
  BY DEF TurnsInv
<1>1. OneAtWork /\ NoRestart /\ remote.notes # {}
  BY NodeOfThread DEF Init, OneAtWork, NoRestart, Idle, NoRequest
<1>2. \A t \in Threads : AtWork(t)
  BY DEF Init, AtWork, InFlight
<1>3. ~Behind
  BY GitConstants DEF Init, Behind
<1> QED
  BY <1>1, <1>2, <1>3 DEF Turns

\* Whatever happens while the turns are kept is a step of the thread whose turn it is.
LEMMA WhileAlone ==
  ASSUME Next, alone', ~nested'
  PROVE  /\ alone /\ ~nested
         /\ \E t \in Threads :
              Calls(t) \/ Commit(t) \/ Pushing(t) \/ Batching(t) \/ Pulling(t)
<1>1. ASSUME NEW t \in Threads, Calls(t) PROVE alone /\ ~nested
  BY <1>1, CallStarts DEF Start, batchVars
<1>2. ASSUME NEW t \in Threads, Commit(t) \/ Pushing(t) \/ Batching(t) \/ Pulling(t)
      PROVE  alone
  BY <1>2
  DEF Commit, Check, InsertCommit, ReadNotes, WriteNotes, CommitFails, MoveBranch, MoveRefused,
      Pushing, Push, Defer, Send, SendRejected, SendFails, NothingToSend,
      Batching, SwitchOn, ClearPending, ReadPending, SwitchOff, EndBatch,
      Pulling, FetchBranch, FetchFails, FetchNotes, FetchNotesFails, UpToDateOrDiverged,
      Forwardable, FastForward, Fault, historyVars
<1>4. ASSUME NEW t \in Threads, Commit(t) \/ Pushing(t) \/ Pulling(t)
      PROVE  ~nested
  BY <1>4
  DEF Commit, Check, InsertCommit, ReadNotes, WriteNotes, CommitFails, MoveBranch, MoveRefused,
      Pushing, Push, Defer, Send, SendRejected, SendFails, NothingToSend,
      Pulling, FetchBranch, FetchFails, FetchNotes, FetchNotesFails, UpToDateOrDiverged,
      Forwardable, FastForward, batchVars
<1>5. ASSUME NEW t \in Threads, Batching(t)
      PROVE  ~nested
  BY <1>5
  DEF Batching, SwitchOn, ClearPending, ReadPending, SwitchOff, EndBatch, batchVars
<1>3. ASSUME NEW n \in Nodes PROVE ~Crash(n)
  BY DEF Crash
<1> QED
  BY <1>1, <1>2, <1>3, <1>4, <1>5 DEF Next

\* The thread of a step other than a call has something under way.
LEMMA StepsAtWork ==
  ASSUME NEW t \in Threads, Commit(t) \/ Pushing(t) \/ Batching(t) \/ Pulling(t)
  PROVE  ~Idle(t)
  BY DEF Idle, Commit, Check, InsertCommit, ReadNotes, WriteNotes, CommitFails, MoveBranch,
         MoveRefused, Pushing, Push, Defer, Send, SendRejected, SendFails, NothingToSend,
         Batching, SwitchOn, ClearPending, ReadPending, SwitchOff, EndBatch,
         Pulling, FetchBranch, FetchFails, FetchNotes, FetchNotesFails, UpToDateOrDiverged,
         Forwardable, FastForward

LEMMA StepTurns ==
  ASSUME TypeInv, HistoryInv, AnswerInv, HeldInv, TurnsInv, [Next]_vars
  PROVE  TurnsInv'
<1>1. CASE UNCHANGED vars
  BY <1>1
  DEF vars, repoVars, objectVars, batchVars, historyVars, counters, TurnsInv, Turns, OneAtWork,
      NoRestart, AtWork, InFlight, Owes, Behind, Lagging, Idle, Node
<1>2. CASE Next
  <2> SUFFICES ASSUME alone', ~nested' PROVE Turns'
    BY DEF TurnsInv
  <2>1. Turns
    BY <1>2, WhileAlone DEF TurnsInv
  <2>2. PICK t \in Threads : Calls(t) \/ Commit(t) \/ Pushing(t) \/ Batching(t) \/ Pulling(t)
    BY <1>2, WhileAlone
  <2>3. TurnOf(t)'
    <3>1. CASE Calls(t)
      BY <2>1, <3>1, CallTurns
    <3>2. CASE ~Calls(t)
      BY <2>1, <2>2, <3>2, StepsAtWork, AtWorkAlone, CommitTurns, PushTurns, BatchTurns,
         PullTurns
    <3> QED
      BY <3>1, <3>2
  <2> QED
    BY <2>3, TurnGiven
<1> QED
  BY <1>1, <1>2

\* When nodes take turns, nothing fails and no batch begins inside another, the remote
\* at rest stands at the head of the node that wrote or pushed last: the push of a write,
\* or the one push at the end of the batch it was made in, reaches the remote before the
\* turn is over, and no pull moves the writer's branch to another commit meanwhile.
THEOREM TurnsAreMirrored == Spec => []TurnsMirrored
<1>1. Init => TurnsInv /\ HeldInv
  BY InitTurns DEF Init, HeldInv
<1>2. TypeInv /\ HistoryInv /\ AnswerInv /\ HeldInv /\ TurnsInv /\ [Next]_vars
        => AnswerInv' /\ HeldInv' /\ TurnsInv'
  BY StepAnswers, StepHolds, StepTurns
<1>3. TurnsInv => TurnsMirrored
  BY DEF TurnsInv, Turns, TurnsMirrored, AtRest, Owes, Behind, Idle
<1> QED
  BY <1>1, <1>2, <1>3, InitAnswers, HistoryInvariant, PTL DEF Spec
=============================================================================
