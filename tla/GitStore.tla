------------------------------ MODULE GitStore ------------------------------
(***************************************************************************)
(* chrondb.storage.git: the bare repositories of several ChronDB nodes and *)
(* the remote they share.  The threads of a node write the branch through  *)
(* commit-virtual, with no lock around it: insert the commit, annotate it  *)
(* in the notes ref, move the branch by compare-and-swap, push.  Pushes    *)
(* are forced, pulls only fast-forward, and a process-wide batch mode puts *)
(* pushes off.  A node may crash and be opened or created again.           *)
(*                                                                         *)
(* Abstractions.  One branch, the default one, configured with a remote    *)
(* and with push, notes and pull-on-start enabled, the defaults.  A tree   *)
(* is the set of documents it holds.  The notes ref is the set of commits  *)
(* it annotates: no commit is annotated twice, so a ref that holds the     *)
(* same set has not moved for the thread that compares it.  A push reads   *)
(* the two refs it sends in one step.  What a body of with-batch throws is *)
(* an Exception: an Error, which with-batch does not catch, is left out.   *)
(***************************************************************************)
EXTENDS Naturals

CONSTANTS
  Nodes,     \* ChronDB processes, each with its repository
  Founder,   \* the node whose repository seeded the remote; the others are clones
  Threads,
  NodeOf,    \* NodeOf[t]: the node thread t belongs to
  Docs,      \* document ids
  NoDoc,     \* the document of a request that names none
  Ops,       \* operations in use, besides opening a node again
  MaxCalls,  \* bound: calls made, so commits too
  MaxFaults, \* bound: failures of pushes, fetches and commits
  MaxCrashes \* bound: times a node dies

ASSUME GitConstants ==
  /\ Founder \in Nodes
  /\ NodeOf \in [Threads -> Nodes]
  /\ NoDoc \notin Docs
  /\ Ops \subseteq {"save", "delete", "restore", "push", "pull", "fetch", "batch"}
  /\ MaxCalls \in Nat /\ MaxFaults \in Nat /\ MaxCrashes \in Nat

VARIABLES
  tree,      \* tree[c]: the documents commit c holds
  past,      \* past[c]: c and its ancestors; {} for a commit not inserted yet
  next,      \* the next commit
  head,      \* head[n]: refs/heads/main
  tracking,  \* tracking[n]: refs/remotes/origin/main, 0 before a fetch
  notes,     \* notes[n]: the commits refs/notes/chrondb annotates
  remote,    \* the two refs of the remote
  up,        \* up[n]: the process runs and its storage is open
  batch,     \* batch[n]: the atom batch-mode
  pending,   \* pending[n]: the atom pending-push
  pc, req, local, \* of each thread: next step, request, local variables
  inBatch,   \* inBatch[t]: the bodies of with-batch that t is inside of
  \* History, read by no action of the code:
  acked,     \* acked[n]: commits of writes node n answered
  refused,   \* commits of writes that were answered with an exception
  writer,    \* node of the last write or push
  alone,     \* no two calls overlapped, nothing failed, no batch was abandoned
  nested,    \* a with-batch began inside the body of another
  calls, faults, crashes \* counters of the bounds

repoVars    == <<head, tracking, notes>>
objectVars  == <<tree, past, next>>
batchVars   == <<batch, pending, inBatch, nested>>
historyVars == <<acked, refused, writer, alone>>
counters    == <<calls, faults, crashes>>
vars == <<repoVars, objectVars, remote, up, batchVars, pc, req, local, historyVars, counters>>

-----------------------------------------------------------------------------
\* Commit 1 is the initial empty commit.  Bound: a call makes one commit at most.
Commits == 1 .. (MaxCalls + 1)

Writes == {"save", "delete", "restore"}
AllOps == {"save", "delete", "restore", "push", "pull", "fetch", "batch", "end", "throw",
           "create", "open"}
NoRequest == [op |-> "none", doc |-> NoDoc]
Requests == [op : AllOps, doc : Docs \cup {NoDoc}]

PCs == {"idle", "check", "commit", "note", "annotate", "move", "push", "defer", "send",
        "fetch", "fetch-notes", "compare", "forward",
        "begin", "clear-begin", "end", "switch", "clear", "switch-again", "clear-again"}

Refs == [head : Commits, notes : SUBSET Commits]
Locals == [base : Commits, new : Commits, seen : SUBSET Commits, src : Refs, due : BOOLEAN]
Fresh == [base |-> 1, new |-> 1, seen |-> {}, src |-> [head |-> 1, notes |-> {}],
          due |-> FALSE]

TypeOK ==
  /\ tree \in [Commits -> SUBSET Docs]
  /\ past \in [Commits -> SUBSET Commits]
  /\ next \in Nat
  /\ head \in [Nodes -> Commits]
  /\ tracking \in [Nodes -> Commits \cup {0}]
  /\ notes \in [Nodes -> SUBSET Commits]
  /\ remote \in Refs
  /\ up \in [Nodes -> BOOLEAN]
  /\ batch \in [Nodes -> BOOLEAN] /\ pending \in [Nodes -> BOOLEAN]
  /\ pc \in [Threads -> PCs]
  /\ req \in [Threads -> Requests \cup {NoRequest}]
  /\ local \in [Threads -> Locals]
  /\ inBatch \in [Threads -> Nat]
  /\ acked \in [Nodes -> SUBSET Commits]
  /\ refused \subseteq Commits
  /\ writer \in Nodes
  /\ alone \in BOOLEAN /\ nested \in BOOLEAN
  /\ calls \in 0 .. MaxCalls /\ faults \in 0 .. MaxFaults /\ crashes \in 0 .. MaxCrashes

\* A clone fetches refs/heads/* only: it starts without the notes of the remote.
Init ==
  /\ tree = [c \in Commits |-> {}]
  /\ past = [c \in Commits |-> IF c = 1 THEN {1} ELSE {}]
  /\ next = 2
  /\ head = [n \in Nodes |-> 1]
  /\ tracking = [n \in Nodes |-> 0]
  /\ notes = [n \in Nodes |-> IF n = Founder THEN {1} ELSE {}]
  /\ remote = [head |-> 1, notes |-> {1}]
  /\ up = [n \in Nodes |-> TRUE]
  /\ batch = [n \in Nodes |-> FALSE] /\ pending = [n \in Nodes |-> FALSE]
  /\ pc = [t \in Threads |-> "idle"]
  /\ req = [t \in Threads |-> NoRequest]
  /\ local = [t \in Threads |-> Fresh]
  /\ inBatch = [t \in Threads |-> 0]
  /\ acked = [n \in Nodes |-> {}]
  /\ refused = {}
  /\ writer = Founder
  /\ alone = TRUE /\ nested = FALSE
  /\ calls = 0 /\ faults = 0 /\ crashes = 0

-----------------------------------------------------------------------------
(* Pieces of the handlers *)

Node(t) == NodeOf[t]
Goto(t, step) == pc' = [pc EXCEPT ![t] = step]

Return(t) ==
  /\ Goto(t, "idle")
  /\ req' = [req EXCEPT ![t] = NoRequest]
  /\ local' = [local EXCEPT ![t] = Fresh]

\* The call is answered; a write is answered with the commit it made.
Finish(t) ==
  /\ Return(t)
  /\ acked' = [acked EXCEPT ![Node(t)] =
                 IF req[t].op \in Writes THEN @ \cup {local[t].new} ELSE @]
  /\ UNCHANGED refused

\* The call is answered with an exception.
Throw(t) ==
  /\ Return(t)
  /\ refused' = IF req[t].op \in Writes THEN refused \cup {local[t].new} ELSE refused
  /\ UNCHANGED acked

Fault ==
  /\ faults < MaxFaults
  /\ faults' = faults + 1
  /\ alone' = FALSE
  /\ UNCHANGED <<calls, crashes>>

\* A bug: the entry of a commit that names no path.
WrittenAlways(base, r) == IF r.op = "delete" THEN base \ {r.doc} ELSE base \cup {r.doc}

\* create-temporary-index: the base tree without the path, and the path again
\* when there is content; create-repository gives no path.
Written(base, r) ==
  CASE r.op = "create" -> base
    [] r.op = "delete" -> base \ {r.doc}
    [] OTHER           -> base \cup {r.doc}

\* notesAdd updates the notes ref from the commit it read, and add-git-note
\* drops the result of the update: when the ref has moved, the note is lost.
Annotated(current, seen, c) == IF current = seen THEN current \cup {c} ELSE current

\* A bug: the branch is updated without an expected old id.
NotCompared(n, expected) == TRUE

\* The ref update is made only from the commit the caller expects.
Unmoved(n, expected) == head[n] = expected

\* A bug: what a push throws is the answer of the write.
NeverSwallows(op) == FALSE

\* push-changes catches what a push throws; git-core/push and with-batch do not.
Swallows(op) == op \in Writes

\* A bug: with-batch does not switch the batch mode off when its body throws.
EntryWithoutHandler ==
  [save |-> "commit", delete |-> "check", restore |-> "check", push |-> "push",
   pull |-> "fetch", fetch |-> "fetch", batch |-> "begin", end |-> "end",
   throw |-> "clear", create |-> "commit", open |-> "fetch"]

\* Where each call starts.
Entry == [save |-> "commit", delete |-> "check", restore |-> "check", push |-> "push",
          pull |-> "fetch", fetch |-> "fetch", batch |-> "begin", end |-> "end",
          throw |-> "switch", create |-> "commit", open |-> "fetch"]

Idle(t) == pc[t] = "idle" /\ inBatch[t] = 0
OthersIdle(t) == \A u \in Threads \ {t} : Idle(u)

-----------------------------------------------------------------------------
(* Calls *)

Start(t, r) ==
  /\ pc[t] = "idle"
  /\ calls < MaxCalls /\ calls' = calls + 1
  /\ Goto(t, Entry[r.op])
  /\ req' = [req EXCEPT ![t] = r]
  /\ alone' = (alone /\ OthersIdle(t) /\ r.op # "throw")
  /\ UNCHANGED <<repoVars, objectVars, remote, up, batchVars, local, acked, refused, writer,
                 faults, crashes>>

CallDocument(t) ==
  /\ up[Node(t)]
  /\ \E op \in Writes \cap Ops, d \in Docs : Start(t, [op |-> op, doc |-> d])

CallRemote(t) ==
  /\ up[Node(t)]
  /\ \E op \in {"push", "pull", "fetch"} \cap Ops : Start(t, [op |-> op, doc |-> NoDoc])

\* with-batch: its body is the calls the thread makes until it ends or throws, among them
\* another with-batch.
CallBatch(t) ==
  /\ up[Node(t)]
  /\ "batch" \in Ops
  /\ Start(t, [op |-> "batch", doc |-> NoDoc])

LeaveBatch(t) ==
  /\ inBatch[t] > 0
  /\ \E op \in {"end", "throw"} : Start(t, [op |-> op, doc |-> NoDoc])

\* The process is started again: the server and the tools create the storage
\* over the repository that is there, the library opens it.
CallOpen(t) ==
  /\ ~up[Node(t)]
  /\ \A u \in Threads : Node(u) = Node(t) => pc[u] = "idle"
  /\ \E op \in {"create", "open"} : Start(t, [op |-> op, doc |-> NoDoc])

-----------------------------------------------------------------------------
(* save-document, delete-document, restore-document-version: commit-virtual *)

\* delete-document looks for the document at the head, restore-document-version
\* in the commit it is given: one without it ends the call.
Check(t) ==
  /\ pc[t] = "check"
  /\ LET r == req[t]
         looked == IF r.op = "delete" THEN {head[Node(t)]} ELSE past[head[Node(t)]]
     IN \E c \in looked :
          IF r.doc \in tree[c]
          THEN Goto(t, "commit") /\ UNCHANGED <<req, local>>
          ELSE Return(t)
  /\ UNCHANGED <<repoVars, objectVars, remote, up, batchVars, historyVars, counters>>

InsertCommit(t) ==
  /\ pc[t] = "commit"
  /\ next \in Commits   \* the bound, which no call reaches: each makes one commit
  /\ LET base == head[Node(t)] IN
       /\ tree' = [tree EXCEPT ![next] = Written(tree[base], req[t])]
       /\ past' = [past EXCEPT ![next] = past[base] \cup {next}]
       /\ local' = [local EXCEPT ![t].base = base, ![t].new = next]
  /\ next' = next + 1
  /\ Goto(t, "note")
  /\ UNCHANGED <<repoVars, remote, up, batchVars, req, historyVars, counters>>

ReadNotes(t) ==
  /\ pc[t] = "note"
  /\ local' = [local EXCEPT ![t].seen = notes[Node(t)]]
  /\ Goto(t, "annotate")
  /\ UNCHANGED <<repoVars, objectVars, remote, up, batchVars, req, historyVars, counters>>

WriteNotes(t) ==
  /\ pc[t] = "annotate"
  /\ notes' = [notes EXCEPT ![Node(t)] = Annotated(@, local[t].seen, local[t].new)]
  /\ Goto(t, "move")
  /\ UNCHANGED <<head, tracking, objectVars, remote, up, batchVars, req, local, historyVars,
                 counters>>

\* Anything commit-virtual throws before it moves the branch.
CommitFails(t) ==
  /\ pc[t] \in {"note", "annotate"}
  /\ Fault
  /\ Throw(t)
  /\ UNCHANGED <<repoVars, objectVars, remote, up, batchVars, writer>>

\* create-repository does not push its commit: the pull of the start comes next.
MoveBranch(t) ==
  /\ pc[t] = "move"
  /\ Unmoved(Node(t), local[t].base)
  /\ head' = [head EXCEPT ![Node(t)] = local[t].new]
  /\ Goto(t, IF req[t].op = "create" THEN "fetch" ELSE "push")
  /\ writer' = Node(t)
  /\ UNCHANGED <<tracking, notes, objectVars, remote, up, batchVars, req, local, acked,
                 refused, alone, counters>>

\* "Failed to update ref": the commit and its note stay behind.
MoveRefused(t) ==
  /\ pc[t] = "move"
  /\ ~Unmoved(Node(t), local[t].base)
  /\ Throw(t)
  /\ UNCHANGED <<repoVars, objectVars, remote, up, batchVars, writer, alone, counters>>

-----------------------------------------------------------------------------
(* push-to-remote *)

\* Outside a batch the refs to send are read, then sent.  A repository that has
\* no notes ref has nothing to send for it: the push throws.
Push(t) ==
  /\ pc[t] = "push"
  /\ IF batch[Node(t)] THEN Goto(t, "defer") /\ UNCHANGED local
     ELSE /\ notes[Node(t)] # {}
          /\ local' = [local EXCEPT ![t].src = [head |-> head[Node(t)],
                                                notes |-> notes[Node(t)]]]
          /\ Goto(t, "send")
  /\ UNCHANGED <<repoVars, objectVars, remote, up, batchVars, req, historyVars, counters>>

Defer(t) ==
  /\ pc[t] = "defer"
  /\ pending' = [pending EXCEPT ![Node(t)] = TRUE]
  /\ Finish(t)
  /\ UNCHANGED <<repoVars, objectVars, remote, up, batch, inBatch, nested, writer, alone,
                 counters>>

\* A forced update of both refs.
Send(t) ==
  /\ pc[t] = "send"
  /\ remote' = local[t].src
  /\ writer' = Node(t)
  /\ Finish(t)
  /\ UNCHANGED <<repoVars, objectVars, up, batchVars, alone, counters>>

\* The remote refuses an update, or both: the status is logged, the push has succeeded.
SendRejected(t) ==
  /\ pc[t] = "send"
  /\ Fault
  /\ LET src == local[t].src IN
       remote' \in {remote, [remote EXCEPT !.head = src.head],
                    [remote EXCEPT !.notes = src.notes]}
  /\ Finish(t)
  /\ UNCHANGED <<repoVars, objectVars, up, batchVars, writer>>

\* What becomes of the call when its push throws.
PushThrows(t) ==
  CASE Swallows(req[t].op) -> Finish(t)
    [] req[t].op = "end"   -> /\ Goto(t, "switch-again")
                              /\ UNCHANGED <<req, local, acked, refused>>
    [] OTHER               -> Throw(t)

\* The connection fails before the updates, between them or before their report.
SendFails(t) ==
  /\ pc[t] = "send"
  /\ Fault
  /\ remote' \in {remote, [remote EXCEPT !.head = local[t].src.head], local[t].src}
  /\ PushThrows(t)
  /\ UNCHANGED <<repoVars, objectVars, up, batchVars, writer>>

NothingToSend(t) ==
  /\ pc[t] = "push"
  /\ ~batch[Node(t)] /\ notes[Node(t)] = {}
  /\ PushThrows(t)
  /\ UNCHANGED <<repoVars, objectVars, remote, up, batchVars, writer, alone, counters>>

-----------------------------------------------------------------------------
(* with-batch: start-batch!, end-batch! and the push between them *)

SwitchOn(t) ==
  /\ pc[t] = "begin"
  /\ batch' = [batch EXCEPT ![Node(t)] = TRUE]
  /\ inBatch' = [inBatch EXCEPT ![t] = @ + 1]
  /\ nested' = (nested \/ inBatch[t] > 0)
  /\ Goto(t, "clear-begin")
  /\ UNCHANGED <<repoVars, objectVars, remote, up, pending, req, local, historyVars, counters>>

\* The end of start-batch!, and of an end-batch! that runs again.
ClearPending(t) ==
  /\ pc[t] \in {"clear-begin", "clear-again"}
  /\ pending' = [pending EXCEPT ![Node(t)] = FALSE]
  /\ Return(t)
  /\ UNCHANGED <<repoVars, objectVars, remote, up, batch, inBatch, nested, historyVars,
                 counters>>

\* A bug: end-batch! reads the atom after it has reset it.
ReadAfterReset(n) == FALSE

\* end-batch!: has-pending.
HasPending(n) == pending[n]

ReadPending(t) ==
  /\ pc[t] = "end"
  /\ local' = [local EXCEPT ![t].due = HasPending(Node(t))]
  /\ Goto(t, "switch")
  /\ UNCHANGED <<repoVars, objectVars, remote, up, batchVars, req, historyVars, counters>>

\* An exception of the body enters here, what end-batch! returns is then not used.  After
\* one of the last push end-batch! runs again.
SwitchOff(t) ==
  /\ pc[t] \in {"switch", "switch-again"}
  /\ batch' = [batch EXCEPT ![Node(t)] = FALSE]
  /\ Goto(t, IF pc[t] = "switch" THEN "clear" ELSE "clear-again")
  /\ UNCHANGED <<repoVars, objectVars, remote, up, pending, inBatch, nested, req, local,
                 historyVars, counters>>

\* The batch is over for its thread, also one that began inside another.
EndBatch(t) ==
  /\ pc[t] = "clear"
  /\ pending' = [pending EXCEPT ![Node(t)] = FALSE]
  /\ inBatch' = [inBatch EXCEPT ![t] = @ - 1]
  /\ IF local[t].due
     THEN /\ Goto(t, "push")
          /\ local' = [local EXCEPT ![t].due = FALSE]
          /\ UNCHANGED req
     ELSE Return(t)
  /\ UNCHANGED <<repoVars, objectVars, remote, up, batch, nested, historyVars, counters>>

-----------------------------------------------------------------------------
(* fetch-from-remote, pull-from-remote, and the start of a node *)

\* The end of a pull, or of the start that made it.
Pulled(t) == Return(t) /\ up' = [up EXCEPT ![Node(t)] = TRUE]

AfterFetch(t) ==
  IF req[t].op = "fetch" THEN Pulled(t) ELSE Goto(t, "compare") /\ UNCHANGED <<req, local, up>>

FetchBranch(t) ==
  /\ pc[t] = "fetch"
  /\ tracking' = [tracking EXCEPT ![Node(t)] = remote.head]
  /\ Goto(t, "fetch-notes")
  /\ UNCHANGED <<head, notes, objectVars, remote, up, batchVars, req, local, historyVars,
                 counters>>

\* A start catches what the fetch throws; a pull or a fetch is answered with it.
FetchFails(t) ==
  /\ pc[t] = "fetch"
  /\ Fault
  /\ Pulled(t)
  /\ UNCHANGED <<repoVars, objectVars, remote, batchVars, acked, refused, writer>>

\* The notes refspec is forced: the notes of the remote replace those of the node.
FetchNotes(t) ==
  /\ pc[t] = "fetch-notes"
  /\ notes' = [notes EXCEPT ![Node(t)] = remote.notes]
  /\ AfterFetch(t)
  /\ UNCHANGED <<head, tracking, objectVars, remote, batchVars, historyVars, counters>>

FetchNotesFails(t) ==
  /\ pc[t] = "fetch-notes"
  /\ Fault
  /\ AfterFetch(t)
  /\ UNCHANGED <<repoVars, objectVars, remote, batchVars, acked, refused, writer>>

\* isMergedInto: the local head is an ancestor of the one fetched.
Merged(mine, theirs) == mine \in past[theirs]

UpToDateOrDiverged(t) ==
  /\ pc[t] = "compare"
  /\ LET n == Node(t) IN head[n] = tracking[n] \/ ~Merged(head[n], tracking[n])
  /\ Pulled(t)
  /\ UNCHANGED <<repoVars, objectVars, remote, batchVars, historyVars, counters>>

Forwardable(t) ==
  /\ pc[t] = "compare"
  /\ LET n == Node(t) IN
       /\ head[n] # tracking[n] /\ Merged(head[n], tracking[n])
       /\ local' = [local EXCEPT ![t].base = head[n], ![t].new = tracking[n]]
  /\ Goto(t, "forward")
  /\ UNCHANGED <<repoVars, objectVars, remote, up, batchVars, req, historyVars, counters>>

\* The result of the update is not looked at: a branch that moved is left alone,
\* and the pull answers that it pulled.
FastForward(t) ==
  /\ pc[t] = "forward"
  /\ head' = [head EXCEPT ![Node(t)] =
                IF Unmoved(Node(t), local[t].base) THEN local[t].new ELSE @]
  /\ Pulled(t)
  /\ UNCHANGED <<tracking, notes, objectVars, remote, batchVars, historyVars, counters>>

-----------------------------------------------------------------------------
\* The atoms and the threads of the process are gone; the repository stays.
Crash(n) ==
  /\ crashes < MaxCrashes /\ crashes' = crashes + 1
  /\ up[n]
  /\ up' = [up EXCEPT ![n] = FALSE]
  /\ batch' = [batch EXCEPT ![n] = FALSE]
  /\ pending' = [pending EXCEPT ![n] = FALSE]
  /\ LET reset(f, default) == [t \in Threads |-> IF Node(t) = n THEN default ELSE f[t]] IN
       /\ pc' = reset(pc, "idle")
       /\ req' = reset(req, NoRequest)
       /\ local' = reset(local, Fresh)
       /\ inBatch' = reset(inBatch, 0)
  /\ alone' = FALSE
  /\ UNCHANGED <<repoVars, objectVars, remote, nested, acked, refused, writer, calls, faults>>

Calls(t) == \/ CallDocument(t) \/ CallRemote(t) \/ CallBatch(t) \/ LeaveBatch(t) \/ CallOpen(t)
Commit(t) == \/ Check(t) \/ InsertCommit(t) \/ ReadNotes(t) \/ WriteNotes(t) \/ CommitFails(t)
             \/ MoveBranch(t) \/ MoveRefused(t)
Pushing(t) == \/ Push(t) \/ Defer(t) \/ Send(t) \/ SendRejected(t) \/ SendFails(t)
              \/ NothingToSend(t)
Batching(t) == \/ SwitchOn(t) \/ ClearPending(t) \/ ReadPending(t) \/ SwitchOff(t) \/ EndBatch(t)
Pulling(t) == \/ FetchBranch(t) \/ FetchFails(t) \/ FetchNotes(t) \/ FetchNotesFails(t)
              \/ UpToDateOrDiverged(t) \/ Forwardable(t) \/ FastForward(t)

Next ==
  \/ \E t \in Threads : Calls(t) \/ Commit(t) \/ Pushing(t) \/ Batching(t) \/ Pulling(t)
  \/ \E n \in Nodes : Crash(n)

Spec == Init /\ [][Next]_vars

-----------------------------------------------------------------------------
(* Properties *)

\* No step of a save, a pull or a start takes a commit out of a node's branch:
\* the head only moves to a commit that descends from it, though no lock orders
\* commit-virtual and pull-from-remote.
HeadsAdvance == [][\A n \in Nodes : head[n] \in past'[head'[n]]]_vars

\* A write answered without an exception stays in the history of its node, and
\* one answered with an exception reaches no branch, whatever the push did: it is
\* not, as docs/remote-storage.md has it, saved with only its push missing.
AnsweredTruly ==
  \A n \in Nodes :
    /\ acked[n] \subseteq past[head[n]]
    /\ refused \cap past[head[n]] = {}

\* batch-mode is on only while a with-batch of its node runs, so an exception of a
\* body does not leave every later push of the process deferred.
BatchHeld == \A n \in Nodes : batch[n] => \E t \in Threads : Node(t) = n /\ inBatch[t] > 0

\* Nodes that take turns, and nothing that fails: at rest the remote stands at the
\* head of the node that wrote or pushed last, after a batch too, unless a batch
\* began inside another: that forgets the push which the one around it owes.
AtRest == \A t \in Threads : Idle(t)
TurnsMirrored == alone /\ ~nested /\ AtRest => remote.head = head[writer]

\* docs/remote-storage.md: the notes pushed with the branch are a complete audit
\* trail across all nodes: each commit the remote has is annotated there.
CompleteAuditTrail == past[remote.head] \subseteq remote.notes
=============================================================================
