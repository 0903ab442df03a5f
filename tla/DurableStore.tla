---------------------------- MODULE DurableStore ----------------------------
(***************************************************************************)
(* chrondb.storage.durable over chrondb.wal.core, chrondb.wal.recovery and *)
(* chrondb.concurrency.occ: request threads save and delete documents      *)
(* under a lock per branch; each attempt leaves an entry in a write-ahead  *)
(* log, one file per entry, which is rewritten as the attempt goes from    *)
(* the log to git, to the search index and to completion.  The process may *)
(* die at any step; the next start replays what the log left unfinished.   *)
(*                                                                         *)
(* Abstractions.  A document's content is one member of Values.  git is    *)
(* the content of each branch head: every writer of this module holds the  *)
(* branch lock, so a commit is one step, the ref update that ends          *)
(* commit-virtual.  The index is the set of contents filed under an id: it *)
(* knows no branch, saving adds and deleting removes all.  Metrics, logs   *)
(* and retry delays are left out.                                          *)
(***************************************************************************)
EXTENDS Naturals

CONSTANTS
  Threads,     \* request threads of the server
  Branches,    \* git branches written to
  Docs,        \* document ids
  Values,      \* document contents
  Absent,      \* no document, and the content of a delete's log entry
  NoThread,    \* holder of a free branch lock
  Unversioned, \* expected version of a call that gives none
  Ops,         \* operations the clients use, of {"save", "delete", "cas"}
  FaultKinds,  \* what may fail, of {"git", "index", "wal"}
  Admin,       \* does an operator call force-wal-truncate!
  MaxCalls,    \* bound: calls made by clients
  MaxCrashes,  \* bound: times the process dies
  MaxFaults    \* bound: failures of git, the index and log writes

ASSUME ConstantsAssumption ==
  /\ Absent \notin Values
  /\ NoThread \notin Threads
  /\ Unversioned \notin Nat
  /\ Ops \subseteq {"save", "delete", "cas"}
  /\ FaultKinds \subseteq {"git", "index", "wal"}
  /\ Admin \in BOOLEAN
  /\ MaxCalls \in Nat /\ MaxCrashes \in Nat /\ MaxFaults \in Nat

\* default-retry-config: attempts of with-occ-retry.
MaxAttempts == 3

\* Entry ids are random in the code and ordered by timestamp; here the order is the id.
\* Bound: no call makes more than MaxAttempts entries.
MaxEntries == MaxAttempts * MaxCalls
Ids == 1 .. MaxEntries

VARIABLES
  mode,      \* "up", "down" (process dead) or "recovering"
  pc,        \* pc[t]: the next step of thread t
  req,       \* req[t]: the request it serves
  attempt,   \* attempt[t]: loop variable of with-occ-retry
  entry,     \* entry[t]: id of the log entry of the attempt
  found,     \* found[t]: the result of the git step is truthy
  lock,      \* lock[b]: holder of the branch lock
  version,   \* version[b][d]: the in-memory version tracker
  git,       \* git[b][d]: content of d at the head of b
  commits,   \* every <<branch, doc, content>> ever committed
  index,     \* index[d]: contents the search index holds under id d
  wal,       \* wal[i]: the file of entry i
  nextId,    \* number of entries ever appended, plus one
  todo,      \* entries of recovery's snapshot still to be handled
  current,   \* recovery is about to mark [id, state]; id = 0 when it is not
  calls, crashes, faults  \* counters of the bounds

threadVars == <<pc, req, attempt, entry, found>>
dataVars   == <<git, commits, index>>
walVars    == <<wal, nextId>>
recVars    == <<todo, current>>
vars == <<mode, threadVars, lock, version, dataVars, walVars, recVars, calls, crashes, faults>>

-----------------------------------------------------------------------------
Contents == Values \cup {Absent}

\* A request carries the content to write, Absent for a delete, and a "cas"
\* (save-with-expected-version) the version its client expects.
NoRequest == [op |-> "none"]
Requests == [op : {"save", "delete", "cas"}, branch : Branches, doc : Docs,
             val : Contents, expected : Nat \cup {Unversioned}]

\* "none": no file.  "torn": a file no reader gets an entry from, since it was
\* truncated and not rewritten.
Unfinished == {"pending", "git-committed", "index-committed"}
Finished == {"completed", "rolled-back"}
EntryStates == Unfinished \cup Finished \cup {"torn"}
NoEntry == [state |-> "none"]
Entries == [branch : Branches, doc : Docs, val : Contents, state : EntryStates]

PCs == {"idle", "lock", "append", "git", "mark-git", "index", "mark-index", "complete",
        "finish", "rollback"}

NotMarking == [id |-> 0, state |-> "none"]
Markings == {NotMarking} \cup [id : Ids, state : Unfinished \cup Finished]

TypeOK ==
  /\ mode \in {"up", "down", "recovering"}
  /\ pc \in [Threads -> PCs]
  /\ req \in [Threads -> Requests \cup {NoRequest}]
  /\ attempt \in [Threads -> 1 .. MaxAttempts]
  /\ entry \in [Threads -> {0} \cup Ids]
  /\ found \in [Threads -> BOOLEAN]
  /\ lock \in [Branches -> Threads \cup {NoThread}]
  /\ version \in [Branches -> [Docs -> Nat]]
  /\ git \in [Branches -> [Docs -> Contents]]
  /\ commits \subseteq Branches \X Docs \X Contents
  /\ index \in [Docs -> SUBSET Values]
  /\ wal \in [Ids -> Entries \cup {NoEntry}]
  /\ nextId \in Nat \ {0}
  /\ todo \subseteq Ids
  /\ current \in Markings
  /\ calls \in Nat /\ crashes \in Nat /\ faults \in Nat

NoVersions == [b \in Branches |-> [d \in Docs |-> 0]]

Init ==
  /\ mode = "up"
  /\ pc = [t \in Threads |-> "idle"]
  /\ req = [t \in Threads |-> NoRequest]
  /\ attempt = [t \in Threads |-> 1]
  /\ entry = [t \in Threads |-> 0]
  /\ found = [t \in Threads |-> TRUE]
  /\ lock = [b \in Branches |-> NoThread]
  /\ version = NoVersions
  /\ git = [b \in Branches |-> [d \in Docs |-> Absent]]
  /\ commits = {}
  /\ index = [d \in Docs |-> {}]
  /\ wal = [i \in Ids |-> NoEntry]
  /\ nextId = 1
  /\ todo = {}
  /\ current = NotMarking
  /\ calls = 0 /\ crashes = 0 /\ faults = 0

-----------------------------------------------------------------------------
(* Pieces of the handlers *)

Fault(kind) == kind \in FaultKinds /\ faults < MaxFaults /\ faults' = faults + 1

\* with-branch-lock: a monitor per branch name, kept for the life of the process.
LockIgnored(b) == TRUE
LockFree(b) == lock[b] = NoThread

\* mark-state! rewrites the file of an entry it can read, and else does nothing.
Readable(i) == wal[i].state \in Unfinished \cup Finished
Marked(i, s) == IF Readable(i) THEN [wal EXCEPT ![i].state = s] ELSE wal

\* A failed rewrite left the file as it was, empty, or written but not forced to disk.
MarkFailed(i, s) ==
  /\ Readable(i)
  /\ Fault("wal")
  /\ \E left \in {wal[i].state, "torn", s} : wal' = [wal EXCEPT ![i].state = left]

\* save-document and delete-document of the git storage: a save always commits, a
\* delete only when the document is there.
Commits(e) == e.val # Absent \/ git[e.branch][e.doc] # Absent
CommitOf(e) ==
  IF Commits(e)
  THEN /\ git' = [git EXCEPT ![e.branch][e.doc] = e.val]
       /\ commits' = commits \cup {<<e.branch, e.doc, e.val>>}
  ELSE UNCHANGED <<git, commits>>

\* index-document adds a document to the Lucene index, delete-document removes every
\* document filed under the id; neither looks at the branch.
Indexed(e) == [index EXCEPT ![e.doc] = IF e.val = Absent THEN {} ELSE @ \cup {e.val}]

EntryOf(r) == [branch |-> r.branch, doc |-> r.doc, val |-> r.val, state |-> "pending"]

Goto(t, label) == pc' = [pc EXCEPT ![t] = label]

NotReleased(t) == lock
Released(t) == [lock EXCEPT ![req[t].branch] = NoThread]

\* Leaves the critical section: the call returns its result or throws.
Leave(t) ==
  /\ Goto(t, "idle")
  /\ lock' = Released(t)
  /\ req' = [req EXCEPT ![t] = NoRequest]
  /\ attempt' = [attempt EXCEPT ![t] = 1]
  /\ entry' = [entry EXCEPT ![t] = 0]
  /\ found' = [found EXCEPT ![t] = TRUE]

At(t, label) == mode = "up" /\ pc[t] = label

-----------------------------------------------------------------------------
(* Request threads *)

\* verify-version: an expected version is compared only with a version above zero.
Conflicts(r) ==
  /\ r.expected # Unversioned
  /\ version[r.branch][r.doc] > 0
  /\ r.expected # version[r.branch][r.doc]

\* save-document, delete-document, or save-with-expected-version, which verifies the
\* version before it goes for the lock.
Call(t, r) ==
  /\ At(t, "idle")
  /\ calls < MaxCalls
  /\ calls' = calls + 1
  /\ IF Conflicts(r)
     THEN UNCHANGED <<pc, req>>
     ELSE Goto(t, "lock") /\ req' = [req EXCEPT ![t] = r]
  /\ UNCHANGED <<mode, attempt, entry, found, lock, version, dataVars, walVars, recVars,
                 crashes, faults>>

Acquire(t) ==
  /\ At(t, "lock")
  /\ LockFree(req[t].branch)
  /\ lock' = [lock EXCEPT ![req[t].branch] = t]
  /\ Goto(t, "append")
  /\ UNCHANGED <<mode, req, attempt, entry, found, version, dataVars, walVars,
                 recVars, calls, crashes, faults>>

\* wal-save-document! and wal-delete-document!
Append(t) ==
  /\ At(t, "append")
  /\ nextId \in Ids
  /\ wal' = [wal EXCEPT ![nextId] = EntryOf(req[t])]
  /\ nextId' = nextId + 1
  /\ entry' = [entry EXCEPT ![t] = nextId]
  /\ Goto(t, "git")
  /\ UNCHANGED <<mode, req, attempt, found, lock, version, dataVars, recVars, calls,
                 crashes, faults>>

\* The log write is outside the handler's try: its exception marks nothing.
AppendFails(t) ==
  /\ At(t, "append")
  /\ nextId \in Ids
  /\ Fault("wal")
  /\ \E left \in {"torn", "pending"} :
       wal' = [wal EXCEPT ![nextId] = [EntryOf(req[t]) EXCEPT !.state = left]]
  /\ nextId' = nextId + 1
  /\ Leave(t)
  /\ UNCHANGED <<mode, version, dataVars, recVars, calls, crashes>>

\* The git storage's save-document or delete-document, whose result a delete answers.
Commit(t) ==
  /\ At(t, "git")
  /\ CommitOf(req[t])
  /\ found' = [found EXCEPT ![t] = Commits(req[t])]
  /\ Goto(t, "mark-git")
  /\ UNCHANGED <<mode, req, attempt, entry, lock, version, index, walVars, recVars,
                 calls, crashes, faults>>

FailureSwallowed == "mark-git"
AfterCommitFailure == "rollback"

\* Validation, input and output, or the ref update throw before the ref has moved.
CommitFails(t) ==
  /\ At(t, "git")
  /\ Fault("git")
  /\ Goto(t, AfterCommitFailure)
  /\ UNCHANGED <<mode, req, attempt, entry, found, lock, version, dataVars, walVars,
                 recVars, calls, crashes>>

\* wal-commit-git!, wal-commit-index! and wal-complete! in turn.
MarkStep(t, label, state, next) ==
  /\ At(t, label)
  /\ wal' = Marked(entry[t], state)
  /\ Goto(t, next)
  /\ UNCHANGED <<mode, req, attempt, entry, found, lock, version, dataVars, nextId,
                 recVars, calls, crashes, faults>>

MarkStepFails(t, label, state, next) ==
  /\ At(t, label)
  /\ MarkFailed(entry[t], state)
  /\ Goto(t, next)
  /\ UNCHANGED <<mode, req, attempt, entry, found, lock, version, dataVars, nextId,
                 recVars, calls, crashes>>

MarkGit(t) ==
  \/ MarkStep(t, "mark-git", "git-committed", "index")
  \/ MarkStepFails(t, "mark-git", "git-committed", "rollback")

\* A failure to mark the index step is caught with those of the index itself.
MarkIndex(t) ==
  \/ MarkStep(t, "mark-index", "index-committed", "complete")
  \/ MarkStepFails(t, "mark-index", "index-committed", "complete")

Complete(t) ==
  \/ MarkStep(t, "complete", "completed", "finish")
  \/ MarkStepFails(t, "complete", "completed", "rollback")

\* Lucene's index-document catches and logs its own failures ("mark-index" follows);
\* the Index protocol also allows one that throws, which the handler logs ("complete").
UpdateIndex(t) ==
  /\ At(t, "index")
  /\ \/ index' = Indexed(req[t]) /\ Goto(t, "mark-index") /\ UNCHANGED faults
     \/ Fault("index") /\ Goto(t, "mark-index") /\ UNCHANGED index
     \/ Fault("index") /\ Goto(t, "complete") /\ UNCHANGED index
  /\ UNCHANGED <<mode, req, attempt, entry, found, lock, version, git, commits,
                 walVars, recVars, calls, crashes>>

\* A save counts a version; a result that is not truthy sends with-occ-retry round its
\* loop, and after the last attempt it throws.
CountedVersion(t) ==
  IF req[t].op = "delete" THEN version
  ELSE [version EXCEPT ![req[t].branch][req[t].doc] = @ + 1]

OneRetryTooMany(t) == ~found[t] /\ attempt[t] <= MaxAttempts
Retries(t) == ~found[t] /\ attempt[t] < MaxAttempts

Finish(t) ==
  /\ At(t, "finish")
  /\ version' = CountedVersion(t)
  /\ \/ ~Retries(t) /\ Leave(t)
     \/ /\ Retries(t)
        /\ attempt' = [attempt EXCEPT ![t] = @ + 1]
        /\ lock' = Released(t)
        /\ Goto(t, "lock")
        /\ entry' = [entry EXCEPT ![t] = 0]
        /\ found' = [found EXCEPT ![t] = TRUE]
        /\ UNCHANGED req
  /\ UNCHANGED <<mode, dataVars, walVars, recVars, calls, crashes, faults>>

MarkForgotten(t) == wal
RolledBack(t) == Marked(entry[t], "rolled-back")

\* The handler's catch: mark the entry, then throw again.
Rollback(t) ==
  /\ At(t, "rollback")
  /\ \/ wal' = RolledBack(t) /\ UNCHANGED faults
     \/ MarkFailed(entry[t], "rolled-back")
  /\ Leave(t)
  /\ UNCHANGED <<mode, version, dataVars, nextId, recVars, calls, crashes>>

\* force-wal-truncate!: deletes the files of finished entries while requests run.
Truncated == [i \in Ids |-> IF wal[i].state \in Finished THEN NoEntry ELSE wal[i]]

Truncate ==
  /\ Admin /\ mode = "up"
  /\ wal' = Truncated
  /\ UNCHANGED <<mode, threadVars, lock, version, dataVars, nextId, recVars, calls, crashes,
                 faults>>

-----------------------------------------------------------------------------
(* Death of the process, and recover! at the next start *)

\* Files being rewritten when the process dies.
Rewriting ==
  {entry[t] : t \in {u \in Threads : pc[u] \in {"mark-git", "mark-index", "complete", "rollback"}}}
    \cup {current.id}

\* Threads, locks and versions are memory.  A writer that commits each update keeps
\* the index, one that has not committed yet loses it.  A crash inside Append is one
\* before it: the empty file it may leave is skipped by every reader.
Crash ==
  /\ mode # "down" /\ crashes < MaxCrashes
  /\ crashes' = crashes + 1
  /\ mode' = "down"
  /\ \E torn \in SUBSET {i \in Rewriting \ {0} : Readable(i)} :
       wal' = [i \in Ids |-> IF i \in torn THEN [wal[i] EXCEPT !.state = "torn"] ELSE wal[i]]
  /\ index' \in {index, [d \in Docs |-> {}]}
  /\ pc' = [t \in Threads |-> "idle"]
  /\ req' = [t \in Threads |-> NoRequest]
  /\ attempt' = [t \in Threads |-> 1]
  /\ entry' = [t \in Threads |-> 0]
  /\ found' = [t \in Threads |-> TRUE]
  /\ lock' = [b \in Branches |-> NoThread]
  /\ version' = NoVersions
  /\ todo' = {} /\ current' = NotMarking
  /\ UNCHANGED <<git, commits, nextId, calls, faults>>

\* pending-entries: what recovery takes its one snapshot of.
PendingEntries == {i \in Ids : wal[i].state \in Unfinished}

\* With nothing pending recover! returns before it truncates.
Restart ==
  /\ mode = "down"
  /\ todo' = PendingEntries
  /\ mode' = IF PendingEntries = {} THEN "up" ELSE "recovering"
  /\ UNCHANGED <<threadVars, lock, version, dataVars, walVars, current, calls, crashes, faults>>

\* The state an entry in state s is given when its recovery step succeeds.
IndexedAgain(s) == IF s = "git-committed" THEN "completed" ELSE "git-committed"
RecoveredState(s) == IF s = "pending" THEN "git-committed" ELSE "completed"

\* recover-save-entry! and recover-delete-entry!, oldest entry first: one step of an
\* entry per start.  An exception marks the entry rolled back, whatever the step was.
Recovers(i, state) ==
  /\ mode = "recovering" /\ current = NotMarking
  /\ i \in todo /\ (\A j \in todo : i <= j)
  /\ wal[i].state = state
  /\ todo' = todo \ {i}
  /\ UNCHANGED <<mode, threadVars, lock, version, walVars, calls, crashes>>

MarkNext(i, state) == current' = [id |-> i, state |-> state]

RecoverPending(i) ==
  /\ Recovers(i, "pending")
  /\ \/ CommitOf(wal[i]) /\ MarkNext(i, RecoveredState("pending")) /\ UNCHANGED faults
     \/ Fault("git") /\ MarkNext(i, "rolled-back") /\ UNCHANGED <<git, commits>>
  /\ UNCHANGED index

RecoverGitCommitted(i) ==
  /\ Recovers(i, "git-committed")
  /\ \/ index' = Indexed(wal[i]) /\ MarkNext(i, RecoveredState("git-committed")) /\ UNCHANGED faults
     \/ Fault("index") /\ MarkNext(i, RecoveredState("git-committed")) /\ UNCHANGED index
     \/ Fault("index") /\ MarkNext(i, "rolled-back") /\ UNCHANGED index
  /\ UNCHANGED <<git, commits>>

RecoverIndexCommitted(i) ==
  /\ Recovers(i, "index-committed")
  /\ MarkNext(i, RecoveredState("index-committed"))
  /\ UNCHANGED <<dataVars, faults>>

RecoverEntry(i) == RecoverPending(i) \/ RecoverGitCommitted(i) \/ RecoverIndexCommitted(i)

\* A failed mark is answered by one to "rolled-back"; when that fails too the
\* exception leaves recover! and the process with it.
RecoverMark ==
  /\ mode = "recovering" /\ current # NotMarking
  /\ \/ /\ wal' = Marked(current.id, current.state)
        /\ current' = NotMarking
        /\ UNCHANGED <<mode, todo, faults>>
     \/ /\ MarkFailed(current.id, current.state)
        /\ IF current.state = "rolled-back"
           THEN mode' = "down" /\ current' = NotMarking /\ todo' = {}
           ELSE current' = [current EXCEPT !.state = "rolled-back"] /\ UNCHANGED <<mode, todo>>
  /\ UNCHANGED <<threadVars, lock, version, dataVars, nextId, calls, crashes>>

RepeatsUntilClean == todo = {} /\ PendingEntries = {}
SnapshotDone == todo = {}

RecoverDone ==
  /\ mode = "recovering" /\ current = NotMarking /\ SnapshotDone
  /\ wal' = Truncated
  /\ mode' = "up"
  /\ UNCHANGED <<threadVars, lock, version, dataVars, nextId, recVars, calls, crashes, faults>>

Recovery == Restart \/ (\E i \in Ids : RecoverEntry(i)) \/ RecoverMark \/ RecoverDone

-----------------------------------------------------------------------------
\* A client expects any version number the tracker can have told anybody.
Offered ==
  UNION { IF op = "delete"
          THEN [op : {op}, branch : Branches, doc : Docs, val : {Absent}, expected : {Unversioned}]
          ELSE [op : {op}, branch : Branches, doc : Docs, val : Values,
                expected : IF op = "cas" THEN 0 .. calls ELSE {Unversioned}] : op \in Ops }

Step(t) ==
  \/ Acquire(t) \/ Append(t) \/ AppendFails(t) \/ Commit(t) \/ CommitFails(t)
  \/ MarkGit(t) \/ UpdateIndex(t) \/ MarkIndex(t) \/ Complete(t) \/ Finish(t) \/ Rollback(t)

Next ==
  \/ \E t \in Threads : Step(t) \/ \E r \in Offered : Call(t, r)
  \/ Truncate
  \/ Crash
  \/ Recovery

Spec == Init /\ [][Next]_vars

\* The JVM runs every runnable thread; a free monitor goes to some waiting thread, and
\* calls are finite in number, so weak fairness is enough.  An operator restarts.
Fairness == (\A t \in Threads : WF_vars(Step(t))) /\ WF_vars(Recovery)
FairSpec == Spec /\ Fairness

-----------------------------------------------------------------------------
(* Properties *)

InSection(t) == pc[t] \notin {"idle", "lock"}

\* Branch locks serialize writers: whoever works on a branch holds its lock, and a lock
\* is held by nobody who does not (with-branch-lock, over its exception paths too).
LockDiscipline ==
  \A b \in Branches, t \in Threads :
    lock[b] = t <=> InSection(t) /\ req[t].branch = b

\* The reason recovery may replay without looking: while requests are served, an entry
\* is pending only if the holder of its branch lock is still on the way to mark it.  A
\* pending entry left behind would be replayed at the next start over later writes.
PendingIsHeld ==
  mode = "up" =>
    \A i \in Ids : wal[i].state = "pending" =>
      \E t \in Threads : /\ entry[t] = i
                         /\ pc[t] \in {"git", "mark-git", "rollback"}
                         /\ lock[wal[i].branch] = t

\* Between its commit and the release of its lock a writer's own content is the head's:
\* no other writer and no replay slips in.
HolderSeesOwnWrite ==
  \A t \in Threads :
    pc[t] \in {"mark-git", "index", "mark-index", "complete", "finish"} =>
      git[req[t].branch][req[t].doc] = req[t].val

\* The log never claims more than git did: an entry past "pending" stands for content
\* that was committed on its branch, whatever crashed or was replayed in between.
LogBehindGit ==
  \A i \in Ids :
    wal[i].state \in {"git-committed", "index-committed", "completed"} /\ wal[i].val # Absent =>
      <<wal[i].branch, wal[i].doc, wal[i].val>> \in commits

\* A search cannot return content that was rolled back, refused or lost: what the index
\* holds was committed on some branch.
IndexBehindGit ==
  \A d \in Docs : \A v \in index[d] : \E b \in Branches : <<b, d, v>> \in commits

\* At most one write of a branch is undecided by the log at any instant, crash or not,
\* so replays of one branch never compete.
OnePendingPerBranch ==
  \A i, j \in Ids :
    wal[i].state = "pending" /\ wal[j].state = "pending" /\ wal[i].branch = wal[j].branch => i = j

Rank(s) == CASE s = "pending" -> 0 [] s = "git-committed" -> 1
             [] s = "index-committed" -> 2 [] OTHER -> 3

\* Entries only move on: no step takes an entry back to an earlier state, and a finished
\* one is only ever deleted.
LogMovesOn ==
  [][\A i \in Ids : wal[i].state \in Unfinished \cup Finished =>
       \/ wal'[i].state \in {wal[i].state, "torn"}
       \/ wal[i].state \in Finished /\ wal'[i].state = "none"
       \/ wal[i].state \in Unfinished /\ wal'[i].state \in Unfinished \cup Finished
                                      /\ Rank(wal[i].state) < Rank(wal'[i].state)]_vars

\* The writes of pending entries that git does not show: what a replay may still make.
Undecided ==
  {w \in [branch : Branches, doc : Docs, val : Contents] :
     /\ git[w.branch][w.doc] # w.val
     /\ \E i \in Ids : /\ wal[i].state = "pending"
                       /\ w = [branch |-> wal[i].branch, doc |-> wal[i].doc, val |-> wal[i].val]}

CallOf(t) ==
  IF pc[t] = "idle" THEN [status |-> "idle"]
  ELSE [status |-> IF pc[t] \in {"mark-git", "index", "mark-index", "complete", "finish"} /\ found[t]
                   THEN "done" ELSE "open",
        write  |-> [branch |-> req[t].branch, doc |-> req[t].doc, val |-> req[t].val]]

Atomic == INSTANCE AtomicStore
  WITH store   <- git,
       call    <- [t \in Threads |-> CallOf(t)],
       orphans <- IF mode = "up" THEN {} ELSE Undecided,
       serving <- mode = "up"

\* The store is atomic and durable across crashes: see AtomicStore.
Implements == Atomic!Spec

\* recover! says it recovers all pending entries: none is unfinished when it is done.
RecoveryCompletes ==
  [][mode = "recovering" /\ mode' = "up" =>
       \A i \in Ids : wal'[i].state \notin Unfinished]_vars

\* save-with-expected-version says it throws if the version has changed: a save that
\* expected a version is committed only over that version.
ExpectedVersionHolds ==
  [][\A t \in Threads :
       /\ pc[t] = "git" /\ pc'[t] = "mark-git" /\ req[t].expected # Unversioned
       /\ version[req[t].branch][req[t].doc] > 0
       => version[req[t].branch][req[t].doc] = req[t].expected]_vars

\* Every call is answered, or the process dies.
CallsAnswered == \A t \in Threads : pc[t] = "lock" ~> pc[t] = "idle"

\* Every start ends its recovery and serves, or dies again.
RecoveryEnds == mode = "recovering" ~> mode # "recovering"
=============================================================================
