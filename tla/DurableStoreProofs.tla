------------------------- MODULE DurableStoreProofs -------------------------
(***************************************************************************)
(* Proofs about DurableStore for every set of threads, branches, documents *)
(* and contents, every choice of operations and failures, and every bound. *)
(***************************************************************************)
EXTENDS DurableStore, TLAPS

\* A thread has a request exactly while it is not idle.
RequestOK ==
  \A t \in Threads : IF pc[t] = "idle" THEN req[t] = NoRequest ELSE req[t] \in Requests

\* A thread past the log write knows its entry.
Logged(t) == pc[t] \notin {"idle", "lock", "append"}
EntryOK == \A t \in Threads : Logged(t) => entry[t] \in Ids

\* Requests run only in a process that is up.
IdleUnlessUp == mode # "up" => \A t \in Threads : pc[t] = "idle"

TypeInv == TypeOK /\ RequestOK /\ EntryOK /\ IdleUnlessUp

LEMMA OfferedRequests == ASSUME calls \in Nat PROVE Offered \subseteq Requests
  BY ConstantsAssumption DEF Offered, Requests, Contents

LEMMA NewEntry ==
  ASSUME NEW r \in Requests, NEW s \in EntryStates
  PROVE  [EntryOf(r) EXCEPT !.state = s] \in Entries /\ EntryOf(r) \in Entries
<1>1. EntryOf(r) \in Entries
  BY DEF EntryOf, Requests, Entries, EntryStates, Unfinished
<1> QED
  BY <1>1 DEF Entries

LEMMA EntryPending == ASSUME NEW r PROVE EntryOf(r) = [EntryOf(r) EXCEPT !.state = "pending"]
  BY DEF EntryOf

LEMMA SetState ==
  ASSUME wal \in [Ids -> Entries \cup {NoEntry}],
         NEW i \in Ids, wal[i].state \in EntryStates, NEW s \in EntryStates
  PROVE  [wal EXCEPT ![i].state = s] \in [Ids -> Entries \cup {NoEntry}]
<1>1. wal[i] \in Entries
  BY DEF Entries, NoEntry, EntryStates, Unfinished, Finished
<1>2. [wal[i] EXCEPT !.state = s] \in Entries
  BY <1>1 DEF Entries
<1> QED
  BY <1>2

LEMMA MarkedType ==
  ASSUME wal \in [Ids -> Entries \cup {NoEntry}],
         NEW i \in Ids, NEW s \in EntryStates
  PROVE  Marked(i, s) \in [Ids -> Entries \cup {NoEntry}]
  BY SetState DEF Marked, Readable, EntryStates

LEMMA MarkFailedType ==
  ASSUME wal \in [Ids -> Entries \cup {NoEntry}],
         NEW i \in Ids, NEW s \in EntryStates, MarkFailed(i, s)
  PROVE  wal' \in [Ids -> Entries \cup {NoEntry}]
  BY SetState DEF MarkFailed, Readable, EntryStates

LEMMA SetDocument ==
  ASSUME git \in [Branches -> [Docs -> Contents]],
         NEW b \in Branches, NEW d \in Docs, NEW v \in Contents
  PROVE  [git EXCEPT ![b][d] = v] \in [Branches -> [Docs -> Contents]]
  OBVIOUS

LEMMA CommitTypes ==
  ASSUME git \in [Branches -> [Docs -> Contents]], commits \subseteq Branches \X Docs \X Contents,
         NEW e, e.branch \in Branches, e.doc \in Docs, e.val \in Contents, CommitOf(e)
  PROVE  /\ git' \in [Branches -> [Docs -> Contents]]
         /\ commits' \subseteq Branches \X Docs \X Contents
<1>1. CASE Commits(e)
  <2>1. git' = [git EXCEPT ![e.branch][e.doc] = e.val]
    BY <1>1 DEF CommitOf
  <2>2. commits' = commits \cup {<<e.branch, e.doc, e.val>>}
    BY <1>1 DEF CommitOf
  <2> QED
    BY <2>1, <2>2, SetDocument
<1>2. CASE ~Commits(e)
  BY <1>2 DEF CommitOf
<1> QED
  BY <1>1, <1>2

LEMMA IndexedTypes ==
  ASSUME index \in [Docs -> SUBSET Values], NEW e, e.doc \in Docs, e.val \in Contents
  PROVE  Indexed(e) \in [Docs -> SUBSET Values]
<1>1. CASE e.val = Absent
  BY <1>1 DEF Indexed
<1>2. CASE e.val # Absent
  BY <1>2 DEF Indexed, Contents
<1> QED
  BY <1>1, <1>2

LEMMA InitTypes == Init => TypeInv
  BY ConstantsAssumption
  DEF Init, TypeInv, TypeOK, RequestOK, EntryOK, Logged, IdleUnlessUp, PCs, Contents, NoVersions, Ids,
      MaxAttempts, Markings, NotMarking

LEMMA LeaveTypes ==
  ASSUME TypeInv, NEW t \in Threads, mode = "up", mode' = mode, pc[t] # "idle", Leave(t)
  PROVE  /\ pc' \in [Threads -> PCs] /\ req' \in [Threads -> Requests \cup {NoRequest}]
         /\ attempt' \in [Threads -> 1 .. MaxAttempts] /\ entry' \in [Threads -> {0} \cup Ids]
         /\ found' \in [Threads -> BOOLEAN] /\ lock' \in [Branches -> Threads \cup {NoThread}]
         /\ RequestOK' /\ EntryOK' /\ IdleUnlessUp'
<1> USE DEF TypeInv, TypeOK, Leave, Goto
<1>1. pc' \in [Threads -> PCs] BY DEF PCs
<1>2. req' \in [Threads -> Requests \cup {NoRequest}] OBVIOUS
<1>3. attempt' \in [Threads -> 1 .. MaxAttempts] BY DEF MaxAttempts
<1>4. entry' \in [Threads -> {0} \cup Ids] OBVIOUS
<1>5. found' \in [Threads -> BOOLEAN] OBVIOUS
<1>6. lock' \in [Branches -> Threads \cup {NoThread}] BY DEF Released
<1>7. RequestOK' BY DEF RequestOK
<1>8. EntryOK' BY DEF EntryOK, Logged
<1>9. IdleUnlessUp' BY DEF IdleUnlessUp
<1> QED BY <1>1, <1>2, <1>3, <1>4, <1>5, <1>6, <1>7, <1>8, <1>9

LEMMA StepTypes == ASSUME TypeInv, [Next]_vars PROVE TypeInv'
<1> USE DEF TypeInv, TypeOK
<1>1. ASSUME NEW t \in Threads, NEW r \in Offered, Call(t, r) PROVE TypeInv'
  <2>1. r \in Requests
    BY OfferedRequests
  <2>2. CASE Conflicts(r)
    BY <1>1, <2>2 DEF Call, RequestOK, EntryOK, Logged, IdleUnlessUp, dataVars, walVars, recVars
  <2>3. CASE ~Conflicts(r)
    <3> USE <1>1, <2>1, <2>3 DEF Call, At, Goto
    <3>1. pc' \in [Threads -> PCs] BY DEF PCs
    <3>2. req' \in [Threads -> Requests \cup {NoRequest}] OBVIOUS
    <3>3. RequestOK' BY DEF RequestOK
    <3>4. EntryOK' BY DEF EntryOK, Logged
    <3>5. IdleUnlessUp' BY DEF IdleUnlessUp
    <3>6. calls' \in Nat OBVIOUS
    <3> QED BY <3>1, <3>2, <3>3, <3>4, <3>5, <3>6 DEF dataVars, walVars, recVars
  <2> QED
    BY <2>2, <2>3
<1>2. ASSUME NEW t \in Threads, Acquire(t) PROVE TypeInv'
  <2>1. req[t] \in Requests
    BY <1>2 DEF Acquire, At, RequestOK
  <2>2. lock' \in [Branches -> Threads \cup {NoThread}]
    BY <1>2, <2>1 DEF Acquire, Requests
  <2> QED
    BY <1>2, <2>2
    DEF Acquire, At, Goto, RequestOK, EntryOK, Logged, IdleUnlessUp, PCs, dataVars, walVars, recVars
<1>3. ASSUME NEW t \in Threads, Append(t) PROVE TypeInv'
  <2>1. wal' \in [Ids -> Entries \cup {NoEntry}]
    BY <1>3, NewEntry DEF Append, At, RequestOK, EntryStates
  <2>2. nextId' \in Nat \ {0} /\ nextId \in Ids
    BY <1>3 DEF Append
  <2> QED
    BY <1>3, <2>1, <2>2
    DEF Append, At, Goto, RequestOK, EntryOK, Logged, IdleUnlessUp, PCs, dataVars, recVars
<1>4. ASSUME NEW t \in Threads, AppendFails(t) PROVE TypeInv'
  <2>1. wal' \in [Ids -> Entries \cup {NoEntry}]
    <3>1. req[t] \in Requests
      BY <1>4 DEF AppendFails, At, RequestOK
    <3>2. PICK left \in EntryStates : wal' = [wal EXCEPT ![nextId] = [EntryOf(req[t]) EXCEPT !.state = left]]
      BY <1>4 DEF AppendFails, EntryStates, Unfinished
    <3> QED
      BY <3>1, <3>2, NewEntry
  <2>2. nextId' \in Nat \ {0} /\ faults' \in Nat
    BY <1>4 DEF AppendFails, Fault
  <2> QED
    BY <1>4, <2>1, <2>2, LeaveTypes DEF AppendFails, At, dataVars, recVars
<1>5. ASSUME NEW t \in Threads, Commit(t) PROVE TypeInv'
  <2>1. req[t] \in Requests
    BY <1>5 DEF Commit, At, RequestOK
  <2>2. git' \in [Branches -> [Docs -> Contents]] /\ commits' \subseteq Branches \X Docs \X Contents
    BY <1>5, <2>1, CommitTypes DEF Commit, Requests
  <2>3. found' \in [Threads -> BOOLEAN]
    BY <1>5 DEF Commit, Commits
  <2> QED
    BY <1>5, <2>2, <2>3
    DEF Commit, At, Goto, RequestOK, EntryOK, Logged, IdleUnlessUp, PCs, walVars, recVars
<1>6. ASSUME NEW t \in Threads, CommitFails(t) PROVE TypeInv'
  BY <1>6 DEF CommitFails, AfterCommitFailure, Fault, At, Goto, RequestOK, EntryOK, Logged, IdleUnlessUp, PCs, dataVars, walVars, recVars
<1>7. ASSUME NEW t \in Threads, MarkGit(t) \/ MarkIndex(t) \/ Complete(t) PROVE TypeInv'
  <2>1. PICK l \in {"mark-git", "mark-index", "complete"},
             n \in {"index", "complete", "finish", "rollback"},
             s \in EntryStates : MarkStep(t, l, s, n) \/ MarkStepFails(t, l, s, n)
    BY <1>7 DEF MarkGit, MarkIndex, Complete, EntryStates, Unfinished, Finished
  <2>2. entry[t] \in Ids
    BY <2>1 DEF MarkStep, MarkStepFails, At, EntryOK, Logged
  <2>3. wal' \in [Ids -> Entries \cup {NoEntry}]
    BY <2>1, <2>2, MarkedType, MarkFailedType DEF MarkStep, MarkStepFails
  <2>4. faults' \in Nat
    BY <2>1 DEF MarkStep, MarkStepFails, MarkFailed, Fault
  <2> QED
    BY <2>1, <2>3, <2>4
    DEF MarkStep, MarkStepFails, At, Goto, RequestOK, EntryOK, Logged, IdleUnlessUp, PCs,
        dataVars, recVars
<1>8. ASSUME NEW t \in Threads, UpdateIndex(t) PROVE TypeInv'
  <2>1. req[t] \in Requests
    BY <1>8 DEF UpdateIndex, At, RequestOK
  <2>2. index' \in [Docs -> SUBSET Values]
    BY <1>8, <2>1, IndexedTypes DEF UpdateIndex, Requests
  <2>3. /\ faults' \in Nat /\ At(t, "index")
        /\ \E l \in {"mark-index", "complete"} : Goto(t, l)
    BY <1>8 DEF UpdateIndex, Fault
  <2> QED
    BY <1>8, <2>2, <2>3
    DEF UpdateIndex, At, Goto, RequestOK, EntryOK, Logged, IdleUnlessUp, PCs, walVars, recVars
<1>9. ASSUME NEW t \in Threads, Finish(t) PROVE TypeInv'
  <2>1. req[t] \in Requests /\ At(t, "finish")
    BY <1>9 DEF Finish, At, RequestOK
  <2>2. version' \in [Branches -> [Docs -> Nat]]
    BY <1>9, <2>1 DEF Finish, CountedVersion, Requests
  <2>3. attempt' \in [Threads -> 1 .. MaxAttempts]
    BY <1>9 DEF Finish, Retries, Leave, MaxAttempts
  <2> QED
    BY <1>9, <2>1, <2>2, <2>3
    DEF Finish, Leave, Released, At, Goto, RequestOK, EntryOK, Logged, IdleUnlessUp, PCs,
        dataVars, walVars, recVars
<1>10. ASSUME NEW t \in Threads, Rollback(t) PROVE TypeInv'
  <2>1. entry[t] \in Ids
    BY <1>10 DEF Rollback, At, EntryOK, Logged
  <2>2. wal' \in [Ids -> Entries \cup {NoEntry}]
    BY <1>10, <2>1, MarkedType, MarkFailedType DEF Rollback, RolledBack, EntryStates, Finished
  <2>3. faults' \in Nat
    BY <1>10 DEF Rollback, MarkFailed, Fault
  <2> QED
    BY <1>10, <2>2, <2>3, LeaveTypes DEF Rollback, At, dataVars, recVars
<1>11. CASE Truncate
  BY <1>11 DEF Truncate, Truncated, RequestOK, EntryOK, Logged, IdleUnlessUp, threadVars, dataVars, recVars
<1>12. CASE Crash
  <2>1. wal' \in [Ids -> Entries \cup {NoEntry}]
    <3>1. PICK torn \in SUBSET {i \in Rewriting \ {0} : Readable(i)} :
            wal' = [i \in Ids |-> IF i \in torn THEN [wal[i] EXCEPT !.state = "torn"] ELSE wal[i]]
      BY <1>12 DEF Crash
    <3>2. ASSUME NEW i \in Ids, Readable(i) PROVE [wal[i] EXCEPT !.state = "torn"] \in Entries
      <4>1. wal[i] \in Entries
        BY <3>2 DEF Readable, NoEntry, Unfinished, Finished
      <4> QED
        BY <4>1 DEF Entries, EntryStates
    <3> QED
      BY <3>1, <3>2
  <2> QED
    BY <1>12, <2>1
    DEF Crash, NoVersions, RequestOK, EntryOK, Logged, IdleUnlessUp, PCs, MaxAttempts, Markings
<1>13. CASE Restart
  BY <1>13
  DEF Restart, PendingEntries, RequestOK, EntryOK, Logged, IdleUnlessUp, threadVars, dataVars, walVars
<1>14. ASSUME NEW i \in Ids, RecoverEntry(i) PROVE TypeInv'
  <2> USE <1>14 DEF RecoverEntry, RecoverPending, RecoverGitCommitted, RecoverIndexCommitted
  <2>1. Recovers(i, wal[i].state) /\ wal[i].state \in Unfinished
    BY DEF Recovers, Unfinished
  <2>2. wal[i] \in Entries
    BY <2>1 DEF Unfinished, Entries, NoEntry
  <2>3. git' \in [Branches -> [Docs -> Contents]] /\ commits' \subseteq Branches \X Docs \X Contents
    BY <2>2, CommitTypes DEF Entries, dataVars
  <2>4. index' \in [Docs -> SUBSET Values]
    BY <2>2, IndexedTypes DEF Entries, dataVars
  <2>5. current' \in Markings
    BY DEF MarkNext, Markings, RecoveredState, Unfinished, Finished
  <2>6. faults' \in Nat
    BY DEF Fault
  <2> QED
    BY <2>1, <2>3, <2>4, <2>5, <2>6
    DEF Recovers, RequestOK, EntryOK, Logged, IdleUnlessUp, threadVars, walVars
<1>15. CASE RecoverMark
  <2>1. current.id \in Ids /\ current.state \in EntryStates
    BY <1>15 DEF RecoverMark, Markings, EntryStates
  <2>2. wal' \in [Ids -> Entries \cup {NoEntry}]
    BY <1>15, <2>1, MarkedType, MarkFailedType DEF RecoverMark
  <2>3. current' \in Markings
    BY <1>15, <2>1 DEF RecoverMark, Markings, NotMarking, Finished
  <2>4. faults' \in Nat
    BY <1>15 DEF RecoverMark, MarkFailed, Fault
  <2> QED
    BY <1>15, <2>2, <2>3, <2>4
    DEF RecoverMark, RequestOK, EntryOK, Logged, IdleUnlessUp, threadVars, dataVars
<1>16. CASE RecoverDone
  BY <1>16
  DEF RecoverDone, Truncated, RequestOK, EntryOK, Logged, IdleUnlessUp, threadVars, dataVars, recVars
<1>17. CASE UNCHANGED vars
  BY <1>17
  DEF vars, RequestOK, EntryOK, Logged, IdleUnlessUp, threadVars, dataVars, walVars, recVars
<1> QED
  BY <1>1, <1>2, <1>3, <1>4, <1>5, <1>6, <1>7, <1>8, <1>9, <1>10, <1>11, <1>12, <1>13, <1>14, <1>15,
     <1>16, <1>17
  DEF Next, Step, Recovery

\* TypeOK: every variable keeps its type in every reachable state.
THEOREM TypeCorrect == Spec => []TypeOK
<1>1. Init => TypeInv
  BY InitTypes
<1>2. TypeInv /\ [Next]_vars => TypeInv'
  BY StepTypes
<1>3. TypeInv => TypeOK
  BY DEF TypeInv
<1> QED
  BY <1>1, <1>2, <1>3, PTL DEF Spec

-----------------------------------------------------------------------------
(* Locks *)

\* Taking a lock: t enters its section.
LEMMA Enters ==
  ASSUME TypeInv, LockDiscipline, NEW t \in Threads, Acquire(t) PROVE LockDiscipline'
<1> USE DEF TypeInv, TypeOK
<1>1. req[t] \in Requests /\ ~InSection(t) /\ InSection(t)'
  BY DEF Acquire, At, Goto, RequestOK, InSection
<1>2. req[t].branch \in Branches
  BY <1>1 DEF Requests
<1>3. lock[req[t].branch] = NoThread /\ req' = req
  BY DEF Acquire, LockFree
<1>4. \A u \in Threads \ {t} : InSection(u)' <=> InSection(u)
  BY DEF Acquire, Goto, InSection
<1>5. lock' = [lock EXCEPT ![req[t].branch] = t]
  BY DEF Acquire
<1>6. ASSUME NEW b \in Branches, NEW u \in Threads
      PROVE  lock'[b] = u <=> InSection(u)' /\ req[u].branch = b
  <2>1. CASE u = t
    BY <1>1, <1>2, <1>5, <2>1 DEF LockDiscipline
  <2>2. CASE u # t
    BY <1>2, <1>3, <1>4, <1>5, <2>2, ConstantsAssumption DEF LockDiscipline
  <2> QED
    BY <2>1, <2>2
<1> QED
  BY <1>3, <1>6 DEF LockDiscipline

\* Giving it back, on every path out of the section.
LEMMA Exits ==
  ASSUME TypeInv, LockDiscipline, NEW t \in Threads, InSection(t),
         lock' = Released(t), pc' \in [Threads -> PCs],
         pc'[t] \in {"idle", "lock"},
         \A u \in Threads \ {t} : pc'[u] = pc[u] /\ req'[u] = req[u]
  PROVE  LockDiscipline'
<1> USE DEF TypeInv, TypeOK
<1>1. req[t].branch \in Branches
  BY DEF InSection, RequestOK, Requests
<1>2. lock[req[t].branch] = t
  BY <1>1 DEF LockDiscipline
<1>3. ~InSection(t)'
  BY DEF InSection
<1>4. lock' = [lock EXCEPT ![req[t].branch] = NoThread]
  BY DEF Released
<1>5. ASSUME NEW b \in Branches, NEW u \in Threads
      PROVE  lock'[b] = u <=> InSection(u)' /\ req'[u].branch = b
  <2>1. CASE u = t
    BY <1>1, <1>2, <1>3, <1>4, <2>1, ConstantsAssumption DEF LockDiscipline
  <2>2. CASE u # t
    <3>1. InSection(u)' <=> InSection(u)
      BY <2>2 DEF InSection
    <3> QED
      BY <1>1, <1>2, <1>4, <2>2, <3>1, ConstantsAssumption DEF LockDiscipline
  <2> QED
    BY <2>1, <2>2
<1> QED
  BY <1>5 DEF LockDiscipline

\* Only its own lock is given back.
LEMMA ReleaseOwn ==
  ASSUME TypeInv, LockDiscipline, NEW t \in Threads, InSection(t), lock' = Released(t),
         NEW u \in Threads, u # t, NEW b \in Branches, lock[b] = u
  PROVE  lock'[b] = u
<1>1. req[t].branch \in Branches
  BY DEF InSection, RequestOK, Requests, TypeInv
<1>2. lock[req[t].branch] = t
  BY <1>1 DEF LockDiscipline
<1> QED
  BY <1>1, <1>2 DEF Released, TypeInv, TypeOK

\* A step that neither crosses the border of a section nor touches lock or request.
LEMMA Stays ==
  ASSUME LockDiscipline, lock' = lock,
         \A u \in Threads : InSection(u)' <=> InSection(u),
         \A u \in Threads : InSection(u) => req'[u] = req[u]
  PROVE  LockDiscipline'
  BY DEF LockDiscipline

LEMMA StepLocks == ASSUME TypeInv, LockDiscipline, [Next]_vars PROVE LockDiscipline'
<1> USE DEF TypeInv, TypeOK
<1>1. ASSUME NEW t \in Threads, NEW r \in Offered, Call(t, r) PROVE LockDiscipline'
  BY <1>1, Stays DEF Call, At, Goto, InSection
<1>2. ASSUME NEW t \in Threads, Acquire(t) PROVE LockDiscipline'
  BY <1>2, Enters
<1>3. ASSUME NEW t \in Threads,
             Append(t) \/ Commit(t) \/ CommitFails(t) \/ UpdateIndex(t)
      PROVE  LockDiscipline'
  BY <1>3, Stays
  DEF Append, Commit, CommitFails, AfterCommitFailure, UpdateIndex, At, Goto, InSection
<1>4. ASSUME NEW t \in Threads, MarkGit(t) \/ MarkIndex(t) \/ Complete(t) PROVE LockDiscipline'
  BY <1>4, Stays DEF MarkGit, MarkIndex, Complete, MarkStep, MarkStepFails, At, Goto, InSection
<1>5. ASSUME NEW t \in Threads, AppendFails(t) \/ Finish(t) \/ Rollback(t) PROVE LockDiscipline'
  <2>1. InSection(t) /\ lock' = Released(t)
    BY <1>5 DEF AppendFails, Finish, Rollback, Leave, At, InSection
  <2>2. pc'[t] \in {"idle", "lock"} /\ pc' \in [Threads -> PCs]
    BY <1>5 DEF AppendFails, Finish, Rollback, Leave, Goto, PCs
  <2>3. \A u \in Threads \ {t} : pc'[u] = pc[u] /\ req'[u] = req[u]
    BY <1>5 DEF AppendFails, Finish, Rollback, Leave, Goto
  <2> QED
    BY <2>1, <2>2, <2>3, Exits
<1>6. CASE Truncate \/ Restart \/ RecoverMark \/ RecoverDone \/ UNCHANGED vars
  BY <1>6, Stays DEF Truncate, Restart, RecoverMark, RecoverDone, vars, threadVars, InSection
<1>7. ASSUME NEW i \in Ids, RecoverEntry(i) PROVE LockDiscipline'
  BY <1>7, Stays
  DEF RecoverEntry, RecoverPending, RecoverGitCommitted, RecoverIndexCommitted, Recovers,
      threadVars, InSection
<1>8. CASE Crash
  BY <1>8, ConstantsAssumption DEF Crash, LockDiscipline, InSection
<1> QED
  BY <1>1, <1>2, <1>3, <1>4, <1>5, <1>6, <1>7, <1>8 DEF Next, Step, Recovery

\* LockDiscipline: a branch lock is held by exactly the thread at work on the branch, on
\* every path through save-document and delete-document, failures and retries included.
THEOREM LocksSerialize == Spec => []LockDiscipline
<1>1. Init => TypeInv /\ LockDiscipline
  BY InitTypes, ConstantsAssumption DEF Init, LockDiscipline, InSection
<1>2. TypeInv /\ LockDiscipline /\ [Next]_vars => TypeInv' /\ LockDiscipline'
  BY StepTypes, StepLocks
<1> QED
  BY <1>1, <1>2, PTL DEF Spec

-----------------------------------------------------------------------------
(* Writers see their own commit until they let go of the branch *)

Committed(t) == pc[t] \in {"mark-git", "index", "mark-index", "complete", "finish"}

\* A step that does not move git keeps the property of every thread still past its commit.
LEMMA SameGit ==
  ASSUME HolderSeesOwnWrite, git' = git,
         \A t \in Threads : Committed(t)' => Committed(t) /\ req'[t] = req[t]
  PROVE  HolderSeesOwnWrite'
  BY DEF HolderSeesOwnWrite, Committed

\* The commit itself: the lock keeps every other thread past its commit off the branch.
LEMMA CommitSeen ==
  ASSUME TypeInv, LockDiscipline, HolderSeesOwnWrite, NEW t \in Threads, Commit(t)
  PROVE  HolderSeesOwnWrite'
<1> USE DEF TypeInv, TypeOK
<1>1. req[t] \in Requests /\ req' = req
  BY DEF Commit, At, RequestOK
<1>2. CommitOf(req[t]) /\ At(t, "git") /\ Goto(t, "mark-git")
  BY DEF Commit
<1>3. ASSUME NEW u \in Threads, Committed(u)' PROVE git'[req[u].branch][req[u].doc] = req[u].val
  <2>1. CASE u = t
    BY <1>1, <1>2, <2>1 DEF CommitOf, Commits, Requests
  <2>2. CASE u # t
    <3>1. Committed(u) /\ InSection(u) /\ InSection(t)
      BY <1>2, <1>3, <2>2 DEF Committed, InSection, At, Goto
    <3>2. req[u] \in Requests
      BY <3>1 DEF InSection, RequestOK
    <3>3. req[u].branch # req[t].branch
      BY <1>1, <2>2, <3>1, <3>2 DEF LockDiscipline, Requests
    <3>4. git'[req[u].branch] = git[req[u].branch]
      BY <1>1, <1>2, <3>2, <3>3 DEF CommitOf, Requests
    <3> QED
      BY <3>1, <3>4 DEF HolderSeesOwnWrite, Committed
  <2> QED
    BY <2>1, <2>2
<1> QED
  BY <1>1, <1>3 DEF HolderSeesOwnWrite, Committed

LEMMA StepSeen ==
  ASSUME TypeInv, LockDiscipline, HolderSeesOwnWrite, [Next]_vars PROVE HolderSeesOwnWrite'
<1> USE DEF TypeInv, TypeOK
<1>1. ASSUME NEW t \in Threads, NEW r \in Offered, Call(t, r) PROVE HolderSeesOwnWrite'
  BY <1>1, SameGit DEF Call, At, Goto, Committed, dataVars
<1>2. ASSUME NEW t \in Threads,
             Acquire(t) \/ Append(t) \/ CommitFails(t) \/ UpdateIndex(t)
      PROVE  HolderSeesOwnWrite'
  BY <1>2, SameGit
  DEF Acquire, Append, CommitFails, AfterCommitFailure, UpdateIndex, At, Goto, Committed, dataVars
<1>3. ASSUME NEW t \in Threads, MarkGit(t) \/ MarkIndex(t) \/ Complete(t)
      PROVE  HolderSeesOwnWrite'
  BY <1>3, SameGit
  DEF MarkGit, MarkIndex, Complete, MarkStep, MarkStepFails, At, Goto, Committed, dataVars
<1>4. ASSUME NEW t \in Threads, AppendFails(t) \/ Finish(t) \/ Rollback(t)
      PROVE  HolderSeesOwnWrite'
  <2>1. pc'[t] \in {"idle", "lock"} /\ git' = git
    BY <1>4 DEF AppendFails, Finish, Rollback, Leave, Goto, dataVars
  <2>2. \A u \in Threads \ {t} : pc'[u] = pc[u] /\ req'[u] = req[u]
    BY <1>4 DEF AppendFails, Finish, Rollback, Leave, Goto
  <2> QED
    BY <2>1, <2>2, SameGit DEF Committed
<1>5. ASSUME NEW t \in Threads, Commit(t) PROVE HolderSeesOwnWrite'
  BY <1>5, CommitSeen
<1>6. CASE Truncate \/ Restart \/ RecoverMark \/ RecoverDone \/ UNCHANGED vars
  BY <1>6, SameGit
  DEF Truncate, Restart, RecoverMark, RecoverDone, vars, threadVars, dataVars, Committed
<1>7. ASSUME NEW i \in Ids, RecoverEntry(i) PROVE HolderSeesOwnWrite'
  <2>1. mode # "up" /\ pc' = pc
    BY <1>7
    DEF RecoverEntry, RecoverPending, RecoverGitCommitted, RecoverIndexCommitted, Recovers, threadVars
  <2> QED
    BY <2>1 DEF IdleUnlessUp, HolderSeesOwnWrite
<1>8. CASE Crash
  BY <1>8 DEF Crash, HolderSeesOwnWrite
<1> QED
  BY <1>1, <1>2, <1>3, <1>4, <1>5, <1>6, <1>7, <1>8 DEF Next, Step, Recovery

\* HolderSeesOwnWrite: from its commit to the release of its lock a writer's content is
\* what the head of its branch shows, whatever other writers, failures and crashes do.
THEOREM OwnWriteStays == Spec => []HolderSeesOwnWrite
<1>1. Init => TypeInv /\ LockDiscipline /\ HolderSeesOwnWrite
  BY InitTypes, ConstantsAssumption DEF Init, LockDiscipline, InSection, HolderSeesOwnWrite
<1>2. TypeInv /\ LockDiscipline /\ HolderSeesOwnWrite /\ [Next]_vars
      => TypeInv' /\ LockDiscipline' /\ HolderSeesOwnWrite'
  BY StepTypes, StepLocks, StepSeen
<1> QED
  BY <1>1, <1>2, PTL DEF Spec

-----------------------------------------------------------------------------
(* What is pending in the log, when log writes do not fail *)

\* While recovery runs, what is pending is in its snapshot or about to be marked; so
\* nothing is pending when it has worked off the snapshot.
ReplayInv ==
  /\ mode # "recovering" => current = NotMarking
  /\ current.state # "pending"
  /\ mode = "recovering" =>
       \A i \in Ids : wal[i].state = "pending" => i \in todo \/ i = current.id

PendingInv == LockDiscipline /\ ReplayInv /\ PendingIsHeld /\ OnePendingPerBranch

\* An entry is marked with any state but "pending": it is pending no more, others as before.
LEMMA MarkEnds ==
  ASSUME NEW i \in Ids, NEW s \in EntryStates \ {"pending"}, wal' = Marked(i, s),
         wal \in [Ids -> Entries \cup {NoEntry}]
  PROVE  /\ wal'[i].state # "pending"
         /\ \A j \in Ids \ {i} : wal'[j] = wal[j]
<1>1. CASE Readable(i)
  <2>1. wal' = [wal EXCEPT ![i] = [wal[i] EXCEPT !.state = s]]
    BY <1>1 DEF Marked
  <2>2. wal[i] \in Entries
    BY <1>1 DEF Readable, Unfinished, Finished, NoEntry
  <2>3. [wal[i] EXCEPT !.state = s].state = s
    BY <2>2 DEF Entries
  <2> QED
    BY <2>1, <2>3
<1>2. CASE ~Readable(i)
  BY <1>2 DEF Marked, Readable, Unfinished
<1> QED
  BY <1>1, <1>2

\* Is thread u still to mark the entry of its attempt?
Owes(u) == pc[u] \in {"git", "mark-git", "rollback"}

\* Nothing new is pending, and who holds a pending entry goes on holding it.
LEMMA NothingNew ==
  ASSUME TypeInv, PendingInv, LockDiscipline', mode = "up", mode' = "up", current' = current,
         \A i \in Ids : wal'[i].state = "pending" =>
           /\ wal'[i] = wal[i]
           /\ \A u \in Threads : entry[u] = i /\ Owes(u) =>
                Owes(u)' /\ entry'[u] = i /\ \A b \in Branches : lock[b] = u => lock'[b] = u
  PROVE  PendingInv'
<1>1. \A i \in Ids : wal'[i].state = "pending" => wal'[i].branch \in Branches
  BY DEF TypeInv, TypeOK, Entries, NoEntry
<1>2. PendingIsHeld'
  BY <1>1 DEF PendingInv, PendingIsHeld, Owes
<1> QED
  BY <1>2 DEF PendingInv, ReplayInv, OnePendingPerBranch

LEMMA StepPending ==
  ASSUME "wal" \notin FaultKinds, TypeInv, PendingInv, LockDiscipline', [Next]_vars
  PROVE  PendingInv'
<1> USE DEF TypeInv, TypeOK
<1>1. ASSUME NEW t \in Threads, NEW r \in Offered, Call(t, r) PROVE PendingInv'
  BY <1>1, NothingNew DEF Call, At, Goto, Owes, recVars, walVars
<1>2. ASSUME NEW t \in Threads, Acquire(t) PROVE PendingInv'
  <2>1. req[t].branch \in Branches
    BY <1>2 DEF Acquire, At, RequestOK, Requests
  <2> QED
    BY <1>2, <2>1, NothingNew, ConstantsAssumption DEF Acquire, LockFree, At, Goto, Owes, recVars, walVars
<1>3. ASSUME NEW t \in Threads, Commit(t) \/ CommitFails(t) \/ UpdateIndex(t) PROVE PendingInv'
  BY <1>3, NothingNew
  DEF Commit, CommitFails, AfterCommitFailure, UpdateIndex, At, Goto, Owes, recVars, walVars
<1>4. ASSUME NEW t \in Threads, Append(t) PROVE PendingInv'
  <2> DEFINE b == req[t].branch
  <2>1. /\ pc[t] = "append" /\ mode = "up" /\ nextId \in Ids
        /\ mode' = mode /\ current' = current /\ lock' = lock
        /\ pc' = [pc EXCEPT ![t] = "git"] /\ entry' = [entry EXCEPT ![t] = nextId]
        /\ wal' = [wal EXCEPT ![nextId] = EntryOf(req[t])]
    BY <1>4 DEF Append, At, Goto, recVars
  <2>2. req[t] \in Requests /\ b \in Branches /\ lock[b] = t
    BY <2>1 DEF RequestOK, Requests, PendingInv, LockDiscipline, InSection
  <2>3. wal'[nextId].state = "pending" /\ wal'[nextId].branch = b
    BY <2>1 DEF EntryOf
  <2>4. ASSUME NEW i \in Ids \ {nextId}, wal[i].state = "pending"
        PROVE  /\ wal[i].branch # b
               /\ \E u \in Threads : entry'[u] = i /\ Owes(u)' /\ lock'[wal[i].branch] = u
    <3>1. PICK u \in Threads : entry[u] = i /\ Owes(u) /\ lock[wal[i].branch] = u
      BY <2>1, <2>4 DEF PendingInv, PendingIsHeld, Owes
    <3>2. u # t
      BY <2>1, <3>1 DEF Owes
    <3> QED
      BY <2>1, <2>2, <3>1, <3>2 DEF Owes
  <2>5. PendingIsHeld'
    BY <2>1, <2>2, <2>3, <2>4 DEF PendingIsHeld, Owes
  <2>6. OnePendingPerBranch'
    BY <2>1, <2>3, <2>4 DEF OnePendingPerBranch, PendingInv
  <2>7. ReplayInv'
    BY <2>1 DEF ReplayInv, PendingInv
  <2> QED
    BY <2>5, <2>6, <2>7 DEF PendingInv
<1>5. ASSUME NEW t \in Threads, AppendFails(t) PROVE FALSE
  BY <1>5 DEF AppendFails, Fault
<1>6. ASSUME NEW t \in Threads, MarkGit(t) \/ MarkIndex(t) \/ Complete(t) PROVE PendingInv'
  <2>1. PICK l \in {"mark-git", "mark-index", "complete"}, n \in {"index", "complete", "finish"},
             s \in EntryStates \ {"pending"} : MarkStep(t, l, s, n)
    BY <1>6 DEF MarkGit, MarkIndex, Complete, MarkStepFails, MarkFailed, Fault, EntryStates,
                Unfinished, Finished
  <2>2. entry[t] \in Ids
    BY <2>1 DEF MarkStep, At, EntryOK, Logged
  <2>3. /\ wal'[entry[t]].state # "pending"
        /\ \A j \in Ids \ {entry[t]} : wal'[j] = wal[j]
    BY <2>1, <2>2, MarkEnds DEF MarkStep
  <2> QED
    BY <2>1, <2>2, <2>3, NothingNew DEF MarkStep, At, Goto, Owes, recVars
<1>7. ASSUME NEW t \in Threads, Rollback(t) PROVE PendingInv'
  <2>1. /\ wal' = Marked(entry[t], "rolled-back") /\ Leave(t) /\ At(t, "rollback")
        /\ mode' = mode /\ current' = current
    BY <1>7 DEF Rollback, RolledBack, MarkFailed, Fault, recVars
  <2>2. entry[t] \in Ids /\ "rolled-back" \in EntryStates \ {"pending"}
    BY <2>1 DEF At, EntryOK, Logged, EntryStates, Finished
  <2>3. /\ wal'[entry[t]].state # "pending"
        /\ \A j \in Ids \ {entry[t]} : wal'[j] = wal[j]
    BY <2>1, <2>2, MarkEnds
  <2>4. \A u \in Threads, c \in Branches : u # t /\ lock[c] = u => lock'[c] = u
    BY <2>1, ReleaseOwn DEF Leave, At, InSection, PendingInv
  <2> QED
    BY <2>1, <2>3, <2>4, NothingNew DEF Leave, At, Goto, Owes
<1>8. ASSUME NEW t \in Threads, Finish(t) PROVE PendingInv'
  <2>1. /\ wal' = wal /\ lock' = Released(t) /\ At(t, "finish")
        /\ mode' = mode /\ current' = current
        /\ \A u \in Threads \ {t} : pc'[u] = pc[u] /\ entry'[u] = entry[u]
    BY <1>8 DEF Finish, Leave, Goto, walVars, recVars
  <2>2. \A u \in Threads, c \in Branches : u # t /\ lock[c] = u => lock'[c] = u
    BY <2>1, ReleaseOwn DEF At, InSection, PendingInv
  <2> QED
    BY <2>1, <2>2, NothingNew DEF At, Owes
<1>9. CASE Truncate
  <2>1. \A i \in Ids : wal'[i].state = "pending" => wal'[i] = wal[i]
    BY <1>9 DEF Truncate, Truncated, NoEntry
  <2> QED
    BY <1>9, <2>1, NothingNew DEF Truncate, threadVars, recVars, Owes
<1>10. CASE Crash
  <2>1. \A i \in Ids : wal'[i].state = "pending" => wal'[i] = wal[i]
    <3>1. PICK torn \in SUBSET {i \in Rewriting \ {0} : Readable(i)} :
            wal' = [i \in Ids |-> IF i \in torn THEN [wal[i] EXCEPT !.state = "torn"] ELSE wal[i]]
      BY <1>10 DEF Crash
    <3>2. ASSUME NEW i \in Ids, Readable(i) PROVE [wal[i] EXCEPT !.state = "torn"].state = "torn"
      BY <3>2 DEF Readable, Unfinished, Finished, NoEntry, Entries
    <3> QED
      BY <3>1, <3>2
  <2> QED
    BY <1>10, <2>1 DEF Crash, PendingInv, ReplayInv, PendingIsHeld, OnePendingPerBranch, NotMarking
<1>11. CASE Restart
  BY <1>11
  DEF Restart, PendingEntries, Unfinished, PendingInv, ReplayInv, PendingIsHeld, OnePendingPerBranch, walVars
<1>12. ASSUME NEW i \in Ids, RecoverEntry(i) PROVE PendingInv'
  <2>1. /\ mode = "recovering" /\ mode' = mode /\ wal' = wal /\ current = NotMarking
        /\ todo' = todo \ {i}
    BY <1>12
    DEF RecoverEntry, RecoverPending, RecoverGitCommitted, RecoverIndexCommitted, Recovers, walVars
  <2>2. current'.id = i /\ current'.state # "pending"
    BY <1>12
    DEF RecoverEntry, RecoverPending, RecoverGitCommitted, RecoverIndexCommitted, MarkNext, RecoveredState
  <2>3. \A j \in Ids : wal[j].state = "pending" => j \in todo
    BY <2>1 DEF PendingInv, ReplayInv, NotMarking, Ids
  <2> QED
    BY <2>1, <2>2, <2>3 DEF PendingInv, ReplayInv, PendingIsHeld, OnePendingPerBranch
<1>13. CASE RecoverMark
  <2>1. /\ mode = "recovering" /\ mode' = mode /\ todo' = todo /\ current # NotMarking
        /\ wal' = Marked(current.id, current.state) /\ current' = NotMarking
    BY <1>13 DEF RecoverMark, MarkFailed, Fault
  <2>2. current.id \in Ids /\ current.state \in EntryStates \ {"pending"}
    BY <2>1 DEF Markings, PendingInv, ReplayInv, EntryStates
  <2>3. /\ wal'[current.id].state # "pending"
        /\ \A j \in Ids \ {current.id} : wal'[j] = wal[j]
    BY <2>1, <2>2, MarkEnds
  <2>4. \A j \in Ids : wal'[j].state = "pending" => wal'[j] = wal[j] /\ j # current.id
    BY <2>3
  <2>5. ReplayInv'
    BY <2>1, <2>4 DEF PendingInv, ReplayInv, NotMarking
  <2> QED
    BY <2>1, <2>4, <2>5 DEF PendingInv, PendingIsHeld, OnePendingPerBranch
<1>14. CASE RecoverDone
  <2>1. \A i \in Ids : wal'[i].state = "pending" => wal'[i] = wal[i]
    BY <1>14 DEF RecoverDone, Truncated, NoEntry
  <2>2. \A i \in Ids : i # 0
    BY DEF Ids
  <2>3. \A i \in Ids : wal'[i].state # "pending"
    BY <1>14, <2>1, <2>2 DEF RecoverDone, SnapshotDone, PendingInv, ReplayInv, NotMarking
  <2> QED
    BY <1>14, <2>3 DEF RecoverDone, recVars, PendingInv, ReplayInv, PendingIsHeld, OnePendingPerBranch
<1>15. CASE UNCHANGED vars
  BY <1>15
  DEF vars, threadVars, walVars, recVars, PendingInv, ReplayInv, PendingIsHeld, OnePendingPerBranch
<1> QED
  BY <1>1, <1>2, <1>3, <1>4, <1>5, <1>6, <1>7, <1>8, <1>9, <1>10, <1>11, <1>12, <1>13, <1>14, <1>15
  DEF Next, Step, Recovery

LEMMA PendingInvariant ==
  ASSUME "wal" \notin FaultKinds
  PROVE  Spec => []PendingInv
<1>1. Init => TypeInv /\ PendingInv
  BY InitTypes, ConstantsAssumption
  DEF Init, PendingInv, LockDiscipline, InSection, ReplayInv, PendingIsHeld, OnePendingPerBranch,
      NotMarking, NoEntry
<1>2. TypeInv /\ PendingInv /\ [Next]_vars => TypeInv' /\ PendingInv'
  BY StepTypes, StepLocks, StepPending DEF PendingInv
<1> QED
  BY <1>1, <1>2, PTL DEF Spec

\* If log writes do not fail, every pending entry of a process that serves has a thread on
\* the way to mark it, under the branch lock (save-document, delete-document), so recover!
\* never replays over a later write.
THEOREM PendingEntriesHeld ==
  ASSUME "wal" \notin FaultKinds
  PROVE  Spec => []PendingIsHeld
<1>1. PendingInv => PendingIsHeld
  BY DEF PendingInv
<1> QED
  BY <1>1, PendingInvariant, PTL

\* If log writes do not fail, a branch never has two pending entries, also while it is
\* recovered: what recover! replays is the last write of its branch.
THEOREM PendingEntriesAlone ==
  ASSUME "wal" \notin FaultKinds
  PROVE  Spec => []OnePendingPerBranch
<1>1. PendingInv => OnePendingPerBranch
  BY DEF PendingInv
<1> QED
  BY <1>1, PendingInvariant, PTL

-----------------------------------------------------------------------------
(* The log and the index never run ahead of git *)

Recorded(e) == e.val # Absent => <<e.branch, e.doc, e.val>> \in commits

SameWrite(e, r) == e.branch = r.branch /\ e.doc = r.doc /\ e.val = r.val

Claims == {"git-committed", "index-committed", "completed"}

\* A thread's entry was appended before, and describes its request as long as it exists.
EntryMatches ==
  \A t \in Threads : Logged(t) =>
    entry[t] < nextId /\ (wal[entry[t]].state # "none" => SameWrite(wal[entry[t]], req[t]))

WritesRecorded == \A t \in Threads : Committed(t) => Recorded(req[t])

\* So is the entry recovery is about to mark.
MarkRecorded ==
  /\ mode # "recovering" => current = NotMarking
  /\ mode = "recovering" /\ current.state \in Claims => Recorded(wal[current.id])

RecordInv == EntryMatches /\ WritesRecorded /\ MarkRecorded /\ LogBehindGit /\ IndexBehindGit

\* A rewritten entry keeps its write, and takes the new state unless the rewrite failed.
Rewritten(i, s) ==
  /\ \A j \in Ids \ {i} : wal'[j] = wal[j]
  /\ \/ wal'[i] = wal[i]
     \/ /\ wal[i].state # "none" /\ wal'[i].state \in {s, "torn"}
        /\ SameWrite(wal'[i], wal[i])

LEMMA Rewrites ==
  ASSUME NEW i \in Ids, NEW s \in EntryStates, wal \in [Ids -> Entries \cup {NoEntry}],
         wal' = Marked(i, s) \/ MarkFailed(i, s)
  PROVE  Rewritten(i, s)
<1>1. CASE ~Readable(i)
  BY <1>1 DEF Rewritten, Marked, MarkFailed
<1>2. CASE Readable(i)
  <2>1. wal[i] \in Entries /\ wal[i].state # "none"
    BY <1>2 DEF Readable, Unfinished, Finished, NoEntry
  <2>2. PICK left \in {wal[i].state, "torn", s} : wal' = [wal EXCEPT ![i].state = left]
    BY <1>2 DEF Marked, MarkFailed
  <2>3. wal' = [wal EXCEPT ![i] = [wal[i] EXCEPT !.state = left]]
    BY <2>2
  <2>4. /\ [wal[i] EXCEPT !.state = left].state = left
        /\ SameWrite([wal[i] EXCEPT !.state = left], wal[i])
        /\ left = wal[i].state => [wal[i] EXCEPT !.state = left] = wal[i]
    BY <2>1 DEF Entries, SameWrite
  <2> QED
    BY <2>1, <2>2, <2>3, <2>4 DEF Rewritten
<1> QED
  BY <1>1, <1>2

\* What no step breaks: an entry keeps its write while it exists, and claims a commit
\* only once the commit is recorded.
Keeps(i) ==
  \/ wal'[i] = wal[i]
  \/ wal'[i].state = "none"
  \/ wal[i].state # "none" /\ SameWrite(wal'[i], wal[i])
Claiming(i) ==
  wal'[i].state \in Claims =>
    wal'[i] = wal[i] \/ (SameWrite(wal'[i], wal[i]) /\ Recorded(wal[i]))

LEMMA LogStep ==
  ASSUME LogBehindGit, commits \subseteq commits', \A i \in Ids : Claiming(i)
  PROVE  LogBehindGit'
<1>1. ASSUME NEW i \in Ids, wal'[i].state \in Claims, wal'[i].val # Absent
      PROVE  <<wal'[i].branch, wal'[i].doc, wal'[i].val>> \in commits'
  <2>1. CASE wal'[i] = wal[i]
    BY <1>1, <2>1 DEF LogBehindGit, Claims
  <2>2. CASE SameWrite(wal'[i], wal[i]) /\ Recorded(wal[i])
    BY <1>1, <2>2 DEF SameWrite, Recorded
  <2> QED
    BY <1>1, <2>1, <2>2 DEF Claiming
<1> QED
  BY <1>1 DEF LogBehindGit, Claims

LEMMA MatchStep ==
  ASSUME TypeInv, EntryMatches, nextId' \in Nat, nextId <= nextId',
         \A t \in Threads : Logged(t)' => Logged(t) /\ entry'[t] = entry[t] /\ req'[t] = req[t],
         \A i \in Ids : i < nextId => Keeps(i)
  PROVE  EntryMatches'
<1>1. ASSUME NEW t \in Threads, Logged(t)'
      PROVE  /\ entry'[t] < nextId'
             /\ wal'[entry'[t]].state # "none" => SameWrite(wal'[entry'[t]], req'[t])
  <2>1. entry[t] \in Ids /\ entry[t] < nextId /\ entry'[t] = entry[t] /\ req'[t] = req[t]
    BY <1>1 DEF EntryMatches, TypeInv, EntryOK
  <2>2. wal[entry[t]].state # "none" => SameWrite(wal[entry[t]], req[t])
    BY <1>1 DEF EntryMatches
  <2>3. entry[t] \in Nat /\ nextId \in Nat
    BY <2>1 DEF Ids, TypeInv, TypeOK
  <2>4. entry'[t] < nextId'
    BY <2>1, <2>3
  <2>5. Keeps(entry[t])
    BY <2>1
  <2> QED
    BY <2>1, <2>2, <2>4, <2>5 DEF SameWrite, Keeps
<1> QED
  BY <1>1 DEF EntryMatches

\* A mark made by the thread or the recovery step whose write is recorded.
LEMMA MarkKeeps ==
  ASSUME NEW i \in Ids, NEW s, Rewritten(i, s),
         s \in Claims /\ wal[i].state # "none" => Recorded(wal[i])
  PROVE  \A j \in Ids : Keeps(j) /\ Claiming(j)
  BY DEF Rewritten, Keeps, Claiming, Claims

LEMMA WritesStep ==
  ASSUME WritesRecorded, commits \subseteq commits',
         \A t \in Threads : Committed(t)' => Committed(t) /\ req'[t] = req[t]
  PROVE  WritesRecorded'
  BY DEF WritesRecorded, Recorded

LEMMA IndexStep ==
  ASSUME IndexBehindGit, commits \subseteq commits', \A d \in Docs : index'[d] \subseteq index[d]
  PROVE  IndexBehindGit'
  BY DEF IndexBehindGit

\* Indexing a write that is recorded.
LEMMA IndexedStep ==
  ASSUME IndexBehindGit, index \in [Docs -> SUBSET Values], commits' = commits,
         NEW e, e.branch \in Branches, e.doc \in Docs, Recorded(e), index' = Indexed(e)
  PROVE  IndexBehindGit'
<1>1. \A d \in Docs : \A v \in index'[d] : v \in index[d] \/ (d = e.doc /\ v = e.val /\ e.val # Absent)
  BY DEF Indexed
<1> QED
  BY <1>1 DEF IndexBehindGit, Recorded

LEMMA CommitGrows == ASSUME NEW e, CommitOf(e) PROVE commits \subseteq commits'
  BY DEF CommitOf

LEMMA CommitRecords == ASSUME NEW e, CommitOf(e) PROVE Recorded(e)'
  BY DEF CommitOf, Commits, Recorded

\* Steps of the threads of a running process, from what they do to the log, the commits
\* and the index.
LEMMA ThreadRecords ==
  ASSUME TypeInv, RecordInv, mode = "up", mode' = mode, current' = current,
         nextId' = nextId, commits \subseteq commits',
         \A t \in Threads : Logged(t)' => Logged(t) /\ entry'[t] = entry[t] /\ req'[t] = req[t],
         \A i \in Ids : Keeps(i) /\ Claiming(i), WritesRecorded', IndexBehindGit'
  PROVE  RecordInv'
<1>1. nextId' \in Nat /\ nextId <= nextId'
  BY DEF TypeInv, TypeOK
<1>2. EntryMatches'
  BY <1>1, MatchStep DEF RecordInv
<1>3. LogBehindGit'
  BY LogStep DEF RecordInv
<1>4. MarkRecorded'
  BY DEF RecordInv, MarkRecorded
<1> QED
  BY <1>2, <1>3, <1>4 DEF RecordInv

LEMMA ThreadStepRecords ==
  ASSUME TypeInv, RecordInv, NEW t \in Threads, Step(t) PROVE RecordInv'
<1> USE DEF TypeInv, TypeOK
<1>1. CASE Acquire(t) \/ CommitFails(t) \/ Finish(t)
  <2>1. /\ mode = "up" /\ mode' = mode /\ current' = current /\ nextId' = nextId
        /\ commits' = commits /\ index' = index /\ wal' = wal
    BY <1>1 DEF Acquire, CommitFails, Finish, At, dataVars, walVars, recVars
  <2>2. \A u \in Threads : Logged(u)' => Logged(u) /\ entry'[u] = entry[u] /\ req'[u] = req[u]
    BY <1>1 DEF Acquire, CommitFails, Finish, Leave, At, Goto, AfterCommitFailure, Logged
  <2>3. \A u \in Threads : Committed(u)' => Committed(u) /\ req'[u] = req[u]
    BY <1>1 DEF Acquire, CommitFails, Finish, Leave, At, Goto, AfterCommitFailure, Committed
  <2>4. WritesRecorded' /\ IndexBehindGit' /\ \A i \in Ids : Keeps(i) /\ Claiming(i)
    BY <2>1, <2>3, WritesStep, IndexStep DEF RecordInv, Keeps, Claiming
  <2> QED
    BY <2>1, <2>2, <2>4, ThreadRecords
<1>2. CASE Commit(t)
  <2>1. /\ mode = "up" /\ mode' = mode /\ current' = current /\ nextId' = nextId
        /\ index' = index /\ wal' = wal /\ entry' = entry /\ req' = req /\ pc[t] = "git"
        /\ pc' = [pc EXCEPT ![t] = "mark-git"]
        /\ commits \subseteq commits' /\ Recorded(req[t])'
    BY <1>2, CommitGrows, CommitRecords DEF Commit, At, Goto, walVars, recVars
  <2>2. \A u \in Threads : Logged(u)' => Logged(u)
    BY <2>1 DEF Logged
  <2>3. WritesRecorded'
    BY <2>1 DEF RecordInv, WritesRecorded, Committed, Recorded
  <2>4. IndexBehindGit' /\ \A i \in Ids : Keeps(i) /\ Claiming(i)
    BY <2>1, IndexStep DEF RecordInv, Keeps, Claiming
  <2> QED
    BY <2>1, <2>2, <2>3, <2>4, ThreadRecords
<1>3. CASE MarkGit(t) \/ MarkIndex(t) \/ Complete(t)
  <2>1. PICK l \in {"mark-git", "mark-index", "complete"},
             n \in {"index", "complete", "finish", "rollback"},
             s \in EntryStates : MarkStep(t, l, s, n) \/ MarkStepFails(t, l, s, n)
    BY <1>3 DEF MarkGit, MarkIndex, Complete, EntryStates, Unfinished, Finished
  <2>2. /\ mode = "up" /\ mode' = mode /\ current' = current /\ nextId' = nextId
        /\ commits' = commits /\ index' = index /\ entry' = entry /\ req' = req
        /\ pc[t] = l /\ pc' = [pc EXCEPT ![t] = n]
    BY <2>1 DEF MarkStep, MarkStepFails, At, Goto, dataVars, recVars
  <2>3. entry[t] \in Ids /\ Committed(t) /\ Logged(t)
    BY <2>2 DEF EntryOK, Logged, Committed
  <2>4. Rewritten(entry[t], s)
    BY <2>1, <2>3, Rewrites DEF MarkStep, MarkStepFails
  <2>5. wal[entry[t]].state # "none" => Recorded(wal[entry[t]])
    BY <2>3 DEF RecordInv, EntryMatches, WritesRecorded, Recorded, SameWrite
  <2>6. \A i \in Ids : Keeps(i) /\ Claiming(i)
    BY <2>3, <2>4, <2>5, MarkKeeps
  <2>7. WritesRecorded' /\ IndexBehindGit'
    BY <2>2, WritesStep, IndexStep DEF RecordInv, Committed
  <2> QED
    BY <2>2, <2>6, <2>7, ThreadRecords DEF Logged
<1>4. CASE UpdateIndex(t)
  <2>1. /\ mode = "up" /\ mode' = mode /\ current' = current /\ nextId' = nextId
        /\ commits' = commits /\ wal' = wal /\ entry' = entry /\ req' = req /\ pc[t] = "index"
        /\ \E n \in {"mark-index", "complete"} : pc' = [pc EXCEPT ![t] = n]
    BY <1>4 DEF UpdateIndex, At, Goto, walVars, recVars
  <2>2. Recorded(req[t]) /\ req[t].branch \in Branches /\ req[t].doc \in Docs
    BY <2>1 DEF RecordInv, WritesRecorded, Committed, RequestOK, Requests
  <2>3. index' = index \/ index' = Indexed(req[t])
    BY <1>4 DEF UpdateIndex
  <2>4. IndexBehindGit'
    BY <2>1, <2>2, <2>3, IndexStep, IndexedStep DEF RecordInv
  <2>5. WritesRecorded' /\ \A i \in Ids : Keeps(i) /\ Claiming(i)
    BY <2>1, WritesStep DEF RecordInv, Committed, Keeps, Claiming
  <2> QED
    BY <2>1, <2>4, <2>5, ThreadRecords DEF Logged
<1>5. CASE Append(t) \/ AppendFails(t)
  <2>1. PICK s \in {"pending", "torn"} : wal' = [wal EXCEPT ![nextId] = [EntryOf(req[t]) EXCEPT !.state = s]]
    BY <1>5, EntryPending DEF Append, AppendFails
  <2>2. /\ mode = "up" /\ mode' = mode /\ current' = current /\ nextId \in Ids /\ nextId' = nextId + 1
        /\ commits' = commits /\ index' = index /\ pc[t] = "append"
        /\ \A u \in Threads \ {t} : pc'[u] = pc[u] /\ entry'[u] = entry[u] /\ req'[u] = req[u]
    BY <1>5 DEF Append, AppendFails, Leave, At, Goto, dataVars, recVars
  <2>3. /\ wal'[nextId].state = s /\ SameWrite(wal'[nextId], req[t])
        /\ \A i \in Ids \ {nextId} : wal'[i] = wal[i]
    BY <2>1, <2>2 DEF EntryOf, SameWrite
  <2>4. pc'[t] = "idle" \/ (pc'[t] = "git" /\ entry'[t] = nextId /\ req'[t] = req[t])
    BY <1>5 DEF Append, AppendFails, Leave, Goto
  <2>5. ASSUME NEW u \in Threads, Logged(u)'
        PROVE  /\ entry'[u] < nextId'
               /\ wal'[entry'[u]].state # "none" => SameWrite(wal'[entry'[u]], req'[u])
    <3>1. CASE u = t
      BY <2>2, <2>3, <2>4, <2>5, <3>1 DEF Logged
    <3>2. CASE u # t
      <4>1. /\ entry'[u] = entry[u] /\ req'[u] = req[u] /\ entry[u] \in Ids /\ entry[u] < nextId
            /\ wal[entry[u]].state # "none" => SameWrite(wal[entry[u]], req[u])
        BY <2>2, <2>5, <3>2 DEF Logged, RecordInv, EntryMatches, EntryOK
      <4>2. entry[u] # nextId /\ entry[u] < nextId'
        BY <2>2, <4>1 DEF Ids
      <4> QED
        BY <2>3, <4>1, <4>2
    <3> QED
      BY <3>1, <3>2
  <2>6. EntryMatches'
    BY <2>5 DEF EntryMatches
  <2>7. WritesRecorded' /\ IndexBehindGit'
    BY <2>2, <2>4, WritesStep, IndexStep DEF RecordInv, Committed
  <2>8. LogBehindGit'
    BY <2>2, <2>3, LogStep DEF RecordInv, Claiming, Claims
  <2>9. MarkRecorded'
    BY <2>2 DEF RecordInv, MarkRecorded
  <2> QED
    BY <2>6, <2>7, <2>8, <2>9 DEF RecordInv
<1>6. CASE Rollback(t)
  <2>1. /\ mode = "up" /\ mode' = mode /\ current' = current /\ nextId' = nextId
        /\ commits' = commits /\ index' = index /\ pc[t] = "rollback" /\ pc'[t] = "idle"
        /\ \A u \in Threads \ {t} : pc'[u] = pc[u] /\ entry'[u] = entry[u] /\ req'[u] = req[u]
    BY <1>6 DEF Rollback, Leave, At, Goto, dataVars, recVars
  <2>2. entry[t] \in Ids
    BY <2>1 DEF EntryOK, Logged
  <2>3. Rewritten(entry[t], "rolled-back")
    BY <1>6, <2>2, Rewrites DEF Rollback, RolledBack, EntryStates, Finished
  <2>4. \A i \in Ids : Keeps(i) /\ Claiming(i)
    BY <2>2, <2>3, MarkKeeps DEF Claims
  <2>5. WritesRecorded' /\ IndexBehindGit'
    BY <2>1, WritesStep, IndexStep DEF RecordInv, Committed
  <2> QED
    BY <2>1, <2>4, <2>5, ThreadRecords DEF Logged
<1> QED
  BY <1>1, <1>2, <1>3, <1>4, <1>5, <1>6 DEF Step

\* Steps with no request being served: nobody has an entry or a commit.
LEMMA QuietRecords ==
  ASSUME TypeInv, RecordInv, \A t \in Threads : pc'[t] = "idle", commits \subseteq commits',
         \A i \in Ids : Claiming(i), IndexBehindGit', MarkRecorded'
  PROVE  RecordInv'
<1>1. EntryMatches' /\ WritesRecorded'
  BY DEF EntryMatches, Logged, WritesRecorded, Committed
<1>2. LogBehindGit'
  BY LogStep DEF RecordInv
<1> QED
  BY <1>1, <1>2 DEF RecordInv

LEMMA RecoveryRecords ==
  ASSUME TypeInv, RecordInv, NEW i \in Ids, RecoverEntry(i) PROVE RecordInv'
<1> USE DEF TypeInv, TypeOK, RecoverEntry
<1>1. /\ Recovers(i, wal[i].state) /\ wal[i].state \in Unfinished /\ commits \subseteq commits'
      /\ current'.state \in Claims => Recorded(wal[i])' /\ current'.id = i
  <2>1. CASE RecoverPending(i)
    <3>1. CASE CommitOf(wal[i]) /\ MarkNext(i, RecoveredState("pending"))
      BY <2>1, <3>1, CommitGrows, CommitRecords
      DEF RecoverPending, Recovers, MarkNext, Recorded, Unfinished, walVars
    <3>2. CASE MarkNext(i, "rolled-back") /\ UNCHANGED <<git, commits>>
      BY <2>1, <3>2 DEF RecoverPending, Recovers, MarkNext, Claims, Unfinished
    <3> QED
      BY <2>1, <3>1, <3>2 DEF RecoverPending
  <2>2. CASE RecoverGitCommitted(i)
    BY <2>2
    DEF RecoverGitCommitted, Recovers, MarkNext, RecordInv, LogBehindGit, Recorded, Unfinished, walVars
  <2>3. CASE RecoverIndexCommitted(i)
    BY <2>3
    DEF RecoverIndexCommitted, Recovers, MarkNext, RecordInv, LogBehindGit, Recorded, Unfinished,
        walVars, dataVars
  <2> QED
    BY <2>1, <2>2, <2>3
<1>2. mode = "recovering" /\ mode' = mode /\ pc' = pc /\ wal' = wal
  BY <1>1 DEF Recovers, threadVars, walVars
<1>3. IndexBehindGit'
  <2>1. CASE index' = index
    BY <1>1, <2>1, IndexStep DEF RecordInv
  <2>2. CASE index' = Indexed(wal[i]) /\ wal[i].state = "git-committed" /\ commits' = commits
    <3>1. wal[i] \in Entries /\ Recorded(wal[i])
      BY <2>2 DEF NoEntry, RecordInv, LogBehindGit, Recorded
    <3> QED
      BY <2>2, <3>1, IndexedStep DEF Entries, RecordInv
  <2> QED
    BY <2>1, <2>2
    DEF RecoverPending, RecoverGitCommitted, RecoverIndexCommitted, Recovers, dataVars
<1>4. MarkRecorded'
  BY <1>1, <1>2 DEF MarkRecorded
<1>5. \A j \in Ids : Claiming(j)
  BY <1>2 DEF Claiming
<1> QED
  BY <1>1, <1>2, <1>3, <1>4, <1>5, QuietRecords DEF IdleUnlessUp

LEMMA MarkedRecords == ASSUME TypeInv, RecordInv, RecoverMark PROVE RecordInv'
<1> USE DEF TypeInv, TypeOK
<1>1. /\ mode = "recovering" /\ pc' = pc /\ commits' = commits /\ index' = index
      /\ current.id \in Ids /\ current.state \in EntryStates
  BY DEF RecoverMark, Markings, EntryStates, threadVars, dataVars
<1>2. Rewritten(current.id, current.state)
  BY <1>1, Rewrites DEF RecoverMark
<1>3. \A i \in Ids : Claiming(i)
  BY <1>1, <1>2, MarkKeeps DEF RecordInv, MarkRecorded
<1>4. MarkRecorded'
  <2>1. CASE current' = NotMarking
    BY <2>1 DEF MarkRecorded, NotMarking, Claims
  <2>2. CASE current' = [current EXCEPT !.state = "rolled-back"] /\ mode' = mode
    <3>1. current'.state = "rolled-back"
      BY <2>2 DEF Markings, NotMarking
    <3> QED
      BY <1>1, <2>2, <3>1 DEF MarkRecorded, Claims
  <2> QED
    BY <2>1, <2>2 DEF RecoverMark
<1> QED
  BY <1>1, <1>3, <1>4, QuietRecords, IndexStep DEF IdleUnlessUp, RecordInv

LEMMA StepRecords == ASSUME TypeInv, RecordInv, [Next]_vars PROVE RecordInv'
<1> USE DEF TypeInv, TypeOK
<1>1. ASSUME NEW t \in Threads, NEW r \in Offered, Call(t, r) PROVE RecordInv'
  <2>1. /\ mode = "up" /\ mode' = mode /\ current' = current /\ nextId' = nextId
        /\ commits' = commits /\ index' = index /\ wal' = wal /\ entry' = entry /\ pc[t] = "idle"
        /\ \/ pc' = pc /\ req' = req
           \/ pc' = [pc EXCEPT ![t] = "lock"] /\ req' = [req EXCEPT ![t] = r]
    BY <1>1 DEF Call, At, Goto, dataVars, walVars, recVars
  <2>2. \A u \in Threads : Logged(u)' => Logged(u) /\ entry'[u] = entry[u] /\ req'[u] = req[u]
    BY <2>1 DEF Logged
  <2>3. WritesRecorded' /\ IndexBehindGit' /\ \A i \in Ids : Keeps(i) /\ Claiming(i)
    BY <2>1, WritesStep, IndexStep DEF RecordInv, Committed, Keeps, Claiming
  <2> QED
    BY <2>1, <2>2, <2>3, ThreadRecords
<1>2. ASSUME NEW t \in Threads, Step(t) PROVE RecordInv'
  BY <1>2, ThreadStepRecords
<1>3. CASE Truncate
  <2>1. /\ mode = "up" /\ mode' = mode /\ UNCHANGED <<current, nextId, commits, index, pc, req, entry>>
    BY <1>3 DEF Truncate, threadVars, dataVars, recVars
  <2>2. \A i \in Ids : Keeps(i) /\ Claiming(i)
    BY <1>3 DEF Truncate, Truncated, Keeps, Claiming, Claims, NoEntry
  <2>3. WritesRecorded' /\ IndexBehindGit'
    BY <2>1, WritesStep, IndexStep DEF RecordInv, Committed
  <2> QED
    BY <2>1, <2>2, <2>3, ThreadRecords DEF Logged
<1>4. CASE Crash
  <2>1. \A i \in Ids : Claiming(i)
    <3>1. PICK torn \in SUBSET {i \in Rewriting \ {0} : Readable(i)} :
            wal' = [i \in Ids |-> IF i \in torn THEN [wal[i] EXCEPT !.state = "torn"] ELSE wal[i]]
      BY <1>4 DEF Crash
    <3>2. ASSUME NEW i \in Ids, Readable(i) PROVE [wal[i] EXCEPT !.state = "torn"].state = "torn"
      BY <3>2 DEF Readable, Unfinished, Finished, NoEntry, Entries
    <3> QED
      BY <3>1, <3>2 DEF Claiming, Claims
  <2>2. IndexBehindGit'
    BY <1>4, IndexStep DEF Crash, RecordInv
  <2>3. MarkRecorded'
    BY <1>4 DEF Crash, MarkRecorded
  <2> QED
    BY <1>4, <2>1, <2>2, <2>3, QuietRecords DEF Crash
<1>5. CASE Restart
  <2>1. MarkRecorded'
    BY <1>5 DEF Restart, RecordInv, MarkRecorded, NotMarking, Claims
  <2> QED
    BY <1>5, <2>1, QuietRecords, IndexStep
    DEF Restart, RecordInv, IdleUnlessUp, threadVars, dataVars, walVars, Claiming
<1>6. ASSUME NEW i \in Ids, RecoverEntry(i) PROVE RecordInv'
  BY <1>6, RecoveryRecords
<1>7. CASE RecoverMark
  BY <1>7, MarkedRecords
<1>8. CASE RecoverDone
  <2>1. MarkRecorded'
    BY <1>8 DEF RecoverDone, MarkRecorded, recVars
  <2>2. \A i \in Ids : Claiming(i)
    BY <1>8 DEF RecoverDone, Truncated, Claiming, Claims, NoEntry
  <2> QED
    BY <1>8, <2>1, <2>2, QuietRecords, IndexStep
    DEF RecoverDone, RecordInv, IdleUnlessUp, threadVars, dataVars
<1>9. CASE UNCHANGED vars
  BY <1>9
  DEF vars, threadVars, dataVars, walVars, recVars, RecordInv, EntryMatches, Logged, WritesRecorded,
      Committed, Recorded, MarkRecorded, LogBehindGit, IndexBehindGit
<1> QED
  BY <1>1, <1>2, <1>3, <1>4, <1>5, <1>6, <1>7, <1>8, <1>9 DEF Next, Recovery

LEMMA RecordInvariant == Spec => []RecordInv
<1>1. Init => TypeInv /\ RecordInv
  BY InitTypes
  DEF Init, RecordInv, EntryMatches, Logged, WritesRecorded, Committed, MarkRecorded, LogBehindGit,
      IndexBehindGit, NoEntry
<1>2. TypeInv /\ RecordInv /\ [Next]_vars => TypeInv' /\ RecordInv'
  BY StepTypes, StepRecords
<1> QED
  BY <1>1, <1>2, PTL DEF Spec

\* Whatever fails, crashes or is replayed, an entry that claims a commit stands for a write
\* git was given (wal-commit-git! and the marks of recover!).
THEOREM LogFollowsGit == Spec => []LogBehindGit
<1>1. RecordInv => LogBehindGit
  BY DEF RecordInv
<1> QED
  BY <1>1, RecordInvariant, PTL

\* Every content that a search can find under an id was committed for that id on some
\* branch (the index calls of the handlers and of recover!).
THEOREM IndexFollowsGit == Spec => []IndexBehindGit
<1>1. RecordInv => IndexBehindGit
  BY DEF RecordInv
<1> QED
  BY <1>1, RecordInvariant, PTL
=============================================================================
