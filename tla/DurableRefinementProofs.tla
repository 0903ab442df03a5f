----------------------- MODULE DurableRefinementProofs -----------------------
(***************************************************************************)
(* DurableStore implements AtomicStore, and its log only moves on, for     *)
(* every set of threads, branches, documents and contents and every bound, *)
(* when log writes do not fail.                                            *)
(***************************************************************************)
EXTENDS DurableStoreProofs

\* The states the entry of thread t may have at its step: each mark of the handler finds
\* the entry as the mark before has left it, or the append.
StatesAt(step) ==
  CASE step \in {"git", "mark-git", "rollback"} -> {"pending"}
    [] step \in {"index", "mark-index"} -> {"git-committed"}
    [] step = "complete" -> {"git-committed", "index-committed"}
    [] OTHER -> EntryStates \cup {"none"}

\* Entries are written to ids nobody has used, each by one thread, which finds its entry
\* in the state its step calls for; so does the mark recovery is about to make.
StageInv ==
  /\ \A i \in Ids : nextId <= i => wal[i] = NoEntry
  /\ \A t, u \in Threads : Logged(t) /\ Logged(u) /\ entry[t] = entry[u] => t = u
  /\ \A t \in Threads : Logged(t) => wal[entry[t]].state \in StatesAt(pc[t])
  /\ current # NotMarking =>
       /\ wal[current.id].state \in Unfinished
       /\ Rank(wal[current.id].state) < Rank(current.state)

\* What a step may do to entry i: the formula of LogMovesOn.
Moves(i) ==
  wal[i].state \in Unfinished \cup Finished =>
    \/ wal'[i].state \in {wal[i].state, "torn"}
    \/ wal[i].state \in Finished /\ wal'[i].state = "none"
    \/ wal[i].state \in Unfinished /\ wal'[i].state \in Unfinished \cup Finished
                                   /\ Rank(wal[i].state) < Rank(wal'[i].state)

LogInv == StageInv /\ RecordInv

\* An entry that is not finished is marked with a later state.
LEMMA MarksOn ==
  ASSUME wal \in [Ids -> Entries \cup {NoEntry}], NEW i \in Ids, wal[i].state \in Unfinished,
         NEW s \in Unfinished \cup Finished, Rank(wal[i].state) < Rank(s), wal' = Marked(i, s)
  PROVE  /\ wal'[i].state = s
         /\ \A j \in Ids \ {i} : wal'[j] = wal[j]
         /\ \A j \in Ids : Moves(j)
<1>1. wal[i] \in Entries
  BY DEF Unfinished, NoEntry
<1>2. wal' = [wal EXCEPT ![i] = [wal[i] EXCEPT !.state = s]]
  BY DEF Marked, Readable
<1>3. [wal[i] EXCEPT !.state = s].state = s
  BY <1>1 DEF Entries
<1>4. wal'[i].state = s /\ \A j \in Ids \ {i} : wal'[j] = wal[j]
  BY <1>2, <1>3
<1> QED
  BY <1>4 DEF Moves

\* Steps that leave the log as it is.
LEMMA LogStands ==
  ASSUME StageInv, UNCHANGED <<wal, nextId>>,
         current' = current \/ current' = NotMarking,
         \A t \in Threads : Logged(t)' =>
           Logged(t) /\ entry'[t] = entry[t] /\ StatesAt(pc[t]) \subseteq StatesAt(pc'[t])
  PROVE  StageInv' /\ \A i \in Ids : Moves(i)
<1>1. StageInv'
  BY DEF StageInv
<1> QED
  BY <1>1 DEF Moves

\* A thread marks the entry of its attempt with the state its next step calls for.
LEMMA ThreadMarks ==
  ASSUME TypeInv, LogInv, NEW t \in Threads, Logged(t),
         NEW s \in Unfinished \cup Finished, wal' = Marked(entry[t], s),
         wal[entry[t]].state \in Unfinished, Rank(wal[entry[t]].state) < Rank(s),
         UNCHANGED <<nextId, current>>, mode = "up",
         \A u \in Threads \ {t} : pc'[u] = pc[u] /\ entry'[u] = entry[u],
         pc'[t] = "idle" \/ (entry'[t] = entry[t] /\ s \in StatesAt(pc'[t]))
  PROVE  StageInv' /\ \A i \in Ids : Moves(i)
<1>1. entry[t] \in Ids /\ entry[t] \in Nat /\ nextId \in Nat /\ entry[t] < nextId
  BY DEF TypeInv, EntryOK, Ids, TypeOK, LogInv, RecordInv, EntryMatches
<1>2. /\ wal'[entry[t]].state = s
      /\ \A j \in Ids \ {entry[t]} : wal'[j] = wal[j]
      /\ \A j \in Ids : Moves(j)
  BY <1>1, MarksOn DEF TypeInv, TypeOK
<1>3. \A i \in Ids : nextId <= i => wal'[i] = NoEntry
  BY <1>1, <1>2 DEF LogInv, StageInv, Ids
<1>4. \A u \in Threads : Logged(u)' => Logged(u) /\ entry'[u] = entry[u]
  BY DEF Logged
<1>5. \A u, v \in Threads : Logged(u)' /\ Logged(v)' /\ entry'[u] = entry'[v] => u = v
  BY <1>4 DEF LogInv, StageInv
<1>6. ASSUME NEW u \in Threads, Logged(u)' PROVE wal'[entry'[u]].state \in StatesAt(pc'[u])
  <2>1. CASE u = t
    BY <1>2, <1>6, <2>1 DEF Logged
  <2>2. CASE u # t
    <3>1. Logged(u) /\ entry'[u] = entry[u] /\ pc'[u] = pc[u] /\ entry[u] \in Ids
      BY <1>4, <1>6, <2>2 DEF TypeInv, EntryOK
    <3>2. entry[u] # entry[t]
      BY <2>2, <3>1 DEF LogInv, StageInv
    <3> QED
      BY <1>2, <3>1, <3>2 DEF LogInv, StageInv
  <2> QED
    BY <2>1, <2>2
<1>7. current' = NotMarking
  BY DEF LogInv, RecordInv, MarkRecorded
<1> QED
  BY <1>2, <1>3, <1>5, <1>6, <1>7 DEF StageInv

LEMMA AppendStage ==
  ASSUME TypeInv, LogInv, NEW t \in Threads, Append(t)
  PROVE  StageInv' /\ \A i \in Ids : Moves(i)
<1>1. /\ mode = "up" /\ nextId \in Ids /\ nextId' = nextId + 1 /\ current' = current
      /\ wal' = [wal EXCEPT ![nextId] = EntryOf(req[t])]
      /\ entry'[t] = nextId /\ pc'[t] = "git" /\ pc[t] = "append"
      /\ \A u \in Threads \ {t} : pc'[u] = pc[u] /\ entry'[u] = entry[u]
  BY DEF Append, At, Goto, recVars, TypeInv, TypeOK
<1>2. /\ wal'[nextId].state = "pending" /\ wal[nextId].state = "none"
      /\ \A i \in Ids \ {nextId} : wal'[i] = wal[i]
  BY <1>1 DEF EntryOf, LogInv, StageInv, NoEntry, TypeInv, TypeOK, Ids
<1>3. \A i \in Ids : Moves(i)
  BY <1>2 DEF Moves, Unfinished, Finished
<1>4. \A i \in Ids : nextId' <= i => wal'[i] = NoEntry
  BY <1>1, <1>2 DEF LogInv, StageInv, Ids
<1>5. \A u \in Threads \ {t} : Logged(u)' => Logged(u) /\ entry[u] \in Ids /\ entry[u] < nextId
  BY <1>1 DEF Logged, TypeInv, EntryOK, LogInv, RecordInv, EntryMatches
<1>6. \A u \in Threads \ {t} : Logged(u)' => entry'[u] # nextId
  BY <1>1, <1>5 DEF Ids
<1>7. \A u, v \in Threads : Logged(u)' /\ Logged(v)' /\ entry'[u] = entry'[v] => u = v
  BY <1>1, <1>5, <1>6 DEF LogInv, StageInv
<1>8. ASSUME NEW u \in Threads, Logged(u)' PROVE wal'[entry'[u]].state \in StatesAt(pc'[u])
  <2>1. CASE u = t
    BY <1>1, <1>2, <2>1 DEF StatesAt
  <2>2. CASE u # t
    BY <1>1, <1>2, <1>5, <1>6, <1>8, <2>2 DEF LogInv, StageInv
  <2> QED
    BY <2>1, <2>2
<1>9. current' = NotMarking
  BY <1>1 DEF LogInv, RecordInv, MarkRecorded
<1> QED
  BY <1>3, <1>4, <1>7, <1>8, <1>9 DEF StageInv

LEMMA StepStage ==
  ASSUME "wal" \notin FaultKinds, TypeInv, LogInv, [Next]_vars
  PROVE  StageInv' /\ \A i \in Ids : Moves(i)
<1> USE DEF TypeInv, TypeOK
<1>s. StageInv
  BY DEF LogInv
<1>1. ASSUME NEW t \in Threads, NEW r \in Offered, Call(t, r)
      PROVE  StageInv' /\ \A i \in Ids : Moves(i)
  BY <1>1, <1>s, LogStands DEF Call, At, Goto, Logged, walVars, recVars
<1>2. ASSUME NEW t \in Threads, Acquire(t) \/ Finish(t)
      PROVE  StageInv' /\ \A i \in Ids : Moves(i)
  BY <1>2, <1>s, LogStands DEF Acquire, Finish, Leave, At, Goto, Logged, walVars, recVars
<1>3. ASSUME NEW t \in Threads, Commit(t) \/ CommitFails(t)
      PROVE  StageInv' /\ \A i \in Ids : Moves(i)
  BY <1>3, <1>s, LogStands
  DEF Commit, CommitFails, AfterCommitFailure, At, Goto, Logged, StatesAt, walVars, recVars
<1>4. ASSUME NEW t \in Threads, UpdateIndex(t) PROVE StageInv' /\ \A i \in Ids : Moves(i)
  BY <1>4, <1>s, LogStands DEF UpdateIndex, At, Goto, Logged, StatesAt, walVars, recVars
<1>5. ASSUME NEW t \in Threads, Append(t) PROVE StageInv' /\ \A i \in Ids : Moves(i)
  BY <1>5, AppendStage
<1>6. ASSUME NEW t \in Threads, AppendFails(t) PROVE FALSE
  BY <1>6 DEF AppendFails, Fault
<1>7. ASSUME NEW t \in Threads, MarkGit(t) \/ MarkIndex(t) \/ Complete(t)
      PROVE  StageInv' /\ \A i \in Ids : Moves(i)
  <2>1. \/ MarkStep(t, "mark-git", "git-committed", "index")
        \/ MarkStep(t, "mark-index", "index-committed", "complete")
        \/ MarkStep(t, "complete", "completed", "finish")
    BY <1>7 DEF MarkGit, MarkIndex, Complete, MarkStepFails, MarkFailed, Fault
  <2>2. /\ mode = "up" /\ UNCHANGED <<nextId, current, entry>> /\ Logged(t)
        /\ \A u \in Threads \ {t} : pc'[u] = pc[u]
    BY <2>1 DEF MarkStep, At, Goto, Logged, recVars
  <2>3. wal[entry[t]].state \in StatesAt(pc[t])
    BY <2>2, <1>s DEF StageInv
  <2>4. CASE MarkStep(t, "mark-git", "git-committed", "index")
    BY <1>s, <2>2, <2>3, <2>4, ThreadMarks
    DEF MarkStep, At, Goto, StatesAt, Rank, Unfinished
  <2>5. CASE MarkStep(t, "mark-index", "index-committed", "complete")
    BY <1>s, <2>2, <2>3, <2>5, ThreadMarks
    DEF MarkStep, At, Goto, StatesAt, Rank, Unfinished
  <2>6. CASE MarkStep(t, "complete", "completed", "finish")
    BY <1>s, <2>2, <2>3, <2>6, ThreadMarks
    DEF MarkStep, At, Goto, StatesAt, Rank, Unfinished, Finished, EntryStates
  <2> QED
    BY <2>1, <2>4, <2>5, <2>6
<1>8. ASSUME NEW t \in Threads, Rollback(t) PROVE StageInv' /\ \A i \in Ids : Moves(i)
  <2>1. /\ wal' = Marked(entry[t], "rolled-back") /\ mode = "up" /\ UNCHANGED <<nextId, current>>
        /\ pc[t] = "rollback" /\ pc'[t] = "idle" /\ Logged(t)
        /\ \A u \in Threads \ {t} : pc'[u] = pc[u] /\ entry'[u] = entry[u]
    BY <1>8 DEF Rollback, RolledBack, MarkFailed, Fault, Leave, At, Goto, Logged, recVars
  <2>2. wal[entry[t]].state = "pending"
    BY <2>1, <1>s DEF StageInv, StatesAt
  <2> QED
    BY <2>1, <2>2, ThreadMarks DEF Rank, Unfinished, Finished
<1>9. CASE Truncate
  <2>1. UNCHANGED <<nextId, current, pc, entry>> /\ wal' = Truncated /\ mode = "up"
    BY <1>9 DEF Truncate, threadVars, recVars
  <2>2. \A i \in Ids : wal'[i] = wal[i] \/ (wal[i].state \in Finished /\ wal'[i] = NoEntry)
    BY <2>1 DEF Truncated
  <2>3. \A i \in Ids : Moves(i)
    BY <2>2 DEF Moves, NoEntry
  <2>4. ASSUME NEW t \in Threads, Logged(t) PROVE wal'[entry[t]].state \in StatesAt(pc[t])
    <3>1. entry[t] \in Ids /\ wal[entry[t]].state \in StatesAt(pc[t])
      BY <2>4, <1>s DEF EntryOK, StageInv
    <3>2. CASE pc[t] = "finish"
      BY <2>2, <3>1, <3>2 DEF StatesAt, NoEntry
    <3>3. CASE pc[t] # "finish"
      <4>1. wal[entry[t]].state \notin Finished
        BY <2>4, <3>1, <3>3 DEF StatesAt, Logged, PCs, Finished
      <4> QED
        BY <2>2, <3>1, <4>1
    <3> QED
      BY <3>2, <3>3
  <2>5. \A i \in Ids : nextId <= i => wal'[i] = NoEntry
    BY <1>s, <2>2 DEF StageInv
  <2>6. current = NotMarking
    BY <2>1 DEF LogInv, RecordInv, MarkRecorded
  <2> QED
    BY <1>s, <2>1, <2>3, <2>4, <2>5, <2>6 DEF StageInv, Logged
<1>10. CASE Crash
  <2>1. PICK torn \in SUBSET {i \in Rewriting \ {0} : Readable(i)} :
          wal' = [i \in Ids |-> IF i \in torn THEN [wal[i] EXCEPT !.state = "torn"] ELSE wal[i]]
    BY <1>10 DEF Crash
  <2>2. ASSUME NEW i \in Ids, Readable(i)
        PROVE  [wal[i] EXCEPT !.state = "torn"].state = "torn" /\ wal[i] # NoEntry
    BY <2>2 DEF Readable, Unfinished, Finished, NoEntry, Entries
  <2>3. \A i \in Ids : wal'[i] = wal[i] \/ (wal'[i].state = "torn" /\ wal[i] # NoEntry)
    BY <2>1, <2>2
  <2>4. \A i \in Ids : Moves(i)
    BY <2>3 DEF Moves
  <2>5. \A i \in Ids : nextId <= i => wal'[i] = NoEntry
    BY <1>s, <2>3 DEF StageInv
  <2> QED
    BY <1>10, <2>4, <2>5 DEF Crash, StageInv, Logged, NotMarking
<1>11. CASE Restart
  BY <1>11, <1>s, LogStands DEF Restart, threadVars, walVars, Logged
<1>12. ASSUME NEW i \in Ids, RecoverEntry(i) PROVE StageInv' /\ \A j \in Ids : Moves(j)
  <2>1. /\ UNCHANGED <<wal, nextId, pc, entry>>
        /\ \A t \in Threads : pc[t] = "idle"
    BY <1>12
    DEF RecoverEntry, RecoverPending, RecoverGitCommitted, RecoverIndexCommitted, Recovers,
        threadVars, walVars, IdleUnlessUp
  <2>2. current'.id = i /\ wal[i].state \in Unfinished /\ Rank(wal[i].state) < Rank(current'.state)
    BY <1>12
    DEF RecoverEntry, RecoverPending, RecoverGitCommitted, RecoverIndexCommitted, Recovers,
        MarkNext, RecoveredState, Rank, Unfinished
  <2> QED
    BY <1>s, <2>1, <2>2 DEF StageInv, Logged, Moves
<1>13. CASE RecoverMark
  <2>1. /\ wal' = Marked(current.id, current.state) /\ current' = NotMarking /\ current # NotMarking
        /\ UNCHANGED <<nextId, pc, entry>> /\ \A t \in Threads : pc[t] = "idle"
    BY <1>13 DEF RecoverMark, MarkFailed, Fault, threadVars, IdleUnlessUp
  <2>2. current.id \in Ids /\ current.state \in Unfinished \cup Finished
    BY <2>1 DEF Markings
  <2>3. /\ wal[current.id].state \in Unfinished
        /\ Rank(wal[current.id].state) < Rank(current.state)
    BY <1>s, <2>1 DEF StageInv
  <2>4. /\ \A j \in Ids \ {current.id} : wal'[j] = wal[j]
        /\ \A j \in Ids : Moves(j)
    BY <2>1, <2>2, <2>3, MarksOn
  <2>5. wal[current.id] # NoEntry
    BY <2>3 DEF NoEntry, Unfinished
  <2>6. \A j \in Ids : nextId <= j => wal'[j] = NoEntry
    BY <1>s, <2>2, <2>4, <2>5 DEF StageInv
  <2> QED
    BY <2>1, <2>4, <2>6 DEF StageInv, Logged
<1>14. CASE RecoverDone
  <2>1. /\ UNCHANGED <<nextId, current, pc, entry>> /\ wal' = Truncated /\ current = NotMarking
        /\ \A t \in Threads : pc[t] = "idle"
    BY <1>14 DEF RecoverDone, threadVars, recVars, IdleUnlessUp
  <2>2. \A i \in Ids : wal'[i] = wal[i] \/ (wal[i].state \in Finished /\ wal'[i] = NoEntry)
    BY <2>1 DEF Truncated
  <2>3. \A i \in Ids : Moves(i)
    BY <2>2 DEF Moves, NoEntry
  <2>4. \A i \in Ids : nextId <= i => wal'[i] = NoEntry
    BY <1>s, <2>2 DEF StageInv
  <2> QED
    BY <2>1, <2>3, <2>4 DEF StageInv, Logged
<1>15. CASE UNCHANGED vars
  BY <1>15, <1>s, LogStands DEF vars, threadVars, walVars, recVars, Logged
<1> QED
  BY <1>1, <1>2, <1>3, <1>4, <1>5, <1>6, <1>7, <1>8, <1>9, <1>10, <1>11, <1>12, <1>13, <1>14, <1>15
  DEF Next, Step, Recovery

LEMMA StageInvariant ==
  ASSUME "wal" \notin FaultKinds
  PROVE  Spec => [](TypeInv /\ LogInv)
<1>1. Init => TypeInv /\ LogInv
  <2>1. Init => RecordInv
    BY InitTypes
    DEF Init, RecordInv, EntryMatches, Logged, WritesRecorded, Committed, MarkRecorded, LogBehindGit,
        IndexBehindGit, NoEntry
  <2>2. Init => StageInv
    BY DEF Init, StageInv, Logged
  <2> QED
    BY <2>1, <2>2, InitTypes DEF LogInv
<1>2. TypeInv /\ LogInv /\ [Next]_vars => TypeInv' /\ LogInv'
  BY StepTypes, StepRecords, StepStage DEF LogInv
<1> QED
  BY <1>1, <1>2, PTL DEF Spec

\* If log writes do not fail, the file of an entry goes from "pending" over the marks of the
\* handler or of recover! to a finished state, and then is only ever deleted: no step of a
\* request, of a recovery or of an operator takes it back.
THEOREM LogOnlyMovesOn ==
  ASSUME "wal" \notin FaultKinds
  PROVE  Spec => LogMovesOn
<1>1. TypeInv /\ LogInv /\ [Next]_vars =>
        [\A i \in Ids : wal[i].state \in Unfinished \cup Finished =>
           \/ wal'[i].state \in {wal[i].state, "torn"}
           \/ wal[i].state \in Finished /\ wal'[i].state = "none"
           \/ wal[i].state \in Unfinished /\ wal'[i].state \in Unfinished \cup Finished
                                          /\ Rank(wal[i].state) < Rank(wal'[i].state)]_vars
  BY StepStage DEF Moves
<1> QED
  BY <1>1, StageInvariant, PTL DEF Spec, LogMovesOn

-----------------------------------------------------------------------------
(* The store implements its abstract specification *)

\* What the mapping of Implements makes of the variables.
CallMap == [t \in Threads |-> CallOf(t)]
Orphans == IF mode = "up" THEN {} ELSE Undecided

StoreInv == TypeInv /\ PendingInv /\ HolderSeesOwnWrite /\ RecordInv

WriteOf(e) == [branch |-> e.branch, doc |-> e.doc, val |-> e.val]

LEMMA CallChanged ==
  ASSUME NEW t \in Threads, NEW c, CallOf(t)' = c, \A u \in Threads \ {t} : CallOf(u)' = CallOf(u)
  PROVE  CallMap' = [CallMap EXCEPT ![t] = c]
  BY DEF CallMap

\* A step that no caller can tell from none.
LEMMA StoreSame ==
  ASSUME UNCHANGED <<git, mode>>, \A t \in Threads : CallOf(t)' = CallOf(t), Orphans' = Orphans
  PROVE  UNCHANGED Atomic!vars
<1>1. CallMap' = CallMap
  BY DEF CallMap
<1> QED
  BY <1>1 DEF Atomic!vars, CallMap, Orphans

LEMMA CallUnchanged ==
  ASSUME NEW u \in Threads, pc'[u] = pc[u], req'[u] = req[u], found'[u] = found[u]
  PROVE  CallOf(u)' = CallOf(u)
  BY DEF CallOf

\* A call that goes on without being decided, and no other call changes.
LEMMA CallGoesOn ==
  ASSUME NEW t \in Threads, mode = "up", mode' = mode, git' = git, CallOf(t)' = CallOf(t),
         \A u \in Threads \ {t} : pc'[u] = pc[u] /\ req'[u] = req[u] /\ found'[u] = found[u]
  PROVE  UNCHANGED Atomic!vars
<1>1. \A u \in Threads : CallOf(u)' = CallOf(u)
  BY CallUnchanged
<1> QED
  BY <1>1, StoreSame DEF Orphans

\* A call that ends, with success when it was made and with an error when it was not.
LEMMA CallEnds ==
  ASSUME NEW t \in Threads, mode = "up", mode' = mode, git' = git,
         pc[t] # "idle", pc'[t] = "idle",
         \A u \in Threads \ {t} : pc'[u] = pc[u] /\ req'[u] = req[u] /\ found'[u] = found[u]
  PROVE  Atomic!Next
<1>1. CallMap' = [CallMap EXCEPT ![t] = [status |-> "idle"]]
  <2>1. CallOf(t)' = [status |-> "idle"]
    BY DEF CallOf
  <2> QED
    BY <2>1, CallChanged, CallUnchanged
<1>2. CallMap[t].status \in {"open", "done"}
  BY DEF CallMap, CallOf
<1>3. Atomic!Succeed(t) \/ Atomic!Fail(t)
  BY <1>1, <1>2 DEF Atomic!Succeed, Atomic!Fail, Atomic!NoCall, CallMap
<1> QED
  BY <1>3 DEF Atomic!Next

LEMMA RequestWrites ==
  ASSUME NEW r \in Requests
  PROVE  WriteOf(r) \in Atomic!Writes
  BY DEF Requests, WriteOf, Atomic!Writes, Atomic!Contents, Contents

LEMMA StoreCall ==
  ASSUME StoreInv, NEW t \in Threads, NEW r \in Offered, Call(t, r)
  PROVE  [Atomic!Next]_(Atomic!vars)
<1> USE DEF StoreInv, TypeInv, TypeOK
<1>1. /\ mode = "up" /\ mode' = mode /\ git' = git /\ found' = found /\ pc[t] = "idle"
      /\ r \in Requests
  BY OfferedRequests DEF Call, At, dataVars
<1>2. CASE Conflicts(r)
  <2>1. pc' = pc /\ req' = req
    BY <1>2 DEF Call
  <2> QED
    BY <1>1, <2>1, CallGoesOn, CallUnchanged
<1>3. CASE ~Conflicts(r)
  <2>1. pc' = [pc EXCEPT ![t] = "lock"] /\ req' = [req EXCEPT ![t] = r]
    BY <1>3 DEF Call, Goto
  <2>2. CallOf(t)' = [status |-> "open", write |-> WriteOf(r)]
    BY <2>1 DEF CallOf, WriteOf
  <2>3. CallMap' = [CallMap EXCEPT ![t] = [status |-> "open", write |-> WriteOf(r)]]
    BY <1>1, <2>1, <2>2, CallChanged, CallUnchanged
  <2>4. CallMap[t] = [status |-> "idle"]
    BY <1>1 DEF CallMap, CallOf
  <2>5. Atomic!Begin(t, WriteOf(r))
    BY <1>1, <2>3, <2>4 DEF Atomic!Begin, Atomic!NoCall, CallMap
  <2> QED
    BY <1>1, <2>5, RequestWrites DEF Atomic!Next
<1> QED
  BY <1>2, <1>3

\* The commit is the instant at which the call takes effect, unless there is nothing to
\* delete.
LEMMA StoreCommit ==
  ASSUME StoreInv, NEW t \in Threads, Commit(t)
  PROVE  [Atomic!Next]_(Atomic!vars)
<1> USE DEF StoreInv, TypeInv, TypeOK
<1>1. /\ mode = "up" /\ mode' = mode /\ pc[t] = "git" /\ pc' = [pc EXCEPT ![t] = "mark-git"]
      /\ req' = req /\ req[t] \in Requests /\ found' = [found EXCEPT ![t] = Commits(req[t])]
      /\ CommitOf(req[t])
  BY DEF Commit, At, Goto, RequestOK
<1>2. CallOf(t) = [status |-> "open", write |-> WriteOf(req[t])]
  BY <1>1 DEF CallOf, WriteOf
<1>3. CASE Commits(req[t])
  <2>1. found'[t]
    BY <1>1, <1>3
  <2>2. CallOf(t)' = [status |-> "done", write |-> WriteOf(req[t])]
    BY <1>1, <2>1 DEF CallOf, WriteOf
  <2>3. CallMap' = [CallMap EXCEPT ![t] = [status |-> "done", write |-> WriteOf(req[t])]]
    BY <1>1, <2>2, CallChanged, CallUnchanged
  <2>4. CallMap[t] = [status |-> "open", write |-> WriteOf(req[t])]
    BY <1>2 DEF CallMap
  <2>5. CallMap' = [CallMap EXCEPT ![t].status = "done"]
    <3>1. [CallMap[t] EXCEPT !.status = "done"] = [status |-> "done", write |-> WriteOf(req[t])]
      BY <2>4
    <3> QED
      BY <2>3, <3>1
  <2>6. git' = [git EXCEPT ![req[t].branch][req[t].doc] = req[t].val]
    BY <1>1, <1>3 DEF CommitOf
  <2>7. CallMap[t].status = "open" /\ CallMap[t].write = WriteOf(req[t])
    BY <2>4
  <2>8. git' = Atomic!After(CallMap[t].write)
    BY <2>6, <2>7 DEF Atomic!After, WriteOf
  <2>9. Orphans' = Orphans
    BY <1>1 DEF Orphans
  <2>10. Atomic!Commit(t)
    BY <1>1, <2>5, <2>7, <2>8, <2>9 DEF Atomic!Commit, CallMap, Orphans
  <2> QED
    BY <2>10 DEF Atomic!Next
<1>4. CASE ~Commits(req[t])
  <2>1. git' = git /\ ~found'[t]
    BY <1>1, <1>4 DEF CommitOf
  <2>2. CallOf(t)' = CallOf(t)
    BY <1>1, <1>2, <2>1 DEF CallOf, WriteOf
  <2> QED
    BY <1>1, <2>1, <2>2, CallGoesOn
<1> QED
  BY <1>3, <1>4

LEMMA StoreStep ==
  ASSUME "wal" \notin FaultKinds, StoreInv, NEW t \in Threads, Step(t)
  PROVE  [Atomic!Next]_(Atomic!vars)
<1> USE DEF StoreInv, TypeInv, TypeOK
<1>1. CASE Acquire(t) \/ Append(t) \/ CommitFails(t) \/ UpdateIndex(t)
  <2>1. /\ mode = "up" /\ mode' = mode /\ git' = git /\ req' = req /\ found' = found
        /\ \A u \in Threads \ {t} : pc'[u] = pc[u]
    BY <1>1 DEF Acquire, Append, CommitFails, UpdateIndex, At, Goto, dataVars
  <2>2. CallOf(t)' = CallOf(t)
    BY <1>1, <2>1
    DEF Acquire, Append, CommitFails, AfterCommitFailure, UpdateIndex, At, Goto, CallOf
  <2> QED
    BY <2>1, <2>2, CallGoesOn
<1>2. CASE MarkGit(t) \/ MarkIndex(t) \/ Complete(t)
  <2>1. PICK l \in {"mark-git", "mark-index", "complete"}, n \in {"index", "complete", "finish"},
             s \in {"git-committed", "index-committed", "completed"} : MarkStep(t, l, s, n)
    BY <1>2 DEF MarkGit, MarkIndex, Complete, MarkStepFails, MarkFailed, Fault
  <2>2. /\ mode = "up" /\ mode' = mode /\ git' = git /\ req' = req /\ found' = found
        /\ pc[t] = l /\ pc' = [pc EXCEPT ![t] = n]
    BY <2>1 DEF MarkStep, At, Goto, dataVars
  <2>3. CallOf(t)' = CallOf(t)
    BY <2>1, <2>2 DEF CallOf
  <2> QED
    BY <2>2, <2>3, CallGoesOn
<1>3. CASE Commit(t)
  BY <1>3, StoreCommit
<1>4. CASE AppendFails(t)
  BY <1>4 DEF AppendFails, Fault
<1>5. CASE Rollback(t)
  BY <1>5, CallEnds DEF Rollback, Leave, At, Goto, dataVars
<1>6. CASE Finish(t)
  <2>1. /\ mode = "up" /\ mode' = mode /\ git' = git /\ pc[t] = "finish"
        /\ \A u \in Threads \ {t} : pc'[u] = pc[u] /\ req'[u] = req[u] /\ found'[u] = found[u]
    BY <1>6 DEF Finish, Leave, At, Goto, dataVars
  <2>2. CASE Leave(t)
    BY <2>1, <2>2, CallEnds DEF Leave, Goto
  <2>3. CASE Retries(t) /\ Goto(t, "lock") /\ found' = [found EXCEPT ![t] = TRUE] /\ UNCHANGED req
    <3>1. CallOf(t)' = CallOf(t)
      BY <2>1, <2>3 DEF Retries, Goto, CallOf
    <3> QED
      BY <2>1, <3>1, CallGoesOn
  <2> QED
    BY <1>6, <2>2, <2>3 DEF Finish
<1> QED
  BY <1>1, <1>2, <1>3, <1>4, <1>5, <1>6 DEF Step

-----------------------------------------------------------------------------
(* Crashes and recoveries *)

\* While nobody is served nobody has a call.
LEMMA NobodyCalls ==
  ASSUME TypeInv, mode # "up"
  PROVE  CallMap = [t \in Threads |-> [status |-> "idle"]]
  BY DEF TypeInv, IdleUnlessUp, CallMap, CallOf

\* The writes that a crash leaves undecided were undecided before, or those of open calls.
LEMMA CrashOrphans ==
  ASSUME StoreInv, Crash
  PROVE  Undecided' \subseteq Orphans \cup Atomic!OpenWrites
<1> USE DEF StoreInv, TypeInv, TypeOK
<1>1. \A i \in Ids : wal'[i].state = "pending" => wal'[i] = wal[i]
  <2>1. PICK torn \in SUBSET {i \in Rewriting \ {0} : Readable(i)} :
          wal' = [i \in Ids |-> IF i \in torn THEN [wal[i] EXCEPT !.state = "torn"] ELSE wal[i]]
    BY DEF Crash
  <2>2. ASSUME NEW i \in Ids, Readable(i) PROVE [wal[i] EXCEPT !.state = "torn"].state = "torn"
    BY <2>2 DEF Readable, Unfinished, Finished, NoEntry, Entries
  <2> QED
    BY <2>1, <2>2
<1>2. ASSUME NEW w \in Undecided' PROVE w \in Undecided
  BY <1>1, <1>2 DEF Undecided, Crash
<1>3. ASSUME mode = "up", NEW w \in Undecided PROVE w \in Atomic!OpenWrites
  <2>1. PICK i \in Ids : wal[i].state = "pending" /\ w = WriteOf(wal[i])
    BY <1>3 DEF Undecided, WriteOf
  <2>2. git[w.branch][w.doc] # w.val /\ w \in Atomic!Writes
    BY <1>3 DEF Undecided, Atomic!Writes, Atomic!Contents, Contents
  <2>3. PICK t \in Threads : entry[t] = i /\ pc[t] \in {"git", "mark-git", "rollback"}
    BY <1>3, <2>1 DEF PendingInv, PendingIsHeld
  <2>4. SameWrite(wal[i], req[t])
    BY <2>1, <2>3 DEF RecordInv, EntryMatches, Logged
  <2>5. w = WriteOf(req[t])
    BY <2>1, <2>4 DEF SameWrite, WriteOf
  <2>6. pc[t] # "mark-git"
    BY <2>2, <2>5 DEF HolderSeesOwnWrite, WriteOf
  <2>7. CallMap[t] = [status |-> "open", write |-> w]
    BY <2>3, <2>5, <2>6 DEF CallMap, CallOf, WriteOf
  <2> QED
    BY <2>2, <2>7 DEF Atomic!OpenWrites, CallMap
<1> QED
  BY <1>2, <1>3 DEF Orphans

LEMMA StoreCrash ==
  ASSUME StoreInv, Crash
  PROVE  Atomic!Next
<1>1. mode' = "down" /\ git' = git
  BY DEF Crash
<1>2. CallMap' = [t \in Threads |-> [status |-> "idle"]]
  BY DEF Crash, CallMap, CallOf
<1>3. Orphans' \in SUBSET (Orphans \cup Atomic!OpenWrites)
  BY <1>1, CrashOrphans DEF Orphans
<1>4. Atomic!Crash
  BY <1>1, <1>2, <1>3 DEF Atomic!Crash, Atomic!NoCall, CallMap, Orphans
<1> QED
  BY <1>4 DEF Atomic!Next

\* Recovery's steps are seen in the orphans only: they stay, or one of them is settled.
LEMMA OrphanSettled ==
  ASSUME StoreInv, mode = "recovering", mode' = mode, UNCHANGED <<pc, req, found>>,
         NEW w \in Undecided, Undecided' = Undecided \ {w},
         git' = git \/ git' = [git EXCEPT ![w.branch][w.doc] = w.val]
  PROVE  Atomic!Next
<1>1. CallMap' = CallMap
  BY DEF CallMap, CallOf
<1>2. w \in Atomic!Writes
  BY DEF Undecided, Atomic!Writes, Atomic!Contents, Contents
<1>3. Atomic!MakeOrphan(w) \/ Atomic!DropOrphan(w)
  BY <1>1 DEF Atomic!MakeOrphan, Atomic!DropOrphan, Atomic!After, CallMap, Orphans
<1> QED
  BY <1>2, <1>3 DEF Atomic!Next

LEMMA OrphansStay ==
  ASSUME mode' = mode, git' = git, UNCHANGED <<pc, req, found>>, Undecided' = Undecided
  PROVE  UNCHANGED Atomic!vars
<1>1. \A t \in Threads : CallOf(t)' = CallOf(t)
  BY DEF CallOf
<1> QED
  BY <1>1, StoreSame DEF Orphans

LEMMA StoreReplays ==
  ASSUME StoreInv, NEW i \in Ids, RecoverPending(i)
  PROVE  [Atomic!Next]_(Atomic!vars)
<1> USE DEF StoreInv, TypeInv, TypeOK
<1>1. /\ mode = "recovering" /\ mode' = mode /\ UNCHANGED <<pc, req, found, wal>>
      /\ wal[i].state = "pending" /\ wal[i] \in Entries
  BY DEF RecoverPending, Recovers, threadVars, walVars, NoEntry
<1>2. CASE git' = git
  BY <1>1, <1>2, OrphansStay DEF Undecided
<1>3. CASE CommitOf(wal[i]) /\ Commits(wal[i]) /\ git' # git
  <2> DEFINE e == wal[i]
             w == WriteOf(e)
  <2>1. e.branch \in Branches /\ e.doc \in Docs /\ e.val \in Contents
    BY <1>1 DEF Entries
  <2>2. w \in [branch : Branches, doc : Docs, val : Contents]
    BY <2>1 DEF WriteOf
  <2>3. /\ git' = [git EXCEPT ![w.branch][w.doc] = w.val]
        /\ w.branch \in Branches /\ w.doc \in Docs /\ w.val \in Contents
    BY <1>3, <2>1 DEF CommitOf, WriteOf
  <2>4. git[w.branch][w.doc] # w.val
    BY <1>3, <2>3
  <2>5. w \in Undecided
    BY <1>1, <2>2, <2>4 DEF Undecided, WriteOf
  <2>6. w \notin Undecided'
    BY <2>3 DEF Undecided
  <2>7. ASSUME NEW x \in [branch : Branches, doc : Docs, val : Contents], x # w,
               NEW j \in Ids, wal[j].state = "pending", x = WriteOf(wal[j])
        PROVE  git'[x.branch] = git[x.branch]
    <3>1. j # i
      BY <2>7
    <3>2. x.branch # w.branch
      BY <1>1, <2>7, <3>1 DEF PendingInv, OnePendingPerBranch, WriteOf
    <3> QED
      BY <2>3, <3>2
  <2>8. Undecided' = Undecided \ {w}
    BY <1>1, <2>5, <2>6, <2>7 DEF Undecided, WriteOf
  <2> QED
    BY <1>1, <2>3, <2>5, <2>8, OrphanSettled
<1> QED
  BY <1>2, <1>3 DEF RecoverPending, CommitOf

\* Marking an entry settles its write, if git does not show it.
LEMMA StoreMarks ==
  ASSUME "wal" \notin FaultKinds, StoreInv, RecoverMark
  PROVE  [Atomic!Next]_(Atomic!vars)
<1> USE DEF StoreInv, TypeInv, TypeOK
<1>1. /\ mode = "recovering" /\ mode' = mode /\ UNCHANGED <<pc, req, found, git>>
      /\ wal' = Marked(current.id, current.state) /\ current # NotMarking
  BY DEF RecoverMark, MarkFailed, Fault, threadVars, dataVars
<1>2. current.id \in Ids /\ current.state \in EntryStates \ {"pending"}
  BY <1>1 DEF Markings, PendingInv, ReplayInv, EntryStates
<1>3. /\ wal'[current.id].state # "pending"
      /\ \A j \in Ids \ {current.id} : wal'[j] = wal[j]
  BY <1>1, <1>2, MarkEnds
<1> DEFINE w == WriteOf(wal[current.id])
<1>4. CASE wal[current.id].state = "pending" /\ w \in Undecided
  <2>1. \A j \in Ids \ {current.id} : wal[j].state = "pending" => WriteOf(wal[j]) # w
    BY <1>2, <1>4 DEF PendingInv, OnePendingPerBranch, WriteOf
  <2>2. Undecided' = Undecided \ {w}
    <3>1. ASSUME NEW x \in Undecided, x # w PROVE x \in Undecided'
      <4>1. PICK j \in Ids : wal[j].state = "pending" /\ x = WriteOf(wal[j])
        BY <3>1 DEF Undecided, WriteOf
      <4>2. wal'[j] = wal[j]
        BY <1>3, <3>1, <4>1
      <4> QED
        BY <1>1, <3>1, <4>1, <4>2 DEF Undecided, WriteOf
    <3>2. ASSUME NEW x \in Undecided' PROVE x \in Undecided /\ x # w
      <4>1. PICK j \in Ids : wal'[j].state = "pending" /\ x = WriteOf(wal'[j])
        BY <3>2 DEF Undecided, WriteOf
      <4>2. j # current.id /\ wal'[j] = wal[j]
        BY <1>3, <4>1
      <4>3. x # w
        BY <2>1, <4>1, <4>2
      <4> QED
        BY <1>1, <3>2, <4>1, <4>2, <4>3 DEF Undecided, WriteOf
    <3> QED
      BY <3>1, <3>2
  <2> QED
    BY <1>1, <1>4, <2>2, OrphanSettled
<1>5. CASE ~(wal[current.id].state = "pending" /\ w \in Undecided)
  <2>1. Undecided' = Undecided
    <3>1. ASSUME NEW x \in Undecided PROVE x \in Undecided'
      <4>1. PICK j \in Ids : wal[j].state = "pending" /\ x = WriteOf(wal[j])
        BY <3>1 DEF Undecided, WriteOf
      <4>2. wal'[j] = wal[j]
        BY <1>3, <1>5, <3>1, <4>1
      <4> QED
        BY <1>1, <3>1, <4>1, <4>2 DEF Undecided, WriteOf
    <3>2. ASSUME NEW x \in Undecided' PROVE x \in Undecided
      <4>1. PICK j \in Ids : wal'[j].state = "pending" /\ x = WriteOf(wal'[j])
        BY <3>2 DEF Undecided, WriteOf
      <4>2. wal'[j] = wal[j]
        BY <1>3, <4>1
      <4> QED
        BY <1>1, <3>2, <4>1, <4>2 DEF Undecided, WriteOf
    <3> QED
      BY <3>1, <3>2
  <2> QED
    BY <1>1, <2>1, OrphansStay
<1> QED
  BY <1>4, <1>5

\* The store serves again: nothing is pending, so no write is undecided.
LEMMA StoreServes ==
  ASSUME TypeInv, mode # "up", mode' = "up", UNCHANGED <<git, pc, req, found>>,
         \A i \in Ids : wal[i].state # "pending"
  PROVE  Atomic!Next
<1>1. Orphans = {} /\ Orphans' = {}
  BY DEF Orphans, Undecided
<1>2. CallMap' = CallMap
  BY DEF CallMap, CallOf
<1>3. Atomic!Resume
  BY <1>1, <1>2 DEF Atomic!Resume, Orphans, CallMap
<1> QED
  BY <1>3 DEF Atomic!Next

LEMMA StoreRecovers ==
  ASSUME "wal" \notin FaultKinds, StoreInv, Recovery
  PROVE  [Atomic!Next]_(Atomic!vars)
<1> USE DEF StoreInv, TypeInv, TypeOK
<1>1. CASE Restart
  <2>1. mode = "down" /\ UNCHANGED <<git, wal, pc, req, found>>
    BY <1>1 DEF Restart, threadVars, dataVars, walVars
  <2>2. CASE PendingEntries = {}
    <3>1. \A i \in Ids : wal[i].state # "pending"
      BY <2>2 DEF PendingEntries, Unfinished
    <3>2. mode' = "up"
      BY <1>1, <2>2 DEF Restart
    <3> QED
      BY <2>1, <3>1, <3>2, StoreServes
  <2>3. CASE PendingEntries # {}
    <3>1. mode' = "recovering" /\ Undecided' = Undecided
      BY <1>1, <2>1, <2>3 DEF Restart, Undecided
    <3>2. CallMap' = CallMap /\ Orphans' = Orphans
      BY <2>1, <3>1 DEF CallMap, CallOf, Orphans
    <3> QED
      BY <2>1, <3>1, <3>2 DEF Atomic!vars, CallMap, Orphans
  <2> QED
    BY <2>2, <2>3
<1>2. ASSUME NEW i \in Ids, RecoverPending(i) PROVE [Atomic!Next]_(Atomic!vars)
  BY <1>2, StoreReplays
<1>3. ASSUME NEW i \in Ids, RecoverGitCommitted(i) \/ RecoverIndexCommitted(i)
      PROVE  [Atomic!Next]_(Atomic!vars)
  <2>1. mode' = mode /\ UNCHANGED <<git, wal, pc, req, found>>
    BY <1>3
    DEF RecoverGitCommitted, RecoverIndexCommitted, Recovers, threadVars, dataVars, walVars
  <2> QED
    BY <2>1, OrphansStay DEF Undecided
<1>4. CASE RecoverMark
  BY <1>4, StoreMarks
<1>5. CASE RecoverDone
  <2>1. \A i \in Ids : i # 0
    BY DEF Ids
  <2>2. \A i \in Ids : wal[i].state # "pending"
    BY <1>5, <2>1 DEF RecoverDone, SnapshotDone, PendingInv, ReplayInv, NotMarking
  <2> QED
    BY <1>5, <2>2, StoreServes DEF RecoverDone, threadVars, dataVars
<1> QED
  BY <1>1, <1>2, <1>3, <1>4, <1>5 DEF Recovery, RecoverEntry

LEMMA AbstractStep ==
  ASSUME "wal" \notin FaultKinds, StoreInv, [Next]_vars
  PROVE  [Atomic!Next]_(Atomic!vars)
<1>1. CASE Truncate
  BY <1>1, StoreSame DEF Truncate, threadVars, dataVars, CallOf, Orphans
<1>2. CASE UNCHANGED vars
  BY <1>2, OrphansStay DEF vars, threadVars, dataVars, walVars, Undecided
<1> QED
  BY <1>1, <1>2, StoreCall, StoreStep, StoreCrash, StoreRecovers DEF Next

\* save-document, delete-document, their failures, crashes and recover! implement the
\* abstract store, if log writes do not fail: a call takes effect once, at its commit, or
\* not at all when it is answered with an error; and what a crash left open is made at most
\* once more, before the store serves.
THEOREM StoreImplemented ==
  ASSUME "wal" \notin FaultKinds
  PROVE  Spec => Implements
<1>1. Init => Atomic!Init
  BY DEF Init, Atomic!Init, Atomic!NoCall, CallOf
<1>2. StoreInv /\ [Next]_vars => [Atomic!Next]_(Atomic!vars)
  BY AbstractStep
<1>3. Spec => []StoreInv
  <2>1. TypeInv /\ RecordInv /\ PendingInv /\ HolderSeesOwnWrite => StoreInv
    BY DEF StoreInv
  <2>2. Init => TypeInv /\ LockDiscipline /\ HolderSeesOwnWrite
    BY InitTypes, ConstantsAssumption DEF Init, LockDiscipline, InSection, HolderSeesOwnWrite
  <2>3. TypeInv /\ LockDiscipline /\ HolderSeesOwnWrite /\ [Next]_vars
        => TypeInv' /\ LockDiscipline' /\ HolderSeesOwnWrite'
    BY StepTypes, StepLocks, StepSeen
  <2>4. Spec => [](TypeInv /\ HolderSeesOwnWrite)
    BY <2>2, <2>3, PTL DEF Spec
  <2> QED
    BY <2>1, <2>4, PendingInvariant, RecordInvariant, PTL
<1> QED
  BY <1>1, <1>2, <1>3, PTL DEF Spec, Implements, Atomic!Spec
=============================================================================
