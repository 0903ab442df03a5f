----------------------------- MODULE LibHandles -----------------------------
(***************************************************************************)
(* chrondb.lib.core: the handles the embedded library gives to the threads *)
(* of one process, and the storage and index that the handles of one path  *)
(* share.  Opening and releasing an instance happens under instance-lock;  *)
(* the registry of handles, the storage and the index are used without it. *)
(*                                                                         *)
(* Abstractions.  A path stands for a pair of data and index path, and two *)
(* paths have nothing in common.  A repository is the set of documents on  *)
(* its main branch and an index the set of documents it files: contents    *)
(* are left out.  A commit is one step, taken or refused, since the update *)
(* of the branch compares (GitStore).                                      *)
(***************************************************************************)
EXTENDS Naturals, FiniteSets

CONSTANTS
  Threads,
  NoThread,
  Paths,
  NoPath,
  Docs,
  NoDoc,
  DocsOf,   \* DocsOf[t]: documents thread t writes
  Private,  \* whether a thread uses only handles it opened
  Failing,  \* what may fail
  MaxCalls, \* bound: calls made, so handles and instances too
  MaxFaults \* bound: failures

ASSUME LibConstants ==
  /\ IsFiniteSet(Threads)
  /\ NoThread \notin Threads /\ NoPath \notin Paths /\ NoDoc \notin Docs
  /\ DocsOf \in [Threads -> SUBSET Docs]
  /\ Private \in BOOLEAN
  /\ Failing \subseteq {"storage", "writer", "listing", "commit", "indexing"}
  /\ MaxCalls \in Nat /\ MaxFaults \in Nat

VARIABLES
  registry,  \* handle-registry: the instance and the path of a handle
  counter,   \* handle-counter
  instances, \* instance-registry: the instance of a path and its ref-count
  lock,      \* the thread inside instance-lock
  storages,  \* instances whose repository is open
  writers,   \* writers[i]: the path whose index writer instance i has open
  made,      \* instances made so far
  git,       \* git[p]: documents stored under p
  index,     \* index[p]: documents the index of p files
  pc, req, local, \* of each thread: next step, request, local variables
  owner,     \* owner[h]: history, the thread that opened h
  missed,    \* history, <<path, doc>>: the index failed to take it when last offered
  calls, faults   \* counters of the bounds

fileVars  == <<git, index, missed>>
resources == <<storages, writers, made>>
vars == <<registry, counter, instances, lock, resources, fileVars, pc, req, local, owner,
          calls, faults>>

-----------------------------------------------------------------------------
Handles == 0 .. MaxCalls
Instances == 1 .. MaxCalls

NoEntry == [inst |-> 0, path |-> NoPath]
Entries == [inst : Instances, path : Paths]
NoInstance == [inst |-> 0, count |-> 0]

NoRequest == [op |-> "none", doc |-> NoDoc]
Requests == [op : {"open", "close", "put", "delete"}, doc : Docs \cup {NoDoc}]

Creating == {"writer", "list", "fill"}
Referring == {"assign", "register", "release"}
Working == {"save", "file", "exists", "remove", "unfile"}
PCs == {"idle", "open", "close", "drop", "lookup"} \cup Creating \cup Referring \cup Working

Locals == [handle : Handles, inst : {0} \cup Instances, path : Paths \cup {NoPath},
           seen : SUBSET Docs]
Fresh == [handle |-> 0, inst |-> 0, path |-> NoPath, seen |-> {}]

\* A registered instance is referred to at least once.
TypeOK ==
  /\ registry \in [Handles -> Entries \cup {NoEntry}]
  /\ counter \in Nat
  /\ instances \in [Paths -> [inst : Instances, count : Nat \ {0}] \cup {NoInstance}]
  /\ lock \in Threads \cup {NoThread}
  /\ storages \subseteq Instances
  /\ writers \in [Instances -> Paths \cup {NoPath}]
  /\ made \in Nat
  /\ git \in [Paths -> SUBSET Docs] /\ index \in [Paths -> SUBSET Docs]
  /\ missed \subseteq Paths \X Docs
  /\ pc \in [Threads -> PCs]
  /\ req \in [Threads -> Requests \cup {NoRequest}]
  /\ local \in [Threads -> Locals]
  /\ owner \in [Handles -> Threads \cup {NoThread}]
  /\ calls \in 0 .. MaxCalls /\ faults \in 0 .. MaxFaults

\* The repository may be older than its index, which a clone comes without.
Init ==
  /\ registry = [h \in Handles |-> NoEntry]
  /\ counter = 0
  /\ instances = [p \in Paths |-> NoInstance]
  /\ lock = NoThread
  /\ storages = {}
  /\ writers = [i \in Instances |-> NoPath]
  /\ made = 0
  /\ git \in [Paths -> SUBSET Docs]
  /\ index = [p \in Paths |-> {}]
  /\ missed = {}
  /\ pc = [t \in Threads |-> "idle"]
  /\ req = [t \in Threads |-> NoRequest]
  /\ local = [t \in Threads |-> Fresh]
  /\ owner = [h \in Handles |-> NoThread]
  /\ calls = 0 /\ faults = 0

-----------------------------------------------------------------------------
(* Pieces of the functions *)

Goto(t, step) == pc' = [pc EXCEPT ![t] = step]

Return(t) ==
  /\ Goto(t, "idle")
  /\ req' = [req EXCEPT ![t] = NoRequest]
  /\ local' = [local EXCEPT ![t] = Fresh]

Fault(kind) == kind \in Failing /\ faults < MaxFaults /\ faults' = faults + 1

\* A bug: the instances are looked up and made without a lock.
LockIgnored == TRUE
LockFree == lock = NoThread

\* A bug: an exception leaves the lock taken.
StillLocked(before) == before
\* The monitor is left on every way out of the block.
Unlocked(before) == NoThread

\* A bug: an instance that is reused is not counted.
NotCounted(i) == i
Counted(i) == [i EXCEPT !.count = @ + 1]

\* A bug: the count is compared before it is decremented.
LastButOne(i) == i.count <= 2
\* A bug: the last reference is not the last.
NeverLast(i) == i.count - 1 < 0
\* (<= new-count 0)
LastReference(i) == i.count - 1 <= 0

\* A bug: the index is opened as it is.
NotPopulated(filed, docs) == filed
\* ensure-index-populated files every document it listed.
Populated(filed, docs) == filed \cup docs

\* A bug: the writer of a released instance is not closed.
WriterKept(i) == writers
WriterClosed(i) == [writers EXCEPT ![i] = NoPath]

\* Lucene gives one writer per directory.
WriterFree(p) == \A i \in Instances : writers[i] # p

-----------------------------------------------------------------------------
(* Calls *)

Start(t, step, r, h, p) ==
  /\ pc[t] = "idle"
  /\ calls < MaxCalls /\ calls' = calls + 1
  /\ Goto(t, step)
  /\ req' = [req EXCEPT ![t] = r]
  /\ local' = [local EXCEPT ![t].handle = h, ![t].path = p]
  /\ UNCHANGED <<registry, counter, instances, lock, resources, fileVars, owner, faults>>

CallOpen(t) ==
  \E p \in Paths : Start(t, "open", [op |-> "open", doc |-> NoDoc], 0, p)

\* Handles are numbers: a client may pass one that is closed, or not given yet.
MayUse(t, h) == h < counter /\ (Private => owner[h] = t)

CallClose(t) ==
  \E h \in Handles :
    MayUse(t, h) /\ Start(t, "close", [op |-> "close", doc |-> NoDoc], h, NoPath)

CallDocument(t) ==
  \E h \in Handles, op \in {"put", "delete"}, d \in DocsOf[t] :
    MayUse(t, h) /\ Start(t, "lookup", [op |-> op, doc |-> d], h, NoPath)

-----------------------------------------------------------------------------
(* lib-open *)

\* get-or-create-instance!, when the path has an instance.
Reuse(t) ==
  /\ pc[t] = "open" /\ LockFree
  /\ LET p == local[t].path IN
       /\ instances[p] # NoInstance
       /\ instances' = [instances EXCEPT ![p] = Counted(@)]
       /\ local' = [local EXCEPT ![t].inst = instances[p].inst]
  /\ Goto(t, "assign")
  /\ UNCHANGED <<registry, counter, lock, resources, fileVars, req, owner, calls, faults>>

\* ... and when it has none: open or create the repository.
OpenStorage(t) ==
  /\ pc[t] = "open" /\ LockFree
  /\ instances[local[t].path] = NoInstance
  /\ made < MaxCalls   \* the bound, which no call reaches: each makes one at most
  /\ lock' = t
  /\ made' = made + 1
  /\ storages' = storages \cup {made + 1}
  /\ local' = [local EXCEPT ![t].inst = made + 1]
  /\ Goto(t, "writer")
  /\ UNCHANGED <<registry, counter, instances, writers, fileVars, req, owner, calls, faults>>

StorageFails(t) ==
  /\ pc[t] = "open" /\ LockFree
  /\ instances[local[t].path] = NoInstance
  /\ Fault("storage")
  /\ Return(t)
  /\ UNCHANGED <<registry, counter, instances, lock, resources, fileVars, owner, calls>>

OpenWriter(t) ==
  /\ pc[t] = "writer"
  /\ WriterFree(local[t].path)
  /\ writers' = [writers EXCEPT ![local[t].inst] = local[t].path]
  /\ Goto(t, "list")
  /\ UNCHANGED <<registry, counter, instances, lock, storages, made, fileVars, req, local,
                 owner, calls, faults>>

\* create-lucene-index returns nil, so lib-open returns -1; nothing closes the
\* repository.
GiveUp(t) ==
  /\ Return(t)
  /\ lock' = Unlocked(lock)
  /\ UNCHANGED <<registry, counter, instances, resources, fileVars, owner, calls>>

NoWriter(t) ==
  /\ pc[t] = "writer"
  /\ \/ ~WriterFree(local[t].path) /\ UNCHANGED faults
     \/ Fault("writer")
  /\ GiveUp(t)

\* ensure-index-populated lists the documents, then files them.
List(t) ==
  /\ pc[t] = "list"
  /\ local' = [local EXCEPT ![t].seen = git[local[t].path]]
  /\ Goto(t, "fill")
  /\ UNCHANGED <<registry, counter, instances, lock, resources, fileVars, req, owner, calls,
                 faults>>

\* What the listing throws ends lib-open: the repository and the writer stay open.
ListFails(t) ==
  /\ pc[t] = "list"
  /\ Fault("listing")
  /\ GiveUp(t)

\* ... all but the lost ones.
Filled(t, lost) ==
  /\ pc[t] = "fill"
  /\ LET p == local[t].path IN
       /\ index' = [index EXCEPT ![p] = Populated(@, local[t].seen) \ lost]
       /\ missed' = (missed \ ({p} \X local[t].seen)) \cup ({p} \X lost)
       /\ instances' = [instances EXCEPT ![p] = [inst |-> local[t].inst, count |-> 1]]
  /\ lock' = NoThread
  /\ Goto(t, "assign")
  /\ UNCHANGED <<registry, counter, resources, git, req, local, owner, calls>>

Fill(t) == Filled(t, {}) /\ UNCHANGED faults

\* A failure to file a document, after its old entry was deleted, is logged only.
FillMisses(t) == \E d \in local[t].seen : Filled(t, {d}) /\ Fault("indexing")

AssignHandle(t) ==
  /\ pc[t] = "assign"
  /\ counter < MaxCalls   \* the bound, which no call reaches: each takes one at most
  /\ counter' = counter + 1
  /\ local' = [local EXCEPT ![t].handle = counter]
  /\ Goto(t, "register")
  /\ UNCHANGED <<registry, instances, lock, resources, fileVars, req, owner, calls, faults>>

RegisterHandle(t) ==
  /\ pc[t] = "register"
  /\ LET l == local[t] IN
       /\ registry' = [registry EXCEPT ![l.handle] = [inst |-> l.inst, path |-> l.path]]
       /\ owner' = [owner EXCEPT ![l.handle] = t]
  /\ Return(t)
  /\ UNCHANGED <<counter, instances, lock, resources, fileVars, calls, faults>>

-----------------------------------------------------------------------------
(* lib-close *)

LookupClosed(t) ==
  /\ pc[t] = "close"
  /\ LET e == registry[local[t].handle] IN
       IF e = NoEntry THEN Return(t)
       ELSE /\ local' = [local EXCEPT ![t].path = e.path]
            /\ Goto(t, "drop")
            /\ UNCHANGED req
  /\ UNCHANGED <<registry, counter, instances, lock, resources, fileVars, owner, calls, faults>>

DropHandle(t) ==
  /\ pc[t] = "drop"
  /\ registry' = [registry EXCEPT ![local[t].handle] = NoEntry]
  /\ Goto(t, "release")
  /\ UNCHANGED <<counter, instances, lock, resources, fileVars, req, local, owner, calls, faults>>

\* release-instance!: the last reference closes the index and the repository.
Release(t) ==
  /\ pc[t] = "release" /\ LockFree
  /\ LET p == local[t].path
         i == instances[p]
     IN \/ i = NoInstance /\ UNCHANGED <<instances, resources>>
        \/ /\ i # NoInstance /\ LastReference(i)
           /\ instances' = [instances EXCEPT ![p] = NoInstance]
           /\ storages' = storages \ {i.inst}
           /\ writers' = WriterClosed(i.inst)
           /\ UNCHANGED made
        \/ /\ i # NoInstance /\ ~LastReference(i)
           /\ instances' = [instances EXCEPT ![p].count = @ - 1]
           /\ UNCHANGED resources
  /\ Return(t)
  /\ UNCHANGED <<registry, counter, lock, fileVars, owner, calls, faults>>

-----------------------------------------------------------------------------
(* lib-put, lib-delete *)

\* The registry is read once; what it gave is used to the end of the call.
Lookup(t) ==
  /\ pc[t] = "lookup"
  /\ LET e == registry[local[t].handle] IN
       IF e = NoEntry THEN Return(t)
       ELSE /\ local' = [local EXCEPT ![t].inst = e.inst, ![t].path = e.path]
            /\ Goto(t, IF req[t].op = "put" THEN "save" ELSE "exists")
            /\ UNCHANGED req
  /\ UNCHANGED <<registry, counter, instances, lock, resources, fileVars, owner, calls, faults>>

Save(t) ==
  /\ pc[t] = "save"
  /\ git' = [git EXCEPT ![local[t].path] = @ \cup {req[t].doc}]
  /\ Goto(t, "file")
  /\ UNCHANGED <<registry, counter, instances, lock, resources, index, missed, req, local, owner,
                 calls, faults>>

\* The document is looked for twice, by lib-delete and by delete-document; the
\* second look is part of Remove.
Exists(t) ==
  /\ pc[t] = "exists"
  /\ IF req[t].doc \in git[local[t].path]
     THEN Goto(t, "remove") /\ UNCHANGED <<req, local>>
     ELSE Return(t)
  /\ UNCHANGED <<registry, counter, instances, lock, resources, fileVars, owner, calls, faults>>

Remove(t) ==
  /\ pc[t] = "remove"
  /\ git' = [git EXCEPT ![local[t].path] = @ \ {req[t].doc}]
  /\ Goto(t, "unfile")
  /\ UNCHANGED <<registry, counter, instances, lock, resources, index, missed, req, local, owner,
                 calls, faults>>

\* A commit that throws ends the call before the index is reached.
CommitFails(t) ==
  /\ pc[t] \in {"save", "remove"}
  /\ Fault("commit")
  /\ Return(t)
  /\ UNCHANGED <<registry, counter, instances, lock, resources, fileVars, owner, calls>>

WriterOpen(t) == writers[local[t].inst] # NoPath
Target(t) == <<local[t].path, req[t].doc>>

File(t) ==
  /\ pc[t] = "file" /\ WriterOpen(t)
  /\ index' = [index EXCEPT ![local[t].path] = @ \cup {req[t].doc}]
  /\ missed' = missed \ {Target(t)}
  /\ Return(t)
  /\ UNCHANGED <<registry, counter, instances, lock, resources, git, owner, calls, faults>>

Unfile(t) ==
  /\ pc[t] = "unfile" /\ WriterOpen(t)
  /\ index' = [index EXCEPT ![local[t].path] = @ \ {req[t].doc}]
  /\ missed' = missed \ {Target(t)}
  /\ Return(t)
  /\ UNCHANGED <<registry, counter, instances, lock, resources, git, owner, calls, faults>>

\* What the index throws, a closed writer too, it catches and logs: the call
\* returns as if all had gone well.
IndexingFails(t) ==
  /\ pc[t] \in {"file", "unfile"}
  /\ \/ ~WriterOpen(t) /\ UNCHANGED faults
     \/ Fault("indexing")
  /\ missed' = missed \cup {Target(t)}
  /\ Return(t)
  /\ UNCHANGED <<registry, counter, instances, lock, resources, git, index, owner, calls>>

-----------------------------------------------------------------------------
Calls(t) == CallOpen(t) \/ CallClose(t) \/ CallDocument(t)
Opening(t) == \/ Reuse(t) \/ OpenStorage(t) \/ StorageFails(t) \/ OpenWriter(t) \/ NoWriter(t)
              \/ List(t) \/ ListFails(t) \/ Fill(t) \/ FillMisses(t)
              \/ AssignHandle(t) \/ RegisterHandle(t)
Closing(t) == LookupClosed(t) \/ DropHandle(t) \/ Release(t)
Writing(t) == \/ Lookup(t) \/ Save(t) \/ Exists(t) \/ Remove(t) \/ CommitFails(t)
              \/ File(t) \/ Unfile(t) \/ IndexingFails(t)

Work(t) == Opening(t) \/ Closing(t) \/ Writing(t)
Next == \E t \in Threads : Calls(t) \/ Work(t)

Spec == Init /\ [][Next]_vars
FairSpec == Spec /\ \A t \in Threads : WF_vars(Work(t))

-----------------------------------------------------------------------------
(* Properties *)

\* What holds a reference to the instance of p: its handles, and the threads that
\* have counted one for a handle to come or have yet to give back one that is gone.
HandlesOf(p) == {h \in Handles : registry[h].path = p}
HoldersOf(p) == {t \in Threads : pc[t] \in Referring /\ local[t].path = p}

\* The count of an instance is the number of references to it, though handles are
\* registered and dropped outside the lock the count is kept under.
CountsReferences ==
  \A p \in Paths :
    instances[p].count = Cardinality(HandlesOf(p)) + Cardinality(HoldersOf(p))

\* What the docstring of lib-close says: the repository and the index of a path are
\* closed only when all its handles are.
Open(i, p) == i \in storages /\ writers[i] = p
HandlesOpen ==
  \A h \in Handles : registry[h] # NoEntry => Open(registry[h].inst, registry[h].path)

\* A handle in the registry, and a call that looked one up, finds its repository
\* and its index open: no close of another handle has closed them.
OpenWhileUsed ==
  HandlesOpen /\ \A t \in Threads : pc[t] \in Working => Open(local[t].inst, local[t].path)

\* Calls at work on a document.
Busy(p, d) ==
  \E t \in Threads : pc[t] \in Working /\ local[t].path = p /\ req[t].doc = d

\* The index of an open path files exactly the documents that are stored, but for
\* those a call is writing and those it failed to take when they were last offered:
\* also after commits that failed, after opens that failed half way, and when the
\* index was missing at first.
SearchMatches ==
  \A p \in Paths, d \in Docs :
    instances[p] # NoInstance /\ ~Busy(p, d) /\ <<p, d>> \notin missed =>
      (d \in git[p] <=> d \in index[p])

\* An instance is made by one thread at a time and only for a path without one.
CreatedAlone ==
  \A t \in Threads : pc[t] \in Creating =>
    /\ instances[local[t].path] = NoInstance
    /\ \A u \in Threads \ {t} : pc[u] \notin Creating

\* When nothing has failed, what is open is what has handles: a path is left with
\* its repository closed and its index writer free once its last handle is closed.
NothingLeaks ==
  faults = 0 /\ (\A t \in Threads : pc[t] = "idle") =>
    /\ storages = {registry[h].inst : h \in {g \in Handles : registry[g] # NoEntry}}
    /\ \A i \in Instances : i \notin storages => writers[i] = NoPath

\* Every call returns.
CallsReturn == \A t \in Threads : (pc[t] # "idle") ~> (pc[t] = "idle")
=============================================================================
