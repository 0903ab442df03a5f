-------------------------- MODULE LibHandlesProofs --------------------------
(***************************************************************************)
(* Proofs about LibHandles for every set of threads, paths and documents,  *)
(* every choice of what fails, and every bound.                            *)
(***************************************************************************)
EXTENDS LibHandles, FiniteSetTheorems, TLAPS

\* What a thread knows of its variables at each step.
Shape(t, s, r, l) ==
  /\ s \in {"open", "drop"} \cup Creating \cup Referring \cup Working => l.path \in Paths
  /\ s \in Creating \cup {"assign", "register"} \cup Working => l.inst \in Instances
  /\ s \in {"lookup"} \cup Working => r.doc \in DocsOf[t]
ShapeInv == \A t \in Threads : Shape(t, pc[t], req[t], local[t])

TypeInv == TypeOK /\ ShapeInv

LEMMA FreshType == Fresh \in Locals
  BY LibConstants DEF Fresh, Locals, Handles

\* Local variables, when a thread sets some of them.
LEMMA LocalTypes ==
  ASSUME NEW l \in Locals
  PROVE  /\ \A h \in Handles, p \in Paths \cup {NoPath} :
              [l EXCEPT !.handle = h, !.path = p] \in Locals
         /\ \A h \in Handles : [l EXCEPT !.handle = h] \in Locals
         /\ \A i \in Instances : [l EXCEPT !.inst = i] \in Locals
         /\ \A p \in Paths : [l EXCEPT !.path = p] \in Locals
         /\ \A i \in Instances, p \in Paths : [l EXCEPT !.inst = i, !.path = p] \in Locals
         /\ \A S \in SUBSET Docs : [l EXCEPT !.seen = S] \in Locals
  BY DEF Locals

\* The variables of the threads, after a step of one of them.
ThreadTypes ==
  /\ pc \in [Threads -> PCs]
  /\ req \in [Threads -> Requests \cup {NoRequest}]
  /\ local \in [Threads -> Locals]
  /\ ShapeInv

LEMMA MoveTypes ==
  ASSUME TypeInv, NEW t \in Threads, NEW s \in PCs, NEW r \in Requests \cup {NoRequest},
         NEW l \in Locals, Shape(t, s, r, l),
         pc' = [pc EXCEPT ![t] = s], req' = [req EXCEPT ![t] = r],
         local' = [local EXCEPT ![t] = l]
  PROVE  ThreadTypes'
<1>1. /\ pc' \in [Threads -> PCs]
      /\ req' \in [Threads -> Requests \cup {NoRequest}]
      /\ local' \in [Threads -> Locals]
  BY DEF TypeInv, TypeOK
<1>2. pc'[t] = s /\ req'[t] = r /\ local'[t] = l
  BY DEF TypeInv, TypeOK
<1>3. \A u \in Threads \ {t} : pc'[u] = pc[u] /\ req'[u] = req[u] /\ local'[u] = local[u]
  BY DEF TypeInv, TypeOK
<1>4. \A u \in Threads : Shape(u, pc'[u], req'[u], local'[u])
  BY <1>2, <1>3 DEF TypeInv, ShapeInv
<1> QED
  BY <1>1, <1>4 DEF ThreadTypes, ShapeInv

LEMMA ReturnTypes == ASSUME TypeInv, NEW t \in Threads, Return(t) PROVE ThreadTypes'
<1>1. Shape(t, "idle", NoRequest, Fresh)
  BY DEF Shape, Creating, Referring, Working
<1> QED
  BY <1>1, FreshType, MoveTypes DEF Return, Goto, PCs

\* A step that keeps the request.
LEMMA GotoTypes ==
  ASSUME TypeInv, NEW t \in Threads, NEW s \in PCs, NEW l \in Locals,
         Shape(t, s, req[t], l), Goto(t, s), UNCHANGED req,
         local' = [local EXCEPT ![t] = l]
  PROVE  ThreadTypes'
<1>1. req' = [req EXCEPT ![t] = req[t]] /\ req[t] \in Requests \cup {NoRequest}
  BY DEF TypeInv, TypeOK
<1> QED
  BY <1>1, MoveTypes DEF Goto

LEMMA StepTypes ==
  ASSUME TypeInv, NEW t \in Threads, NEW s \in PCs,
         Shape(t, s, req[t], local[t]), Goto(t, s), UNCHANGED <<req, local>>
  PROVE  ThreadTypes'
<1>1. local' = [local EXCEPT ![t] = local[t]] /\ local[t] \in Locals
  BY DEF TypeInv, TypeOK
<1> QED
  BY <1>1, GotoTypes

\* The variables that are not a thread's.
SharedTypes ==
  /\ registry \in [Handles -> Entries \cup {NoEntry}]
  /\ counter \in Nat
  /\ instances \in [Paths -> [inst : Instances, count : Nat \ {0}] \cup {NoInstance}]
  /\ lock \in Threads \cup {NoThread}
  /\ storages \subseteq Instances
  /\ writers \in [Instances -> Paths \cup {NoPath}]
  /\ made \in Nat
  /\ git \in [Paths -> SUBSET Docs] /\ index \in [Paths -> SUBSET Docs]
  /\ missed \subseteq Paths \X Docs
  /\ owner \in [Handles -> Threads \cup {NoThread}]
  /\ calls \in 0 .. MaxCalls /\ faults \in 0 .. MaxFaults

LEMMA TypesSplit == TypeInv <=> SharedTypes /\ ThreadTypes
  BY DEF TypeInv, TypeOK, SharedTypes, ThreadTypes

LEMMA TypesJoin == SharedTypes' /\ ThreadTypes' => TypeInv'
  BY DEF TypeInv, TypeOK, SharedTypes, ThreadTypes

LEMMA SharedKept ==
  ASSUME SharedTypes,
         UNCHANGED <<registry, counter, instances, lock, resources, fileVars, owner, calls,
                     faults>>
  PROVE  SharedTypes'
  BY DEF SharedTypes, resources, fileVars

LEMMA FaultTypes ==
  ASSUME TypeInv, NEW kind, Fault(kind) PROVE faults' \in 0 .. MaxFaults
  BY LibConstants DEF TypeInv, TypeOK, Fault

LEMMA InitTypes == Init => TypeInv
<1> SUFFICES ASSUME Init PROVE TypeInv
  OBVIOUS
<1>1. SharedTypes
  BY LibConstants DEF Init, SharedTypes, Entries, NoEntry, Instances
<1>2. ShapeInv
  BY DEF Init, ShapeInv, Shape, Creating, Referring, Working
<1>3. ThreadTypes
  BY <1>2, FreshType DEF Init, ThreadTypes, PCs, Requests, NoRequest
<1> QED
  BY <1>1, <1>3, TypesSplit

LEMMA StartTypes ==
  ASSUME TypeInv, NEW t \in Threads, NEW s \in {"open", "close", "lookup"}, NEW r \in Requests,
         NEW h \in Handles, NEW p \in Paths \cup {NoPath}, Start(t, s, r, h, p),
         s = "open" => p \in Paths,
         s = "lookup" => r.doc \in DocsOf[t]
  PROVE  TypeInv'
<1> DEFINE l == [local[t] EXCEPT !.handle = h, !.path = p]
<1>1. local[t] \in Locals
  BY DEF TypeInv, TypeOK
<1>2. l \in Locals /\ l.path = p
  BY <1>1, LocalTypes DEF Locals
<1>3. local' = [local EXCEPT ![t] = l]
  BY DEF Start
<1>4. Shape(t, s, r, l)
  BY <1>2 DEF Shape, Creating, Referring, Working
<1>5. ThreadTypes'
  <2> HIDE DEF l
  <2> QED
    BY <1>2, <1>3, <1>4, MoveTypes DEF Start, Goto, PCs
<1>6. calls' \in 0 .. MaxCalls
  BY LibConstants DEF Start, TypeInv, TypeOK
<1>7. SharedTypes'
  BY <1>6, TypesSplit DEF Start, SharedTypes, resources, fileVars
<1> QED
  BY <1>5, <1>7, TypesJoin

\* How each call starts.
LEMMA CallStarts ==
  ASSUME NEW t \in Threads, Calls(t)
  PROVE  \E s \in {"open", "close", "lookup"}, r \in Requests, h \in Handles,
           p \in Paths \cup {NoPath} :
           /\ Start(t, s, r, h, p)
           /\ s = "open" => p \in Paths
           /\ s = "lookup" => r.doc \in DocsOf[t]
           /\ s # "open" => MayUse(t, h)
<1>1. CASE CallOpen(t)
  <2>1. PICK p \in Paths : Start(t, "open", [op |-> "open", doc |-> NoDoc], 0, p)
    BY <1>1 DEF CallOpen
  <2>2. [op |-> "open", doc |-> NoDoc] \in Requests /\ 0 \in Handles
    BY LibConstants DEF Requests, Handles
  <2> QED
    BY <2>1, <2>2
<1>2. CASE CallClose(t)
  <2>1. PICK h \in Handles :
          MayUse(t, h) /\ Start(t, "close", [op |-> "close", doc |-> NoDoc], h, NoPath)
    BY <1>2 DEF CallClose
  <2>2. [op |-> "close", doc |-> NoDoc] \in Requests
    BY DEF Requests
  <2> QED
    BY <2>1, <2>2
<1>3. CASE CallDocument(t)
  <2>1. PICK h \in Handles, op \in {"put", "delete"}, d \in DocsOf[t] :
          MayUse(t, h) /\ Start(t, "lookup", [op |-> op, doc |-> d], h, NoPath)
    BY <1>3 DEF CallDocument
  <2>2. [op |-> op, doc |-> d] \in Requests /\ [op |-> op, doc |-> d].doc \in DocsOf[t]
    BY LibConstants DEF Requests
  <2> QED
    BY <2>1, <2>2
<1> QED
  BY <1>1, <1>2, <1>3 DEF Calls

LEMMA CallTypes == ASSUME TypeInv, NEW t \in Threads, Calls(t) PROVE TypeInv'
  BY CallStarts, StartTypes

LEMMA FillLost ==
  ASSUME NEW t, Fill(t) \/ FillMisses(t) PROVE \E lost \in SUBSET local[t].seen : Filled(t, lost)
  BY DEF Fill, FillMisses

LEMMA OpenTypes == ASSUME TypeInv, NEW t \in Threads, Opening(t) PROVE TypeInv'
<1> DEFINE p == local[t].path
<1>0. /\ local[t] \in Locals /\ Shape(t, pc[t], req[t], local[t]) /\ SharedTypes
      /\ \A i \in Instances : [local[t] EXCEPT !.inst = i] \in Locals
      /\ \A h \in Handles : [local[t] EXCEPT !.handle = h] \in Locals
      /\ \A S \in SUBSET Docs : [local[t] EXCEPT !.seen = S] \in Locals
  BY LocalTypes, TypesSplit DEF TypeInv, TypeOK, ShapeInv
<1>1. CASE Reuse(t)
  <2>1. p \in Paths
    BY <1>0, <1>1 DEF Reuse, Shape
  <2>2. instances[p] \in [inst : Instances, count : Nat \ {0}]
    BY <1>0, <1>1, <2>1 DEF Reuse, SharedTypes
  <2>3. [local[t] EXCEPT !.inst = instances[p].inst] \in Locals
    BY <1>0, <2>2
  <2>4. Shape(t, "assign", req[t], [local[t] EXCEPT !.inst = instances[p].inst])
    BY <1>0, <2>1, <2>2 DEF Shape, Locals, Creating, Referring, Working
  <2>5. ThreadTypes'
    BY <1>1, <2>3, <2>4, GotoTypes DEF Reuse, PCs, Referring
  <2>6. Counted(instances[p]) \in [inst : Instances, count : Nat \ {0}]
    BY <2>2 DEF Counted
  <2>7. SharedTypes'
    BY <1>0, <1>1, <2>1, <2>6 DEF Reuse, SharedTypes, resources, fileVars
  <2> QED
    BY <2>5, <2>7, TypesJoin
<1>2. CASE OpenStorage(t)
  <2>1. p \in Paths
    BY <1>0, <1>2 DEF OpenStorage, Shape
  <2>2. made + 1 \in Instances
    BY <1>0, <1>2, LibConstants DEF OpenStorage, SharedTypes, Instances
  <2>3. [local[t] EXCEPT !.inst = made + 1] \in Locals
    BY <1>0, <2>2
  <2>4. Shape(t, "writer", req[t], [local[t] EXCEPT !.inst = made + 1])
    BY <1>0, <2>1, <2>2 DEF Shape, Locals, Creating, Referring, Working
  <2>5. ThreadTypes'
    BY <1>2, <2>3, <2>4, GotoTypes DEF OpenStorage, PCs, Creating
  <2>6. SharedTypes'
    BY <1>0, <1>2, <2>2 DEF OpenStorage, SharedTypes, resources, fileVars
  <2> QED
    BY <2>5, <2>6, TypesJoin
<1>3. CASE StorageFails(t)
  <2>1. SharedTypes'
    BY <1>0, <1>3, FaultTypes DEF StorageFails, SharedTypes, resources, fileVars
  <2> QED
    BY <1>3, <2>1, ReturnTypes, TypesJoin DEF StorageFails
<1>4. CASE OpenWriter(t)
  <2>1. p \in Paths
    BY <1>0, <1>4 DEF OpenWriter, Shape, Creating
  <2>2. Shape(t, "list", req[t], local[t])
    BY <1>0, <1>4 DEF OpenWriter, Shape, Creating, Referring, Working
  <2>3. ThreadTypes'
    BY <1>4, <2>2, StepTypes DEF OpenWriter, PCs, Creating
  <2>4. SharedTypes'
    BY <1>0, <1>4, <2>1 DEF OpenWriter, SharedTypes, fileVars
  <2> QED
    BY <2>3, <2>4, TypesJoin
<1>5. CASE NoWriter(t) \/ ListFails(t)
  <2>1. faults' \in 0 .. MaxFaults
    BY <1>0, <1>5, FaultTypes DEF NoWriter, ListFails, SharedTypes
  <2>2. SharedTypes'
    BY <1>0, <1>5, <2>1
    DEF NoWriter, ListFails, GiveUp, Unlocked, SharedTypes, resources, fileVars
  <2> QED
    BY <1>5, <2>2, ReturnTypes, TypesJoin DEF NoWriter, ListFails, GiveUp
<1>6. CASE List(t)
  <2>1. p \in Paths
    BY <1>0, <1>6 DEF List, Shape, Creating
  <2>2. git[p] \in SUBSET Docs
    BY <1>0, <2>1 DEF SharedTypes
  <2>3. Shape(t, "fill", req[t], [local[t] EXCEPT !.seen = git[p]])
    BY <1>0, <1>6, <2>1 DEF List, Shape, Locals, Creating, Referring, Working
  <2>4. ThreadTypes'
    BY <1>0, <1>6, <2>2, <2>3, GotoTypes DEF List, PCs, Creating
  <2> QED
    BY <1>0, <1>6, <2>4, SharedKept, TypesJoin DEF List
<1>7. CASE Fill(t) \/ FillMisses(t)
  <2>0. PICK lost \in SUBSET local[t].seen : Filled(t, lost)
    BY <1>7, FillLost
  <2>1. p \in Paths /\ local[t].inst \in Instances
    BY <1>0, <2>0 DEF Filled, Shape, Creating
  <2>2. Populated(index[p], local[t].seen) \ lost \in SUBSET Docs
    BY <1>0, <2>1 DEF Populated, Locals, SharedTypes
  <2>3. [inst |-> local[t].inst, count |-> 1] \in [inst : Instances, count : Nat \ {0}]
    BY <2>1
  <2>4. Shape(t, "assign", req[t], local[t])
    BY <2>1 DEF Shape, Creating, Referring, Working
  <2>5. ThreadTypes'
    BY <2>0, <2>4, StepTypes DEF Filled, PCs, Referring
  <2>6. faults' \in 0 .. MaxFaults
    BY <1>0, <1>7, FaultTypes DEF Fill, FillMisses, SharedTypes
  <2>7. missed' \subseteq Paths \X Docs
    BY <1>0, <2>0, <2>1 DEF Filled, SharedTypes, Locals
  <2>8. SharedTypes'
    BY <1>0, <2>0, <2>1, <2>2, <2>3, <2>6, <2>7 DEF Filled, SharedTypes, resources
  <2> QED
    BY <2>5, <2>8, TypesJoin
<1>8. CASE AssignHandle(t)
  <2>1. counter \in Handles
    BY <1>0, <1>8, LibConstants DEF AssignHandle, SharedTypes, Handles
  <2>2. Shape(t, "register", req[t], [local[t] EXCEPT !.handle = counter])
    BY <1>0, <1>8 DEF AssignHandle, Shape, Locals, Creating, Referring, Working
  <2>3. ThreadTypes'
    BY <1>0, <1>8, <2>1, <2>2, GotoTypes DEF AssignHandle, PCs, Referring
  <2>4. SharedTypes'
    BY <1>0, <1>8 DEF AssignHandle, SharedTypes, resources, fileVars
  <2> QED
    BY <2>3, <2>4, TypesJoin
<1>9. CASE RegisterHandle(t)
  <2>1. [inst |-> local[t].inst, path |-> p] \in Entries
    BY <1>0, <1>9 DEF RegisterHandle, Shape, Referring, Entries
  <2>2. SharedTypes'
    BY <1>0, <1>9, <2>1 DEF RegisterHandle, SharedTypes, resources, fileVars
  <2> QED
    BY <1>9, <2>2, ReturnTypes, TypesJoin DEF RegisterHandle
<1> QED
  BY <1>1, <1>2, <1>3, <1>4, <1>5, <1>6, <1>7, <1>8, <1>9 DEF Opening

LEMMA CloseTypes == ASSUME TypeInv, NEW t \in Threads, Closing(t) PROVE TypeInv'
<1> DEFINE p == local[t].path
<1>0. /\ local[t] \in Locals /\ Shape(t, pc[t], req[t], local[t]) /\ SharedTypes
      /\ \A q \in Paths : [local[t] EXCEPT !.path = q] \in Locals
  BY LocalTypes, TypesSplit DEF TypeInv, TypeOK, ShapeInv
<1>1. CASE LookupClosed(t)
  <2> DEFINE e == registry[local[t].handle]
  <2>1. SharedTypes'
    BY <1>0, <1>1, SharedKept DEF LookupClosed
  <2>2. CASE e = NoEntry
    BY <1>1, <2>1, <2>2, ReturnTypes, TypesJoin DEF LookupClosed
  <2>3. CASE e # NoEntry
    <3>1. e.path \in Paths
      BY <1>0, <2>3 DEF SharedTypes, Locals, Entries
    <3>2. Shape(t, "drop", req[t], [local[t] EXCEPT !.path = e.path])
      BY <1>0, <3>1 DEF Shape, Locals, Creating, Referring, Working
    <3>3. ThreadTypes'
      BY <1>0, <1>1, <2>3, <3>1, <3>2, GotoTypes DEF LookupClosed, PCs
    <3> QED
      BY <2>1, <3>3, TypesJoin
  <2> QED
    BY <2>2, <2>3
<1>2. CASE DropHandle(t)
  <2>1. Shape(t, "release", req[t], local[t])
    BY <1>0, <1>2 DEF DropHandle, Shape, Creating, Referring, Working
  <2>2. ThreadTypes'
    BY <1>2, <2>1, StepTypes DEF DropHandle, PCs, Referring
  <2>3. SharedTypes'
    BY <1>0, <1>2 DEF DropHandle, SharedTypes, resources, fileVars
  <2> QED
    BY <2>2, <2>3, TypesJoin
<1>3. CASE Release(t)
  <2>1. p \in Paths
    BY <1>0, <1>3 DEF Release, Shape, Referring
  <2>2. instances' \in [Paths -> [inst : Instances, count : Nat \ {0}] \cup {NoInstance}]
    <3>1. CASE instances[p] = NoInstance \/ LastReference(instances[p])
      BY <1>0, <1>3, <2>1, <3>1 DEF Release, SharedTypes
    <3>2. CASE instances[p] # NoInstance /\ ~LastReference(instances[p])
      <4>1. instances[p] \in [inst : Instances, count : Nat \ {0}]
        BY <1>0, <2>1, <3>2 DEF SharedTypes
      <4>2. instances[p].count - 1 \in Nat \ {0}
        BY <3>2, <4>1 DEF LastReference
      <4>3. [instances[p] EXCEPT !.count = @ - 1] \in [inst : Instances, count : Nat \ {0}]
        BY <4>1, <4>2
      <4> QED
        BY <1>0, <1>3, <2>1, <3>2, <4>3 DEF Release, SharedTypes
    <3> QED
      BY <3>1, <3>2
  <2>3. storages' \subseteq Instances /\ made' \in Nat
    BY <1>0, <1>3 DEF Release, SharedTypes, resources
  <2>4. writers' \in [Instances -> Paths \cup {NoPath}]
    BY <1>0, <1>3 DEF Release, SharedTypes, resources, WriterClosed
  <2>5. SharedTypes'
    BY <1>0, <1>3, <2>2, <2>3, <2>4 DEF Release, SharedTypes, fileVars
  <2> QED
    BY <1>3, <2>5, ReturnTypes, TypesJoin DEF Release
<1> QED
  BY <1>1, <1>2, <1>3 DEF Closing

LEMMA WriteTypes == ASSUME TypeInv, NEW t \in Threads, Writing(t) PROVE TypeInv'
<1> DEFINE p == local[t].path
<1>0. /\ local[t] \in Locals /\ Shape(t, pc[t], req[t], local[t]) /\ SharedTypes
      /\ \A i \in Instances, q \in Paths : [local[t] EXCEPT !.inst = i, !.path = q] \in Locals
  BY LocalTypes, TypesSplit DEF TypeInv, TypeOK, ShapeInv
<1>1. CASE Lookup(t)
  <2> DEFINE e == registry[local[t].handle]
             l == [local[t] EXCEPT !.inst = e.inst, !.path = e.path]
             s == IF req[t].op = "put" THEN "save" ELSE "exists"
  <2>1. SharedTypes'
    BY <1>0, <1>1, SharedKept DEF Lookup
  <2>2. CASE e = NoEntry
    BY <1>1, <2>1, <2>2, ReturnTypes, TypesJoin DEF Lookup
  <2>3. CASE e # NoEntry
    <3>1. e.inst \in Instances /\ e.path \in Paths
      BY <1>0, <2>3 DEF SharedTypes, Locals, Entries
    <3>2. l \in Locals /\ l.inst = e.inst /\ l.path = e.path
      BY <1>0, <3>1 DEF Locals
    <3>3. req[t].doc \in DocsOf[t]
      BY <1>0, <1>1 DEF Lookup, Shape
    <3>4. Shape(t, s, req[t], l)
      BY <3>1, <3>2, <3>3 DEF Shape, Creating, Referring, Working
    <3>5. Goto(t, s) /\ UNCHANGED req /\ local' = [local EXCEPT ![t] = l]
      BY <1>1, <2>3 DEF Lookup
    <3>6. s \in PCs
      BY DEF PCs, Working
    <3>7. ThreadTypes'
      <4> HIDE DEF l, s
      <4> QED
        BY <3>2, <3>4, <3>5, <3>6, GotoTypes
    <3> QED
      BY <2>1, <3>7, TypesJoin
  <2> QED
    BY <2>2, <2>3
<1>2. CASE Save(t) \/ Remove(t)
  <2>1. p \in Paths /\ req[t].doc \in Docs
    BY <1>0, <1>2, LibConstants DEF Save, Remove, Shape, Working
  <2>2. Shape(t, "file", req[t], local[t]) /\ Shape(t, "unfile", req[t], local[t])
    BY <1>0, <1>2 DEF Save, Remove, Shape, Creating, Referring, Working
  <2>3. ThreadTypes'
    BY <1>2, <2>2, StepTypes DEF Save, Remove, PCs, Working
  <2>4. git' \in [Paths -> SUBSET Docs]
    <3>1. git[p] \cup {req[t].doc} \in SUBSET Docs /\ git[p] \ {req[t].doc} \in SUBSET Docs
      BY <1>0, <2>1 DEF SharedTypes
    <3>2. PICK D \in SUBSET Docs : git' = [git EXCEPT ![p] = D]
      BY <1>2, <3>1 DEF Save, Remove
    <3> QED
      BY <1>0, <3>2 DEF SharedTypes
  <2>5. SharedTypes'
    BY <1>0, <1>2, <2>4 DEF Save, Remove, SharedTypes, resources
  <2> QED
    BY <2>3, <2>5, TypesJoin
<1>3. CASE Exists(t)
  <2>1. SharedTypes'
    BY <1>0, <1>3, SharedKept DEF Exists
  <2>2. Shape(t, "remove", req[t], local[t])
    BY <1>0, <1>3 DEF Exists, Shape, Creating, Referring, Working
  <2>3. ThreadTypes'
    BY <1>3, <2>2, StepTypes, ReturnTypes DEF Exists, PCs, Working
  <2> QED
    BY <2>1, <2>3, TypesJoin
<1>4. CASE CommitFails(t)
  <2>1. faults' \in 0 .. MaxFaults
    BY <1>4, FaultTypes DEF CommitFails
  <2>2. SharedTypes'
    BY <1>0, <1>4, <2>1 DEF CommitFails, SharedTypes, resources, fileVars
  <2> QED
    BY <1>4, <2>2, ReturnTypes, TypesJoin DEF CommitFails
<1>5. CASE File(t) \/ Unfile(t) \/ IndexingFails(t)
  <2>1. p \in Paths /\ req[t].doc \in Docs
    BY <1>0, <1>5, LibConstants DEF File, Unfile, IndexingFails, Shape, Working
  <2>2. index' \in [Paths -> SUBSET Docs]
    <3>1. /\ index[p] \cup {req[t].doc} \in SUBSET Docs
          /\ index[p] \ {req[t].doc} \in SUBSET Docs
      BY <1>0, <2>1 DEF SharedTypes
    <3>2. index' = index \/ \E D \in SUBSET Docs : index' = [index EXCEPT ![p] = D]
      BY <1>5, <3>1 DEF File, Unfile, IndexingFails
    <3> QED
      BY <1>0, <3>2 DEF SharedTypes
  <2>3. missed' \subseteq Paths \X Docs
    <3>1. Target(t) \in Paths \X Docs
      BY <2>1 DEF Target
    <3>2. missed' = missed \ {Target(t)} \/ missed' = missed \cup {Target(t)}
      BY <1>5 DEF File, Unfile, IndexingFails
    <3> QED
      BY <1>0, <3>1, <3>2 DEF SharedTypes
  <2>4. faults' \in 0 .. MaxFaults
    BY <1>0, <1>5, FaultTypes DEF File, Unfile, IndexingFails, SharedTypes
  <2>5. SharedTypes'
    BY <1>0, <1>5, <2>2, <2>3, <2>4 DEF File, Unfile, IndexingFails, SharedTypes, resources
  <2>6. Return(t)
    BY <1>5 DEF File, Unfile, IndexingFails
  <2> QED
    BY <2>5, <2>6, ReturnTypes, TypesJoin
<1> QED
  BY <1>1, <1>2, <1>3, <1>4, <1>5 DEF Writing

LEMMA NextTypes == ASSUME TypeInv, [Next]_vars PROVE TypeInv'
<1>1. CASE UNCHANGED vars
  BY <1>1 DEF vars, resources, fileVars, TypeInv, TypeOK, ShapeInv
<1>2. CASE Next
  BY <1>2, CallTypes, OpenTypes, CloseTypes, WriteTypes DEF Next, Work
<1> QED
  BY <1>1, <1>2

LEMMA TypeInvariant == Spec => []TypeInv
  BY InitTypes, NextTypes, PTL DEF Spec

\* Every variable keeps its type; a registered instance always has a reference,
\* also when clients share handles and close one twice at the same time.
THEOREM LibTypesCorrect == Spec => []TypeOK
<1>1. TypeInv => TypeOK
  BY DEF TypeInv
<1> QED
  BY <1>1, TypeInvariant, PTL

-----------------------------------------------------------------------------
(* Handles, references and instances *)

\* Who makes an instance is inside the lock.
LockInv == \A t \in Threads : pc[t] \in Creating <=> lock = t

\* A registered instance is open; instances and handles not given yet are blank.
InstanceInv == \A p \in Paths : instances[p] # NoInstance => Open(instances[p].inst, p)
UnmadeInv == \A i \in Instances : i > made => writers[i] = NoPath
UnassignedInv ==
  \A h \in Handles : h >= counter => owner[h] = NoThread /\ registry[h] = NoEntry

\* A registered handle refers to the registered instance of its path.
Refers(i, p) == p \in Paths /\ instances[p] # NoInstance /\ instances[p].inst = i
EntryInv ==
  \A h \in Handles : registry[h] # NoEntry =>
    Refers(registry[h].inst, registry[h].path) /\ owner[h] # NoThread

\* What holds of a thread at each step: of the instance it makes, of the reference
\* it has counted, of the handle it was given, and of the handle it uses.
CreatorOK(s, l) ==
  s \in Creating =>
    /\ instances[l.path] = NoInstance
    /\ l.inst <= made /\ l.inst \in storages
    /\ writers[l.inst] = IF s = "writer" THEN NoPath ELSE l.path
HolderOK(s, l) == s \in {"assign", "register"} => Refers(l.inst, l.path)
NewHandleOK(s, l) ==
  s = "register" => l.handle < counter /\ owner[l.handle] = NoThread
OwnerOK(t, s, l) ==
  s \in {"close", "drop", "lookup"} \cup Working => owner[l.handle] = t
EntryOK(s, l) ==
  /\ s = "drop" => registry[l.handle] # NoEntry /\ registry[l.handle].path = l.path
  /\ s \in Working => registry[l.handle] = [inst |-> l.inst, path |-> l.path]
ThreadOK(t, s, l) ==
  CreatorOK(s, l) /\ HolderOK(s, l) /\ NewHandleOK(s, l) /\ OwnerOK(t, s, l) /\ EntryOK(s, l)
ThreadInv == \A t \in Threads : ThreadOK(t, pc[t], local[t])

\* No two threads register the same handle.
NewHandlesInv ==
  \A t, u \in Threads :
    pc[t] = "register" /\ pc[u] = "register" /\ local[t].handle = local[u].handle => t = u
UsedInv ==
  /\ LockInv /\ InstanceInv /\ UnmadeInv /\ UnassignedInv /\ EntryInv /\ NewHandlesInv
  /\ ThreadInv

LEMMA Moved ==
  ASSUME TypeInv, NEW t \in Threads, NEW s, NEW l,
         pc' = [pc EXCEPT ![t] = s], local' = [local EXCEPT ![t] = l]
  PROVE  /\ pc'[t] = s /\ local'[t] = l
         /\ \A u \in Threads \ {t} : pc'[u] = pc[u] /\ local'[u] = local[u]
  BY DEF TypeInv, TypeOK

LEMMA InitUsed == Init => UsedInv
<1> SUFFICES ASSUME Init PROVE UsedInv
  OBVIOUS
<1>1. LockInv /\ InstanceInv /\ UnmadeInv /\ UnassignedInv /\ EntryInv /\ NewHandlesInv
  BY LibConstants
  DEF Init, LockInv, InstanceInv, UnmadeInv, UnassignedInv, EntryInv, NewHandlesInv, Creating
<1>2. ThreadInv
  BY DEF Init, ThreadInv, ThreadOK, CreatorOK, HolderOK, NewHandleOK, OwnerOK, EntryOK,
         Creating, Working
<1> QED
  BY <1>1, <1>2 DEF UsedInv

SameInstances ==
  \A p \in Paths : /\ instances'[p] = NoInstance <=> instances[p] = NoInstance
                   /\ instances'[p].inst = instances[p].inst

LEMMA RefersKept ==
  ASSUME SameInstances, NEW i, NEW p PROVE Refers(i, p)' <=> Refers(i, p)
  BY DEF SameInstances, Refers

\* A step that leaves the instances and the handles as they are.
LEMMA QuietUsed ==
  ASSUME TypeInv, UsedInv, NEW t \in Threads, NEW s, NEW l,
         pc' = [pc EXCEPT ![t] = s], local' = [local EXCEPT ![t] = l],
         SameInstances, UNCHANGED <<registry, counter, lock, resources, owner>>,
         s \in Creating <=> pc[t] \in Creating, s # "register",
         ThreadOK(t, s, l),
         s \in Creating => l.path \in Paths
  PROVE  UsedInv'
<1>1. /\ pc'[t] = s /\ local'[t] = l
      /\ \A u \in Threads \ {t} : pc'[u] = pc[u] /\ local'[u] = local[u]
  BY Moved
<1>2. LockInv'
  BY <1>1 DEF UsedInv, LockInv
<1>3. InstanceInv' /\ UnmadeInv' /\ UnassignedInv'
  BY DEF UsedInv, InstanceInv, UnmadeInv, UnassignedInv, SameInstances, Open, resources
<1>4. EntryInv'
  BY RefersKept DEF UsedInv, EntryInv
<1>5. NewHandlesInv'
  BY <1>1 DEF UsedInv, NewHandlesInv
<1>6. ASSUME NEW u \in Threads, NEW r, NEW m, ThreadOK(u, r, m),
             r \in Creating => m.path \in Paths
      PROVE  ThreadOK(u, r, m)'
  <2>1. CreatorOK(r, m)'
    BY <1>6 DEF ThreadOK, CreatorOK, SameInstances, resources
  <2>2. HolderOK(r, m)'
    BY <1>6, RefersKept DEF ThreadOK, HolderOK
  <2> QED
    BY <1>6, <2>1, <2>2 DEF ThreadOK, NewHandleOK, OwnerOK, EntryOK
<1>7. \A u \in Threads \ {t} :
        ThreadOK(u, pc[u], local[u]) /\ (pc[u] \in Creating => local[u].path \in Paths)
  BY DEF UsedInv, ThreadInv, TypeInv, ShapeInv, Shape
<1>8. ThreadInv'
  BY <1>1, <1>6, <1>7 DEF ThreadInv
<1> QED
  BY <1>2, <1>3, <1>4, <1>5, <1>8 DEF UsedInv

LEMMA NothingHeld == ASSUME NEW t \in Threads, NEW l PROVE ThreadOK(t, "idle", l)
  BY DEF ThreadOK, CreatorOK, HolderOK, NewHandleOK, OwnerOK, EntryOK, Creating, Working

LEMMA ReturnUsed ==
  ASSUME TypeInv, UsedInv, NEW t \in Threads, Return(t), pc[t] \notin Creating,
         SameInstances, UNCHANGED <<registry, counter, lock, resources, owner>>
  PROVE  UsedInv'
<1>1. "idle" \notin Creating /\ "idle" # "register"
  BY DEF Creating
<1> QED
  BY <1>1, NothingHeld, QuietUsed DEF Return, Goto

LEMMA SameWhenUnchanged == UNCHANGED instances => SameInstances
  BY DEF SameInstances

\* A client that uses only handles it opened.
LEMMA CallUsed == ASSUME Private, TypeInv, UsedInv, NEW t \in Threads, Calls(t) PROVE UsedInv'
<1>1. PICK s \in {"open", "close", "lookup"}, r \in Requests, h \in Handles,
           p \in Paths \cup {NoPath} : Start(t, s, r, h, p) /\ (s # "open" => MayUse(t, h))
  BY CallStarts
<1> DEFINE l == [local[t] EXCEPT !.handle = h, !.path = p]
<1>2. l.handle = h
  BY DEF TypeInv, TypeOK, Locals
<1>3. ThreadOK(t, s, l)
  BY <1>1, <1>2
  DEF ThreadOK, CreatorOK, HolderOK, NewHandleOK, OwnerOK, EntryOK, Creating, Working, MayUse
<1>4. s \notin Creating /\ pc[t] \notin Creating
  BY <1>1 DEF Start, Creating
<1> QED
  BY <1>1, <1>3, <1>4, QuietUsed, SameWhenUnchanged DEF Start, Goto


LEMMA OwnedShape ==
  ASSUME TypeInv, NEW t \in Threads
  PROVE  Shape(t, pc[t], req[t], local[t]) /\ local[t] \in Locals
  BY DEF TypeInv, TypeOK, ShapeInv

\* What the invariants say of the thread that takes a step.
LEMMA OwnUsed ==
  ASSUME TypeInv, UsedInv, NEW t \in Threads
  PROVE  ThreadOK(t, pc[t], local[t]) /\ Shape(t, pc[t], req[t], local[t]) /\ local[t] \in Locals
  BY DEF UsedInv, ThreadInv, TypeInv, TypeOK, ShapeInv

LEMMA ReturnsUsed ==
  ASSUME TypeInv, UsedInv, NEW t \in Threads, Return(t), pc[t] \notin Creating,
         UNCHANGED <<registry, counter, instances, lock, resources, owner>>
  PROVE  UsedInv'
  BY ReturnUsed, SameWhenUnchanged

\* A step that only goes on, and sets local variables of the thread.
LEMMA GoesUsed ==
  ASSUME TypeInv, UsedInv, NEW t \in Threads, NEW s, NEW l,
         pc' = [pc EXCEPT ![t] = s], local' = [local EXCEPT ![t] = l],
         UNCHANGED <<registry, counter, instances, lock, resources, owner>>,
         s \in Creating <=> pc[t] \in Creating, s # "register",
         ThreadOK(t, s, l),
         s \in Creating => l.path \in Paths
  PROVE  UsedInv'
  BY QuietUsed, SameWhenUnchanged

LEMMA WriteUsed == ASSUME TypeInv, UsedInv, NEW t \in Threads, Writing(t) PROVE UsedInv'
<1>0. ThreadOK(t, pc[t], local[t]) /\ Shape(t, pc[t], req[t], local[t]) /\ local[t] \in Locals
  BY OwnUsed
<1> DEFINE Goes(s, l) == /\ pc' = [pc EXCEPT ![t] = s] /\ local' = [local EXCEPT ![t] = l]
                         /\ UNCHANGED <<registry, counter, instances, lock, resources, owner>>
<1>1. ASSUME NEW s \in Working, Goes(s, local[t]), pc[t] \in Working PROVE UsedInv'
  <2>1. ThreadOK(t, s, local[t])
    BY <1>0, <1>1
    DEF ThreadOK, CreatorOK, HolderOK, NewHandleOK, OwnerOK, EntryOK, Creating, Working
  <2>2. s \notin Creating /\ pc[t] \notin Creating /\ s # "register"
    BY <1>1 DEF Creating, Working
  <2> QED
    BY <1>1, <2>1, <2>2, GoesUsed
<1>2. CASE Lookup(t)
  <2> DEFINE e == registry[local[t].handle]
             l == [local[t] EXCEPT !.inst = e.inst, !.path = e.path]
             s == IF req[t].op = "put" THEN "save" ELSE "exists"
  <2>1. CASE e = NoEntry
    BY <1>2, <2>1, ReturnsUsed DEF Lookup, Creating
  <2>2. CASE e # NoEntry
    <3>1. e \in Entries
      BY <1>0, <2>2 DEF TypeInv, TypeOK, Locals
    <3>2. /\ e = [inst |-> e.inst, path |-> e.path]
          /\ l.handle = local[t].handle /\ l.inst = e.inst /\ l.path = e.path
      BY <1>0, <3>1 DEF Locals, Entries
    <3>3. s \in Working
      BY DEF Working
    <3>4. ThreadOK(t, s, l)
      <4>1. owner[l.handle] = t
        BY <1>0, <1>2, <3>2 DEF Lookup, ThreadOK, OwnerOK
      <4>2. registry[l.handle] = [inst |-> l.inst, path |-> l.path]
        BY <3>2
      <4> HIDE DEF l, s
      <4> QED
        BY <3>3, <4>1, <4>2
        DEF ThreadOK, CreatorOK, HolderOK, NewHandleOK, OwnerOK, EntryOK, Creating, Working
    <3>5. Goes(s, l)
      BY <1>2, <2>2 DEF Lookup, Goto
    <3>6. s \notin Creating /\ s # "register" /\ pc[t] \notin Creating
      BY <1>2 DEF Lookup, Creating
    <3> HIDE DEF l, s
    <3> QED
      BY <3>4, <3>5, <3>6, GoesUsed
  <2> QED
    BY <2>1, <2>2
<1>3. CASE Save(t) \/ Remove(t)
  <2>1. local' = [local EXCEPT ![t] = local[t]]
    BY <1>3 DEF Save, Remove, TypeInv, TypeOK
  <2> QED
    BY <1>1, <1>3, <2>1 DEF Save, Remove, Goto, Working
<1>4. CASE Exists(t)
  <2>1. CASE Goto(t, "remove") /\ UNCHANGED <<req, local>>
    <3>1. local' = [local EXCEPT ![t] = local[t]]
      BY <2>1 DEF TypeInv, TypeOK
    <3> QED
      BY <1>1, <1>4, <2>1, <3>1 DEF Exists, Goto, Working
  <2> QED
    BY <1>4, <2>1, ReturnsUsed DEF Exists, Creating
<1>5. CASE CommitFails(t) \/ File(t) \/ Unfile(t) \/ IndexingFails(t)
  BY <1>5, ReturnsUsed DEF CommitFails, File, Unfile, IndexingFails, Creating
<1> QED
  BY <1>2, <1>3, <1>4, <1>5 DEF Writing

\* Nobody else makes an instance while a thread is inside the lock, or none is.
LEMMA OthersWait ==
  ASSUME UsedInv, NEW t \in Threads, LockFree \/ pc[t] \in Creating
  PROVE  \A u \in Threads \ {t} : pc[u] \notin Creating
  BY LibConstants DEF UsedInv, LockInv, LockFree

LEMMA OpenStorageUsed ==
  ASSUME TypeInv, UsedInv, NEW t \in Threads, OpenStorage(t) PROVE UsedInv'
<1> DEFINE l == [local[t] EXCEPT !.inst = made + 1]
           p == local[t].path
<1>0. /\ Shape(t, pc[t], req[t], local[t]) /\ local[t] \in Locals
      /\ made \in Nat /\ made + 1 \in Instances /\ p \in Paths
      /\ l.inst = made + 1 /\ l.path = p
  BY OwnUsed, LibConstants
  DEF OpenStorage, Shape, TypeInv, TypeOK, Instances, Locals
<1>1. /\ pc'[t] = "writer" /\ local'[t] = l
      /\ \A u \in Threads \ {t} : pc'[u] = pc[u] /\ local'[u] = local[u]
  BY Moved DEF OpenStorage, Goto
<1>2. \A u \in Threads \ {t} : pc[u] \notin Creating
  BY OthersWait DEF OpenStorage
<1>3. LockInv'
  BY <1>1, <1>2 DEF OpenStorage, LockInv, Creating
<1>4. InstanceInv' /\ UnassignedInv' /\ EntryInv'
  BY DEF OpenStorage, UsedInv, InstanceInv, UnassignedInv, EntryInv, Open, Refers
<1>5. UnmadeInv'
  BY <1>0 DEF OpenStorage, UsedInv, UnmadeInv, Instances
<1>6. NewHandlesInv'
  BY <1>1 DEF UsedInv, NewHandlesInv
<1>7. ThreadOK(t, pc[t], local[t])'
  <2>1. writers[made + 1] = NoPath
    BY <1>0 DEF UsedInv, UnmadeInv
  <2>2. CreatorOK(pc[t], local[t])'
    <3>1. local'[t].inst = made + 1 /\ local'[t].path = p /\ pc'[t] = "writer"
      BY <1>0, <1>1
    <3>2. made' = made + 1 /\ made + 1 <= made + 1
      BY <1>0 DEF OpenStorage
    <3>3. made + 1 \in storages' /\ writers' = writers /\ instances' = instances
      BY DEF OpenStorage
    <3>4. instances[p] = NoInstance
      BY DEF OpenStorage
    <3> HIDE DEF l, p
    <3> QED
      BY <2>1, <3>1, <3>2, <3>3, <3>4 DEF CreatorOK
  <2> QED
    BY <1>1, <2>2 DEF ThreadOK, HolderOK, NewHandleOK, OwnerOK, EntryOK, Working
<1>8. ASSUME NEW u \in Threads \ {t} PROVE ThreadOK(u, pc[u], local[u])'
  <2>1. ThreadOK(u, pc[u], local[u]) /\ pc[u] \notin Creating
    BY <1>2 DEF UsedInv, ThreadInv
  <2>2. ThreadOK(u, pc[u], local[u])' <=> ThreadOK(u, pc[u], local[u])
    BY <1>1, <2>1
    DEF OpenStorage, ThreadOK, CreatorOK, HolderOK, NewHandleOK, OwnerOK, EntryOK, Refers
  <2> QED
    BY <2>1, <2>2
<1>9. ThreadInv'
  BY <1>7, <1>8 DEF ThreadInv
<1> QED
  BY <1>3, <1>4, <1>5, <1>6, <1>9 DEF UsedInv


LEMMA OpenWriterUsed ==
  ASSUME TypeInv, UsedInv, NEW t \in Threads, OpenWriter(t) PROVE UsedInv'
<1> DEFINE i == local[t].inst
           p == local[t].path
<1>0. /\ pc[t] = "writer" /\ i \in Instances /\ p \in Paths
      /\ writers' = [writers EXCEPT ![i] = p]
      /\ UNCHANGED <<registry, counter, instances, lock, storages, made, local, owner>>
      /\ writers \in [Instances -> Paths \cup {NoPath}] /\ made \in Nat
      /\ instances \in [Paths -> [inst : Instances, count : Nat \ {0}] \cup {NoInstance}]
  BY OwnUsed DEF OpenWriter, Shape, Creating, TypeInv, TypeOK
<1>1. /\ pc'[t] = "list" /\ local' = local
      /\ \A u \in Threads \ {t} : pc'[u] = pc[u]
  BY DEF OpenWriter, Goto, TypeInv, TypeOK
<1>2. \A u \in Threads \ {t} : pc[u] \notin Creating
  BY <1>0, OthersWait DEF Creating
<1>3. instances[p] = NoInstance /\ i <= made /\ i \in storages /\ writers[i] = NoPath
  BY <1>0, OwnUsed DEF ThreadOK, CreatorOK, Creating
<1>4. LockInv'
  BY <1>0, <1>1 DEF UsedInv, LockInv, Creating
<1>5. InstanceInv'
  <2> SUFFICES ASSUME NEW q \in Paths, instances[q] # NoInstance
               PROVE  Open(instances[q].inst, q)'
    BY <1>0 DEF InstanceInv
  <2>1. Open(instances[q].inst, q) /\ instances[q].inst \in Instances
    BY <1>0 DEF UsedInv, InstanceInv
  <2>2. instances[q].inst # i
    BY <1>3, <2>1, LibConstants DEF Open
  <2> QED
    BY <1>0, <2>1, <2>2 DEF Open
<1>6. UnmadeInv'
  <2> SUFFICES ASSUME NEW j \in Instances, j > made PROVE writers'[j] = NoPath
    BY <1>0 DEF UnmadeInv
  <2>1. j # i
    BY <1>0, <1>3 DEF Instances
  <2> QED
    BY <1>0, <2>1 DEF UsedInv, UnmadeInv
<1>7. UnassignedInv' /\ EntryInv'
  BY <1>0 DEF UsedInv, UnassignedInv, EntryInv, Refers
<1>8. NewHandlesInv'
  BY <1>1 DEF UsedInv, NewHandlesInv
<1>9. ThreadOK(t, pc[t], local[t])'
  BY <1>0, <1>1, <1>3
  DEF ThreadOK, CreatorOK, HolderOK, NewHandleOK, OwnerOK, EntryOK, Creating, Working
<1>10. ASSUME NEW u \in Threads \ {t} PROVE ThreadOK(u, pc[u], local[u])'
  <2>1. ThreadOK(u, pc[u], local[u]) /\ pc[u] \notin Creating
    BY <1>2 DEF UsedInv, ThreadInv
  <2>2. ThreadOK(u, pc[u], local[u])' <=> ThreadOK(u, pc[u], local[u])
    BY <1>0, <1>1, <2>1
    DEF ThreadOK, CreatorOK, HolderOK, NewHandleOK, OwnerOK, EntryOK, Refers
  <2> QED
    BY <2>1, <2>2
<1>11. ThreadInv'
  BY <1>9, <1>10 DEF ThreadInv
<1> QED
  BY <1>4, <1>5, <1>6, <1>7, <1>8, <1>11 DEF UsedInv

LEMMA GiveUpUsed ==
  ASSUME TypeInv, UsedInv, NEW t \in Threads, GiveUp(t), pc[t] \in Creating PROVE UsedInv'
<1>0. UNCHANGED <<registry, counter, instances, storages, writers, made, owner>>
  BY DEF GiveUp, resources
<1>1. /\ pc'[t] = "idle"
      /\ \A u \in Threads \ {t} : pc'[u] = pc[u] /\ local'[u] = local[u]
  BY DEF GiveUp, Return, Goto, TypeInv, TypeOK
<1>2. \A u \in Threads \ {t} : pc[u] \notin Creating
  BY OthersWait
<1>3. LockInv'
  <2>1. lock' = NoThread /\ \A u \in Threads : pc'[u] \notin Creating
    BY <1>1, <1>2 DEF GiveUp, Unlocked, Creating
  <2> QED
    BY <2>1, LibConstants DEF LockInv
<1>4. InstanceInv' /\ UnmadeInv' /\ UnassignedInv' /\ EntryInv'
  BY <1>0 DEF UsedInv, InstanceInv, UnmadeInv, UnassignedInv, EntryInv, Open, Refers
<1>5. NewHandlesInv'
  BY <1>1 DEF UsedInv, NewHandlesInv
<1>6. ThreadOK(t, pc[t], local[t])'
  BY <1>1 DEF ThreadOK, CreatorOK, HolderOK, NewHandleOK, OwnerOK, EntryOK, Creating, Working
<1>7. ASSUME NEW u \in Threads \ {t} PROVE ThreadOK(u, pc[u], local[u])'
  <2>1. ThreadOK(u, pc[u], local[u])
    BY DEF UsedInv, ThreadInv
  <2> QED
    BY <1>0, <1>1, <2>1
    DEF ThreadOK, CreatorOK, HolderOK, NewHandleOK, OwnerOK, EntryOK, Refers
<1>8. ThreadInv'
  BY <1>6, <1>7 DEF ThreadInv
<1> QED
  BY <1>3, <1>4, <1>5, <1>8 DEF UsedInv

LEMMA FillUsed ==
  ASSUME TypeInv, UsedInv, NEW t \in Threads, NEW lost, Filled(t, lost) PROVE UsedInv'
<1> DEFINE i == local[t].inst
           p == local[t].path
<1>0. /\ pc[t] = "fill" /\ i \in Instances /\ p \in Paths
      /\ instances' = [instances EXCEPT ![p] = [inst |-> i, count |-> 1]]
      /\ UNCHANGED <<registry, counter, storages, writers, made, local, owner>>
      /\ instances \in [Paths -> [inst : Instances, count : Nat \ {0}] \cup {NoInstance}]
  BY OwnUsed DEF Filled, Shape, Creating, TypeInv, TypeOK, resources
<1>1. /\ pc'[t] = "assign"
      /\ \A u \in Threads \ {t} : pc'[u] = pc[u]
  BY DEF Filled, Goto, TypeInv, TypeOK
<1>2. \A u \in Threads \ {t} : pc[u] \notin Creating
  BY <1>0, OthersWait DEF Creating
<1>3. instances[p] = NoInstance /\ Open(i, p)
  BY <1>0, OwnUsed DEF ThreadOK, CreatorOK, Creating, Open
<1>4. instances'[p].inst = i /\ instances'[p] # NoInstance
  BY <1>0 DEF NoInstance, Instances
<1>5. \A q \in Paths : q # p => instances'[q] = instances[q]
  BY <1>0
<1>6. \A j, q : Refers(j, q) => Refers(j, q)'
  BY <1>3, <1>5 DEF Refers
<1>7. LockInv'
  <2>1. lock' = NoThread /\ \A u \in Threads : pc'[u] \notin Creating
    BY <1>1, <1>2 DEF Filled, Creating
  <2> QED
    BY <2>1, LibConstants DEF LockInv
<1>8. InstanceInv'
  BY <1>0, <1>3, <1>4, <1>5 DEF UsedInv, InstanceInv, Open
<1>9. UnmadeInv' /\ UnassignedInv'
  BY <1>0 DEF UsedInv, UnmadeInv, UnassignedInv
<1>10. EntryInv'
  BY <1>0, <1>6 DEF UsedInv, EntryInv
<1>11. NewHandlesInv'
  BY <1>0, <1>1 DEF UsedInv, NewHandlesInv
<1>12. ThreadOK(t, pc[t], local[t])'
  BY <1>0, <1>1, <1>4
  DEF ThreadOK, CreatorOK, HolderOK, NewHandleOK, OwnerOK, EntryOK, Refers, Creating, Working
<1>13. ASSUME NEW u \in Threads \ {t} PROVE ThreadOK(u, pc[u], local[u])'
  <2>1. ThreadOK(u, pc[u], local[u]) /\ pc[u] \notin Creating
    BY <1>2 DEF UsedInv, ThreadInv
  <2>2. HolderOK(pc[u], local[u])'
    BY <1>0, <1>1, <1>6, <2>1 DEF ThreadOK, HolderOK
  <2> QED
    BY <1>0, <1>1, <2>1, <2>2
    DEF ThreadOK, CreatorOK, NewHandleOK, OwnerOK, EntryOK
<1>14. ThreadInv'
  BY <1>12, <1>13 DEF ThreadInv
<1> QED
  BY <1>7, <1>8, <1>9, <1>10, <1>11, <1>14 DEF UsedInv

LEMMA AssignUsed == ASSUME TypeInv, UsedInv, NEW t \in Threads, AssignHandle(t) PROVE UsedInv'
<1>0. /\ pc[t] = "assign" /\ counter \in Nat /\ counter \in Handles
      /\ counter' = counter + 1
      /\ UNCHANGED <<registry, instances, lock, storages, writers, made, owner>>
      /\ local[t] \in Locals
  BY OwnUsed, LibConstants DEF AssignHandle, TypeInv, TypeOK, Handles, resources
<1>1. /\ pc'[t] = "register" /\ local'[t] = [local[t] EXCEPT !.handle = counter]
      /\ \A u \in Threads \ {t} : pc'[u] = pc[u] /\ local'[u] = local[u]
  BY Moved DEF AssignHandle, Goto
<1>2. /\ local'[t].handle = counter
      /\ local'[t].inst = local[t].inst /\ local'[t].path = local[t].path
  BY <1>0, <1>1 DEF Locals
<1>3. \A u \in Threads : pc[u] = "register" =>
        local[u].handle < counter /\ local[u].handle \in Nat
  BY DEF UsedInv, ThreadInv, ThreadOK, NewHandleOK, TypeInv, TypeOK, Locals, Handles
<1>4. LockInv'
  BY <1>0, <1>1 DEF UsedInv, LockInv, Creating
<1>5. InstanceInv' /\ UnmadeInv' /\ EntryInv'
  BY <1>0 DEF UsedInv, InstanceInv, UnmadeInv, EntryInv, Open, Refers
<1>6. UnassignedInv'
  BY <1>0 DEF UsedInv, UnassignedInv, Handles
<1>7. NewHandlesInv'
  <2> SUFFICES ASSUME NEW u \in Threads, NEW v \in Threads,
                      pc'[u] = "register", pc'[v] = "register",
                      local'[u].handle = local'[v].handle
               PROVE  u = v
    BY DEF NewHandlesInv
  <2>1. CASE u # t /\ v # t
    BY <1>1, <2>1 DEF UsedInv, NewHandlesInv
  <2>2. local'[t].handle = counter
    BY <1>2
  <2>3. \A w \in Threads \ {t} : pc'[w] = "register" =>
          local'[w].handle < counter /\ local'[w].handle \in Nat
    BY <1>1, <1>3
  <2>4. CASE u = t /\ v # t
    BY <1>0, <2>2, <2>3, <2>4
  <2>5. CASE u # t /\ v = t
    BY <1>0, <2>2, <2>3, <2>5
  <2> QED
    BY <2>1, <2>4, <2>5
<1>8. ThreadOK(t, pc[t], local[t])'
  <2>1. Refers(local[t].inst, local[t].path)
    BY <1>0, OwnUsed DEF ThreadOK, HolderOK
  <2>2. HolderOK(pc[t], local[t])'
    BY <1>0, <1>2, <2>1 DEF HolderOK, Refers
  <2>3. owner[counter] = NoThread
    BY <1>0 DEF UsedInv, UnassignedInv
  <2>4. NewHandleOK(pc[t], local[t])'
    BY <1>0, <1>2, <2>3 DEF NewHandleOK
  <2> QED
    BY <1>1, <2>2, <2>4 DEF ThreadOK, CreatorOK, OwnerOK, EntryOK, Creating, Working
<1>9. ASSUME NEW u \in Threads \ {t} PROVE ThreadOK(u, pc[u], local[u])'
  <2>1. ThreadOK(u, pc[u], local[u])
    BY DEF UsedInv, ThreadInv
  <2>2. NewHandleOK(pc[u], local[u])'
    BY <1>0, <1>1, <1>3, <2>1 DEF ThreadOK, NewHandleOK
  <2> QED
    BY <1>0, <1>1, <2>1, <2>2
    DEF ThreadOK, CreatorOK, HolderOK, OwnerOK, EntryOK, Refers
<1>10. ThreadInv'
  BY <1>8, <1>9 DEF ThreadInv
<1> QED
  BY <1>4, <1>5, <1>6, <1>7, <1>10 DEF UsedInv

LEMMA RegisterUsed ==
  ASSUME TypeInv, UsedInv, NEW t \in Threads, RegisterHandle(t) PROVE UsedInv'
<1> DEFINE l == local[t]
<1>0. /\ pc[t] = "register" /\ l \in Locals /\ l.handle \in Handles
      /\ registry' = [registry EXCEPT ![l.handle] = [inst |-> l.inst, path |-> l.path]]
      /\ owner' = [owner EXCEPT ![l.handle] = t]
      /\ UNCHANGED <<counter, instances, lock, storages, writers, made>>
      /\ registry \in [Handles -> Entries \cup {NoEntry}]
      /\ owner \in [Handles -> Threads \cup {NoThread}] /\ counter \in Nat
  BY OwnUsed DEF RegisterHandle, TypeInv, TypeOK, Locals, resources
<1>1. /\ pc'[t] = "idle"
      /\ \A u \in Threads \ {t} : pc'[u] = pc[u] /\ local'[u] = local[u]
  BY DEF RegisterHandle, Return, Goto, TypeInv, TypeOK
<1>2. /\ l.handle < counter /\ owner[l.handle] = NoThread
      /\ Refers(l.inst, l.path)
  BY <1>0, OwnUsed DEF ThreadOK, NewHandleOK, HolderOK
<1>3. LockInv'
  BY <1>0, <1>1 DEF UsedInv, LockInv, Creating
<1>4. InstanceInv' /\ UnmadeInv'
  BY <1>0 DEF UsedInv, InstanceInv, UnmadeInv, Open
<1>5. UnassignedInv'
  <2> SUFFICES ASSUME NEW h \in Handles, h >= counter
               PROVE  owner'[h] = NoThread /\ registry'[h] = NoEntry
    BY <1>0 DEF UnassignedInv
  <2>1. h # l.handle
    BY <1>0, <1>2 DEF Handles
  <2> QED
    BY <1>0, <2>1 DEF UsedInv, UnassignedInv
<1>6. EntryInv'
  <2> SUFFICES ASSUME NEW h \in Handles, registry'[h] # NoEntry
               PROVE  Refers(registry'[h].inst, registry'[h].path) /\ owner'[h] # NoThread
    BY <1>0 DEF EntryInv, Refers
  <2>1. CASE h = l.handle
    BY <1>0, <1>2, <2>1, LibConstants
  <2>2. CASE h # l.handle
    BY <1>0, <2>2 DEF UsedInv, EntryInv
  <2> QED
    BY <2>1, <2>2
<1>7. NewHandlesInv'
  BY <1>1 DEF UsedInv, NewHandlesInv
<1>8. ThreadOK(t, pc[t], local[t])'
  BY <1>1 DEF ThreadOK, CreatorOK, HolderOK, NewHandleOK, OwnerOK, EntryOK, Creating, Working
<1>9. ASSUME NEW u \in Threads \ {t} PROVE ThreadOK(u, pc[u], local[u])'
  <2>1. ThreadOK(u, pc[u], local[u]) /\ local[u].handle \in Handles
    BY DEF UsedInv, ThreadInv, TypeInv, TypeOK, Locals
  <2>2. pc[u] = "register" => local[u].handle # l.handle
    BY <1>0 DEF UsedInv, NewHandlesInv
  <2>3. pc[u] \in {"close", "drop", "lookup"} \cup Working => local[u].handle # l.handle
    BY <1>2, <2>1, LibConstants DEF ThreadOK, OwnerOK
  <2>4. CreatorOK(pc[u], local[u])' /\ HolderOK(pc[u], local[u])'
    BY <1>0, <1>1, <2>1 DEF ThreadOK, CreatorOK, HolderOK, Refers
  <2>5. NewHandleOK(pc[u], local[u])'
    BY <1>0, <1>1, <2>1, <2>2 DEF ThreadOK, NewHandleOK
  <2>6. OwnerOK(u, pc[u], local[u])'
    BY <1>0, <1>1, <2>1, <2>3 DEF ThreadOK, OwnerOK
  <2>7. EntryOK(pc[u], local[u])'
    BY <1>0, <1>1, <2>1, <2>3 DEF ThreadOK, EntryOK
  <2> QED
    BY <2>4, <2>5, <2>6, <2>7 DEF ThreadOK
<1>10. ThreadInv'
  BY <1>8, <1>9 DEF ThreadInv
<1> QED
  BY <1>3, <1>4, <1>5, <1>6, <1>7, <1>10 DEF UsedInv

LEMMA ReuseUsed == ASSUME TypeInv, UsedInv, NEW t \in Threads, Reuse(t) PROVE UsedInv'
<1> DEFINE p == local[t].path
           l == [local[t] EXCEPT !.inst = instances[p].inst]
<1>0. p \in Paths /\ l.path = p /\ l.inst = instances[p].inst
  BY OwnUsed DEF Reuse, Shape, Locals
<1>1. instances[p] \in [inst : Instances, count : Nat \ {0}]
  BY <1>0 DEF Reuse, TypeInv, TypeOK
<1>2. /\ instances' = [instances EXCEPT ![p] = Counted(instances[p])]
      /\ Counted(instances[p]).inst = instances[p].inst
      /\ Counted(instances[p]) # NoInstance
  BY <1>0, <1>1 DEF Reuse, Counted, NoInstance, Instances
<1>3. SameInstances
  <2> HIDE DEF p
  <2> QED
    BY <1>0, <1>1, <1>2 DEF SameInstances, TypeInv, TypeOK, NoInstance, Instances
<1>4. ThreadOK(t, "assign", l)
  BY <1>0
  DEF Reuse, ThreadOK, CreatorOK, HolderOK, NewHandleOK, OwnerOK, EntryOK, Refers, Creating,
      Working
<1>5. "assign" \notin Creating /\ pc[t] \notin Creating
  BY DEF Reuse, Creating
<1>6. pc' = [pc EXCEPT ![t] = "assign"] /\ local' = [local EXCEPT ![t] = l]
  BY DEF Reuse, Goto
<1> HIDE DEF l
<1> QED
  BY <1>3, <1>4, <1>5, <1>6, QuietUsed DEF Reuse

LEMMA ListUsed == ASSUME TypeInv, UsedInv, NEW t \in Threads, List(t) PROVE UsedInv'
<1> DEFINE l == [local[t] EXCEPT !.seen = git[local[t].path]]
<1>0. /\ l.path = local[t].path /\ l.inst = local[t].inst /\ l.handle = local[t].handle
      /\ l.path \in Paths
  BY OwnUsed DEF List, Shape, Creating, Locals
<1>1. ThreadOK(t, "fill", l)
  <2>1. CreatorOK("fill", l)
    BY <1>0, OwnUsed DEF List, ThreadOK, CreatorOK, Creating
  <2> QED
    BY <2>1 DEF ThreadOK, HolderOK, NewHandleOK, OwnerOK, EntryOK, Working
<1>2. "fill" \in Creating /\ pc[t] \in Creating
  BY DEF List, Creating
<1>3. pc' = [pc EXCEPT ![t] = "fill"] /\ local' = [local EXCEPT ![t] = l]
  BY DEF List, Goto
<1> HIDE DEF l
<1> QED
  BY <1>0, <1>1, <1>2, <1>3, GoesUsed DEF List

LEMMA OpenUsed == ASSUME TypeInv, UsedInv, NEW t \in Threads, Opening(t) PROVE UsedInv'
<1>1. CASE StorageFails(t)
  BY <1>1, ReturnsUsed DEF StorageFails, Creating
<1>2. CASE NoWriter(t) \/ ListFails(t)
  BY <1>2, GiveUpUsed DEF NoWriter, ListFails, Creating
<1> QED
  BY <1>1, <1>2, ReuseUsed, OpenStorageUsed, OpenWriterUsed, ListUsed, FillLost, FillUsed,
     AssignUsed, RegisterUsed
  DEF Opening


LEMMA DropUsed == ASSUME TypeInv, UsedInv, NEW t \in Threads, DropHandle(t) PROVE UsedInv'
<1> DEFINE l == local[t]
<1>0. /\ pc[t] = "drop" /\ l.handle \in Handles
      /\ registry' = [registry EXCEPT ![l.handle] = NoEntry]
      /\ UNCHANGED <<counter, instances, lock, storages, writers, made, local, owner>>
      /\ registry \in [Handles -> Entries \cup {NoEntry}]
  BY OwnUsed DEF DropHandle, TypeInv, TypeOK, Locals, resources
<1>1. /\ pc'[t] = "release"
      /\ \A u \in Threads \ {t} : pc'[u] = pc[u] /\ local'[u] = local[u]
  BY <1>0 DEF DropHandle, Goto, TypeInv, TypeOK
<1>2. owner[l.handle] = t
  BY <1>0, OwnUsed DEF ThreadOK, OwnerOK
<1>3. LockInv'
  BY <1>0, <1>1 DEF UsedInv, LockInv, Creating
<1>4. InstanceInv' /\ UnmadeInv' /\ UnassignedInv' /\ EntryInv'
  BY <1>0 DEF UsedInv, InstanceInv, UnmadeInv, UnassignedInv, EntryInv, Open, Refers
<1>5. NewHandlesInv'
  BY <1>1 DEF UsedInv, NewHandlesInv
<1>6. ThreadOK(t, pc[t], local[t])'
  BY <1>1 DEF ThreadOK, CreatorOK, HolderOK, NewHandleOK, OwnerOK, EntryOK, Creating, Working
<1>7. ASSUME NEW u \in Threads \ {t} PROVE ThreadOK(u, pc[u], local[u])'
  <2>1. ThreadOK(u, pc[u], local[u]) /\ local[u].handle \in Handles
    BY DEF UsedInv, ThreadInv, TypeInv, TypeOK, Locals
  <2>2. pc[u] \in {"close", "drop", "lookup"} \cup Working => local[u].handle # l.handle
    BY <1>2, <2>1 DEF ThreadOK, OwnerOK
  <2>3. EntryOK(pc[u], local[u])'
    BY <1>0, <1>1, <2>1, <2>2 DEF ThreadOK, EntryOK
  <2> QED
    BY <1>0, <1>1, <2>1, <2>3
    DEF ThreadOK, CreatorOK, HolderOK, NewHandleOK, OwnerOK, Refers
<1>8. ThreadInv'
  BY <1>6, <1>7 DEF ThreadInv
<1> QED
  BY <1>3, <1>4, <1>5, <1>8 DEF UsedInv

LEMMA HandlesFinite == ASSUME NEW p PROVE IsFiniteSet(HandlesOf(p)) /\ IsFiniteSet(HoldersOf(p))
<1>1. IsFiniteSet(Handles)
  BY LibConstants, FS_Interval DEF Handles
<1>2. HandlesOf(p) \subseteq Handles /\ HoldersOf(p) \subseteq Threads
  BY DEF HandlesOf, HoldersOf
<1> QED
  BY <1>1, <1>2, LibConstants, FS_Subset

\* What a thread that counts one reference knows of the others.
LEMMA LastOne ==
  ASSUME CountsReferences, NEW p \in Paths, NEW t \in HoldersOf(p), instances[p].count \in Nat
  PROVE  /\ instances[p].count # 0
         /\ instances[p].count = 1 => HandlesOf(p) = {} /\ HoldersOf(p) = {t}
<1> DEFINE H == HandlesOf(p)
           T == HoldersOf(p)
<1>1. IsFiniteSet(H) /\ IsFiniteSet(T) /\ IsFiniteSet(T \ {t})
  BY HandlesFinite, FS_RemoveElement
<1>2. /\ Cardinality(H) \in Nat /\ Cardinality(T) \in Nat /\ Cardinality(T \ {t}) \in Nat
      /\ Cardinality(T \ {t}) = Cardinality(T) - 1
  BY <1>1, FS_CardinalityType, FS_RemoveElement
<1>3. instances[p].count = Cardinality(H) + Cardinality(T)
  BY DEF CountsReferences
<1>4. ASSUME instances[p].count = 1 PROVE H = {} /\ T = {t}
  <2>1. Cardinality(H) = 0 /\ Cardinality(T \ {t}) = 0
    BY <1>2, <1>3, <1>4
  <2>2. H = {} /\ T \ {t} = {}
    BY <1>1, <2>1, FS_EmptySet
  <2> QED
    BY <2>2
<1> QED
  BY <1>2, <1>3, <1>4

LEMMA ReleaseUsed ==
  ASSUME TypeInv, UsedInv, CountsReferences, NEW t \in Threads, Release(t) PROVE UsedInv'
<1> DEFINE p == local[t].path
           i == instances[p]
<1>0. /\ pc[t] = "release" /\ p \in Paths /\ Return(t) /\ lock = NoThread
      /\ UNCHANGED <<registry, counter, lock, owner>>
      /\ instances \in [Paths -> [inst : Instances, count : Nat \ {0}] \cup {NoInstance}]
      /\ writers \in [Instances -> Paths \cup {NoPath}]
  BY OwnUsed DEF Release, LockFree, Shape, Referring, TypeInv, TypeOK
<1>1. pc[t] \notin Creating
  BY <1>0 DEF Creating
<1>2. CASE i = NoInstance /\ UNCHANGED <<instances, resources>>
  BY <1>0, <1>1, <1>2, ReturnsUsed
<1>3. CASE i # NoInstance /\ ~LastReference(i)
  <2>1. instances' = [instances EXCEPT ![p].count = @ - 1] /\ UNCHANGED resources
    BY <1>3 DEF Release
  <2>2. i.count \in Nat /\ i.count > 1 /\ i.inst \in Instances
    BY <1>0, <1>3 DEF LastReference
  <2>3. SameInstances
    BY <1>0, <2>1, <2>2 DEF SameInstances, NoInstance, Instances
  <2> QED
    BY <1>0, <1>1, <2>1, <2>3, ReturnUsed
<1>4. CASE i # NoInstance /\ LastReference(i)
  <2>0. /\ instances' = [instances EXCEPT ![p] = NoInstance]
        /\ storages' = storages \ {i.inst}
        /\ writers' = [writers EXCEPT ![i.inst] = NoPath]
        /\ UNCHANGED made
    BY <1>4 DEF Release, WriterClosed
  <2>1. i.inst \in Instances /\ i.count \in Nat /\ i.count = 1
    BY <1>0, <1>4 DEF LastReference
  <2>2. HandlesOf(p) = {} /\ HoldersOf(p) = {t}
    <3>1. t \in HoldersOf(p)
      BY <1>0 DEF HoldersOf, Referring
    <3> QED
      BY <1>0, <2>1, <3>1, LastOne
  <2>3. /\ pc'[t] = "idle"
        /\ \A u \in Threads \ {t} : pc'[u] = pc[u] /\ local'[u] = local[u]
    BY <1>0 DEF Return, Goto, TypeInv, TypeOK
  <2>4. \A j, q : Refers(j, q) /\ q # p => Refers(j, q)'
    BY <1>0, <2>0 DEF Refers
  <2>5. LockInv'
    BY <1>0, <1>1, <2>3 DEF UsedInv, LockInv, Creating
  <2>6. InstanceInv'
    <3> SUFFICES ASSUME NEW q \in Paths, instances'[q] # NoInstance
                 PROVE  Open(instances[q].inst, q)'
      BY DEF InstanceInv
    <3>1. q # p /\ instances'[q] = instances[q]
      BY <1>0, <2>0
    <3>2. Open(instances[q].inst, q) /\ Open(i.inst, p)
      BY <1>0, <1>4, <3>1 DEF UsedInv, InstanceInv
    <3>3. instances[q].inst # i.inst
      BY <3>1, <3>2 DEF Open
    <3>4. instances[q].inst \in Instances
      BY <1>0, <3>1
    <3> QED
      BY <1>0, <2>0, <3>1, <3>2, <3>3, <3>4 DEF Open
  <2>7. UnmadeInv' /\ UnassignedInv'
    BY <1>0, <2>0, <2>1 DEF UsedInv, UnmadeInv, UnassignedInv
  <2>8. EntryInv'
    <3> SUFFICES ASSUME NEW h \in Handles, registry[h] # NoEntry
                 PROVE  Refers(registry[h].inst, registry[h].path)' /\ owner[h] # NoThread
      BY <1>0 DEF EntryInv
    <3>1. Refers(registry[h].inst, registry[h].path) /\ owner[h] # NoThread
      BY DEF UsedInv, EntryInv
    <3>2. registry[h].path # p
      BY <2>2 DEF HandlesOf
    <3>3. registry' = registry
      BY <1>0
    <3>4. \A j, q : q # p /\ Refers(j, q) =>
            q \in Paths /\ instances'[q] # NoInstance /\ instances'[q].inst = j
      BY <2>4 DEF Refers
    <3> QED
      BY <3>1, <3>2, <3>3, <3>4 DEF Refers
  <2>9. NewHandlesInv'
    BY <2>3 DEF UsedInv, NewHandlesInv
  <2>10. ThreadOK(t, pc[t], local[t])'
    BY <2>3 DEF ThreadOK, CreatorOK, HolderOK, NewHandleOK, OwnerOK, EntryOK, Creating, Working
  <2>11. ASSUME NEW u \in Threads \ {t} PROVE ThreadOK(u, pc[u], local[u])'
    <3>1. ThreadOK(u, pc[u], local[u]) /\ pc[u] \notin Creating
      BY <1>0, OthersWait DEF UsedInv, ThreadInv, LockFree
    <3>2. pc[u] \in {"assign", "register"} => local[u].path # p
      BY <2>2 DEF HoldersOf, Referring
    <3>3. pc[u] \in {"assign", "register"} => Refers(local[u].inst, local[u].path)
      BY <3>1 DEF ThreadOK, HolderOK
    <3>4. HolderOK(pc[u], local[u])'
      BY <1>0, <2>0, <2>3, <3>2, <3>3 DEF HolderOK, Refers
    <3> QED
      BY <1>0, <2>3, <3>1, <3>4 DEF ThreadOK, CreatorOK, NewHandleOK, OwnerOK, EntryOK
  <2>12. ThreadInv'
    BY <2>10, <2>11 DEF ThreadInv
  <2> QED
    BY <2>5, <2>6, <2>7, <2>8, <2>9, <2>12 DEF UsedInv
<1> QED
  BY <1>2, <1>3, <1>4 DEF Release

LEMMA CloseUsed ==
  ASSUME TypeInv, UsedInv, CountsReferences, NEW t \in Threads, Closing(t) PROVE UsedInv'
<1>1. CASE LookupClosed(t)
  <2> DEFINE e == registry[local[t].handle]
             l == [local[t] EXCEPT !.path = e.path]
  <2>1. CASE e = NoEntry
    BY <1>1, <2>1, ReturnsUsed DEF LookupClosed, Creating
  <2>2. CASE e # NoEntry
    <3>1. l.handle = local[t].handle /\ l.path = e.path
      BY OwnUsed DEF Locals
    <3>2. ThreadOK(t, "drop", l)
      <4>1. owner[l.handle] = t
        BY <1>1, <3>1, OwnUsed DEF LookupClosed, ThreadOK, OwnerOK
      <4>2. registry[l.handle] # NoEntry /\ registry[l.handle].path = l.path
        BY <2>2, <3>1
      <4> HIDE DEF l
      <4> QED
        BY <4>1, <4>2
        DEF ThreadOK, CreatorOK, HolderOK, NewHandleOK, OwnerOK, EntryOK, Creating, Working
    <3>3. pc' = [pc EXCEPT ![t] = "drop"] /\ local' = [local EXCEPT ![t] = l]
      BY <1>1, <2>2 DEF LookupClosed, Goto
    <3>4. "drop" \notin Creating /\ pc[t] \notin Creating
      BY <1>1 DEF LookupClosed, Creating
    <3> HIDE DEF l
    <3> QED
      BY <1>1, <3>2, <3>3, <3>4, GoesUsed DEF LookupClosed
  <2> QED
    BY <2>1, <2>2
<1> QED
  BY <1>1, DropUsed, ReleaseUsed DEF Closing


-----------------------------------------------------------------------------
(* References *)

\* Who refers to an instance after a step of one thread.
LEMMA HoldersAfter ==
  ASSUME TypeInv, NEW t \in Threads, NEW s, NEW l,
         pc' = [pc EXCEPT ![t] = s], local' = [local EXCEPT ![t] = l], NEW p
  PROVE  HoldersOf(p)' = IF s \in Referring /\ l.path = p THEN HoldersOf(p) \cup {t}
                         ELSE HoldersOf(p) \ {t}
<1>1. /\ pc'[t] = s /\ local'[t] = l
      /\ \A u \in Threads \ {t} : pc'[u] = pc[u] /\ local'[u] = local[u]
  BY Moved
<1>2. HoldersOf(p)' = {u \in Threads : pc'[u] \in Referring /\ local'[u].path = p}
  BY DEF HoldersOf, Referring
<1>3. HoldersOf(p)' \ {t} = HoldersOf(p) \ {t}
  BY <1>1, <1>2 DEF HoldersOf
<1>4. t \in HoldersOf(p)' <=> s \in Referring /\ l.path = p
  BY <1>1, <1>2
<1> QED
  BY <1>3, <1>4

LEMMA CountKept ==
  ASSUME TypeInv, CountsReferences, NEW t \in Threads, NEW s, NEW l,
         pc' = [pc EXCEPT ![t] = s], local' = [local EXCEPT ![t] = l],
         s \in Referring <=> pc[t] \in Referring,
         s \in Referring => l.path = local[t].path,
         UNCHANGED <<registry, instances>>
  PROVE  CountsReferences'
<1> SUFFICES ASSUME NEW p \in Paths
             PROVE  instances'[p].count =
                      Cardinality(HandlesOf(p)') + Cardinality(HoldersOf(p)')
  BY DEF CountsReferences
<1>1. HandlesOf(p)' = HandlesOf(p)
  BY DEF HandlesOf
<1>2. HoldersOf(p)' = HoldersOf(p)
  BY Moved DEF HoldersOf
<1> QED
  BY <1>1, <1>2 DEF CountsReferences

LEMMA ReturnCounts ==
  ASSUME TypeInv, CountsReferences, NEW t \in Threads, Return(t), pc[t] \notin Referring,
         UNCHANGED <<registry, instances>>
  PROVE  CountsReferences'
<1>1. "idle" \notin Referring
  BY DEF Referring
<1> QED
  BY <1>1, CountKept DEF Return, Goto

\* A step on the way from one step without a reference to another.
LEMMA StepCounts ==
  ASSUME TypeInv, CountsReferences, NEW t \in Threads, NEW s, Goto(t, s),
         s \notin Referring, pc[t] \notin Referring, NEW l,
         local' = [local EXCEPT ![t] = l], UNCHANGED <<registry, instances>>
  PROVE  CountsReferences'
  BY CountKept DEF Goto

\* The sizes of the sets of handles and of holders, when one leaves or joins.
LEMMA Sizes ==
  ASSUME NEW S, IsFiniteSet(S), NEW x
  PROVE  /\ Cardinality(S) \in Nat
         /\ x \notin S => Cardinality(S \cup {x}) = Cardinality(S) + 1
         /\ x \in S => Cardinality(S \ {x}) = Cardinality(S) - 1
         /\ x \in S => S \cup {x} = S
         /\ x \notin S => S \ {x} = S
<1>1. Cardinality(S) \in Nat
  BY FS_CardinalityType
<1>2. x \notin S => Cardinality(S \cup {x}) = Cardinality(S) + 1
  BY FS_AddElement
<1>3. x \in S => Cardinality(S \ {x}) = Cardinality(S) - 1
  BY FS_RemoveElement
<1> QED
  BY <1>1, <1>2, <1>3

\* A step that counts a reference in, or out, for the thread.
LEMMA CountMoved ==
  ASSUME TypeInv, CountsReferences, NEW t \in Threads, NEW s, NEW l, NEW p \in Paths,
         pc' = [pc EXCEPT ![t] = s], local' = [local EXCEPT ![t] = l],
         l.path = p \/ s \notin Referring,
         local[t].path = p \/ pc[t] \notin Referring,
         UNCHANGED registry,
         \A q \in Paths \ {p} : instances'[q] = instances[q],
         instances[p].count \in Nat,
         instances'[p].count = instances[p].count
           + (IF s \in Referring THEN 1 ELSE 0) - (IF pc[t] \in Referring THEN 1 ELSE 0)
  PROVE  CountsReferences'
<1> SUFFICES ASSUME NEW q \in Paths
             PROVE  instances'[q].count =
                      Cardinality(HandlesOf(q)') + Cardinality(HoldersOf(q)')
  BY DEF CountsReferences
<1>1. HandlesOf(q)' = HandlesOf(q)
  BY DEF HandlesOf
<1>2. HoldersOf(q)' = IF s \in Referring /\ l.path = q THEN HoldersOf(q) \cup {t}
                      ELSE HoldersOf(q) \ {t}
  BY HoldersAfter
<1>3. t \in HoldersOf(q) <=> pc[t] \in Referring /\ local[t].path = q
  BY DEF HoldersOf
<1>4. instances[q].count = Cardinality(HandlesOf(q)) + Cardinality(HoldersOf(q))
  BY DEF CountsReferences
<1>5. /\ Cardinality(HandlesOf(q)) \in Nat /\ Cardinality(HoldersOf(q)) \in Nat
      /\ t \notin HoldersOf(q) => /\ Cardinality(HoldersOf(q) \cup {t})
                                       = Cardinality(HoldersOf(q)) + 1
                                  /\ HoldersOf(q) \ {t} = HoldersOf(q)
      /\ t \in HoldersOf(q) => /\ Cardinality(HoldersOf(q) \ {t})
                                    = Cardinality(HoldersOf(q)) - 1
                               /\ HoldersOf(q) \cup {t} = HoldersOf(q)
  BY HandlesFinite, Sizes
<1>6. CASE q # p
  <2>1. HoldersOf(q)' = HoldersOf(q)
    BY <1>2, <1>3, <1>6
  <2> QED
    BY <1>1, <1>4, <1>6, <2>1
<1>7. CASE q = p /\ s \in Referring
  <2>1. HoldersOf(q)' = HoldersOf(q) \cup {t}
    BY <1>2, <1>7
  <2>2. CASE pc[t] \in Referring
    <3>1. instances'[q].count = instances[q].count
      BY <1>7, <2>2
    <3>2. HoldersOf(q)' = HoldersOf(q)
      BY <1>3, <1>5, <1>7, <2>1, <2>2
    <3> QED
      BY <1>1, <1>4, <3>1, <3>2
  <2>3. CASE pc[t] \notin Referring
    <3>1. instances'[q].count = instances[q].count + 1
      BY <1>7, <2>3
    <3>2. Cardinality(HoldersOf(q)') = Cardinality(HoldersOf(q)) + 1
      BY <1>3, <1>5, <2>1, <2>3
    <3> QED
      BY <1>1, <1>4, <1>5, <3>1, <3>2
  <2> QED
    BY <2>2, <2>3
<1>8. CASE q = p /\ s \notin Referring
  <2>1. HoldersOf(q)' = HoldersOf(q) \ {t}
    BY <1>2, <1>8
  <2>2. CASE pc[t] \in Referring
    <3>1. instances'[q].count = instances[q].count - 1
      BY <1>8, <2>2
    <3>2. Cardinality(HoldersOf(q)') = Cardinality(HoldersOf(q)) - 1
      BY <1>3, <1>5, <1>8, <2>1, <2>2
    <3> QED
      BY <1>1, <1>4, <1>5, <3>1, <3>2
  <2>3. CASE pc[t] \notin Referring
    <3>1. instances'[q].count = instances[q].count
      BY <1>8, <2>3
    <3>2. HoldersOf(q)' = HoldersOf(q)
      BY <1>3, <1>5, <2>1, <2>3
    <3> QED
      BY <1>1, <1>4, <3>1, <3>2
  <2> QED
    BY <2>2, <2>3
<1> QED
  BY <1>6, <1>7, <1>8


LEMMA CountIn ==
  ASSUME TypeInv, CountsReferences, NEW t \in Threads, NEW s, NEW l, NEW p \in Paths,
         pc' = [pc EXCEPT ![t] = s], local' = [local EXCEPT ![t] = l],
         s \in Referring, pc[t] \notin Referring, l.path = p,
         UNCHANGED registry,
         \A q \in Paths \ {p} : instances'[q] = instances[q],
         instances[p].count \in Nat,
         instances'[p].count = instances[p].count + 1
  PROVE  CountsReferences'
<1>1. instances'[p].count = instances[p].count
        + (IF s \in Referring THEN 1 ELSE 0) - (IF pc[t] \in Referring THEN 1 ELSE 0)
  OBVIOUS
<1> QED
  BY <1>1, CountMoved

LEMMA CountOut ==
  ASSUME TypeInv, CountsReferences, NEW t \in Threads, NEW p \in Paths, Return(t),
         pc[t] \in Referring, local[t].path = p,
         UNCHANGED registry,
         \A q \in Paths \ {p} : instances'[q] = instances[q],
         instances[p].count \in Nat,
         instances'[p].count = instances[p].count - 1
  PROVE  CountsReferences'
<1>1. "idle" \notin Referring
  BY DEF Referring
<1>2. instances'[p].count = instances[p].count
        + (IF "idle" \in Referring THEN 1 ELSE 0) - (IF pc[t] \in Referring THEN 1 ELSE 0)
  BY <1>1
<1>3. pc' = [pc EXCEPT ![t] = "idle"] /\ local' = [local EXCEPT ![t] = Fresh]
  BY DEF Return, Goto
<1> QED
  BY <1>1, <1>2, <1>3, CountMoved

LEMMA RegisterCounts ==
  ASSUME TypeInv, UsedInv, CountsReferences, NEW t \in Threads, RegisterHandle(t)
  PROVE  CountsReferences'
<1> DEFINE h == local[t].handle
           p == local[t].path
<1> SUFFICES ASSUME NEW q \in Paths
             PROVE  instances'[q].count =
                      Cardinality(HandlesOf(q)') + Cardinality(HoldersOf(q)')
  BY DEF CountsReferences
<1>0. /\ pc[t] = "register" /\ h \in Handles /\ p \in Paths
      /\ registry' = [registry EXCEPT ![h] = [inst |-> local[t].inst, path |-> p]]
      /\ registry \in [Handles -> Entries \cup {NoEntry}]
      /\ UNCHANGED instances /\ Return(t)
  BY OwnUsed DEF RegisterHandle, TypeInv, TypeOK, Locals, Shape, Referring
<1>1. registry[h] = NoEntry
  <2>1. owner[h] = NoThread
    BY <1>0, OwnUsed DEF ThreadOK, NewHandleOK
  <2> QED
    BY <1>0, <2>1 DEF UsedInv, EntryInv
<1>2. h \notin HandlesOf(q)
  BY <1>1, LibConstants DEF HandlesOf, NoEntry
<1>3. HandlesOf(q)' = IF p = q THEN HandlesOf(q) \cup {h} ELSE HandlesOf(q)
  <2>1. /\ registry'[h].path = p
        /\ \A g \in Handles \ {h} : registry'[g] = registry[g]
    BY <1>0
  <2>2. HandlesOf(q)' = {g \in Handles : registry'[g].path = q}
    BY DEF HandlesOf, Handles
  <2>3. HandlesOf(q)' \ {h} = HandlesOf(q) \ {h} /\ (h \in HandlesOf(q)' <=> p = q)
    BY <1>0, <2>1, <2>2 DEF HandlesOf
  <2> HIDE DEF h, p
  <2> QED
    BY <1>2, <2>3
<1>4. HoldersOf(q)' = HoldersOf(q) \ {t}
  <2>1. "idle" \notin Referring
    BY DEF Referring
  <2> QED
    BY <1>0, <2>1, HoldersAfter DEF Return, Goto
<1>5. t \in HoldersOf(q) <=> p = q
  BY <1>0 DEF HoldersOf, Referring
<1>6. instances[q].count = Cardinality(HandlesOf(q)) + Cardinality(HoldersOf(q))
  BY DEF CountsReferences
<1>7. /\ Cardinality(HandlesOf(q)) \in Nat /\ Cardinality(HoldersOf(q)) \in Nat
      /\ Cardinality(HandlesOf(q) \cup {h}) = Cardinality(HandlesOf(q)) + 1
  BY <1>2, HandlesFinite, Sizes
<1>8. t \in HoldersOf(q) => Cardinality(HoldersOf(q) \ {t}) = Cardinality(HoldersOf(q)) - 1
  BY HandlesFinite, Sizes
<1>9. t \notin HoldersOf(q) => HoldersOf(q) \ {t} = HoldersOf(q)
  OBVIOUS
<1> HIDE DEF h, p
<1>10. CASE p = q
  BY <1>0, <1>3, <1>4, <1>5, <1>6, <1>7, <1>8, <1>10
<1>11. CASE p # q
  BY <1>0, <1>3, <1>4, <1>5, <1>6, <1>9, <1>11
<1> QED
  BY <1>10, <1>11

LEMMA DropCounts ==
  ASSUME TypeInv, UsedInv, CountsReferences, NEW t \in Threads, DropHandle(t)
  PROVE  CountsReferences'
<1> DEFINE h == local[t].handle
           p == local[t].path
<1> SUFFICES ASSUME NEW q \in Paths
             PROVE  instances'[q].count =
                      Cardinality(HandlesOf(q)') + Cardinality(HoldersOf(q)')
  BY DEF CountsReferences
<1>0. /\ pc[t] = "drop" /\ h \in Handles /\ local[t] \in Locals
      /\ registry' = [registry EXCEPT ![h] = NoEntry]
      /\ registry \in [Handles -> Entries \cup {NoEntry}]
      /\ UNCHANGED <<instances, local>> /\ pc' = [pc EXCEPT ![t] = "release"]
      /\ local' = [local EXCEPT ![t] = local[t]]
  BY OwnUsed DEF DropHandle, Goto, TypeInv, TypeOK, Locals
<1>1. registry[h].path = p
  BY <1>0, OwnUsed DEF ThreadOK, EntryOK
<1>2. h \in HandlesOf(q) <=> p = q
  BY <1>0, <1>1 DEF HandlesOf
<1>3. HandlesOf(q)' = HandlesOf(q) \ {h}
  <2>1. /\ registry'[h].path # q
        /\ \A g \in Handles \ {h} : registry'[g] = registry[g]
    BY <1>0, LibConstants DEF NoEntry
  <2>2. HandlesOf(q)' = {g \in Handles : registry'[g].path = q}
    BY DEF HandlesOf, Handles
  <2> HIDE DEF h
  <2> QED
    BY <2>1, <2>2 DEF HandlesOf
<1>4. HoldersOf(q)' = IF p = q THEN HoldersOf(q) \cup {t} ELSE HoldersOf(q) \ {t}
  <2>1. "release" \in Referring
    BY DEF Referring
  <2>2. /\ pc'[t] = "release" /\ local'[t].path = p
        /\ \A u \in Threads \ {t} : pc'[u] = pc[u] /\ local'[u] = local[u]
    BY <1>0 DEF TypeInv, TypeOK
  <2>3. HoldersOf(q)' = {u \in Threads : pc'[u] \in Referring /\ local'[u].path = q}
    BY DEF HoldersOf, Referring
  <2>4. HoldersOf(q)' \ {t} = HoldersOf(q) \ {t} /\ (t \in HoldersOf(q)' <=> p = q)
    BY <2>1, <2>2, <2>3 DEF HoldersOf
  <2> QED
    BY <2>4
<1>5. t \notin HoldersOf(q)
  BY <1>0 DEF HoldersOf, Referring
<1>6. instances[q].count = Cardinality(HandlesOf(q)) + Cardinality(HoldersOf(q))
  BY DEF CountsReferences
<1>7. /\ Cardinality(HandlesOf(q)) \in Nat /\ Cardinality(HoldersOf(q)) \in Nat
      /\ Cardinality(HoldersOf(q) \cup {t}) = Cardinality(HoldersOf(q)) + 1
  BY <1>5, HandlesFinite, Sizes
<1>8. h \in HandlesOf(q) => Cardinality(HandlesOf(q) \ {h}) = Cardinality(HandlesOf(q)) - 1
  BY HandlesFinite, Sizes
<1>9. /\ HoldersOf(q) \ {t} = HoldersOf(q)
      /\ h \notin HandlesOf(q) => HandlesOf(q) \ {h} = HandlesOf(q)
  BY <1>5
<1> HIDE DEF h, p
<1>10. CASE p = q
  BY <1>0, <1>2, <1>3, <1>4, <1>6, <1>7, <1>8, <1>10
<1>11. CASE p # q
  BY <1>0, <1>2, <1>3, <1>4, <1>6, <1>9, <1>11
<1> QED
  BY <1>10, <1>11

LEMMA ReleaseCounts ==
  ASSUME TypeInv, CountsReferences, NEW t \in Threads, Release(t) PROVE CountsReferences'
<1> DEFINE p == local[t].path
           i == instances[p]
<1>0. /\ pc[t] = "release" /\ p \in Paths /\ Return(t) /\ UNCHANGED registry
      /\ instances \in [Paths -> [inst : Instances, count : Nat \ {0}] \cup {NoInstance}]
  BY OwnedShape DEF Release, Shape, Referring, TypeInv, TypeOK
<1>1. i.count \in Nat /\ i.count # 0
  <2>1. t \in HoldersOf(p)
    BY <1>0 DEF HoldersOf, Referring
  <2>2. i.count \in Nat
    BY <1>0 DEF NoInstance
  <2> QED
    BY <1>0, <2>1, <2>2, LastOne
<1>2. i # NoInstance
  BY <1>1 DEF NoInstance
<1>3. instances'[p].count = i.count - 1
  <2>1. CASE LastReference(i)
    BY <1>0, <1>1, <1>2, <2>1 DEF Release, LastReference, NoInstance
  <2>2. CASE ~LastReference(i)
    <3>1. i \in [inst : Instances, count : Nat \ {0}]
      BY <1>0, <1>2
    <3>2. instances' = [instances EXCEPT ![p] = [i EXCEPT !.count = i.count - 1]]
      BY <1>2, <2>2 DEF Release
    <3> HIDE DEF p
    <3> QED
      BY <1>0, <3>1, <3>2
  <2> QED
    BY <2>1, <2>2
<1>4. \A q \in Paths \ {p} : instances'[q] = instances[q]
  BY <1>0 DEF Release
<1>5. "idle" \notin Referring /\ pc[t] \in Referring
  BY <1>0 DEF Referring
<1> QED
  BY <1>0, <1>1, <1>3, <1>4, <1>5, CountOut

LEMMA ReuseCounts ==
  ASSUME TypeInv, CountsReferences, NEW t \in Threads, Reuse(t) PROVE CountsReferences'
<1> DEFINE p == local[t].path
           l == [local[t] EXCEPT !.inst = instances[p].inst]
<1>0. p \in Paths /\ l.path = p
  BY OwnedShape DEF Reuse, Shape, Locals
<1>1. instances[p] \in [inst : Instances, count : Nat \ {0}]
  BY <1>0 DEF Reuse, TypeInv, TypeOK
<1>2. instances'[p].count = instances[p].count + 1
  BY <1>0, <1>1 DEF Reuse, Counted, TypeInv, TypeOK
<1>3. \A q \in Paths \ {p} : instances'[q] = instances[q]
  BY <1>0 DEF Reuse, TypeInv, TypeOK
<1>4. "assign" \in Referring /\ pc[t] \notin Referring
  BY DEF Reuse, Referring
<1>5. local' = [local EXCEPT ![t] = l] /\ pc' = [pc EXCEPT ![t] = "assign"] /\ UNCHANGED registry
  BY DEF Reuse, Goto
<1>6. instances[p].count \in Nat
  BY <1>1
<1> HIDE DEF l, p
<1> QED
  BY <1>0, <1>2, <1>3, <1>4, <1>5, <1>6, CountIn

LEMMA FillCounts ==
  ASSUME TypeInv, UsedInv, CountsReferences, NEW t \in Threads, NEW lost,
         Filled(t, lost)
  PROVE  CountsReferences'
<1> DEFINE p == local[t].path
<1>0. p \in Paths /\ local' = [local EXCEPT ![t] = local[t]]
  BY OwnedShape DEF Filled, Shape, Creating, TypeInv, TypeOK
<1>1. instances[p] = NoInstance
  BY OwnUsed DEF Filled, ThreadOK, CreatorOK, Creating
<1>2. instances'[p].count = 1 /\ \A q \in Paths \ {p} : instances'[q] = instances[q]
  BY <1>0 DEF Filled, TypeInv, TypeOK
<1>3. "assign" \in Referring /\ pc[t] \notin Referring
  BY DEF Filled, Referring
<1>4. instances[p].count = 0 /\ instances'[p].count = instances[p].count + 1
  BY <1>1, <1>2 DEF NoInstance
<1>5. pc' = [pc EXCEPT ![t] = "assign"] /\ UNCHANGED registry
  BY DEF Filled, Goto
<1>6. local[t].path = p /\ instances[p].count \in Nat
  BY <1>4
<1> HIDE DEF p
<1> QED
  BY <1>0, <1>2, <1>3, <1>4, <1>5, <1>6, CountIn

LEMMA AssignCounts ==
  ASSUME TypeInv, CountsReferences, NEW t \in Threads, AssignHandle(t) PROVE CountsReferences'
<1> DEFINE l == [local[t] EXCEPT !.handle = counter]
<1>1. l.path = local[t].path
  BY OwnedShape DEF Locals
<1>2. "register" \in Referring /\ pc[t] \in Referring
  BY DEF AssignHandle, Referring
<1>3. pc' = [pc EXCEPT ![t] = "register"] /\ local' = [local EXCEPT ![t] = l]
  BY DEF AssignHandle, Goto
<1> HIDE DEF l
<1> QED
  BY <1>1, <1>2, <1>3, CountKept DEF AssignHandle


LEMMA CallCounts ==
  ASSUME TypeInv, CountsReferences, NEW t \in Threads, Calls(t) PROVE CountsReferences'
<1>1. PICK s \in {"open", "close", "lookup"}, r \in Requests, h \in Handles,
           p \in Paths \cup {NoPath} : Start(t, s, r, h, p)
  BY CallStarts
<1>2. s \notin Referring /\ pc[t] \notin Referring
  BY <1>1 DEF Start, Referring
<1>3. \E l : local' = [local EXCEPT ![t] = l]
  BY <1>1 DEF Start
<1> QED
  BY <1>1, <1>2, <1>3, StepCounts DEF Start

LEMMA OpenCounts ==
  ASSUME TypeInv, UsedInv, CountsReferences, NEW t \in Threads, Opening(t)
  PROVE  CountsReferences'
<1>0. local = [local EXCEPT ![t] = local[t]]
  BY DEF TypeInv, TypeOK
<1>1. CASE OpenStorage(t)
  <2>1. "writer" \notin Referring /\ pc[t] \notin Referring
    BY <1>1 DEF OpenStorage, Referring
  <2>2. \E l : local' = [local EXCEPT ![t] = l]
    BY <1>1 DEF OpenStorage
  <2> QED
    BY <1>1, <2>1, <2>2, StepCounts DEF OpenStorage
<1>2. CASE StorageFails(t) \/ NoWriter(t) \/ ListFails(t)
  BY <1>2, ReturnCounts DEF StorageFails, NoWriter, ListFails, GiveUp, Referring
<1>3. CASE OpenWriter(t)
  <2>1. "list" \notin Referring /\ pc[t] \notin Referring
    BY <1>3 DEF OpenWriter, Referring
  <2> QED
    BY <1>0, <1>3, <2>1, StepCounts DEF OpenWriter
<1>4. CASE List(t)
  <2>1. "fill" \notin Referring /\ pc[t] \notin Referring
    BY <1>4 DEF List, Referring
  <2>2. \E l : local' = [local EXCEPT ![t] = l]
    BY <1>4 DEF List
  <2> QED
    BY <1>4, <2>1, <2>2, StepCounts DEF List
<1> QED
  BY <1>1, <1>2, <1>3, <1>4, ReuseCounts, FillLost, FillCounts, AssignCounts, RegisterCounts
  DEF Opening

LEMMA CloseCounts ==
  ASSUME TypeInv, UsedInv, CountsReferences, NEW t \in Threads, Closing(t)
  PROVE  CountsReferences'
<1>1. CASE LookupClosed(t) /\ registry[local[t].handle] = NoEntry
  BY <1>1, ReturnCounts DEF LookupClosed, Referring
<1>2. CASE LookupClosed(t) /\ registry[local[t].handle] # NoEntry
  <2>1. "drop" \notin Referring /\ pc[t] \notin Referring
    BY <1>2 DEF LookupClosed, Referring
  <2>2. \E l : local' = [local EXCEPT ![t] = l]
    BY <1>2 DEF LookupClosed
  <2> QED
    BY <1>2, <2>1, <2>2, StepCounts DEF LookupClosed
<1> QED
  BY <1>1, <1>2, DropCounts, ReleaseCounts DEF Closing

LEMMA WriteCounts ==
  ASSUME TypeInv, CountsReferences, NEW t \in Threads, Writing(t) PROVE CountsReferences'
<1>0. /\ local = [local EXCEPT ![t] = local[t]]
      /\ \A s \in Working : s \notin Referring
  BY DEF TypeInv, TypeOK, Working, Referring
<1>1. CASE Lookup(t)
  <2>1. CASE Return(t)
    BY <1>1, <2>1, ReturnCounts DEF Lookup, Referring
  <2>2. CASE registry[local[t].handle] # NoEntry
    <3>1. PICK s \in Working : Goto(t, s)
      BY <1>1, <2>2 DEF Lookup, Working
    <3>2. \E l : local' = [local EXCEPT ![t] = l]
      BY <1>1, <2>2 DEF Lookup
    <3> QED
      BY <1>0, <1>1, <3>1, <3>2, StepCounts DEF Lookup, Referring
  <2> QED
    BY <1>1, <2>1, <2>2 DEF Lookup
<1>2. CASE Save(t) \/ Remove(t)
  <2>1. PICK s \in Working : Goto(t, s)
    BY <1>2 DEF Save, Remove, Working
  <2> QED
    BY <1>0, <1>2, <2>1, StepCounts DEF Save, Remove, Referring
<1>3. CASE Exists(t)
  <2>1. CASE Return(t)
    BY <1>3, <2>1, ReturnCounts DEF Exists, Referring
  <2>2. CASE Goto(t, "remove") /\ UNCHANGED local
    BY <1>0, <1>3, <2>2, StepCounts DEF Exists, Referring
  <2> QED
    BY <1>3, <2>1, <2>2 DEF Exists
<1>4. CASE CommitFails(t) \/ File(t) \/ Unfile(t) \/ IndexingFails(t)
  BY <1>4, ReturnCounts DEF CommitFails, File, Unfile, IndexingFails, Referring
<1> QED
  BY <1>1, <1>2, <1>3, <1>4 DEF Writing

\* The references are counted when every client uses only handles it opened.
RefInv == TypeInv /\ UsedInv /\ CountsReferences

LEMMA InitRefs == Init => RefInv
<1> SUFFICES ASSUME Init PROVE CountsReferences
  BY InitTypes, InitUsed DEF RefInv
<1>1. \A p \in Paths : HandlesOf(p) = {} /\ HoldersOf(p) = {}
  BY LibConstants DEF Init, HandlesOf, HoldersOf, Referring, NoEntry
<1> QED
  BY <1>1, FS_EmptySet DEF Init, CountsReferences, NoInstance

LEMMA NextRefs == ASSUME Private, RefInv, [Next]_vars PROVE RefInv'
<1>1. TypeInv'
  BY NextTypes DEF RefInv
<1>2. CASE UNCHANGED vars
  <2>1. UsedInv'
    BY <1>2
    DEF vars, resources, RefInv, UsedInv, LockInv, InstanceInv, UnmadeInv, UnassignedInv,
        EntryInv, NewHandlesInv, ThreadInv, ThreadOK, CreatorOK, HolderOK, NewHandleOK, OwnerOK,
        EntryOK, Refers, Open
  <2>2. CountsReferences'
    BY <1>2 DEF vars, RefInv, CountsReferences, HandlesOf, HoldersOf
  <2> QED
    BY <1>1, <2>1, <2>2 DEF RefInv
<1>3. CASE Next
  <2>1. PICK t \in Threads : Calls(t) \/ Opening(t) \/ Closing(t) \/ Writing(t)
    BY <1>3 DEF Next, Work
  <2>2. UsedInv'
    BY <2>1, CallUsed, OpenUsed, CloseUsed, WriteUsed DEF RefInv
  <2>3. CountsReferences'
    BY <2>1, CallCounts, OpenCounts, CloseCounts, WriteCounts DEF RefInv
  <2> QED
    BY <1>1, <2>2, <2>3 DEF RefInv
<1> QED
  BY <1>2, <1>3

LEMMA RefsInvariant == Private => (Spec => []RefInv)
<1> SUFFICES ASSUME Private PROVE Spec => []RefInv
  OBVIOUS
<1>1. RefInv /\ [Next]_vars => RefInv'
  BY NextRefs
<1> QED
  BY <1>1, InitRefs, PTL DEF Spec

\* The count of an instance is the number of handles and threads that refer to it,
\* though handles are registered and dropped outside the lock, as long as a client
\* closes only handles it opened.
THEOREM ReferencesCounted == Private => (Spec => []CountsReferences)
<1> SUFFICES ASSUME Private PROVE Spec => []CountsReferences
  OBVIOUS
<1>1. RefInv => CountsReferences
  BY DEF RefInv
<1> QED
  BY <1>1, RefsInvariant, PTL

\* No close of another handle closes the repository or the index under a registered
\* handle, or under a call at work.
THEOREM OpenUnderUse == Private => (Spec => []OpenWhileUsed)
<1> SUFFICES ASSUME Private PROVE Spec => []OpenWhileUsed
  OBVIOUS
<1>1. ASSUME RefInv PROVE OpenWhileUsed
  <2>1. \A i, p : Refers(i, p) => Open(i, p)
    BY <1>1 DEF RefInv, UsedInv, InstanceInv, Refers
  <2>2. HandlesOpen
    BY <1>1, <2>1 DEF RefInv, UsedInv, EntryInv, HandlesOpen
  <2>3. ASSUME NEW t \in Threads, pc[t] \in Working
        PROVE  Open(local[t].inst, local[t].path)
    <3>1. /\ registry[local[t].handle] = [inst |-> local[t].inst, path |-> local[t].path]
          /\ local[t].handle \in Handles /\ local[t].path \in Paths
      BY <1>1, <2>3, OwnUsed DEF RefInv, ThreadOK, EntryOK, Locals, Shape
    <3>2. registry[local[t].handle] # NoEntry
      BY <3>1, LibConstants DEF NoEntry
    <3>3. Open(registry[local[t].handle].inst, registry[local[t].handle].path)
      BY <3>1, <3>2, <2>2 DEF HandlesOpen
    <3> QED
      BY <3>1, <3>3
  <2> QED
    BY <2>2, <2>3 DEF OpenWhileUsed
<1> QED
  BY <1>1, RefsInvariant, PTL

-----------------------------------------------------------------------------
(* Stored and filed documents *)

\* No two threads write the same document.
OwnDocsOnly == \A t, u \in Threads : t # u => DocsOf[t] \cap DocsOf[u] = {}

Matches(p, d) == d \in git[p] <=> d \in index[p]
BusyBy(t, p, d) == pc[t] \in Working /\ local[t].path = p /\ req[t].doc = d

\* While a path is closed its index may be behind, but files nothing that is gone.
DocOK(p, d) ==
  Busy(p, d) \/ <<p, d>> \in missed \/ Matches(p, d)
    \/ (instances[p] = NoInstance /\ d \notin index[p])
DocInv == \A p \in Paths, d \in Docs : DocOK(p, d)

\* What a thread knows of the document it writes, and of those it listed.
WriterOK(s, r, l) ==
  /\ s = "fill" => l.seen = git[l.path]
  /\ s = "file" => r.doc \in git[l.path]
  /\ s = "unfile" => r.doc \notin git[l.path]
  /\ s \in {"save", "exists", "remove"} =>
       <<l.path, r.doc>> \in missed \/ Matches(l.path, r.doc)
WritersInv == \A t \in Threads : WriterOK(pc[t], req[t], local[t])

SearchInv == DocInv /\ WritersInv

OthersStay(t) ==
  \A u \in Threads \ {t} : pc'[u] = pc[u] /\ req'[u] = req[u] /\ local'[u] = local[u]

LEMMA StepOthers ==
  ASSUME TypeInv, NEW t \in Threads, Calls(t) \/ Work(t) PROVE OthersStay(t)
<1>0. pc \in [Threads -> PCs] /\ req \in [Threads -> Requests \cup {NoRequest}]
      /\ local \in [Threads -> Locals]
  BY DEF TypeInv, TypeOK
<1>1. ASSUME Return(t) PROVE OthersStay(t)
  BY <1>0, <1>1 DEF Return, Goto, OthersStay
<1>2. CASE Calls(t)
  <2>1. PICK s \in {"open", "close", "lookup"}, r \in Requests, h \in Handles,
             p \in Paths \cup {NoPath} : Start(t, s, r, h, p)
    BY <1>2, CallStarts
  <2> QED
    BY <1>0, <2>1 DEF Start, Goto, OthersStay
<1>3. CASE Opening(t)
  BY <1>0, <1>1, <1>3
  DEF Opening, Reuse, OpenStorage, StorageFails, OpenWriter, NoWriter, List, ListFails, Fill,
      FillMisses, Filled,
      AssignHandle, RegisterHandle, GiveUp, Goto, OthersStay
<1>4. CASE Closing(t)
  BY <1>0, <1>1, <1>4 DEF Closing, LookupClosed, DropHandle, Release, Goto, OthersStay
<1>5. CASE Writing(t)
  BY <1>0, <1>1, <1>5
  DEF Writing, Lookup, Save, Exists, Remove, CommitFails, File, Unfile, IndexingFails, Goto,
      OthersStay
<1> QED
  BY <1>2, <1>3, <1>4, <1>5 DEF Work

\* A step that stores and files nothing.
LEMMA SearchKept ==
  ASSUME SearchInv, NEW t \in Threads, OthersStay(t), UNCHANGED fileVars,
         \A p \in Paths : instances'[p] = NoInstance <=> instances[p] = NoInstance,
         WriterOK(pc'[t], req'[t], local'[t]),
         \A p \in Paths, d \in Docs :
           BusyBy(t, p, d) => BusyBy(t, p, d)' \/ <<p, d>> \in missed \/ Matches(p, d)
  PROVE  SearchInv'
<1>0. git' = git /\ index' = index /\ missed' = missed
  BY DEF fileVars
<1>1. DocInv'
  <2> SUFFICES ASSUME NEW p \in Paths, NEW d \in Docs PROVE DocOK(p, d)'
    BY DEF DocInv
  <2>1. DocOK(p, d)
    BY DEF SearchInv, DocInv
  <2>2. CASE Busy(p, d)
    <3>1. PICK u \in Threads : BusyBy(u, p, d)
      BY <2>2 DEF Busy, BusyBy
    <3>2. CASE u # t
      BY <3>1, <3>2 DEF OthersStay, BusyBy, Busy, DocOK
    <3>3. CASE u = t
      BY <1>0, <3>1, <3>3 DEF BusyBy, Busy, DocOK, Matches
    <3> QED
      BY <3>2, <3>3
  <2>3. CASE ~Busy(p, d)
    BY <1>0, <2>1, <2>3 DEF DocOK, Matches
  <2> QED
    BY <2>2, <2>3
<1>2. WritersInv'
  <2> SUFFICES ASSUME NEW u \in Threads PROVE WriterOK(pc[u], req[u], local[u])'
    BY DEF WritersInv
  <2>1. WriterOK(pc'[u], req'[u], local'[u])
    BY DEF OthersStay, SearchInv, WritersInv
  <2> QED
    BY <1>0, <2>1 DEF WriterOK, Matches
<1> QED
  BY <1>1, <1>2 DEF SearchInv

\* ... by a thread that is not writing.
LEMMA SearchIdle ==
  ASSUME SearchInv, NEW t \in Threads, OthersStay(t), UNCHANGED fileVars,
         \A p \in Paths : instances'[p] = NoInstance <=> instances[p] = NoInstance,
         pc[t] \notin Working, NEW s, s \notin Working \cup {"fill"}, pc'[t] = s
  PROVE  SearchInv'
<1>1. WriterOK(pc'[t], req'[t], local'[t])
  BY DEF WriterOK, Working
<1>2. \A p \in Paths, d \in Docs : ~BusyBy(t, p, d)
  BY DEF BusyBy
<1> QED
  BY <1>1, <1>2, SearchKept

\* A thread at work uses a path that has an instance, which nobody is making.
LEMMA AtWork ==
  ASSUME RefInv, NEW t \in Threads, pc[t] \in Working
  PROVE  /\ local[t].path \in Paths /\ instances[local[t].path] # NoInstance
         /\ req[t].doc \in DocsOf[t] /\ req[t].doc \in Docs
         /\ \A u \in Threads : pc[u] = "fill" => local[u].path # local[t].path
         /\ HandlesOf(local[t].path) # {}
<1>1. /\ local[t].path \in Paths /\ req[t].doc \in DocsOf[t]
      /\ local[t].handle \in Handles
      /\ registry[local[t].handle] = [inst |-> local[t].inst, path |-> local[t].path]
  BY OwnUsed DEF RefInv, Shape, Locals, ThreadOK, EntryOK
<1>2. registry[local[t].handle] # NoEntry
  BY <1>1, LibConstants DEF NoEntry
<1>3. instances[local[t].path] # NoInstance
  BY <1>1, <1>2 DEF RefInv, UsedInv, EntryInv, Refers
<1>4. \A u \in Threads : pc[u] = "fill" => instances[local[u].path] = NoInstance
  BY DEF RefInv, UsedInv, ThreadInv, ThreadOK, CreatorOK, Creating
<1>5. local[t].handle \in HandlesOf(local[t].path)
  BY <1>1 DEF HandlesOf
<1> QED
  BY <1>1, <1>3, <1>4, <1>5, LibConstants

\* Two threads at work do not write the same document.
LEMMA WorkApart ==
  ASSUME OwnDocsOnly, RefInv, NEW t \in Threads, NEW u \in Threads \ {t},
         pc[t] \in Working \cup {"lookup"}, pc[u] \in Working
  PROVE  req[u].doc # req[t].doc
  BY OwnUsed DEF OwnDocsOnly, RefInv, Shape


LEMMA CallSearch ==
  ASSUME RefInv, SearchInv, NEW t \in Threads, Calls(t) PROVE SearchInv'
<1>1. PICK s \in {"open", "close", "lookup"}, r \in Requests, h \in Handles,
           p \in Paths \cup {NoPath} : Start(t, s, r, h, p)
  BY CallStarts
<1>2. pc[t] \notin Working /\ s \notin Working \cup {"fill"} /\ pc'[t] = s
  BY <1>1 DEF Start, Goto, Working, RefInv, TypeInv, TypeOK
<1> QED
  BY <1>1, <1>2, StepOthers, SearchIdle DEF Start, RefInv

LEMMA FilledOthers ==
  ASSUME TypeInv, NEW t \in Threads, NEW lost, Filled(t, lost) PROVE OthersStay(t)
  BY DEF TypeInv, TypeOK, Filled, Goto, OthersStay

LEMMA FillSearch ==
  ASSUME RefInv, SearchInv, NEW t \in Threads,
         NEW lost \in SUBSET local[t].seen, Filled(t, lost)
  PROVE  SearchInv'
<1> DEFINE p == local[t].path
           seen == local[t].seen
<1>0. /\ pc[t] = "fill" /\ p \in Paths /\ seen = git[p] /\ git' = git
      /\ index' = [index EXCEPT ![p] = (index[p] \cup seen) \ lost]
      /\ missed' = (missed \ ({p} \X seen)) \cup ({p} \X lost)
      /\ index \in [Paths -> SUBSET Docs]
      /\ UNCHANGED <<req, local>> /\ pc'[t] = "assign"
  BY OwnUsed
  DEF Filled, Populated, Goto, Shape, Creating, RefInv, TypeInv, TypeOK, SearchInv, WritersInv,
      WriterOK
<1>1. OthersStay(t)
  BY FilledOthers DEF RefInv
<1>2. \A u \in Threads : pc[u] \in Working => local[u].path # p
  BY <1>0, AtWork
<1>3. \A u \in Threads : pc[u] = "fill" => u = t
  BY <1>0, OthersWait DEF RefInv, Creating
<1>4. DocInv'
  <2> SUFFICES ASSUME NEW q \in Paths, NEW d \in Docs PROVE DocOK(q, d)'
    BY DEF DocInv
  <2>1. DocOK(q, d)
    BY DEF SearchInv, DocInv
  <2>2. Busy(q, d)' <=> Busy(q, d)
    BY <1>0, <1>1 DEF Busy, OthersStay, Working
  <2>3. CASE q # p
    <3>1. instances'[q] = instances[q]
      BY <1>0, <2>3 DEF Filled, RefInv, TypeInv, TypeOK
    <3>2. index'[q] = index[q] /\ (<<q, d>> \in missed' <=> <<q, d>> \in missed)
      BY <1>0, <2>3
    <3> QED
      BY <1>0, <2>1, <2>2, <3>1, <3>2 DEF DocOK, Matches
  <2>4. CASE q = p
    <3>1. ~Busy(p, d)
      BY <1>2 DEF Busy
    <3>2. index'[p] = (index[p] \cup git[p]) \ lost
      BY <1>0
    <3>3. /\ d \in lost => d \in git[p] /\ <<p, d>> \in missed'
          /\ d \in git[p] \/ (<<p, d>> \in missed' <=> <<p, d>> \in missed)
      BY <1>0
    <3> HIDE DEF p
    <3> QED
      BY <1>0, <2>1, <2>2, <2>4, <3>1, <3>2, <3>3 DEF DocOK, Matches
  <2> QED
    BY <2>3, <2>4
<1>5. WritersInv'
  <2> SUFFICES ASSUME NEW u \in Threads PROVE WriterOK(pc[u], req[u], local[u])'
    BY DEF WritersInv
  <2>1. CASE u = t
    BY <1>0, <2>1 DEF WriterOK
  <2>2. CASE u # t
    <3>1. WriterOK(pc[u], req[u], local[u])
      BY DEF SearchInv, WritersInv
    <3>2. pc'[u] = pc[u] /\ pc[u] # "fill"
      BY <1>1, <1>3, <2>2 DEF OthersStay
    <3>3. pc[u] \in Working => index'[local[u].path] = index[local[u].path]
      BY <1>0, <1>2, AtWork
    <3>4. pc[u] \in Working =>
            (<<local[u].path, req[u].doc>> \in missed' <=>
               <<local[u].path, req[u].doc>> \in missed)
      BY <1>0, <1>2
    <3> QED
      BY <1>0, <3>1, <3>2, <3>3, <3>4 DEF WriterOK, Matches, Working
  <2> QED
    BY <2>1, <2>2
<1> QED
  BY <1>4, <1>5 DEF SearchInv

LEMMA OpenSearch ==
  ASSUME RefInv, SearchInv, NEW t \in Threads, Opening(t) PROVE SearchInv'
<1>0. /\ OthersStay(t) /\ local[t] \in Locals
      /\ pc \in [Threads -> PCs] /\ req \in [Threads -> Requests \cup {NoRequest}]
      /\ local \in [Threads -> Locals]
      /\ \A s : Goto(t, s) => pc'[t] = s
  BY StepOthers DEF RefInv, Work, TypeInv, TypeOK, Goto
<1>1. CASE Reuse(t)
  <2>1. \A p \in Paths : instances'[p] = NoInstance <=> instances[p] = NoInstance
    <3> DEFINE p == local[t].path
    <3>1. p \in Paths
      BY <1>1, OwnUsed DEF Reuse, Shape, RefInv
    <3>2. instances[p] \in [inst : Instances, count : Nat \ {0}]
      BY <1>1, <3>1 DEF Reuse, RefInv, TypeInv, TypeOK
    <3>3. instances' = [instances EXCEPT ![p] = Counted(instances[p])]
      BY <1>1 DEF Reuse
    <3>4. Counted(instances[p]) # NoInstance /\ instances[p] # NoInstance
      BY <3>2 DEF Counted, NoInstance, Instances
    <3> HIDE DEF p
    <3> QED
      BY <3>1, <3>3, <3>4 DEF RefInv, TypeInv, TypeOK
  <2>2. pc'[t] = "assign" /\ pc[t] \notin Working /\ "assign" \notin Working \cup {"fill"}
    BY <1>0, <1>1 DEF Reuse, Working
  <2> QED
    BY <1>0, <1>1, <2>1, <2>2, SearchIdle DEF Reuse
<1>2. CASE OpenStorage(t) \/ OpenWriter(t) \/ AssignHandle(t)
  <2>1. PICK s \in {"writer", "list", "register"} : pc'[t] = s
    BY <1>0, <1>2 DEF OpenStorage, OpenWriter, AssignHandle
  <2>2. s \notin Working \cup {"fill"} /\ pc[t] \notin Working
    BY <1>2 DEF OpenStorage, OpenWriter, AssignHandle, Working
  <2>3. UNCHANGED <<fileVars, instances>>
    BY <1>2 DEF OpenStorage, OpenWriter, AssignHandle
  <2> QED
    BY <1>0, <2>1, <2>2, <2>3, SearchIdle
<1>3. CASE StorageFails(t) \/ NoWriter(t) \/ ListFails(t) \/ RegisterHandle(t)
  <2>1. pc'[t] = "idle" /\ UNCHANGED <<fileVars, instances>> /\ pc[t] \notin Working
    BY <1>0, <1>3
    DEF StorageFails, NoWriter, ListFails, RegisterHandle, GiveUp, Return, Working
  <2>2. "idle" \notin Working \cup {"fill"}
    BY DEF Working
  <2> QED
    BY <1>0, <2>1, <2>2, SearchIdle
<1>4. CASE List(t)
  <2>1. pc'[t] = "fill" /\ UNCHANGED <<fileVars, instances>> /\ pc[t] \notin Working
    BY <1>0, <1>4 DEF List, Working
  <2>2. local'[t].seen = git[local'[t].path]
    BY <1>0, <1>4 DEF List, Locals
  <2>3. WriterOK(pc'[t], req'[t], local'[t])
    BY <2>1, <2>2 DEF WriterOK
  <2>4. \A p \in Paths, d \in Docs : ~BusyBy(t, p, d)
    BY <2>1 DEF BusyBy
  <2> QED
    BY <1>0, <2>1, <2>3, <2>4, SearchKept
<1> QED
  BY <1>1, <1>2, <1>3, <1>4, FillLost, FillSearch DEF Opening

LEMMA ReleaseSearch ==
  ASSUME RefInv, SearchInv, NEW t \in Threads, Release(t) PROVE SearchInv'
<1> DEFINE p == local[t].path
           i == instances[p]
<1>0. /\ pc[t] = "release" /\ p \in Paths /\ UNCHANGED fileVars /\ OthersStay(t)
      /\ pc'[t] = "idle" /\ pc[t] \notin Working /\ "idle" \notin Working \cup {"fill"}
      /\ instances \in [Paths -> [inst : Instances, count : Nat \ {0}] \cup {NoInstance}]
  BY OwnUsed, StepOthers
  DEF Release, Shape, Referring, RefInv, TypeInv, TypeOK, Return, Goto, Working, Work, Closing
<1>1. CASE i = NoInstance /\ UNCHANGED <<instances, resources>>
  BY <1>0, <1>1, SearchIdle
<1>2. CASE i # NoInstance /\ ~LastReference(i)
  <2>1. instances' = [instances EXCEPT ![p] = [i EXCEPT !.count = i.count - 1]]
    BY <1>2 DEF Release
  <2>2. i.inst \in Instances /\ [i EXCEPT !.count = i.count - 1].inst = i.inst
    BY <1>0, <1>2
  <2>3. [i EXCEPT !.count = i.count - 1] # NoInstance
    BY <2>2 DEF NoInstance, Instances
  <2>4. \A q \in Paths : instances'[q] = NoInstance <=> instances[q] = NoInstance
    <3> HIDE DEF p
    <3> QED
      BY <1>0, <1>2, <2>1, <2>3
  <2> QED
    BY <1>0, <2>4, SearchIdle
<1>3. CASE i # NoInstance /\ LastReference(i)
  <2>0. instances' = [instances EXCEPT ![p] = NoInstance]
    BY <1>3 DEF Release
  <2>1. i.count = 1 /\ t \in HoldersOf(p)
    BY <1>0, <1>3 DEF LastReference, HoldersOf, Referring
  <2>2. HandlesOf(p) = {}
    BY <1>0, <2>1, LastOne DEF RefInv
  <2>3. \A u \in Threads : pc[u] \in Working => local[u].path # p
    BY <2>2, AtWork
  <2>4. DocInv'
    <3> SUFFICES ASSUME NEW q \in Paths, NEW d \in Docs PROVE DocOK(q, d)'
      BY DEF DocInv
    <3>1. DocOK(q, d)
      BY DEF SearchInv, DocInv
    <3>2. Busy(q, d)' <=> Busy(q, d)
      BY <1>0 DEF Busy, OthersStay
    <3>3. q # p => instances'[q] = instances[q]
      BY <1>0, <2>0
    <3>4. instances[p] # NoInstance
      BY <1>3
    <3> HIDE DEF p
    <3> QED
      BY <1>0, <3>1, <3>2, <3>3, <3>4 DEF DocOK, Matches, fileVars
  <2>5. WritersInv'
    <3> SUFFICES ASSUME NEW u \in Threads PROVE WriterOK(pc[u], req[u], local[u])'
      BY DEF WritersInv
    <3>1. WriterOK(pc[u], req[u], local[u])
      BY DEF SearchInv, WritersInv
    <3> QED
      BY <1>0, <3>1 DEF WriterOK, Matches, OthersStay, fileVars, Working
  <2> QED
    BY <2>4, <2>5 DEF SearchInv
<1> QED
  BY <1>1, <1>2, <1>3 DEF Release

LEMMA CloseSearch ==
  ASSUME RefInv, SearchInv, NEW t \in Threads, Closing(t) PROVE SearchInv'
<1>1. CASE LookupClosed(t) \/ DropHandle(t)
  <2>1. PICK s \in {"idle", "drop", "release"} : pc'[t] = s
    BY <1>1 DEF LookupClosed, DropHandle, Return, Goto, RefInv, TypeInv, TypeOK
  <2>2. s \notin Working \cup {"fill"} /\ pc[t] \notin Working
    BY <1>1 DEF LookupClosed, DropHandle, Working
  <2>3. UNCHANGED <<fileVars, instances>>
    BY <1>1 DEF LookupClosed, DropHandle
  <2>4. OthersStay(t)
    BY <1>1, StepOthers DEF Work, Closing, RefInv
  <2> QED
    BY <2>1, <2>2, <2>3, <2>4, SearchIdle
<1> QED
  BY <1>1, ReleaseSearch DEF Closing


\* A step that stores, files or misses the one document the thread writes.
LEMMA SearchWrite ==
  ASSUME OwnDocsOnly, RefInv, SearchInv, NEW t \in Threads, pc[t] \in Working, OthersStay(t),
         UNCHANGED instances,
         \A q \in Paths \ {local[t].path} : git'[q] = git[q],
         \A q \in Paths, e \in Docs : <<q, e>> # Target(t) =>
           /\ e \in git'[q] <=> e \in git[q]
           /\ e \in index'[q] <=> e \in index[q]
           /\ <<q, e>> \in missed' <=> <<q, e>> \in missed,
         WriterOK(pc[t], req[t], local[t])',
         \A q \in Paths, e \in Docs : <<q, e>> = Target(t) => DocOK(q, e)'
  PROVE  SearchInv'
<1> DEFINE p == local[t].path
           d == req[t].doc
<1>1. DocInv'
  <2> SUFFICES ASSUME NEW q \in Paths, NEW e \in Docs PROVE DocOK(q, e)'
    BY DEF DocInv
  <2>1. CASE q = p /\ e = d
    BY <2>1 DEF Target
  <2>2. CASE <<q, e>> # <<p, d>>
    <3>1. DocOK(q, e) /\ ~BusyBy(t, q, e)
      BY <2>2 DEF SearchInv, DocInv, BusyBy
    <3>2. Busy(q, e) => Busy(q, e)'
      BY <3>1 DEF Busy, BusyBy, OthersStay
    <3> QED
      BY <2>2, <3>1, <3>2 DEF DocOK, Matches, Target
  <2> QED
    BY <2>1, <2>2
<1>2. WritersInv'
  <2> SUFFICES ASSUME NEW u \in Threads \ {t} PROVE WriterOK(pc[u], req[u], local[u])'
    BY DEF WritersInv
  <2>1. WriterOK(pc[u], req[u], local[u])
    BY DEF SearchInv, WritersInv
  <2>2. CASE pc[u] \in Working
    <3>1. /\ local[u].path \in Paths /\ req[u].doc \in Docs
          /\ <<local[u].path, req[u].doc>> # Target(t)
      BY <2>2, AtWork, WorkApart DEF Target
    <3> QED
      BY <2>1, <2>2, <3>1 DEF WriterOK, Matches, OthersStay, Working
  <2>3. CASE pc[u] = "fill"
    <3>1. local[u].path \in Paths \ {p}
      BY <2>3, AtWork, OwnUsed DEF RefInv, Shape, Creating
    <3> QED
      BY <2>1, <2>3, <3>1 DEF WriterOK, OthersStay
  <2>4. CASE pc[u] \notin Working \cup {"fill"}
    BY <2>4 DEF WriterOK, OthersStay, Working
  <2> QED
    BY <2>2, <2>3, <2>4
<1> QED
  BY <1>1, <1>2 DEF SearchInv

LEMMA WriteSearch ==
  ASSUME OwnDocsOnly, RefInv, SearchInv, NEW t \in Threads, Writing(t) PROVE SearchInv'
<1> DEFINE p == local[t].path
           d == req[t].doc
<1>0. /\ OthersStay(t) /\ local[t] \in Locals
      /\ pc \in [Threads -> PCs] /\ req \in [Threads -> Requests \cup {NoRequest}]
      /\ local \in [Threads -> Locals] /\ UNCHANGED instances
      /\ \A s : Goto(t, s) => pc'[t] = s
      /\ git \in [Paths -> SUBSET Docs] /\ index \in [Paths -> SUBSET Docs]
  BY StepOthers
  DEF RefInv, Work, TypeInv, TypeOK, Goto, Writing, Lookup, Save, Exists, Remove, CommitFails,
      File, Unfile, IndexingFails
<1>00. WriterOK(pc[t], req[t], local[t])
  BY DEF SearchInv, WritersInv
<1>1. CASE Lookup(t)
  <2> DEFINE e == registry[local[t].handle]
  <2>0. pc[t] = "lookup" /\ pc[t] \notin Working /\ UNCHANGED fileVars
    BY <1>1 DEF Lookup, Working
  <2>1. CASE e = NoEntry
    <3>1. pc'[t] = "idle" /\ "idle" \notin Working \cup {"fill"}
      BY <1>0, <1>1, <2>1 DEF Lookup, Return, Working
    <3> QED
      BY <1>0, <2>0, <3>1, SearchIdle
  <2>2. CASE e # NoEntry
    <3>1. /\ e.path \in Paths /\ instances[e.path] # NoInstance /\ d \in Docs
      BY <1>0, <2>0, <2>2, OwnUsed, LibConstants
      DEF RefInv, UsedInv, EntryInv, Refers, Locals, Shape
    <3>2. ~Busy(e.path, d)
      BY <2>0, WorkApart DEF Busy
    <3>3. DocOK(e.path, d)
      BY <3>1 DEF SearchInv, DocInv
    <3>4. <<e.path, d>> \in missed \/ Matches(e.path, d)
      BY <3>1, <3>2, <3>3 DEF DocOK
    <3>5. pc'[t] \in {"save", "exists"} /\ local'[t].path = e.path /\ req' = req
      BY <1>0, <1>1, <2>2 DEF Lookup, Locals
    <3>6. WriterOK(pc'[t], req'[t], local'[t])
      BY <3>4, <3>5 DEF WriterOK
    <3>7. \A q \in Paths, f \in Docs : ~BusyBy(t, q, f)
      BY <2>0 DEF BusyBy
    <3> QED
      BY <1>0, <2>0, <3>6, <3>7, SearchKept
  <2> QED
    BY <2>1, <2>2
<1>2. CASE Save(t) \/ Remove(t)
  <2>0. /\ pc[t] \in Working /\ p \in Paths /\ d \in Docs
        /\ UNCHANGED <<index, missed, req, local>>
    BY <1>2, AtWork DEF Save, Remove, Working
  <2>1. \/ Save(t) /\ git' = [git EXCEPT ![p] = git[p] \cup {d}] /\ pc'[t] = "file"
        \/ Remove(t) /\ git' = [git EXCEPT ![p] = git[p] \ {d}] /\ pc'[t] = "unfile"
    BY <1>0, <1>2 DEF Save, Remove
  <2>2. \A q \in Paths \ {p} : git'[q] = git[q]
    BY <1>0, <2>1
  <2>3. ASSUME NEW q \in Paths, NEW f \in Docs, <<q, f>> # Target(t)
        PROVE  f \in git'[q] <=> f \in git[q]
    BY <1>0, <2>0, <2>1, <2>3 DEF Target
  <2>4. Busy(p, d)'
    BY <2>0, <2>1 DEF Busy, Working
  <2>5. \A q \in Paths, f \in Docs : <<q, f>> = Target(t) => DocOK(q, f)'
    BY <2>0, <2>4 DEF DocOK, Target
  <2>6. WriterOK(pc[t], req[t], local[t])'
    <3>1. pc'[t] = "file" => d \in git'[p]
      BY <1>0, <2>0, <2>1
    <3>2. pc'[t] = "unfile" => d \notin git'[p]
      BY <1>0, <2>0, <2>1
    <3> QED
      BY <2>0, <2>1, <3>1, <3>2 DEF WriterOK
  <2> QED
    BY <1>0, <2>0, <2>2, <2>3, <2>5, <2>6, SearchWrite
<1>3. CASE Exists(t) \/ CommitFails(t)
  <2>0. /\ pc[t] \in {"exists", "save", "remove"} /\ UNCHANGED fileVars
        /\ pc'[t] = "idle" \/ (pc'[t] = "remove" /\ UNCHANGED <<req, local>>)
    BY <1>0, <1>3 DEF Exists, CommitFails, Return
  <2>1. <<p, d>> \in missed \/ Matches(p, d)
    BY <1>00, <2>0 DEF WriterOK
  <2>2. WriterOK(pc'[t], req'[t], local'[t])
    BY <2>0, <2>1 DEF WriterOK
  <2>3. \A q \in Paths, f \in Docs :
          BusyBy(t, q, f) => <<q, f>> \in missed \/ Matches(q, f)
    BY <2>1 DEF BusyBy
  <2> QED
    BY <1>0, <2>0, <2>2, <2>3, SearchKept
<1>4. CASE File(t) \/ Unfile(t) \/ IndexingFails(t)
  <2>0. /\ pc[t] \in Working /\ p \in Paths /\ d \in Docs
        /\ UNCHANGED git /\ pc'[t] = "idle"
    BY <1>0, <1>4, AtWork DEF File, Unfile, IndexingFails, Working, Return
  <2>1. \/ /\ d \in git[p] /\ index' = [index EXCEPT ![p] = index[p] \cup {d}]
           /\ missed' = missed \ {Target(t)}
        \/ /\ d \notin git[p] /\ index' = [index EXCEPT ![p] = index[p] \ {d}]
           /\ missed' = missed \ {Target(t)}
        \/ index' = index /\ missed' = missed \cup {Target(t)}
    BY <1>00, <1>4 DEF File, Unfile, IndexingFails, WriterOK
  <2>2. ASSUME NEW q \in Paths, NEW f \in Docs, <<q, f>> # Target(t)
        PROVE  /\ f \in index'[q] <=> f \in index[q]
               /\ <<q, f>> \in missed' <=> <<q, f>> \in missed
    <3>1. <<q, f>> \in missed' <=> <<q, f>> \in missed
      BY <2>1, <2>2
    <3>2. f \in index'[q] <=> f \in index[q]
      BY <1>0, <2>0, <2>1, <2>2 DEF Target
    <3> QED
      BY <3>1, <3>2
  <2>3. Target(t) \in missed' \/ (d \in git[p] <=> d \in index'[p])
    BY <1>0, <2>0, <2>1
  <2>4. \A q \in Paths, f \in Docs : <<q, f>> = Target(t) => DocOK(q, f)'
    BY <2>0, <2>3 DEF DocOK, Matches, Target
  <2>5. WriterOK(pc[t], req[t], local[t])'
    BY <2>0 DEF WriterOK
  <2> QED
    BY <1>0, <2>0, <2>2, <2>4, <2>5, SearchWrite
<1> QED
  BY <1>1, <1>2, <1>3, <1>4 DEF Writing

LEMMA InitSearch == Init => SearchInv
  BY DEF Init, SearchInv, DocInv, DocOK, WritersInv, WriterOK

LEMMA NextSearch ==
  ASSUME OwnDocsOnly, RefInv, SearchInv, [Next]_vars PROVE SearchInv'
<1>1. CASE UNCHANGED vars
  BY <1>1
  DEF vars, fileVars, SearchInv, DocInv, DocOK, Busy, Matches, WritersInv, WriterOK
<1>2. CASE Next
  BY <1>2, CallSearch, OpenSearch, CloseSearch, WriteSearch DEF Next, Work
<1> QED
  BY <1>1, <1>2

\* The index of an open path files what is stored, but for what calls are writing
\* and what it failed to take, when clients use only handles they opened and no two
\* threads write the same document.
THEOREM SearchesMatch == Private /\ OwnDocsOnly => (Spec => []SearchMatches)
<1> SUFFICES ASSUME Private, OwnDocsOnly PROVE Spec => []SearchMatches
  OBVIOUS
<1>1. RefInv /\ SearchInv /\ [Next]_vars => SearchInv'
  BY NextSearch
<1>2. SearchInv => SearchMatches
  BY DEF SearchInv, DocInv, DocOK, Matches, SearchMatches
<1> QED
  BY <1>1, <1>2, InitSearch, RefsInvariant, PTL DEF Spec

-----------------------------------------------------------------------------
(* Making instances *)

AloneInv == LockInv /\ CreatedAlone

LEMMA AloneKept ==
  ASSUME TypeInv, AloneInv, NEW t \in Threads, Calls(t) \/ Work(t), OthersStay(t),
         UNCHANGED lock, pc'[t] \in Creating <=> pc[t] \in Creating,
         pc[t] \in Creating => local'[t].path = local[t].path,
         LockFree \/ UNCHANGED instances
  PROVE  AloneInv'
<1>1. LockInv'
  BY DEF AloneInv, LockInv, OthersStay
<1>2. CASE LockFree
  <2>1. \A u \in Threads : pc'[u] \notin Creating
    BY <1>2, <1>1, LibConstants DEF LockInv, LockFree
  <2> QED
    BY <1>1, <2>1 DEF AloneInv, CreatedAlone
<1>3. CASE UNCHANGED instances
  BY <1>1, <1>3 DEF AloneInv, CreatedAlone, OthersStay
<1> QED
  BY <1>2, <1>3

LEMMA AloneStep ==
  ASSUME TypeInv, AloneInv, NEW t \in Threads, Calls(t) \/ Work(t) PROVE AloneInv'
<1>0. /\ OthersStay(t) /\ local[t] \in Locals
      /\ local \in [Threads -> Locals]
      /\ \A s : Goto(t, s) => pc'[t] = s
  BY StepOthers DEF TypeInv, TypeOK, Goto
<1>1. CASE OpenStorage(t)
  <2>1. pc'[t] = "writer" /\ local'[t].path = local[t].path /\ lock' = t /\ UNCHANGED instances
    BY <1>0, <1>1 DEF OpenStorage, Locals
  <2>2. \A u \in Threads \ {t} : pc'[u] \notin Creating
    BY <1>0, <1>1, LibConstants DEF OpenStorage, LockFree, AloneInv, LockInv, OthersStay
  <2>3. instances'[local'[t].path] = NoInstance
    BY <1>1, <2>1 DEF OpenStorage
  <2> QED
    BY <2>1, <2>2, <2>3 DEF AloneInv, LockInv, CreatedAlone, Creating
<1>2. CASE NoWriter(t) \/ ListFails(t) \/ Fill(t) \/ FillMisses(t)
  <2>1. pc[t] \in Creating /\ lock' = NoThread /\ pc'[t] \in {"idle", "assign"}
    BY <1>0, <1>2
    DEF NoWriter, ListFails, Fill, FillMisses, Filled, GiveUp, Return, Unlocked, Creating
  <2>2. \A u \in Threads : pc'[u] \notin Creating
    BY <1>0, <2>1 DEF AloneInv, CreatedAlone, OthersStay, Creating
  <2> QED
    BY <2>1, <2>2, LibConstants DEF AloneInv, LockInv, CreatedAlone
<1>3. CASE OpenWriter(t) \/ List(t)
  <2>1. /\ pc[t] \in Creating /\ pc'[t] \in Creating /\ local'[t].path = local[t].path
        /\ UNCHANGED <<lock, instances>>
    BY <1>0, <1>3 DEF OpenWriter, List, Locals, Creating
  <2> QED
    BY <1>0, <2>1, AloneKept
<1>4. CASE Reuse(t) \/ Release(t)
  <2>1. /\ LockFree /\ UNCHANGED lock /\ pc[t] \notin Creating /\ pc'[t] \notin Creating
    BY <1>0, <1>4 DEF Reuse, Release, Return, Creating
  <2> QED
    BY <1>0, <2>1, AloneKept
<1>5. CASE Calls(t)
  <2>1. PICK s \in {"open", "close", "lookup"}, r \in Requests, h \in Handles,
             p \in Paths \cup {NoPath} : Start(t, s, r, h, p)
    BY <1>5, CallStarts
  <2>2. pc[t] \notin Creating /\ pc'[t] \notin Creating /\ UNCHANGED <<lock, instances>>
    BY <1>0, <2>1 DEF Start, Creating
  <2> QED
    BY <1>0, <2>2, AloneKept
<1>6. CASE \/ StorageFails(t) \/ AssignHandle(t) \/ RegisterHandle(t)
           \/ LookupClosed(t) \/ DropHandle(t)
  <2>1. pc[t] \notin Creating /\ pc'[t] \notin Creating /\ UNCHANGED <<lock, instances>>
    BY <1>0, <1>6
    DEF StorageFails, AssignHandle, RegisterHandle, LookupClosed, DropHandle, Return, Creating
  <2> QED
    BY <1>0, <2>1, AloneKept
<1>7. CASE Writing(t)
  <2>1. pc[t] \notin Creating /\ pc'[t] \notin Creating /\ UNCHANGED <<lock, instances>>
    BY <1>0, <1>7
    DEF Writing, Lookup, Save, Exists, Remove, CommitFails, File, Unfile, IndexingFails, Return,
        Creating
  <2> QED
    BY <1>0, <2>1, AloneKept
<1> QED
  BY <1>1, <1>2, <1>3, <1>4, <1>5, <1>6, <1>7 DEF Work, Opening, Closing

\* An instance is made by one thread at a time, and only for a path without one,
\* whatever handles clients use.
THEOREM InstancesMadeAlone == Spec => []CreatedAlone
<1>1. Init => AloneInv
  BY LibConstants DEF Init, AloneInv, LockInv, CreatedAlone, Creating
<1>2. TypeInv /\ AloneInv /\ [Next]_vars => AloneInv'
  <2>1. ASSUME AloneInv, UNCHANGED vars PROVE AloneInv'
    BY <2>1 DEF vars, AloneInv, LockInv, CreatedAlone
  <2> QED
    BY <2>1, AloneStep DEF Next
<1>3. AloneInv => CreatedAlone
  BY DEF AloneInv
<1> QED
  BY <1>1, <1>2, <1>3, TypeInvariant, PTL DEF Spec
-----------------------------------------------------------------------------
(* What is open belongs to a path or to the thread that makes it *)

StorageOwned(i) ==
  \/ \E p \in Paths : Refers(i, p)
  \/ \E t \in Threads : pc[t] \in Creating /\ local[t].inst = i
WriterOwned(i) ==
  \/ Refers(i, writers[i])
  \/ \E t \in Threads :
       pc[t] \in {"list", "fill"} /\ local[t].inst = i /\ local[t].path = writers[i]
OwnedInv ==
  faults = 0 =>
    /\ \A i \in storages : StorageOwned(i)
    /\ \A i \in Instances : writers[i] # NoPath => WriterOwned(i)

\* A step that keeps the instances, and makes none or goes on making its own.
LEMMA OwnedKept ==
  ASSUME OwnedInv, NEW t \in Threads, OthersStay(t), SameInstances,
         UNCHANGED <<storages, writers>>, faults' = 0 => faults = 0,
         \/ pc[t] \notin Creating
         \/ /\ pc[t] = "list" /\ pc'[t] = "fill"
            /\ local'[t].inst = local[t].inst /\ local'[t].path = local[t].path
  PROVE  OwnedInv'
<1> SUFFICES ASSUME faults' = 0
             PROVE  /\ \A i \in storages : StorageOwned(i)'
                    /\ \A i \in Instances : writers[i] # NoPath => WriterOwned(i)'
  BY DEF OwnedInv
<1>1. ASSUME NEW i, StorageOwned(i) PROVE StorageOwned(i)'
  BY <1>1, RefersKept DEF StorageOwned, OthersStay, Creating
<1>2. ASSUME NEW i, WriterOwned(i) PROVE WriterOwned(i)'
  BY <1>2, RefersKept DEF WriterOwned, OthersStay, Creating
<1> QED
  BY <1>1, <1>2 DEF OwnedInv

LEMMA OpenStorageOwned ==
  ASSUME RefInv, OwnedInv, NEW t \in Threads, OthersStay(t), OpenStorage(t) PROVE OwnedInv'
<1>0. /\ pc'[t] = "writer" /\ local'[t].inst = made + 1 /\ pc[t] = "open"
      /\ storages' = storages \cup {made + 1} /\ UNCHANGED <<writers, instances, faults>>
  BY DEF OpenStorage, Goto, RefInv, TypeInv, TypeOK, Locals
<1> SUFFICES ASSUME faults = 0
             PROVE  /\ \A i \in storages' : StorageOwned(i)'
                    /\ \A i \in Instances : writers[i] # NoPath => WriterOwned(i)'
  BY <1>0 DEF OwnedInv
<1>1. ASSUME NEW i, StorageOwned(i) \/ i = made + 1 PROVE StorageOwned(i)'
  BY <1>0, <1>1 DEF StorageOwned, OthersStay, Refers, Creating
<1>2. ASSUME NEW i, WriterOwned(i) PROVE WriterOwned(i)'
  BY <1>0, <1>2 DEF WriterOwned, OthersStay, Refers
<1> QED
  BY <1>0, <1>1, <1>2 DEF OwnedInv

LEMMA OpenWriterOwned ==
  ASSUME RefInv, OwnedInv, NEW t \in Threads, OthersStay(t), OpenWriter(t) PROVE OwnedInv'
<1> DEFINE i == local[t].inst
<1>0. /\ pc[t] = "writer" /\ pc'[t] = "list" /\ local' = local /\ i \in Instances
      /\ writers'[i] = local[t].path /\ \A j \in Instances \ {i} : writers'[j] = writers[j]
      /\ UNCHANGED <<storages, instances, faults>>
  BY OwnUsed DEF OpenWriter, Goto, RefInv, TypeInv, TypeOK, Shape, Creating
<1> SUFFICES ASSUME faults = 0
             PROVE  /\ \A j \in storages : StorageOwned(j)'
                    /\ \A j \in Instances : writers'[j] # NoPath => WriterOwned(j)'
  BY <1>0 DEF OwnedInv
<1>1. ASSUME NEW j, StorageOwned(j) PROVE StorageOwned(j)'
  BY <1>0, <1>1 DEF StorageOwned, OthersStay, Refers, Creating
<1>2. ASSUME NEW j \in Instances \ {i}, WriterOwned(j) PROVE WriterOwned(j)'
  BY <1>0, <1>2 DEF WriterOwned, OthersStay, Refers
<1>3. WriterOwned(i)'
  BY <1>0 DEF WriterOwned
<1> QED
  BY <1>0, <1>1, <1>2, <1>3 DEF OwnedInv

\* A path that is being opened has its writer free: the repository is never left open.
LEMMA WriterComes ==
  ASSUME RefInv, OwnedInv, NEW t \in Threads, NoWriter(t) PROVE faults' # 0
<1>1. CASE Fault("writer")
  BY <1>1 DEF Fault, RefInv, TypeInv, TypeOK
<1>2. CASE ~WriterFree(local[t].path) /\ UNCHANGED faults
  <2> SUFFICES ASSUME faults = 0 PROVE FALSE
    BY <1>2
  <2>1. /\ pc[t] = "writer" /\ local[t].path \in Paths
        /\ instances[local[t].path] = NoInstance
    BY OwnUsed DEF NoWriter, RefInv, Shape, ThreadOK, CreatorOK, Creating
  <2>2. PICK i \in Instances : writers[i] = local[t].path
    BY <1>2 DEF WriterFree
  <2>3. WriterOwned(i)
    BY <2>1, <2>2, LibConstants DEF OwnedInv
  <2>4. PICK u \in Threads : pc[u] \in {"list", "fill"}
    BY <2>1, <2>2, <2>3 DEF WriterOwned, Refers
  <2>5. u = t
    BY <2>1, <2>4 DEF RefInv, UsedInv, LockInv, Creating
  <2> QED
    BY <2>1, <2>4, <2>5
<1> QED
  BY <1>1, <1>2 DEF NoWriter

LEMMA FillOwned ==
  ASSUME RefInv, OwnedInv, NEW t \in Threads, OthersStay(t), Fill(t) PROVE OwnedInv'
<1> DEFINE i == local[t].inst
           p == local[t].path
<1>0. /\ pc[t] = "fill" /\ pc'[t] = "assign" /\ p \in Paths /\ i \in Instances
      /\ instances[p] = NoInstance /\ writers[i] = p
      /\ instances'[p] = [inst |-> i, count |-> 1]
      /\ \A q \in Paths \ {p} : instances'[q] = instances[q]
      /\ UNCHANGED <<storages, writers, faults, local>>
  BY OwnUsed
  DEF Fill, Filled, Goto, RefInv, TypeInv, TypeOK, Shape, ThreadOK, CreatorOK, Creating, resources
<1>1. Refers(i, p)'
  BY <1>0 DEF Refers, NoInstance, Instances
<1>2. ASSUME NEW j, NEW q, Refers(j, q) PROVE Refers(j, q)'
  BY <1>0, <1>2 DEF Refers
<1>3. \A u \in Threads \ {t} : pc[u] \notin Creating
  BY <1>0, OthersWait DEF RefInv, Creating
<1> SUFFICES ASSUME faults = 0
             PROVE  /\ \A j \in storages : StorageOwned(j)'
                    /\ \A j \in Instances : writers[j] # NoPath => WriterOwned(j)'
  BY <1>0 DEF OwnedInv
<1>4. ASSUME NEW j, StorageOwned(j) PROVE StorageOwned(j)'
  BY <1>0, <1>1, <1>2, <1>3, <1>4 DEF StorageOwned
<1>5. ASSUME NEW j, WriterOwned(j) PROVE WriterOwned(j)'
  BY <1>0, <1>1, <1>2, <1>3, <1>5 DEF WriterOwned, Creating
<1> QED
  BY <1>4, <1>5 DEF OwnedInv

LEMMA ReleaseOwned ==
  ASSUME RefInv, OwnedInv, NEW t \in Threads, OthersStay(t), Release(t) PROVE OwnedInv'
<1> DEFINE p == local[t].path
           i == instances[p]
<1>0. /\ pc[t] = "release" /\ p \in Paths /\ faults' = faults
      /\ instances \in [Paths -> [inst : Instances, count : Nat \ {0}] \cup {NoInstance}]
  BY OwnUsed DEF Release, RefInv, TypeInv, TypeOK, Shape, Referring
<1>1. CASE UNCHANGED <<instances, resources>>
  BY <1>0, <1>1, SameWhenUnchanged, OwnedKept DEF resources, Creating
<1>2. CASE i # NoInstance /\ instances' = [instances EXCEPT ![p].count = @ - 1] /\ UNCHANGED resources
  <2>1. /\ instances'[p] = [i EXCEPT !.count = @ - 1]
        /\ \A q \in Paths \ {p} : instances'[q] = instances[q]
    BY <1>0, <1>2
  <2>2. i \in [inst : Instances, count : Nat \ {0}]
    BY <1>0, <1>2
  <2>3. instances'[p].inst = i.inst /\ i.inst \in Instances
    BY <2>1, <2>2
  <2>4. instances'[p] # NoInstance
    BY <2>3 DEF NoInstance, Instances
  <2>5. SameInstances
    BY <1>2, <2>1, <2>3, <2>4 DEF SameInstances
  <2> QED
    BY <1>0, <1>2, <2>5, OwnedKept DEF resources, Creating
<1>3. CASE /\ i # NoInstance
           /\ instances' = [instances EXCEPT ![p] = NoInstance]
           /\ storages' = storages \ {i.inst}
           /\ writers' = WriterClosed(i.inst)
  <2>1. /\ \A q \in Paths \ {p} : instances'[q] = instances[q]
        /\ i.inst \in Instances /\ writers'[i.inst] = NoPath
        /\ \A j \in Instances \ {i.inst} : writers'[j] = writers[j]
    BY <1>0, <1>3 DEF WriterClosed, RefInv, TypeInv, TypeOK
  <2>2. ASSUME NEW j, NEW q, Refers(j, q), j # i.inst PROVE Refers(j, q)'
    BY <1>0, <2>1, <2>2 DEF Refers
  <2> SUFFICES ASSUME faults = 0
               PROVE  /\ \A j \in storages' : StorageOwned(j)'
                      /\ \A j \in Instances : writers'[j] # NoPath => WriterOwned(j)'
    BY <1>0 DEF OwnedInv
  <2>3. ASSUME NEW j, j # i.inst, StorageOwned(j) PROVE StorageOwned(j)'
    BY <1>0, <2>2, <2>3 DEF StorageOwned, OthersStay, Creating
  <2>4. ASSUME NEW j \in Instances, j # i.inst, WriterOwned(j) PROVE WriterOwned(j)'
    BY <1>0, <2>1, <2>2, <2>4 DEF WriterOwned, OthersStay, Creating
  <2> QED
    BY <1>3, <2>1, <2>3, <2>4 DEF OwnedInv
<1> QED
  BY <1>1, <1>2, <1>3 DEF Release

\* The steps that only take or count references, and the documents' steps.
LEMMA QuietOwned ==
  ASSUME RefInv, OwnedInv, NEW t \in Threads, OthersStay(t),
         \/ Calls(t) \/ Reuse(t) \/ List(t) \/ AssignHandle(t) \/ RegisterHandle(t)
         \/ LookupClosed(t) \/ DropHandle(t) \/ Writing(t)
  PROVE  OwnedInv'
<1>t. TypeOK
  BY DEF RefInv, TypeInv
<1>1. CASE Calls(t)
  <2>1. PICK s \in {"open", "close", "lookup"}, r \in Requests, h \in Handles,
             p \in Paths \cup {NoPath} : Start(t, s, r, h, p)
    BY <1>1, CallStarts
  <2> QED
    BY <2>1, SameWhenUnchanged, OwnedKept DEF Start, resources, Creating
<1>2. CASE Reuse(t)
  <2> DEFINE p == local[t].path
  <2>1. /\ p \in Paths /\ instances[p] # NoInstance /\ instances' = [instances EXCEPT ![p] = Counted(@)]
        /\ instances \in [Paths -> [inst : Instances, count : Nat \ {0}] \cup {NoInstance}]
    BY <1>2, <1>t, OwnUsed DEF Reuse, RefInv, Shape, TypeOK
  <2>2. /\ instances'[p] = [instances[p] EXCEPT !.count = @ + 1]
        /\ \A q \in Paths \ {p} : instances'[q] = instances[q]
        /\ instances[p] \in [inst : Instances, count : Nat \ {0}]
    BY <2>1 DEF Counted
  <2>3. instances'[p].inst = instances[p].inst /\ instances[p].inst \in Instances
    BY <2>2
  <2>4. instances'[p] # NoInstance
    BY <2>3 DEF NoInstance, Instances
  <2>5. SameInstances
    BY <2>1, <2>2, <2>3, <2>4 DEF SameInstances
  <2> QED
    BY <1>2, <2>5, OwnedKept DEF Reuse, resources, Creating
<1>3. CASE List(t)
  <2>1. /\ pc[t] = "list" /\ pc'[t] = "fill"
        /\ local'[t].inst = local[t].inst /\ local'[t].path = local[t].path
    BY <1>3, <1>t DEF List, Goto, TypeOK, Locals
  <2> QED
    BY <1>3, <2>1, SameWhenUnchanged, OwnedKept DEF List, resources
<1>4. CASE AssignHandle(t) \/ RegisterHandle(t) \/ LookupClosed(t) \/ DropHandle(t)
  BY <1>4, SameWhenUnchanged, OwnedKept
  DEF AssignHandle, RegisterHandle, LookupClosed, DropHandle, resources, Creating
<1>5. CASE Writing(t)
  <2>1. pc[t] \notin Creating /\ UNCHANGED <<instances, storages, writers>>
    BY <1>5
    DEF Writing, Lookup, Save, Exists, Remove, CommitFails, File, Unfile, IndexingFails,
        resources, Creating
  <2>2. faults' = faults \/ faults' = faults + 1
    BY <1>5
    DEF Writing, Lookup, Save, Exists, Remove, CommitFails, File, Unfile, IndexingFails, Fault
  <2>3. faults' = 0 => faults = 0
    BY <2>2, <1>t DEF TypeOK
  <2> QED
    BY <2>1, <2>3, SameWhenUnchanged, OwnedKept
<1> QED
  BY <1>1, <1>2, <1>3, <1>4, <1>5

LEMMA OwnedStep == ASSUME RefInv, OwnedInv, [Next]_vars PROVE OwnedInv'
<1>1. CASE UNCHANGED vars
  BY <1>1 DEF vars, resources, OwnedInv, StorageOwned, WriterOwned, Refers
<1>2. CASE Next
  <2>1. PICK t \in Threads : Calls(t) \/ Work(t)
    BY <1>2 DEF Next
  <2>2. OthersStay(t)
    BY <2>1, StepOthers DEF RefInv
  <2>3. CASE StorageFails(t) \/ ListFails(t) \/ FillMisses(t)
    <3>1. faults' = faults + 1
      BY <2>3 DEF StorageFails, ListFails, FillMisses, Fault
    <3>2. faults' # 0
      BY <3>1 DEF RefInv, TypeInv, TypeOK
    <3> QED
      BY <3>2 DEF OwnedInv
  <2>4. CASE NoWriter(t)
    BY <2>4, WriterComes DEF OwnedInv
  <2>5. CASE ~(StorageFails(t) \/ ListFails(t) \/ FillMisses(t) \/ NoWriter(t))
    BY <2>1, <2>2, <2>5, OpenStorageOwned, OpenWriterOwned, FillOwned, ReleaseOwned, QuietOwned
    DEF Work, Opening, Closing
  <2> QED
    BY <2>3, <2>4, <2>5
<1> QED
  BY <1>1, <1>2

\* When no call is under way and nothing has failed, the open repositories are those of the
\* registered handles, and no index writer is open without its repository: no interleaving
\* of opens and closes forgets an instance, and the writer of a path whose last handle is
\* closed is free for the next open (release-instance!, get-or-create-instance!).
THEOREM NothingIsLeaked == Private => (Spec => []NothingLeaks)
<1> SUFFICES ASSUME Private PROVE Spec => []NothingLeaks
  OBVIOUS
<1>1. Init => OwnedInv
  BY DEF Init, OwnedInv
<1>2. RefInv /\ OwnedInv /\ [Next]_vars => OwnedInv'
  BY OwnedStep
<1>3. ASSUME RefInv, OwnedInv PROVE NothingLeaks
  <2> SUFFICES ASSUME faults = 0, \A t \in Threads : pc[t] = "idle"
               PROVE  /\ storages = {registry[h].inst : h \in {g \in Handles : registry[g] # NoEntry}}
                      /\ \A i \in Instances : i \notin storages => writers[i] = NoPath
    BY DEF NothingLeaks
  <2>0. \A t \in Threads : pc[t] \notin Creating /\ pc[t] \notin Referring
    BY DEF Creating, Referring
  <2>1. ASSUME NEW i \in storages PROVE \E h \in Handles : registry[h] # NoEntry /\ registry[h].inst = i
    <3>1. PICK p \in Paths : Refers(i, p)
      BY <1>3, <2>0 DEF OwnedInv, StorageOwned
    <3>2. instances[p].count \in Nat \ {0}
      BY <1>3, <3>1 DEF RefInv, TypeInv, TypeOK, Refers
    <3>3. HoldersOf(p) = {}
      BY <2>0 DEF HoldersOf
    <3>4. HandlesOf(p) # {}
      <4>1. Cardinality({}) = 0
        BY FS_EmptySet
      <4>2. instances[p].count = Cardinality(HandlesOf(p)) + Cardinality(HoldersOf(p))
        BY <1>3, <3>1 DEF RefInv, CountsReferences, Refers
      <4> QED
        BY <3>2, <3>3, <4>1, <4>2
    <3>5. PICK h \in Handles : registry[h].path = p
      BY <3>4 DEF HandlesOf
    <3>6. registry[h] # NoEntry
      BY <3>5, LibConstants DEF NoEntry
    <3>7. registry[h].inst = i
      BY <1>3, <3>1, <3>5, <3>6 DEF RefInv, UsedInv, EntryInv, Refers
    <3> QED
      BY <3>6, <3>7
  <2>2. ASSUME NEW h \in Handles, registry[h] # NoEntry PROVE registry[h].inst \in storages
    BY <1>3, <2>2 DEF RefInv, UsedInv, EntryInv, InstanceInv, Refers, Open
  <2>3. ASSUME NEW i \in Instances, writers[i] # NoPath PROVE i \in storages
    <3>1. Refers(i, writers[i])
      BY <1>3, <2>0, <2>3 DEF OwnedInv, WriterOwned, Creating
    <3> QED
      BY <1>3, <3>1 DEF RefInv, UsedInv, InstanceInv, Refers, Open
  <2> QED
    BY <2>1, <2>2, <2>3
<1> QED
  BY <1>1, <1>2, <1>3, RefsInvariant, PTL DEF Spec
=============================================================================
