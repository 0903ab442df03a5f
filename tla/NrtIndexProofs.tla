-------------------------- MODULE NrtIndexProofs --------------------------
(***************************************************************************)
(* What holds of NrtIndex for any documents, contents and bounds: the      *)
(* types, that the atoms stay usable and that the population makes good    *)
(* what a crash has lost.                                                  *)
(***************************************************************************)
EXTENDS NrtIndex, TLAPS

\* The places are eight different pairs, and none is NoReader.
PlaceFacts ==
  /\ Places = {Reader, Searcher, Old("refresh"), New("refresh"), Old("update"), New("update")}
  /\ NoReader \notin Places
  /\ Reader # Searcher
  /\ \A s \in Swappers : /\ Old(s) # New(s)
                         /\ Old(s) \notin {Reader, Searcher} /\ New(s) \notin {Reader, Searcher}
                         /\ Old(s) \in Places /\ New(s) \in Places
  /\ \A s, u \in Swappers : /\ Old(s) # New(u)
                            /\ s # u => Old(s) # Old(u) /\ New(s) # New(u)

LEMMA PlacesDiffer == PlaceFacts
<1> DEFINE P == {Reader, Searcher, Old("refresh"), New("refresh"), Old("update"), New("update")}
<1>1. UNION {{Old(s), New(s)} : s \in Swappers}
        = {Old("refresh"), New("refresh"), Old("update"), New("update")}
  BY DEF Swappers
<1>2. Places = P
  BY <1>1 DEF Places
<1>3. NoReader \notin P
  BY DEF NoReader, Reader, Searcher, Old, New
<1>4. Reader # Searcher
  BY DEF Reader, Searcher
<1>5. ASSUME NEW s \in Swappers
      PROVE  /\ Old(s) # New(s)
             /\ Old(s) \notin {Reader, Searcher} /\ New(s) \notin {Reader, Searcher}
             /\ Old(s) \in P /\ New(s) \in P
  BY DEF Swappers, Reader, Searcher, Old, New
<1>6. ASSUME NEW s \in Swappers, NEW u \in Swappers
      PROVE  Old(s) # New(u) /\ (s # u => Old(s) # Old(u) /\ New(s) # New(u))
  BY DEF Swappers, Old, New
<1> QED
  BY <1>2, <1>3, <1>4, <1>5, <1>6 DEF PlaceFacts

-----------------------------------------------------------------------------
(* What Refer does, without the names.                                     *)

Heaps == [Places -> Places \cup {NoReader}]

\* Places that refer to a reader in h still do, to the same one if they did, and the
\* sets hold what they held of the readers that are left.
Same(h, c, g) ==
  /\ holds' \in Heaps
  /\ \A p \in Places : holds'[p] = NoReader <=> h[p] = NoReader
  /\ \A p, q \in Places : holds'[p] = holds'[q] <=> h[p] = h[q]
  /\ \A p \in Places : h[p] # NoReader =>
       (holds'[p] \in closed' <=> h[p] \in c) /\ (holds'[p] \in grace' <=> h[p] \in g)
  /\ current' \subseteq Referred(holds') /\ closed' \subseteq Referred(holds')
  /\ grace' \subseteq Referred(holds')
  /\ \A r \in Referred(holds') : holds'[r] = r

LEMMA ReferIsSame ==
  ASSUME NEW h \in Heaps, NEW c, NEW g, NEW n, Refer(h, c, g, n)
  PROVE  Same(h, c, g)
<1> USE PlacesDiffer DEF PlaceFacts
<1>1. PICK name \in Namings(h) :
        /\ holds' = [p \in Places |-> IF h[p] = NoReader THEN NoReader ELSE name[h[p]]]
        /\ closed' = {name[r] : r \in c \cap Referred(h)}
        /\ grace' = {name[r] : r \in g \cap Referred(h)}
        /\ current' = {name[r] : r \in (n \ c) \cap Referred(h)}
  BY DEF Refer
<1>2. name = [r \in Referred(h) |-> CHOOSE p \in Places : h[p] = r]
  BY DEF Namings
<1>3. ASSUME NEW r \in Referred(h)
      PROVE  name[r] \in Places /\ h[name[r]] = r
  <2>1. \E p \in Places : h[p] = r
    BY DEF Referred
  <2>2. name[r] = CHOOSE p \in Places : h[p] = r
    BY <1>2
  <2> QED
    BY <2>1, <2>2
<1>4. ASSUME NEW p \in Places, h[p] # NoReader
      PROVE  h[p] \in Referred(h) /\ holds'[p] = name[h[p]]
  BY <1>1, <1>4 DEF Referred
<1>5. ASSUME NEW p \in Places, h[p] = NoReader
      PROVE  holds'[p] = NoReader
  BY <1>1, <1>5
<1>6. holds' \in Heaps
  BY <1>1, <1>3, <1>4 DEF Heaps
<1>7. \A p \in Places : holds'[p] = NoReader <=> h[p] = NoReader
  BY <1>3, <1>4, <1>5
<1>8. \A p, q \in Places : holds'[p] = holds'[q] <=> h[p] = h[q]
  BY <1>3, <1>4, <1>5, <1>7
<1>9. \A p \in Places : h[p] # NoReader =>
        (holds'[p] \in closed' <=> h[p] \in c) /\ (holds'[p] \in grace' <=> h[p] \in g)
  BY <1>1, <1>3, <1>4
<1>10. ASSUME NEW r \in Referred(h)
       PROVE  name[r] \in Referred(holds') /\ holds'[name[r]] = name[r]
  <2>1. name[r] \in Places /\ h[name[r]] = r /\ r # NoReader
    BY <1>3 DEF Referred
  <2>2. holds'[name[r]] = name[r]
    BY <2>1, <1>4
  <2> QED
    BY <2>1, <2>2 DEF Referred
<1>11. /\ current' \subseteq Referred(holds') /\ closed' \subseteq Referred(holds')
       /\ grace' \subseteq Referred(holds')
  BY <1>1, <1>10
<1>12. ASSUME NEW r \in Referred(holds')
       PROVE  holds'[r] = r
  <2>1. PICK p \in Places : holds'[p] = r /\ r # NoReader
    BY DEF Referred
  <2>2. h[p] \in Referred(h) /\ r = name[h[p]]
    BY <2>1, <1>4, <1>7
  <2> QED
    BY <2>2, <1>10
<1> QED
  BY <1>6, <1>7, <1>8, <1>9, <1>11, <1>12 DEF Same

-----------------------------------------------------------------------------
(* Types.  A swap refers to the readers it is at work with, and a reader   *)
(* goes by the name of a place that refers to it, so New(s) names none     *)
(* while a swap is about to open one.                                      *)

SwapShape ==
  /\ holds[Reader] # NoReader /\ holds[Searcher] # NoReader
  /\ \A s \in Swappers :
       /\ swap[s] \in {"idle", "read"} => holds[Old(s)] = NoReader
       /\ swap[s] \in {"idle", "read", "open"} => holds[New(s)] = NoReader
       /\ swap[s] \in {"open", "close"} => holds[Old(s)] # NoReader
       /\ swap[s] \in {"close", "set-reader", "set-searcher"} => holds[New(s)] # NoReader
       /\ swap[s] = "close" => s = "update"
       /\ s = "update" /\ swap[s] \in {"set-reader", "set-searcher"} => holds[Old(s)] = NoReader
UpdateSettles == swap["update"] # "idle" => Settled
Named == \A r \in Referred(holds) : holds[r] = r
TypeInv == TypeOK /\ SwapShape /\ UpdateSettles /\ Named

\* What is left of the types in steps that do not touch the reader of a place.
StoreTypes ==
  /\ stored \in Stores /\ entries \in Contents /\ committed \in Contents
  /\ population \in [at : {"read", "delete", "add", "swap", "done"}, found : Stores,
                     doc : Docs \cup {NoDoc}]
  /\ pc \in [Requests -> {"start", "index", "again", "end"}]
  /\ req \in [Requests -> Writes]
  /\ crashes \in 0 .. MaxCrashes
  /\ met \in BOOLEAN /\ touched \subseteq Docs /\ mixed \subseteq touched

LEMMA TypeInvInit == Init => TypeInv
<1> SUFFICES ASSUME Init PROVE TypeInv
  OBVIOUS
<1> USE PlacesDiffer, IndexConstants DEF PlaceFacts
<1>1. holds = OneReader /\ Reader \in Referred(holds) /\ \A r \in Referred(holds) : r = Reader
  BY DEF Init, OneReader, Referred
<1>2. StoreTypes
  <2>1. stored \in Stores /\ entries \in Contents /\ committed \in Contents
    BY DEF Init, Stores, Contents, Nothing
  <2>2. NotBegun.found \in Stores
    BY DEF NotBegun, Stores
  <2>3. population \in [at : {"read", "delete", "add", "swap", "done"}, found : Stores,
                       doc : Docs \cup {NoDoc}]
    BY <2>2 DEF Init, NotBegun
  <2>4. req \in [Requests -> Writes]
    BY DEF Init, Writes, NoWrite
  <2>5. crashes \in 0 .. MaxCrashes
    BY DEF Init
  <2> QED
    BY <2>1, <2>3, <2>4, <2>5, Zenon DEF Init, StoreTypes
<1>4. /\ holds \in [Places -> Places \cup {NoReader}]
      /\ current \subseteq Referred(holds) /\ closed \subseteq Referred(holds)
      /\ grace \subseteq Referred(holds)
      /\ swap \in [Swappers -> Phases]
  BY <1>1 DEF Init, OneReader, Phases
<1>3. SwapShape /\ UpdateSettles /\ Named
  BY <1>1 DEF Init, OneReader, SwapShape, UpdateSettles, Named, Swappers
<1> QED
  BY <1>2, <1>3, <1>4 DEF TypeInv, TypeOK, StoreTypes

LEMMA FiledType ==
  ASSUME NEW e \in Contents, NEW d, NEW v \in Values \cup {Absent}
  PROVE  Filed(d, v, e) \in Contents
BY IndexConstants DEF Contents, Filed

LEMMA StoreTypesKept ==
  ASSUME StoreTypes, [Next]_vars
  PROVE  StoreTypes'
<1> USE IndexConstants DEF StoreTypes
<1>1. CASE UNCHANGED vars
  BY <1>1 DEF vars, storeVars, readerVars, swapVars, reqVars
<1>2. ASSUME NEW i \in Requests, NEW d \in Docs, NEW v \in Values \cup {Absent}, Store(i, d, v)
      PROVE  StoreTypes'
  BY <1>2 DEF Store, Writes, Stores, readerVars, swapVars
<1>3. ASSUME NEW i \in Requests, FileUnderLock(i)
      PROVE  StoreTypes'
  <2>1. req[i].val \in Values \cup {Absent}
    BY DEF Writes
  <2> QED
    BY <1>3, <2>1, FiledType DEF FileUnderLock, File, swapVars
<1>4. ASSUME NEW i \in Requests, FileAgain(i) \/ FiledOnce(i)
      PROVE  StoreTypes'
  <2>1. req[i].val \in Values \cup {Absent} /\ NoWrite \in Writes
    BY DEF Writes, NoWrite
  <2>2. entries' \in Contents
    BY <1>4, <2>1, FiledType DEF FileAgain, FiledOnce, File
  <2> QED
    BY <1>4, <2>1, <2>2 DEF FileAgain, FiledOnce, EndRequest, swapVars
<1>5. ASSUME NEW s \in Swappers, BeginSwap(s)
      PROVE  StoreTypes'
  BY <1>5 DEF BeginSwap, storeVars, reqVars
<1>6. ASSUME NEW s \in Swappers, NothingOpened(s) \/ SetSearcher(s)
      PROVE  StoreTypes'
  BY <1>6 DEF NothingOpened, SetSearcher, EndSwap, storeVars, reqVars
<1>7. ASSUME NEW s \in Swappers, OpenIfChanged(s) \/ CloseOld(s) \/ SetReader(s)
      PROVE  StoreTypes'
  BY <1>7 DEF OpenIfChanged, CloseOld, SetReader, storeVars, reqVars
<1>8. ASSUME NEW r \in Places, GraceEnds(r)
      PROVE  StoreTypes'
  BY <1>8 DEF GraceEnds, storeVars, reqVars
<1>9. CASE MaintenanceCommits
  BY <1>9 DEF MaintenanceCommits, reqVars
<1>10. CASE ReadDocuments \/ Populated
  BY <1>10 DEF ReadDocuments, Populated, storeVars, reqVars, readerVars, swapVars
<1>11. ASSUME NEW d \in Docs, DeleteEntry(d) \/ AddEntry(d)
       PROVE  StoreTypes'
  <2>1. population.found[d] \in Values \cup {Absent}
    BY DEF Stores
  <2>2. entries' \in Contents
    BY <1>11, <2>1, FiledType DEF DeleteEntry, AddEntry, File
  <2>3. population' \in [at : {"read", "delete", "add", "swap", "done"}, found : Stores,
                         doc : Docs \cup {NoDoc}]
    <3>1. CASE DeleteEntry(d)
      BY <3>1 DEF DeleteEntry
    <3>2. CASE AddEntry(d)
      <4>1. [population.found EXCEPT ![d] = Absent] \in Stores
        BY DEF Stores
      <4>2. population' = [population EXCEPT !.at = "delete", !.doc = NoDoc,
                                             !.found = [population.found EXCEPT ![d] = Absent]]
        BY <3>2 DEF AddEntry
      <4> QED
        BY <4>1, <4>2
    <3> QED
      BY <1>11, <3>1, <3>2
  <2> QED
    BY <1>11, <2>2, <2>3 DEF DeleteEntry, AddEntry, reqVars, swapVars
<1>12. CASE Restart
  <2>1. \A i \in Requests : req[i].val \in Values \cup {Absent}
    BY DEF Writes
  <2>2. entries' \in Contents
    <3>1. CASE entries' = committed
      BY <3>1
    <3>2. ASSUME NEW i \in Requests, entries' = Filed(req[i].doc, req[i].val, committed)
          PROVE  entries' \in Contents
      BY <3>2, <2>1, FiledType
    <3> QED
      BY <1>12, <3>1, <3>2 DEF Restart
  <2>3. pc' \in [Requests -> {"start", "index", "again", "end"}] /\ req' \in [Requests -> Writes]
    BY <1>12 DEF Restart, Writes, NoWrite
  <2>4. NotBegun.found \in Stores
    BY DEF NotBegun, Stores
  <2>5. population' \in [at : {"read", "delete", "add", "swap", "done"}, found : Stores,
                        doc : Docs \cup {NoDoc}]
    BY <1>12, <2>4 DEF Restart, Started, NotBegun
  <2>6. crashes' \in 0 .. MaxCrashes
    BY <1>12 DEF Restart
  <2> QED
    BY <1>12, <2>2, <2>3, <2>5, <2>6 DEF Restart, Started
<1> QED
  BY <1>1, <1>2, <1>3, <1>4, <1>5, <1>6, <1>7, <1>8, <1>9, <1>10, <1>11, <1>12
  DEF Next, Request, Work, Swap, Advance, Populate

\* A step that replaces no reader keeps what there is of the swaps.
LEMMA Untouched ==
  ASSUME TypeInv, StoreTypes', UpdateSettles', UNCHANGED swapVars, current' \subseteq current
  PROVE  TypeInv'
BY DEF TypeInv, TypeOK, StoreTypes, SwapShape, Named, swapVars, Referred

\* The readers of places after a step that calls Refer
ReaderTypes ==
  /\ holds \in Heaps
  /\ current \subseteq Referred(holds) /\ closed \subseteq Referred(holds)
  /\ grace \subseteq Referred(holds)
  /\ swap \in [Swappers -> Phases]

LEMMA TypeInvParts == TypeInv <=> ReaderTypes /\ StoreTypes /\ SwapShape /\ UpdateSettles /\ Named
BY DEF TypeInv, TypeOK, ReaderTypes, StoreTypes, Heaps

LEMMA UpdateSettlesKept ==
  ASSUME ReaderTypes, StoreTypes, UpdateSettles, [Next]_vars
  PROVE  UpdateSettles'
<1> USE DEF UpdateSettles, ReaderTypes, StoreTypes, Settled
<1>1. CASE UNCHANGED vars
  BY <1>1 DEF vars, readerVars, swapVars
<1>2. ASSUME NEW i \in Requests, Request(i)
      PROVE  UpdateSettles'
  BY <1>2 DEF Request, Work, Store, FileUnderLock, FileAgain, FiledOnce, EndRequest,
     readerVars, swapVars
<1>3. CASE Populate
  BY <1>3 DEF Populate, ReadDocuments, DeleteEntry, AddEntry, Populated, Step, readerVars, swapVars
<1>4. ASSUME NEW s \in Swappers, Swap(s)
      PROVE  UpdateSettles'
  <2>1. CASE s = "update"
    <3>1. CASE EndSwap(s)
      BY <2>1, <3>1 DEF EndSwap, Step, Swappers
    <3>2. CASE swap["update"] # "idle" /\ population' = population
      BY <2>1, <3>2
    <3>3. swap["update"] # "idle" /\ (EndSwap(s) \/ population' = population)
      <4>1. CASE BeginSwap(s)
        BY <2>1, <4>1 DEF BeginSwap, At
      <4>2. CASE NothingOpened(s) \/ SetSearcher(s)
        BY <2>1, <4>2 DEF NothingOpened, SetSearcher, At
      <4>3. CASE OpenIfChanged(s) \/ CloseOld(s) \/ SetReader(s)
        BY <2>1, <4>3 DEF OpenIfChanged, CloseOld, SetReader, At
      <4> QED
        BY <1>4, <4>1, <4>2, <4>3 DEF Swap, Advance
    <3> QED
      BY <3>1, <3>2, <3>3
  <2>2. CASE s = "refresh"
    <3>1. CASE BeginSwap(s)
      BY <2>2, <3>1 DEF BeginSwap, Step, Swappers
    <3>2. CASE NothingOpened(s) \/ SetSearcher(s)
      BY <2>2, <3>2 DEF NothingOpened, SetSearcher, EndSwap, Step, Swappers
    <3>3. CASE OpenIfChanged(s) \/ CloseOld(s) \/ SetReader(s)
      BY <2>2, <3>3 DEF OpenIfChanged, CloseOld, SetReader, Step, Swappers
    <3> QED
      BY <1>4, <3>1, <3>2, <3>3 DEF Swap, Advance
  <2> QED
    BY <2>1, <2>2 DEF Swappers
<1>5. ASSUME NEW r \in Places, GraceEnds(r)
      PROVE  UpdateSettles'
  BY <1>5 DEF GraceEnds
<1>6. CASE MaintenanceCommits
  BY <1>6 DEF MaintenanceCommits, Step
<1>7. CASE Restart
  BY <1>7 DEF Restart, Started, Swappers
<1> QED
  BY <1>1, <1>2, <1>3, <1>4, <1>5, <1>6, <1>7 DEF Next

\* A step of s from one of the phases l to the phase m, after which the places refer to
\* h and the readers in c and g are closed and about to be
Moved(s, l, m, h, c, g) ==
  swap[s] \in l /\ swap' = [swap EXCEPT ![s] = m] /\ h \in Heaps /\ Same(h, c, g)

LEMMA SwapSteps ==
  ASSUME TypeInv, NEW s \in Swappers
  PROVE  /\ BeginSwap(s) =>
              Moved(s, {"idle", "read"}, "open", [holds EXCEPT ![Old(s)] = holds[Reader]],
                    closed, grace)
         /\ NothingOpened(s) =>
              Moved(s, {"open"}, "idle", [holds EXCEPT ![Old(s)] = NoReader], closed, grace)
         /\ OpenIfChanged(s) =>
              /\ holds[Old(s)] \notin closed
              /\ \E r \in Places \ Referred(holds) :
                   Moved(s, {"open"}, IF s = "refresh" THEN "set-reader" ELSE "close",
                         [holds EXCEPT ![New(s)] = r], closed, grace)
         /\ CloseOld(s) =>
              Moved(s, {"close"}, "set-reader", [holds EXCEPT ![Old(s)] = NoReader],
                    closed \cup {holds[Old(s)]}, grace)
         /\ SetReader(s) =>
              Moved(s, {"set-reader"}, "set-searcher", [holds EXCEPT ![Reader] = holds[New(s)]],
                    closed, grace)
         /\ SetSearcher(s) =>
              Moved(s, {"set-searcher"}, "idle",
                    [holds EXCEPT ![Searcher] = holds[New(s)], ![Old(s)] = NoReader,
                                  ![New(s)] = NoReader],
                    closed, grace \cup ({holds[Old(s)]} \ {NoReader}))
<1> USE PlacesDiffer DEF PlaceFacts
<1> ReaderTypes /\ SwapShape /\ Named
  BY TypeInvParts
<1>1. ASSUME BeginSwap(s)
      PROVE  Moved(s, {"idle", "read"}, "open", [holds EXCEPT ![Old(s)] = holds[Reader]],
                   closed, grace)
  <2>1. [holds EXCEPT ![Old(s)] = holds[Reader]] \in Heaps
    BY DEF ReaderTypes, Heaps
  <2> QED
    BY <1>1, <2>1, ReferIsSame DEF BeginSwap, At, Step, Moved
<1>2. ASSUME NothingOpened(s)
      PROVE  Moved(s, {"open"}, "idle", [holds EXCEPT ![Old(s)] = NoReader], closed, grace)
  <2>1. [holds EXCEPT ![Old(s)] = NoReader] \in Heaps
    BY DEF ReaderTypes, Heaps
  <2> QED
    BY <1>2, <2>1, ReferIsSame DEF NothingOpened, EndSwap, At, Step, Moved
<1>3. ASSUME OpenIfChanged(s)
      PROVE  /\ holds[Old(s)] \notin closed
             /\ \E r \in Places \ Referred(holds) :
                  Moved(s, {"open"}, IF s = "refresh" THEN "set-reader" ELSE "close",
                        [holds EXCEPT ![New(s)] = r], closed, grace)
  <2> DEFINE r == CHOOSE p \in Places : p \notin Referred(holds)
  <2>1. New(s) \notin Referred(holds)
    BY <1>3 DEF OpenIfChanged, At, SwapShape, Named
  <2>2. r \in Places /\ r \notin Referred(holds)
    BY <2>1
  <2>3. [holds EXCEPT ![New(s)] = r] \in Heaps
    BY <2>2 DEF ReaderTypes, Heaps
  <2>4. Refer([holds EXCEPT ![New(s)] = r], closed, grace, current \cup {r})
    BY <1>3 DEF OpenIfChanged
  <2>5. Same([holds EXCEPT ![New(s)] = r], closed, grace)
    BY <2>3, <2>4, ReferIsSame
  <2> QED
    BY <1>3, <2>2, <2>3, <2>5 DEF OpenIfChanged, At, Step, Moved
<1>4. ASSUME CloseOld(s)
      PROVE  Moved(s, {"close"}, "set-reader", [holds EXCEPT ![Old(s)] = NoReader],
                   closed \cup {holds[Old(s)]}, grace)
  <2>1. [holds EXCEPT ![Old(s)] = NoReader] \in Heaps
    BY DEF ReaderTypes, Heaps
  <2> QED
    BY <1>4, <2>1, ReferIsSame DEF CloseOld, At, Step, Moved
<1>5. ASSUME SetReader(s)
      PROVE  Moved(s, {"set-reader"}, "set-searcher", [holds EXCEPT ![Reader] = holds[New(s)]],
                   closed, grace)
  <2>1. [holds EXCEPT ![Reader] = holds[New(s)]] \in Heaps
    BY DEF ReaderTypes, Heaps
  <2> QED
    BY <1>5, <2>1, ReferIsSame DEF SetReader, At, Step, Moved
<1>6. ASSUME SetSearcher(s)
      PROVE  Moved(s, {"set-searcher"}, "idle",
                   [holds EXCEPT ![Searcher] = holds[New(s)], ![Old(s)] = NoReader,
                                 ![New(s)] = NoReader],
                   closed, grace \cup ({holds[Old(s)]} \ {NoReader}))
  <2>1. [holds EXCEPT ![Searcher] = holds[New(s)], ![Old(s)] = NoReader, ![New(s)] = NoReader]
          \in Heaps
    BY DEF ReaderTypes, Heaps
  <2> QED
    BY <1>6, <2>1, ReferIsSame DEF SetSearcher, EndSwap, At, Step, Moved
<1> QED
  BY <1>1, <1>2, <1>3, <1>4, <1>5, <1>6

LEMMA TypeInvStep ==
  ASSUME TypeInv, [Next]_vars
  PROVE  TypeInv'
<1> USE PlacesDiffer DEF PlaceFacts
<1> ReaderTypes /\ StoreTypes /\ SwapShape /\ UpdateSettles /\ Named
  BY TypeInvParts
<1> StoreTypes'
  BY StoreTypesKept
<1> DEFINE Kept == ReaderTypes' /\ SwapShape' /\ Named'
<1> UpdateSettles'
  BY UpdateSettlesKept
<1> SUFFICES Kept \/ (UNCHANGED swapVars /\ current' \subseteq current)
  BY Untouched DEF TypeInv, TypeOK, ReaderTypes, StoreTypes, Heaps
<1>1. CASE UNCHANGED vars
  BY <1>1 DEF vars, readerVars, swapVars
<1>2. ASSUME NEW i \in Requests, Request(i)
      PROVE  UNCHANGED swapVars /\ current' \subseteq current
  BY <1>2 DEF Request, Work, Store, FileUnderLock, FileAgain, FiledOnce, EndRequest, File,
     readerVars, swapVars
<1>3. CASE ReadDocuments \/ \E d \in Docs : DeleteEntry(d) \/ AddEntry(d)
  BY <1>3 DEF ReadDocuments, DeleteEntry, AddEntry, File, readerVars, swapVars
<1>4. CASE MaintenanceCommits \/ Populated
  <2>1. /\ UNCHANGED <<holds, current, closed, grace>>
        /\ Step("update", "read") /\ swap["update"] = "idle"
    BY <1>4 DEF MaintenanceCommits, Populated, At, UpdateSettles, Settled
  <2> QED
    BY <2>1 DEF Step, ReaderTypes, SwapShape, Named, Referred, Phases, Swappers
<1>5. ASSUME NEW s \in Swappers, Swap(s)
      PROVE  Kept
  <2> USE DEF Same, ReaderTypes, SwapShape, Named, Phases, Heaps
  <2>1. CASE BeginSwap(s)
    <3>1. Moved(s, {"idle", "read"}, "open", [holds EXCEPT ![Old(s)] = holds[Reader]],
                closed, grace)
      BY <2>1, SwapSteps
    <3> QED
      BY <3>1 DEF Moved
  <2>2. CASE NothingOpened(s)
    <3>1. Moved(s, {"open"}, "idle", [holds EXCEPT ![Old(s)] = NoReader], closed, grace)
      BY <2>2, SwapSteps
    <3> QED
      BY <3>1 DEF Moved
  <2>3. CASE OpenIfChanged(s)
    <3>1. PICK r \in Places \ Referred(holds) :
             Moved(s, {"open"}, IF s = "refresh" THEN "set-reader" ELSE "close",
                   [holds EXCEPT ![New(s)] = r], closed, grace)
      BY <2>3, SwapSteps
    <3> QED
      BY <3>1 DEF Moved, Swappers
  <2>4. CASE CloseOld(s)
    <3>1. Moved(s, {"close"}, "set-reader", [holds EXCEPT ![Old(s)] = NoReader],
                closed \cup {holds[Old(s)]}, grace)
      BY <2>4, SwapSteps
    <3> QED
      BY <3>1 DEF Moved
  <2>5. CASE SetReader(s)
    <3>1. Moved(s, {"set-reader"}, "set-searcher", [holds EXCEPT ![Reader] = holds[New(s)]],
                closed, grace)
      BY <2>5, SwapSteps
    <3> QED
      BY <3>1 DEF Moved
  <2>6. CASE SetSearcher(s)
    <3>1. Moved(s, {"set-searcher"}, "idle",
                [holds EXCEPT ![Searcher] = holds[New(s)], ![Old(s)] = NoReader,
                              ![New(s)] = NoReader],
                closed, grace \cup ({holds[Old(s)]} \ {NoReader}))
      BY <2>6, SwapSteps
    <3> QED
      BY <3>1 DEF Moved
  <2> QED
    BY <1>5, <2>1, <2>2, <2>3, <2>4, <2>5, <2>6 DEF Swap, Advance
<1>6. ASSUME NEW r \in Places, GraceEnds(r)
       PROVE  Kept
  <2>1. Same(holds, closed \cup {r}, grace \ {r}) /\ swap' = swap
    BY <1>6, ReferIsSame DEF GraceEnds, ReaderTypes
  <2> QED
    BY <2>1 DEF Same, ReaderTypes, SwapShape, Named
<1>7. CASE Restart
  <2>1. /\ holds' = OneReader /\ Reader \in Referred(OneReader)
        /\ \A r \in Referred(OneReader) : r = Reader
    BY <1>7 DEF Restart, Started, OneReader, Referred
  <2>2. ReaderTypes'
    BY <1>7, <2>1 DEF Restart, Started, ReaderTypes, OneReader, Heaps, Phases
  <2>3. SwapShape' /\ Named'
    BY <1>7, <2>1 DEF Restart, Started, OneReader, SwapShape, Named
  <2> QED
    BY <2>2, <2>3
<1> QED
  BY <1>1, <1>2, <1>3, <1>4, <1>5, <1>6, <1>7 DEF Next, Populate

\* The variables have their types.
THEOREM TypeCorrect == Spec => []TypeOK
<1>1. TypeInv /\ [Next]_vars => TypeInv'
  BY TypeInvStep
<1>2. TypeInv => TypeOK
  BY DEF TypeInv
<1> QED
  BY TypeInvInit, <1>1, <1>2, PTL DEF Spec

-----------------------------------------------------------------------------
(* The atoms.  A new reader is the affair of the swap that has opened it   *)
(* until it sets reader-atom, so whoever closes a reader, closes another;  *)
(* and the reader that a refresh is about to close has been replaced.      *)

Private(s) == \A p \in Places \ {New(s)} : holds[p] # holds[New(s)]

UsableInv ==
  /\ \A s \in Swappers :
       /\ swap[s] \in {"close", "set-reader"} =>
            Private(s) /\ holds[New(s)] \notin closed \cup grace
       /\ swap[s] = "set-searcher" => holds[Old(s)] # holds[Reader]
  /\ holds[Reader] \notin grace
  /\ holds[Reader] \in closed => swap["update"] = "set-reader"

\* While no two swaps have met, one sets both atoms to its reader.
AloneInv ==
  ~met =>
    /\ \A s, u \in InSwap : s = u
    /\ (\A s \in Swappers : swap[s] # "set-searcher") => holds[Searcher] = holds[Reader]
    /\ \A s \in Swappers : swap[s] = "set-searcher" => holds[New(s)] = holds[Reader]

LEMMA UsableInvStep ==
  ASSUME TypeInv, UsableInv, [Next]_vars
  PROVE  UsableInv'
<1> USE PlacesDiffer DEF PlaceFacts
<1> ReaderTypes /\ SwapShape /\ Named
  BY TypeInvParts
<1>1. CASE UNCHANGED vars
  BY <1>1 DEF vars, readerVars, swapVars, UsableInv, Private
<1>2. ASSUME NEW i \in Requests, Request(i)
      PROVE  UsableInv'
  <2>1. UNCHANGED swapVars
    BY <1>2 DEF Request, Work, Store, FileUnderLock, FileAgain, FiledOnce, EndRequest, readerVars
  <2> QED
    BY <2>1 DEF swapVars, UsableInv, Private
<1>3. CASE ReadDocuments \/ \E d \in Docs : DeleteEntry(d) \/ AddEntry(d)
  <2>1. UNCHANGED swapVars
    BY <1>3 DEF ReadDocuments, DeleteEntry, AddEntry, readerVars
  <2> QED
    BY <2>1 DEF swapVars, UsableInv, Private
<1>4. CASE MaintenanceCommits \/ Populated
  <2>1. UNCHANGED <<holds, closed, grace>> /\ swap' = [swap EXCEPT !["update"] = "read"]
        /\ swap["update"] = "idle"
    BY <1>4, TypeInvParts DEF MaintenanceCommits, Populated, At, Step, UpdateSettles, Settled
  <2> QED
    BY <2>1 DEF UsableInv, Private, ReaderTypes, Swappers
<1>5. ASSUME NEW s \in Swappers, Swap(s)
      PROVE  UsableInv'
  <2> USE DEF Same, ReaderTypes, SwapShape, Heaps, UsableInv, Private
  <2>1. CASE BeginSwap(s)
    <3>1. Moved(s, {"idle", "read"}, "open", [holds EXCEPT ![Old(s)] = holds[Reader]],
                closed, grace)
      BY <2>1, SwapSteps
    <3> QED
      BY <3>1 DEF Moved, Swappers
  <2>2. CASE NothingOpened(s)
    <3>1. Moved(s, {"open"}, "idle", [holds EXCEPT ![Old(s)] = NoReader], closed, grace)
      BY <2>2, SwapSteps
    <3> QED
      BY <3>1 DEF Moved, Swappers
  <2>3. CASE OpenIfChanged(s)
    <3>1. PICK r \in Places \ Referred(holds) :
             Moved(s, {"open"}, IF s = "refresh" THEN "set-reader" ELSE "close",
                   [holds EXCEPT ![New(s)] = r], closed, grace)
      BY <2>3, SwapSteps
    <3>2. \A p \in Places : holds[p] # r
      BY DEF Referred
    <3> QED
      BY <3>1, <3>2 DEF Moved, Swappers
  <2>4. CASE CloseOld(s)
    <3>1. Moved(s, {"close"}, "set-reader", [holds EXCEPT ![Old(s)] = NoReader],
                closed \cup {holds[Old(s)]}, grace)
      BY <2>4, SwapSteps
    <3> QED
      BY <3>1 DEF Moved, Swappers
  <2>5. CASE SetReader(s)
    <3>1. Moved(s, {"set-reader"}, "set-searcher", [holds EXCEPT ![Reader] = holds[New(s)]],
                closed, grace)
      BY <2>5, SwapSteps
    <3> QED
      BY <3>1 DEF Moved, Swappers
  <2>6. CASE SetSearcher(s)
    <3>1. Moved(s, {"set-searcher"}, "idle",
                [holds EXCEPT ![Searcher] = holds[New(s)], ![Old(s)] = NoReader,
                              ![New(s)] = NoReader],
                closed, grace \cup ({holds[Old(s)]} \ {NoReader}))
      BY <2>6, SwapSteps
    <3> QED
      BY <3>1 DEF Moved, Swappers
  <2> QED
    BY <1>5, <2>1, <2>2, <2>3, <2>4, <2>5, <2>6 DEF Swap, Advance
<1>6. ASSUME NEW r \in Places, GraceEnds(r)
      PROVE  UsableInv'
  <2>1. Same(holds, closed \cup {r}, grace \ {r}) /\ swap' = swap /\ r \in grace
    BY <1>6, ReferIsSame DEF GraceEnds, ReaderTypes
  <2> QED
    BY <2>1 DEF Same, ReaderTypes, SwapShape, UsableInv, Private
<1>7. CASE Restart
  BY <1>7 DEF Restart, Started, UsableInv, Swappers
<1> QED
  BY <1>1, <1>2, <1>3, <1>4, <1>5, <1>6, <1>7 DEF Next, Populate

LEMMA AloneInvStep ==
  ASSUME TypeInv, AloneInv, [Next]_vars
  PROVE  AloneInv'
<1> USE PlacesDiffer DEF PlaceFacts
<1> ReaderTypes /\ SwapShape /\ Named
  BY TypeInvParts
<1>1. CASE UNCHANGED vars
  BY <1>1 DEF vars, readerVars, swapVars, AloneInv, InSwap
<1>2. ASSUME NEW i \in Requests, Request(i)
      PROVE  AloneInv'
  <2>1. UNCHANGED swapVars
    BY <1>2 DEF Request, Work, Store, FileUnderLock, FileAgain, FiledOnce, EndRequest, readerVars
  <2> QED
    BY <2>1 DEF swapVars, AloneInv, InSwap
<1>3. CASE ReadDocuments \/ \E d \in Docs : DeleteEntry(d) \/ AddEntry(d)
  <2>1. UNCHANGED swapVars
    BY <1>3 DEF ReadDocuments, DeleteEntry, AddEntry, readerVars
  <2> QED
    BY <2>1 DEF swapVars, AloneInv, InSwap
<1>4. CASE MaintenanceCommits \/ Populated
  <2>1. UNCHANGED <<holds, met>> /\ swap' = [swap EXCEPT !["update"] = "read"]
        /\ swap["update"] = "idle"
    BY <1>4, TypeInvParts DEF MaintenanceCommits, Populated, At, Step, UpdateSettles, Settled
  <2> QED
    BY <2>1 DEF AloneInv, InSwap, ReaderTypes, Swappers
<1>5. ASSUME NEW s \in Swappers, Swap(s)
      PROVE  AloneInv'
  <2> USE DEF Same, ReaderTypes, SwapShape, Heaps, AloneInv, InSwap
  <2>1. CASE BeginSwap(s)
    <3>1. Moved(s, {"idle", "read"}, "open", [holds EXCEPT ![Old(s)] = holds[Reader]],
                closed, grace)
      BY <2>1, SwapSteps
    <3>2. ~met' => ~met /\ InSwap = {}
      BY <2>1 DEF BeginSwap
    <3> QED
      BY <3>1, <3>2 DEF Moved, Swappers
  <2>2. CASE NothingOpened(s)
    <3>1. Moved(s, {"open"}, "idle", [holds EXCEPT ![Old(s)] = NoReader], closed, grace)
      BY <2>2, SwapSteps
    <3>2. met' = met
      BY <2>2 DEF NothingOpened, EndSwap
    <3> QED
      BY <3>1, <3>2 DEF Moved, Swappers
  <2>3. CASE OpenIfChanged(s)
    <3>1. PICK r \in Places \ Referred(holds) :
             Moved(s, {"open"}, IF s = "refresh" THEN "set-reader" ELSE "close",
                   [holds EXCEPT ![New(s)] = r], closed, grace)
      BY <2>3, SwapSteps
    <3>2. met' = met
      BY <2>3 DEF OpenIfChanged
    <3> QED
      BY <3>1, <3>2 DEF Moved, Swappers
  <2>4. CASE CloseOld(s)
    <3>1. Moved(s, {"close"}, "set-reader", [holds EXCEPT ![Old(s)] = NoReader],
                closed \cup {holds[Old(s)]}, grace)
      BY <2>4, SwapSteps
    <3>2. met' = met
      BY <2>4 DEF CloseOld
    <3> QED
      BY <3>1, <3>2 DEF Moved, Swappers
  <2>5. CASE SetReader(s)
    <3>1. Moved(s, {"set-reader"}, "set-searcher", [holds EXCEPT ![Reader] = holds[New(s)]],
                closed, grace)
      BY <2>5, SwapSteps
    <3>2. met' = met
      BY <2>5 DEF SetReader
    <3> QED
      BY <3>1, <3>2 DEF Moved, Swappers
  <2>6. CASE SetSearcher(s)
    <3>1. Moved(s, {"set-searcher"}, "idle",
                [holds EXCEPT ![Searcher] = holds[New(s)], ![Old(s)] = NoReader,
                              ![New(s)] = NoReader],
                closed, grace \cup ({holds[Old(s)]} \ {NoReader}))
      BY <2>6, SwapSteps
    <3>2. met' = met
      BY <2>6 DEF SetSearcher, EndSwap
    <3> QED
      BY <3>1, <3>2 DEF Moved, Swappers
  <2> QED
    BY <1>5, <2>1, <2>2, <2>3, <2>4, <2>5, <2>6 DEF Swap, Advance
<1>6. ASSUME NEW r \in Places, GraceEnds(r)
      PROVE  AloneInv'
  <2>1. Same(holds, closed \cup {r}, grace \ {r}) /\ swap' = swap /\ met' = met
    BY <1>6, ReferIsSame DEF GraceEnds, ReaderTypes
  <2> QED
    BY <2>1 DEF Same, ReaderTypes, SwapShape, AloneInv, InSwap
<1>7. CASE Restart
  <2>1. /\ holds'[Reader] = Reader /\ holds'[Searcher] = Reader
        /\ \A s \in Swappers : swap'[s] = "idle"
    BY <1>7 DEF Restart, Started, OneReader
  <2> QED
    BY <2>1 DEF AloneInv, InSwap
<1> QED
  BY <1>1, <1>2, <1>3, <1>4, <1>5, <1>6, <1>7 DEF Next, Populate

\* Whatever refresh, maintenance, population and the closing of replaced readers do at a
\* time, no closed reader stays in reader-atom, and searches use the reader that the next
\* swap starts from unless two swaps have met (lucene_nrt.clj, lucene.clj).
THEOREM ReadersStayUsable == Spec => []ReadersUsable
<1> USE PlacesDiffer DEF PlaceFacts
<1>1. Init => UsableInv /\ AloneInv
  <2>1. OneReader[Reader] = Reader /\ OneReader[Searcher] = Reader
    BY DEF OneReader
  <2> QED
    BY <2>1 DEF Init, UsableInv, AloneInv, InSwap
<1>2. TypeInv /\ UsableInv /\ AloneInv /\ [Next]_vars => TypeInv' /\ UsableInv' /\ AloneInv'
  BY TypeInvStep, UsableInvStep, AloneInvStep
<1>3. UsableInv /\ AloneInv => ReadersUsable
  <2>1. UsableInv => ReaderReopens
    BY DEF UsableInv, ReaderReopens, At, Swappers
  <2>2. AloneInv => SearcherFollows
    BY DEF AloneInv, SearcherFollows, InSwap
  <2> QED
    BY <2>1, <2>2 DEF ReadersUsable
<1> QED
  BY TypeInvInit, <1>1, <1>2, <1>3, PTL DEF Spec

-----------------------------------------------------------------------------
(* What is filed.  A document is filed by the request that writes it alone *)
(* or, before anybody has written it, by the population alone.             *)

Good(d) == IF stored[d] = Absent THEN entries[d] = {} ELSE stored[d] \in entries[d]

\* A request that no other has met files what is stored.
RequestInv ==
  \A i \in Open :
    /\ req[i].doc \in touched
    /\ \A j \in Open : req[j].doc = req[i].doc /\ i # j => req[i].doc \in mixed
    /\ req[i].doc \notin mixed =>
         req[i].val = stored[req[i].doc] /\ (pc[i] = "again" => Good(req[i].doc))

TouchedInv ==
  \A d \in touched \ mixed : Settled /\ (d \notin Writing => Good(d))

\* The population files what it has found of each document, and once only.
UntouchedInv ==
  \A d \in Docs \ touched : stored[d] # Absent =>
    /\ population.at \in {"delete", "add"} =>
         population.found[d] \in {stored[d], Absent}
         /\ (population.found[d] = Absent => entries[d] = {stored[d]})
    /\ population.at = "add" /\ population.doc = d =>
         population.found[d] = stored[d] /\ entries[d] = {}
    /\ Settled => entries[d] = {stored[d]}

FiledInv == RequestInv /\ TouchedInv /\ UntouchedInv

\* Steps that file nothing and store nothing
LEMMA NothingFiled ==
  ASSUME FiledInv, stored' = stored, entries' = entries,
         pc' = pc, req' = req, touched' = touched, mixed' = mixed,
         population' = population \/ (Settled /\ Settled')
  PROVE  FiledInv'
<1>1. RequestInv' /\ Open' = Open /\ Writing' = Writing /\ \A d : Good(d)' <=> Good(d)
  BY DEF FiledInv, RequestInv, Open, Writing, Good
<1>2. Settled => Settled'
  BY DEF Settled
<1>3. TouchedInv'
  BY <1>1, <1>2 DEF FiledInv, TouchedInv
<1>4. UntouchedInv'
  <2>1. CASE population' = population
    BY <2>1 DEF FiledInv, UntouchedInv, Settled
  <2>2. CASE Settled /\ Settled'
    BY <2>2 DEF FiledInv, UntouchedInv, Settled
  <2> QED
    BY <2>1, <2>2
<1> QED
  BY <1>1, <1>3, <1>4 DEF FiledInv

\* Requests and population file the write they are at, and that document only.
LEMMA FiledIsStored ==
  ASSUME TypeInv, NEW d \in Docs, NEW v \in Values \cup {Absent}, File(d, v)
  PROVE  /\ \A e \in Docs : e # d => entries'[e] = entries[e]
         /\ v = Absent => entries'[d] = {}
         /\ v # Absent => entries'[d] = entries[d] \cup {v}
<1>1. entries' = Filed(d, v, entries) /\ entries \in [Docs -> SUBSET Values]
  BY DEF TypeInv, TypeOK, Contents, File
<1> QED
  BY <1>1 DEF Filed

LEMMA FiledInvStep ==
  ASSUME TypeInv, FiledInv, [Next]_vars
  PROVE  FiledInv'
<1> StoreTypes /\ UpdateSettles
  BY TypeInvParts
<1> TypeInv' /\ StoreTypes'
  BY TypeInvStep, StoreTypesKept
<1>1. CASE UNCHANGED vars
  BY <1>1, NothingFiled DEF vars, storeVars, reqVars
<1>2. ASSUME NEW i \in Requests, NEW d \in Docs, NEW v \in Values \cup {Absent}, Store(i, d, v)
      PROVE  FiledInv'
  <2>1. /\ stored' = [stored EXCEPT ![d] = v] /\ UNCHANGED <<entries, population>>
        /\ pc[i] = "start" /\ pc' = [pc EXCEPT ![i] = "index"]
        /\ req' = [req EXCEPT ![i] = [doc |-> d, val |-> v]]
        /\ touched' = touched \cup {d}
        /\ mixed' = IF d \in Writing \/ ~Settled THEN mixed \cup {d} ELSE mixed
    BY <1>2 DEF Store
  <2>2. Open' = Open \cup {i} /\ i \notin Open
    BY <2>1 DEF Open, StoreTypes
  <2>3. Writing' = Writing \cup {d} /\ \A j \in Open : req'[j] = req[j] /\ pc'[j] = pc[j]
    BY <2>1, <2>2 DEF Writing, StoreTypes, Open
  <2>4. \A e \in Docs : e # d => stored'[e] = stored[e] /\ (Good(e)' <=> Good(e))
    BY <2>1 DEF Good, StoreTypes, Stores
  <2>5. stored'[d] = v /\ req'[i].doc = d /\ req'[i].val = v /\ pc'[i] = "index"
    BY <2>1 DEF StoreTypes, Stores
  <2>6. RequestInv'
    BY <2>1, <2>2, <2>3, <2>4, <2>5 DEF FiledInv, RequestInv, StoreTypes, Writing
  <2>7. TouchedInv'
    BY <2>1, <2>3, <2>4 DEF FiledInv, TouchedInv, StoreTypes, Settled
  <2>8. UntouchedInv'
    BY <2>1, <2>4 DEF FiledInv, UntouchedInv, Settled
  <2> QED
    BY <2>6, <2>7, <2>8 DEF FiledInv
<1>3. ASSUME NEW i \in Requests, Work(i)
      PROVE  FiledInv'
  <2>0. i \in Open /\ req[i].doc \in touched /\ req[i].val \in Values \cup {Absent}
    BY <1>3 DEF Work, FileUnderLock, FileAgain, FiledOnce, Open, FiledInv, RequestInv, StoreTypes,
       Writes
  <2>1. PICK d \in Docs, v \in Values \cup {Absent} :
           i \in Open /\ d = req[i].doc /\ d \in touched /\ v = req[i].val
    BY <2>0 DEF StoreTypes
  <2>2. UNCHANGED <<stored, population, touched, mixed>>
    BY <1>3 DEF Work, FileUnderLock, FileAgain, FiledOnce, EndRequest
  <2>3. \A e \in Docs : e # d => entries'[e] = entries[e] /\ (Good(e)' <=> Good(e))
    BY <1>3, <2>1, <2>2, FiledIsStored DEF Work, FileUnderLock, FileAgain, FiledOnce, Good
  <2>4. d \notin mixed => Good(d)' /\ stored'[d] = v
    <3>1. CASE File(d, v)
      BY <2>1, <2>2, <3>1, FiledIsStored DEF Good, FiledInv, RequestInv
    <3>2. CASE FiledOnce(i)
      BY <2>1, <2>2, <3>2 DEF FiledOnce, Good, FiledInv, RequestInv
    <3> QED
      BY <1>3, <2>1, <3>1, <3>2 DEF Work, FileUnderLock, FileAgain
  <2>5. Open' \subseteq Open /\ \A j \in Open' : req'[j] = req[j] /\ (j # i => pc'[j] = pc[j])
    BY <1>3 DEF Work, FileUnderLock, FileAgain, FiledOnce, EndRequest, Open, StoreTypes
  <2>6. Writing \subseteq Writing' \cup {d}
    BY <1>3, <2>1 DEF Work, FileUnderLock, FileAgain, FiledOnce, EndRequest, Open, StoreTypes,
       Writing
  <2>7. RequestInv'
    <3> SUFFICES ASSUME NEW j \in Open'
                 PROVE  /\ req'[j].doc \in touched'
                        /\ \A k \in Open' :
                             req'[k].doc = req'[j].doc /\ j # k => req'[j].doc \in mixed'
                        /\ req'[j].doc \notin mixed' =>
                             /\ req'[j].val = stored'[req'[j].doc]
                             /\ pc'[j] = "again" => Good(req[j].doc)'
      BY <2>5 DEF RequestInv
    <3>1. j \in Open /\ req[j].doc \in Docs /\ req'[j] = req[j]
      BY <2>5 DEF FiledInv, RequestInv, StoreTypes
    <3>2. CASE req[j].doc = d
      BY <2>1, <2>2, <2>4, <2>5, <3>1, <3>2 DEF FiledInv, RequestInv, Good
    <3>3. CASE req[j].doc # d
      BY <2>1, <2>2, <2>3, <2>5, <3>1, <3>3 DEF FiledInv, RequestInv, Good
    <3> QED
      BY <3>2, <3>3
  <2>8. TouchedInv'
    BY <2>2, <2>3, <2>4, <2>6 DEF FiledInv, TouchedInv, StoreTypes, Settled
  <2>9. UntouchedInv'
    BY <2>1, <2>2, <2>3 DEF FiledInv, UntouchedInv, Settled
  <2> QED
    BY <2>7, <2>8, <2>9 DEF FiledInv
<1>4. CASE ReadDocuments
  <2>1. /\ ~Settled /\ ~Settled' /\ population'.found = stored /\ population'.at = "delete"
        /\ UNCHANGED <<stored, entries, reqVars>>
    BY <1>4 DEF ReadDocuments, Settled, StoreTypes, storeVars
  <2>2. RequestInv' /\ TouchedInv'
    BY <2>1 DEF FiledInv, RequestInv, TouchedInv, Open, reqVars, Good
  <2>3. UntouchedInv'
    BY <2>1 DEF UntouchedInv, StoreTypes
  <2> QED
    BY <2>2, <2>3 DEF FiledInv
<1>5. ASSUME NEW d \in Docs, DeleteEntry(d) \/ AddEntry(d)
      PROVE  FiledInv'
  <2>1. ~Settled /\ ~Settled' /\ UNCHANGED <<stored, reqVars>>
    BY <1>5 DEF DeleteEntry, AddEntry, Settled, StoreTypes, reqVars
  <2>2. touched \ mixed = {} /\ \A i \in Open : req[i].doc \in mixed
    BY <2>1 DEF FiledInv, TouchedInv, RequestInv
  <2>3. RequestInv' /\ TouchedInv'
    BY <2>1, <2>2 DEF FiledInv, RequestInv, TouchedInv, Open, reqVars
  <2>4. population.found[d] \in Values \cup {Absent}
    BY DEF StoreTypes, Stores
  <2>5. UntouchedInv'
    <3>1. CASE DeleteEntry(d)
      <4>1. entries'[d] = {} /\ \A e \in Docs : e # d => entries'[e] = entries[e]
        BY <3>1, FiledIsStored DEF DeleteEntry
      <4>2. /\ population.at = "delete" /\ population.found[d] # Absent
            /\ population'.at = "add" /\ population'.doc = d /\ population'.found = population.found
        BY <3>1 DEF DeleteEntry, StoreTypes
      <4> QED
        BY <2>1, <4>1, <4>2 DEF FiledInv, UntouchedInv, reqVars
    <3>2. CASE AddEntry(d)
      <4>1. /\ \A e \in Docs : e # d => entries'[e] = entries[e]
            /\ population.found[d] # Absent => entries'[d] = entries[d] \cup {population.found[d]}
        BY <2>4, <3>2, FiledIsStored DEF AddEntry
      <4>2. /\ population.at = "add" /\ population.doc = d
            /\ population'.at = "delete"
            /\ population'.found = [population.found EXCEPT ![d] = Absent]
        BY <3>2 DEF AddEntry, StoreTypes
      <4>3. population'.found[d] = Absent
            /\ \A e \in Docs : e # d => population'.found[e] = population.found[e]
        BY <4>2 DEF StoreTypes, Stores
      <4> QED
        BY <2>1, <4>1, <4>2, <4>3 DEF FiledInv, UntouchedInv, reqVars
    <3> QED
      BY <1>5, <3>1, <3>2
  <2> QED
    BY <2>3, <2>5 DEF FiledInv
<1>6. CASE Populated
  <2>1. /\ population.at = "delete" /\ \A d \in Docs : population.found[d] = Absent
        /\ ~Settled /\ Settled' /\ population'.at = "swap"
        /\ UNCHANGED <<stored, entries, pc, req, touched, mixed>>
    BY <1>6 DEF Populated, StoreTypes, Settled, storeVars, reqVars
  <2>2. RequestInv' /\ TouchedInv'
    BY <2>1 DEF FiledInv, RequestInv, TouchedInv, Open, Good
  <2>3. UntouchedInv'
    BY <2>1 DEF FiledInv, UntouchedInv
  <2> QED
    BY <2>2, <2>3 DEF FiledInv
<1>7. ASSUME NEW s \in Swappers, Swap(s)
      PROVE  FiledInv'
  <2>1. CASE BeginSwap(s)
    BY <2>1, NothingFiled DEF BeginSwap, storeVars, reqVars
  <2>2. CASE NothingOpened(s) \/ SetSearcher(s)
    <3>1. UNCHANGED <<stored, entries, pc, req, touched, mixed>>
      BY <2>2 DEF NothingOpened, SetSearcher, EndSwap, storeVars, reqVars
    <3>2. population' = population \/ (s = "update" /\ Settled')
      BY <2>2 DEF NothingOpened, SetSearcher, EndSwap, StoreTypes, Settled
    <3>3. swap[s] # "idle"
      BY <2>2 DEF NothingOpened, SetSearcher, At
    <3> QED
      BY <3>1, <3>2, <3>3, NothingFiled DEF UpdateSettles
  <2>3. CASE OpenIfChanged(s)
    BY <2>3, NothingFiled DEF OpenIfChanged, storeVars, reqVars
  <2>4. CASE CloseOld(s) \/ SetReader(s)
    BY <2>4, NothingFiled DEF CloseOld, SetReader, storeVars, reqVars
  <2> QED
    BY <1>7, <2>1, <2>2, <2>3, <2>4 DEF Swap, Advance
<1>8. ASSUME NEW r \in Places, GraceEnds(r)
      PROVE  FiledInv'
  BY <1>8, NothingFiled DEF GraceEnds, storeVars, reqVars
<1>9. CASE MaintenanceCommits
  <2>1. /\ stored' = stored /\ entries' = entries /\ population' = population
        /\ pc' = pc /\ req' = req /\ touched' = touched /\ mixed' = mixed
    BY <1>9 DEF MaintenanceCommits, reqVars
  <2> QED
    BY <2>1, NothingFiled
<1>10. CASE Restart
  <2>1. Open' = {} /\ touched' = {} /\ population'.at = "read"
    BY <1>10 DEF Restart, Started, NotBegun, Open, StoreTypes
  <2> QED
    BY <2>1 DEF FiledInv, RequestInv, TouchedInv, UntouchedInv, Settled
<1> QED
  BY <1>1, <1>2, <1>3, <1>4, <1>5, <1>6, <1>7, <1>8, <1>9, <1>10 DEF Next, Request, Populate

\* Once the index is populated, it files of every document that nobody has written since
\* the start what git has of it and nothing else, and of one that was written by requests
\* one after the other at least its content, or nothing if it is deleted.
THEOREM SettledFiled == Spec => []SettledDocsFiled
<1>1. Init => FiledInv
  BY DEF Init, NotBegun, FiledInv, RequestInv, TouchedInv, UntouchedInv, Open, Settled
<1>2. TypeInv /\ FiledInv /\ [Next]_vars => TypeInv' /\ FiledInv'
  BY TypeInvStep, FiledInvStep
<1>3. TypeInv /\ FiledInv => SettledDocsFiled
  BY DEF TypeInv, TypeOK, FiledInv, TouchedInv, UntouchedInv, Good, SettledDocsFiled
<1> QED
  BY TypeInvInit, <1>1, <1>2, <1>3, PTL DEF Spec
=============================================================================
