------------------------------ MODULE NrtIndex ------------------------------
(***************************************************************************)
(* The near-real-time search index of the server (index/lucene_nrt.clj)    *)
(* with what keeps it up to date: the requests that file documents, the    *)
(* periodic refresh, the hourly maintenance and the population from        *)
(* storage after a start (index/lucene.clj).  They share the writer and    *)
(* two atoms, the reader that the next refresh starts from and the         *)
(* searcher that searches use, and no lock.                                *)
(*                                                                         *)
(* Abstractions.  A document is the set of contents filed under its id:    *)
(* adding removes no older content and filing one twice is not told from   *)
(* filing it once.  There is one branch, as the index knows none.  Lucene  *)
(* is external, taken by what its writer and readers promise.  The         *)
(* commits of lucene_nrt.clj are left out: force-commit! hands an          *)
(* AtomicBoolean to compare-and-set!, which throws at once, so only the    *)
(* maintenance commits.                                                    *)
(***************************************************************************)
EXTENDS Naturals, FiniteSets

CONSTANTS
  Docs,
  NoDoc,
  Values,      \* contents of documents
  Absent,
  Existing,    \* Existing[d]: content of d in git when the server is first started
  MaxRequests, \* bound: writes
  MaxCrashes   \* bound: deaths of the process

ASSUME IndexConstants ==
  /\ NoDoc \notin Docs /\ Absent \notin Values
  /\ Existing \in [Docs -> Values \cup {Absent}]
  /\ MaxRequests \in Nat /\ MaxCrashes \in Nat

VARIABLES
  stored,     \* stored[d]: content of d in git
  entries,    \* entries[d]: what the writer holds under d
  committed,  \* the entries of its last commit
  holds,      \* holds[p]: the reader that place p refers to
  current,    \* open readers that show all entries there are
  closed,     \* readers that are closed
  grace,      \* readers that a refresh has replaced and is about to close
  swap,       \* swap[s]: how far s is in replacing the reader
  population, \* how far ensure-index-populated is
  pc, req,    \* pc[i], req[i]: next step of the i-th request, and its write
  crashes,
  met,        \* history: two of them have been at it at a time since the start
  touched,    \* history: documents written since the start
  mixed       \* history: those of them written while another filed them too
storeVars  == <<stored, entries, committed>>
swapVars   == <<holds, closed, grace, swap, met>>
readerVars == <<current, swapVars>>
reqVars    == <<pc, req, touched, mixed>>
vars == <<storeVars, readerVars, population, reqVars, crashes>>

-----------------------------------------------------------------------------
Contents == [Docs -> SUBSET Values]
Nothing  == [d \in Docs |-> {}]
Requests == 1 .. MaxRequests
Stores   == [Docs -> Values \cup {Absent}]

\* Who replaces the reader: force-refresh! of the refresh task, and
\* ensure-searcher-updated! of the population and, from the first hour on, of the
\* maintenance.
Swappers == {"refresh", "update"}
Phases   == {"idle", "read", "open", "close", "set-reader", "set-searcher"}

\* What refers to readers: the two atoms (a searcher by the reader it searches) and the
\* variables of swaps.  A reader goes by the name of one of the places that refer to it.
Reader   == <<"atom", "reader">>
Searcher == <<"atom", "searcher">>
Old(s)   == <<s, "old">>
New(s)   == <<s, "new">>
Places   == {Reader, Searcher} \cup UNION {{Old(s), New(s)} : s \in Swappers}
NoReader == <<"no", "reader">>
Referred(h) == {h[p] : p \in Places} \ {NoReader}

Writes   == [doc : Docs \cup {NoDoc}, val : Values \cup {Absent}]
NoWrite  == [doc |-> NoDoc, val |-> Absent]
NotBegun == [at |-> "read", found |-> [d \in Docs |-> Absent], doc |-> NoDoc]

InSwap == {s \in Swappers : swap[s] \notin {"idle", "read"}}
OneReader == [p \in Places |-> IF p \in {Reader, Searcher} THEN Reader ELSE NoReader]

\* create-nrt-index opens a reader on what the writer finds committed.
Started ==
  /\ holds' = OneReader /\ closed' = {} /\ grace' = {} /\ met' = FALSE
  /\ swap' = [s \in Swappers |-> "idle"]
  /\ population' = NotBegun

TypeOK ==
  /\ stored \in Stores /\ entries \in Contents /\ committed \in Contents
  /\ holds \in [Places -> Places \cup {NoReader}]
  /\ current \subseteq Referred(holds) /\ closed \subseteq Referred(holds)
  /\ grace \subseteq Referred(holds)
  /\ swap \in [Swappers -> Phases]
  /\ population \in [at : {"read", "delete", "add", "swap", "done"}, found : Stores,
                     doc : Docs \cup {NoDoc}]
  /\ pc \in [Requests -> {"start", "index", "again", "end"}]
  /\ req \in [Requests -> Writes]
  /\ crashes \in 0 .. MaxCrashes
  /\ met \in BOOLEAN /\ touched \subseteq Docs /\ mixed \subseteq touched

\* A first start of the server on a repository that has documents already.
Init ==
  /\ stored = Existing /\ entries = Nothing /\ committed = Nothing
  /\ holds = OneReader /\ closed = {} /\ grace = {} /\ met = FALSE
  /\ current = {Reader}
  /\ swap = [s \in Swappers |-> "idle"]
  /\ population = NotBegun
  /\ pc = [i \in Requests |-> "start"]
  /\ req = [i \in Requests |-> NoWrite]
  /\ crashes = 0
  /\ touched = {} /\ mixed = {}

-----------------------------------------------------------------------------
(* Requests.  The handlers of durable.clj store and file a document under  *)
(* the branch lock; the protocol handler then files it once more, except   *)
(* that some (DEL of Redis) leave it at that.                              *)

\* A bug: A content that is not there is added like any other.
FiledAlways(d, v, e) == [e EXCEPT ![d] = @ \cup {v}]

Filed(d, v, e) == [e EXCEPT ![d] = IF v = Absent THEN {} ELSE @ \cup {v}]

\* addDocument and deleteDocuments of the writer.  Removing what is not there may leave
\* readers current.
File(d, v) ==
  /\ entries' = Filed(d, v, entries)
  /\ current' \in IF v = Absent /\ entries[d] = {} THEN {current, {}} ELSE {{}}

Settled == population.at \in {"swap", "done"}
Open    == {i \in Requests : pc[i] \in {"index", "again"}}
Writing == {req[i].doc : i \in Open}

\* A request takes the lock and stores.  Requests are numbered as they do.  Deleting what
\* is not there throws before the index is reached.
Store(i, d, v) ==
  /\ pc[i] = "start" /\ \A j \in Requests : pc[j] # "index" /\ (j < i => pc[j] # "start")
  /\ v = Absent => stored[d] # Absent
  /\ stored' = [stored EXCEPT ![d] = v]
  /\ pc' = [pc EXCEPT ![i] = "index"]
  /\ req' = [req EXCEPT ![i] = [doc |-> d, val |-> v]]
  /\ touched' = touched \cup {d}
  /\ mixed' = IF d \in Writing \/ ~Settled THEN mixed \cup {d} ELSE mixed
  /\ UNCHANGED <<entries, committed, readerVars, population, crashes>>

\* index-document and delete-document under the lock, which is released
FileUnderLock(i) ==
  /\ pc[i] = "index"
  /\ File(req[i].doc, req[i].val)
  /\ pc' = [pc EXCEPT ![i] = "again"]
  /\ UNCHANGED <<stored, committed, swapVars, population, req, touched, mixed, crashes>>

EndRequest(i) ==
  /\ pc' = [pc EXCEPT ![i] = "end"] /\ req' = [req EXCEPT ![i] = NoWrite]
  /\ UNCHANGED <<stored, committed, swapVars, population, touched, mixed, crashes>>

\* the same by the protocol handler, without the lock
FileAgain(i) ==
  /\ pc[i] = "again"
  /\ File(req[i].doc, req[i].val)
  /\ EndRequest(i)

\* DEL of the Redis protocol leaves the index to the storage.
FiledOnce(i) ==
  /\ pc[i] = "again" /\ req[i].val = Absent
  /\ UNCHANGED <<entries, current>>
  /\ EndRequest(i)

-----------------------------------------------------------------------------
(* Replacing the reader: force-refresh! of the refresh task, and           *)
(* ensure-searcher-updated! of the maintenance and the population.  The    *)
(* second closes the old reader before it sets the new one, the first a    *)
(* while after.                                                            *)

At(s, l) == swap[s] = l
Step(s, l) == swap' = [swap EXCEPT ![s] = l]

\* The places refer to h from now on, and the readers in c, g and n are closed, about to
\* be closed and current.  A reader that nothing refers to is forgotten, the others are
\* named anew.  (The quantifiers have TLC evaluate h and the names once.)
Namings(h) == {[r \in Referred(h) |-> CHOOSE p \in Places : h[p] = r]}
Refer(h, c, g, n) ==
  \E k \in {h} : \E name \in Namings(k) :
    /\ holds' = [p \in Places |-> IF k[p] = NoReader THEN NoReader ELSE name[k[p]]]
    /\ closed' = {name[r] : r \in c \cap Referred(k)}
    /\ grace' = {name[r] : r \in g \cap Referred(k)}
    /\ current' = {name[r] : r \in (n \ c) \cap Referred(k)}

\* The commit of the hourly cycle.  The population is over in the first hour.
MaintenanceCommits ==
  /\ population.at = "done" /\ At("update", "idle") /\ Step("update", "read")
  /\ committed' = entries
  /\ UNCHANGED <<stored, entries, holds, current, closed, grace, met, population, reqVars, crashes>>

\* The swap reads reader-atom.
BeginSwap(s) ==
  /\ At(s, IF s = "refresh" THEN "idle" ELSE "read") /\ Step(s, "open")
  /\ Refer([holds EXCEPT ![Old(s)] = holds[Reader]], closed, grace, current)
  /\ met' = (met \/ InSwap # {})
  /\ UNCHANGED <<storeVars, population, reqVars, crashes>>

EndSwap(s) ==
  /\ Step(s, "idle")
  /\ population' = IF s = "update" THEN [population EXCEPT !.at = "done"] ELSE population
  /\ UNCHANGED <<storeVars, met, reqVars, crashes>>

\* A bug: refresh-reader closes the reader also when there is no newer one.
ClosesAnyway(s) ==
  /\ At(s, "open") /\ holds[Old(s)] \in closed \cup current /\ EndSwap(s)
  /\ Refer([holds EXCEPT ![Old(s)] = NoReader], closed \cup {holds[Old(s)]}, grace, current)

\* openIfChanged throws on a closed reader and returns nothing when the reader is current.
NothingOpened(s) ==
  /\ At(s, "open") /\ holds[Old(s)] \in closed \cup current /\ EndSwap(s)
  /\ Refer([holds EXCEPT ![Old(s)] = NoReader], closed, grace, current)

\* A bug: openIfChanged is called without the writer and shows what is committed.
OpensCommitted(s) ==
  /\ At(s, "open") /\ holds[Old(s)] \notin closed \cup current
  /\ Step(s, IF s = "refresh" THEN "set-reader" ELSE "close")
  /\ LET r == CHOOSE p \in Places : p \notin Referred(holds)
     IN  Refer([holds EXCEPT ![New(s)] = r], closed, grace,
               current \cup (IF committed = entries THEN {r} ELSE {}))
  /\ UNCHANGED <<storeVars, met, population, reqVars, crashes>>

OpenIfChanged(s) ==
  /\ At(s, "open") /\ holds[Old(s)] \notin closed \cup current
  /\ Step(s, IF s = "refresh" THEN "set-reader" ELSE "close")
  /\ LET r == CHOOSE p \in Places : p \notin Referred(holds)
     IN  Refer([holds EXCEPT ![New(s)] = r], closed, grace, current \cup {r})
  /\ UNCHANGED <<storeVars, met, population, reqVars, crashes>>

\* refresh-reader closes the reader it replaces.
CloseOld(s) ==
  /\ At(s, "close") /\ Step(s, "set-reader")
  /\ Refer([holds EXCEPT ![Old(s)] = NoReader], closed \cup {holds[Old(s)]}, grace, current)
  /\ UNCHANGED <<storeVars, met, population, reqVars, crashes>>

SetReader(s) ==
  /\ At(s, "set-reader") /\ Step(s, "set-searcher")
  /\ Refer([holds EXCEPT ![Reader] = holds[New(s)]], closed, grace, current)
  /\ UNCHANGED <<storeVars, met, population, reqVars, crashes>>

\* A refresh will close the old reader after the grace period.
SetSearcher(s) ==
  /\ At(s, "set-searcher") /\ EndSwap(s)
  /\ Refer([holds EXCEPT ![Searcher] = holds[New(s)], ![Old(s)] = NoReader, ![New(s)] = NoReader],
           closed, grace \cup ({holds[Old(s)]} \ {NoReader}), current)

\* The future of force-refresh! that closes the replaced reader
GraceEnds(r) ==
  /\ r \in grace
  /\ Refer(holds, closed \cup {r}, grace \ {r}, current)
  /\ UNCHANGED <<storeVars, swap, met, population, reqVars, crashes>>

-----------------------------------------------------------------------------
(* ensure-index-populated *)

ReadDocuments ==
  /\ population.at = "read"
  /\ population' = [population EXCEPT !.at = "delete", !.found = stored]
  /\ UNCHANGED <<storeVars, readerVars, reqVars, crashes>>

\* A bug: The population adds documents without deleting what is filed.
DeletesNothing(d) ==
  /\ population.at = "delete" /\ population.found[d] # Absent
  /\ population' = [population EXCEPT !.at = "add", !.doc = d]
  /\ UNCHANGED <<storeVars, readerVars, reqVars, crashes>>

DeleteEntry(d) ==
  /\ population.at = "delete" /\ population.found[d] # Absent
  /\ File(d, Absent)
  /\ population' = [population EXCEPT !.at = "add", !.doc = d]
  /\ UNCHANGED <<stored, committed, swapVars, reqVars, crashes>>

AddEntry(d) ==
  /\ population.at = "add" /\ d = population.doc
  /\ File(d, population.found[d])
  /\ population' = [population EXCEPT !.at = "delete", !.doc = NoDoc, !.found[d] = Absent]
  /\ UNCHANGED <<stored, committed, swapVars, reqVars, crashes>>

Populated ==
  /\ population.at = "delete" /\ \A d \in Docs : population.found[d] = Absent
  /\ population' = [population EXCEPT !.at = "swap"] /\ Step("update", "read")
  /\ UNCHANGED <<storeVars, holds, current, closed, grace, met, reqVars, crashes>>

\* The process dies and is started again.  Recovery may file the write of the request
\* that held the lock, whose log entry is unfinished; all else that was not committed
\* is gone.
Restart ==
  /\ crashes < MaxCrashes /\ crashes' = crashes + 1
  /\ \/ entries' = committed /\ current' = {Reader}
     \/ \E i \in Requests :
          /\ pc[i] = "index"
          /\ entries' = Filed(req[i].doc, req[i].val, committed) /\ current' = {}
  /\ Started
  /\ pc' = [i \in Requests |-> IF i \in Open THEN "end" ELSE pc[i]]
  /\ req' = [i \in Requests |-> NoWrite]
  /\ touched' = {} /\ mixed' = {}
  /\ UNCHANGED <<stored, committed>>

-----------------------------------------------------------------------------
Work(i) == FileUnderLock(i) \/ FileAgain(i) \/ FiledOnce(i)
Request(i) ==
  \/ \E d \in Docs, v \in Values \cup {Absent} : Store(i, d, v)
  \/ Work(i)
Advance(s) ==
  NothingOpened(s) \/ OpenIfChanged(s) \/ CloseOld(s) \/ SetReader(s) \/ SetSearcher(s)
Swap(s) == BeginSwap(s) \/ Advance(s)
Populate == ReadDocuments \/ (\E d \in Docs : DeleteEntry(d) \/ AddEntry(d)) \/ Populated

Next ==
  \/ \E i \in Requests : Request(i)
  \/ \E s \in Swappers : Swap(s)
  \/ \E r \in Places : GraceEnds(r)
  \/ MaintenanceCommits
  \/ Populate
  \/ Restart

Spec == Init /\ [][Next]_vars

\* The refresh task runs again and again, and a swap that has begun goes on.  Requests and
\* the population may stop for good.
FairSpec == Spec /\ \A s \in Swappers : WF_vars(Swap(s))

-----------------------------------------------------------------------------
\* A closed reader does not stay in reader-atom, from which every later swap starts.
ReaderReopens ==
  holds[Reader] \in closed =>
    \E s \in Swappers : At(s, "set-reader") /\ holds[New(s)] \notin closed

\* Between swaps searches use the reader that the next swap starts from, unless two
\* have met.
SearcherFollows == InSwap = {} /\ ~met => holds[Searcher] = holds[Reader]

\* The atoms are usable whatever refresh, maintenance and population do at a time.
ReadersUsable == ReaderReopens /\ SearcherFollows

\* Once the index is populated, a document that nobody has written since the start is
\* filed under what git has of it and nothing else, whatever an earlier run left
\* uncommitted; one that was written is found under its content, and not at all when it
\* is deleted, unless its writers met each other or the population.
SettledDocsFiled ==
  Settled =>
    \A d \in Docs \ (mixed \cup Writing) :
      /\ stored[d] # Absent =>
           stored[d] \in entries[d] /\ (d \notin touched => entries[d] = {stored[d]})
      /\ stored[d] = Absent /\ d \in touched => entries[d] = {}

\* Searches find all that is filed once writes pause for long enough, or two swaps that
\* met have left searches a reader no swap starts from.
SearchCurrent == holds[Searcher] \in current
FiledIsFound == <>[](SearchCurrent \/ (met /\ holds[Searcher] # holds[Reader]))
=============================================================================
