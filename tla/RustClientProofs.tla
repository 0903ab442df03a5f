-------------------------- MODULE RustClientProofs --------------------------
(***************************************************************************)
(* Proofs about RustClient for every set of clients and of paths, every    *)
(* choice of what they open and call, and every number of workers.         *)
(*                                                                         *)
(* The inductive invariant says, of a client, which worker it refers to at *)
(* each step (Places); of a worker, what its step implies for its isolate  *)
(* (Isolates); of a channel, that what is in it or taken from it is a call *)
(* that waits (Channels); and how the steps of a worker and those of the   *)
(* clients that refer to it go together (Lives).                           *)
(***************************************************************************)
EXTENDS RustClient, FiniteSetTheorems, TLAPS

Holding  == {"register", "in", "wait"}
Starting == {"isolate", "open"}

\* Where the clients are, and whom they refer to: a worker that a client has started or
\* is stopping is nobody else's.
Refers ==
  \A c \in Clients :
    /\ inst[c] # 0 <=> pc[c] \in Holding
    /\ at[c] # 0 <=> pc[c] \in {"create"} \cup Dropping
    /\ inst[c] <= made /\ at[c] <= made
    /\ pc[c] = "out" \/ asked[c] \in Origins
    /\ pc[c] = "wait" => command[c] \in Commands
Alone ==
  \A c, d \in Clients : at[c] # 0 => (at[d] = at[c] => d = c) /\ inst[d] # at[c]
Places == Refers /\ Alone

\* Workers not yet started.
Unborn ==
  \A w \in Workers :
    /\ w > made => /\ wpc[w] = "unborn" /\ queue[w] = <<>> /\ serving[w] = NoClient
                   /\ ~suspended[w] /\ w \notin isolates
    /\ w <= made => wpc[w] # "unborn" /\ origin[w] \in Origins

\* The step of a worker, and whether its isolate is up.
Isolates ==
  \A w \in Workers :
    /\ wpc[w] \in {"serve"} \cup Starting => (suspended[w] <=> wpc[w] # "serve" /\ serving[w] # NoClient)
    /\ wpc[w] = "serve" => serving[w] # NoClient
    /\ wpc[w] \notin {"serve"} \cup Starting => serving[w] = NoClient
    /\ wpc[w] = "suspend" => ~suspended[w]
    /\ wpc[w] = "backoff" => suspended[w]
    /\ wpc[w] = "open" => w \in isolates
    /\ w \in opened => wpc[w] \in {"recv", "serve", "suspend", "close"} /\ ~suspended[w]
    /\ wpc[w] \in {"recv", "serve", "suspend"} /\ ~suspended[w] => w \in opened

Awaits(c, w) == c \in Clients /\ pc[c] = "wait" /\ inst[c] = w /\ reply[c] = NoAnswer
AwaitsNext(c, w) ==
  c \in Clients /\ pc'[c] = "wait" /\ inst'[c] = w /\ reply'[c] = NoAnswer

\* The commands in a channel and the one taken from it: calls that wait, each there once.
Calls ==
  \A w \in Workers :
    /\ \A i \in 1 .. Len(queue[w]) : queue[w][i] # Shutdown =>
         Awaits(queue[w][i], w) /\ queue[w][i] # serving[w]
    /\ \A i, j \in 1 .. Len(queue[w]) : i # j => queue[w][i] # queue[w][j]
    /\ serving[w] # NoClient => Awaits(serving[w], w)
CallsNext ==
  \A w \in Workers :
    /\ \A i \in 1 .. Len(queue'[w]) : queue'[w][i] # Shutdown =>
         AwaitsNext(queue'[w][i], w) /\ queue'[w][i] # serving'[w]
    /\ \A i, j \in 1 .. Len(queue'[w]) : i # j => queue'[w][i] # queue'[w][j]
    /\ serving'[w] # NoClient => AwaitsNext(serving'[w], w)
Channels ==
  /\ \A c \in Clients : reply[c] # NoAnswer => pc[c] = "wait"
  /\ Calls

\* The steps of a worker and those of the clients that refer to it.
Held(w) ==
  /\ wpc[w] \in Running
  /\ wpc[w] \in Starting => serving[w] # NoClient
  /\ \A i \in 1 .. Len(queue[w]) : queue[w][i] # Shutdown
Made(w) ==
  /\ wpc[w] \in {"isolate", "open", "recv", "suspend", "ended"}
  /\ queue[w] = <<>> /\ serving[w] = NoClient
Waiting(w) == wpc[w] \in {"recv", "suspend", "backoff"}
Left(w) == Waiting(w) /\ queue[w] = <<>>
Ending(w) ==
  \/ Waiting(w) /\ queue[w] = <<Shutdown>>
  \/ wpc[w] \in {"close", "ended"} /\ queue[w] = <<>>
Gone(w) == wpc[w] \in {"unborn", "ended"} /\ queue[w] = <<>>
Life(w) ==
  /\ \A c \in Clients :
       /\ inst[c] = w => Held(w)
       /\ at[c] = w /\ pc[c] = "create" => Made(w)
       /\ at[c] = w /\ pc[c] \in {"unregister", "shutdown"} => Left(w)
       /\ at[c] = w /\ pc[c] = "join" => Ending(w)
  /\ (\A c \in Clients : inst[c] # w /\ at[c] # w) => Gone(w)
Lives == \A w \in Workers : Life(w)

\* Every failing call takes the message that it leaves.
NoMessages ==
  /\ \A w \in Workers : lastError[w] = NoClient
  /\ ErrorsOwn

Inv ==
  /\ TypeOK /\ Places /\ Unborn /\ Isolates /\ Channels /\ Lives /\ NoMessages
  /\ IsolatesReleased

-----------------------------------------------------------------------------
(* The cases of a step *)

AnySend(c) == \E commands \in SUBSET Commands : Send(c, commands)

LEMMA CallsSend ==
  ASSUME NEW c \in Clients, Calling(c) PROVE AnySend(c) \/ Unparsed(c)
  BY DEF Calling, AnySend, CallDocument, CallList, CallQuery, CallRemote, CallBackup,
         CallLastError, Commands

-----------------------------------------------------------------------------
(* Types *)

LEMMA PathTypes ==
  ASSUME NEW o \in Origins
  PROVE  o.path \in Spellings /\ o.key \in Spellings /\ o.idle \in BOOLEAN
         /\ PathOf(o) \in Paths /\ PathOf(o) \in Spellings
  BY ClientConstants DEF Origins, PathOf, Paths

LEMMA AnswerTypes ==
  /\ \A k \in Kinds : Plain(k) \in Answers
  /\ NoAnswer \notin Answers
  /\ \A k \in Kinds, c \in Clients \cup {NoClient} : [kind |-> k, of |-> c] \in Answers
  BY DEF Plain, Answers, NoAnswer, Kinds

\* What is known of a client and of its worker at a step.
LEMMA ClientTypes ==
  ASSUME Inv, NEW c \in Clients
  PROVE  /\ inst[c] \in {0} \cup Workers /\ at[c] \in {0} \cup Workers
         /\ inst[c] # 0 <=> pc[c] \in Holding
         /\ at[c] # 0 <=> pc[c] \in {"create"} \cup Dropping
         /\ pc[c] # "out" => asked[c] \in Origins
         /\ inst[c] # 0 => origin[inst[c]] \in Origins /\ inst[c] <= made
         /\ at[c] # 0 => origin[at[c]] \in Origins /\ at[c] <= made
  BY ClientConstants DEF Inv, Places, Refers, Unborn, TypeOK, Workers

LEMMA WorkerTypes ==
  ASSUME Inv, NEW w \in Workers, wpc[w] # "unborn"
  PROVE  w <= made /\ origin[w] \in Origins /\ Db(w) \in Paths /\ w # 0
<1>1. w <= made /\ origin[w] \in Origins /\ w # 0
  BY ClientConstants DEF Inv, Unborn, TypeOK, Workers
<1> QED
  BY <1>1, PathTypes DEF Db

LEMMA PoppedTypes ==
  ASSUME TypeOK, NEW w \in Workers, queue[w] # <<>>, Popped(w)
  PROVE  /\ queue' \in [Workers -> Seq(Clients \cup {Shutdown})]
         /\ Head(queue[w]) \in Clients \cup {Shutdown}
  BY DEF TypeOK, Popped

LEMMA ClosedTypes ==
  ASSUME TypeOK, NEW w \in Workers, Closed(w)
  PROVE  /\ isolates' \subseteq Workers /\ opened' \subseteq isolates'
         /\ lastError' \in [Workers -> Clients \cup {NoClient}]
         /\ writeLock' \in [Paths -> {0} \cup Workers]
<1>1. /\ isolates' \subseteq Workers /\ opened' \subseteq isolates'
      /\ lastError' \in [Workers -> Clients \cup {NoClient}]
  BY DEF TypeOK, Closed
<1>2. writeLock' \in [Paths -> {0} \cup Workers]
  <2>1. writeLock' = [writeLock EXCEPT ![Db(w)] = IF writeLock[Db(w)] = w THEN 0 ELSE writeLock[Db(w)]]
    BY DEF Closed
  <2>2. CASE Db(w) \in Paths
    <3>1. (IF writeLock[Db(w)] = w THEN 0 ELSE writeLock[Db(w)]) \in {0} \cup Workers
      BY <2>2 DEF TypeOK
    <3> QED
      BY <2>1, <3>1 DEF TypeOK
  <2>3. CASE Db(w) \notin Paths
    BY <2>1, <2>3 DEF TypeOK
  <2> QED
    BY <2>2, <2>3
<1> QED
  BY <1>1, <1>2

LEMMA RefusesTypes ==
  ASSUME TypeOK, NEW c \in Clients, Refuses(c)
  PROVE  reply' \in [Clients -> Answers \cup {NoAnswer}]
<1>1. "message" \in Kinds /\ "unavailable" \in Kinds
  BY DEF Kinds
<1>2. Plain(IF command[c] = "last_error" THEN "message" ELSE "unavailable") \in Answers
  BY <1>1, AnswerTypes
<1> QED
  BY <1>2 DEF TypeOK, Refuses

LEMMA InitFailsTypes ==
  ASSUME TypeOK, NEW w \in Workers, InitFails(w)
  PROVE  /\ reply' \in [Clients -> Answers \cup {NoAnswer}]
         /\ serving' \in [Workers -> Clients \cup {NoClient}]
         /\ wpc' \in [Workers -> WorkerPCs]
<1>1. CASE serving[w] = NoClient
  BY <1>1 DEF InitFails, TypeOK, WorkerGoto, WorkerPCs
<1>2. CASE serving[w] # NoClient
  <2>1. Refuses(serving[w]) /\ serving[w] \in Clients
    BY <1>2 DEF InitFails, TypeOK
  <2> QED
    BY <1>2, <2>1, RefusesTypes DEF InitFails, TypeOK, WorkerGoto, WorkerPCs
<1> QED
  BY <1>1, <1>2

\* Nothing that a call does leaves a message, and what its caller is told is its own.
LEMMA ResultsTypes ==
  ASSUME NEW c \in Clients, NEW m \in Commands, NEW r \in Results(m, c, NoClient)
  PROVE  /\ r.told \in Answers /\ r.told.of \in {c, NoClient} /\ r.left = NoClient
         /\ r.told.kind \in Allowed[m]
<1> DEFINE K(kind) == r.told.kind = kind
<1>1. \/ r = Told("value", NoClient) \/ r = Told("notfound", NoClient)
      \/ r = Told("empty", NoClient) \/ r = Told("error", NoClient)
      \/ r = Told("json", NoClient) \/ r = Taken(c) \/ r = Taken(NoClient)
      \/ r = [told |-> [kind |-> "message", of |-> NoClient], left |-> NoClient]
  BY DEF Results, PutResults, GetResults, DeleteResults, ListResults, QueryResults,
         SqlResults, RemoteResults, BackupResults, LastErrorResults, Parsed, Reporting,
         NotCString, Commands, DocumentCommands, ListCommands, QueryCommands, RemoteCommands,
         BackupCommands
<1>2. r.told \in Answers
  BY <1>1 DEF Answers, Kinds, Told, Taken, Plain
<1>3. r.told.of \in {c, NoClient} /\ r.left = NoClient
  BY <1>1 DEF Told, Taken, Plain
<1>4. /\ r = Told("value", NoClient) => K("value")
      /\ r = Told("notfound", NoClient) => K("notfound")
      /\ r = Told("empty", NoClient) => K("empty")
      /\ r = Told("json", NoClient) => K("json")
      /\ r \in {Told("error", NoClient), Taken(c), Taken(NoClient)} => K("error")
  BY DEF Told, Taken, Plain
<1>5. r.told.kind \in AllowedKinds(m)
  <2>1. CASE m \in DocumentCommands \cup QueryCommands
    <3>1. CASE m \in {"put", "execute_sql", "query"}
      <4>1. \/ r = Told("value", NoClient) \/ r = Told("json", NoClient)
            \/ r \in {Told("error", NoClient), Taken(c), Taken(NoClient)}
        BY <3>1 DEF Results, PutResults, QueryResults, SqlResults, Parsed, Reporting,
             NotCString, ListCommands, RemoteCommands, BackupCommands
      <4>2. {"value", "json", "error"} \subseteq AllowedKinds(m)
        BY <3>1 DEF AllowedKinds, ListCommands
      <4> QED
        BY <4>1, <4>2, <1>4
    <3>2. CASE m = "get"
      <4>1. \/ r = Told("value", NoClient) \/ r = Told("json", NoClient)
            \/ r = Told("notfound", NoClient) \/ r = Told("error", NoClient)
        BY <3>2 DEF Results, GetResults, Parsed, NotCString, ListCommands, RemoteCommands,
             BackupCommands
      <4>2. {"value", "json", "notfound", "error"} \subseteq AllowedKinds(m)
        BY <3>2 DEF AllowedKinds, ListCommands
      <4> QED
        BY <4>1, <4>2, <1>4
    <3>3. CASE m = "delete"
      <4>1. \/ r = Told("value", NoClient) \/ r = Told("notfound", NoClient)
            \/ r \in {Told("error", NoClient), Taken(NoClient)}
        BY <3>3 DEF Results, DeleteResults, NotCString, ListCommands, RemoteCommands,
             BackupCommands
      <4>2. {"value", "notfound", "error"} \subseteq AllowedKinds(m)
        BY <3>3 DEF AllowedKinds, ListCommands
      <4> QED
        BY <4>1, <4>2, <1>4
    <3> QED
      BY <2>1, <3>1, <3>2, <3>3 DEF DocumentCommands, QueryCommands
  <2>2. CASE m \in ListCommands
    <3>1. \/ r = Told("value", NoClient) \/ r = Told("json", NoClient)
          \/ r = Told("empty", NoClient) \/ r = Told("error", NoClient)
      BY <2>2 DEF Results, ListResults, Parsed, NotCString, ListCommands, RemoteCommands,
           BackupCommands
    <3>2. {"value", "json", "empty", "error"} \subseteq AllowedKinds(m)
      BY <2>2 DEF AllowedKinds, ListCommands
    <3> QED
      BY <3>1, <3>2, <1>4
  <2>3. CASE m \in RemoteCommands \cup BackupCommands
    <3>1. \/ r = Told("value", NoClient) \/ r = Told("json", NoClient)
          \/ r \in {Told("error", NoClient), Taken(c)}
      BY <2>3 DEF Results, RemoteResults, BackupResults, Parsed, Reporting, NotCString,
           ListCommands, RemoteCommands, BackupCommands
    <3>2. {"value", "json", "error"} \subseteq AllowedKinds(m)
      BY <2>3 DEF AllowedKinds, ListCommands, RemoteCommands, BackupCommands
    <3> QED
      BY <3>1, <3>2, <1>4
  <2>4. CASE m = "last_error"
    <3>1. r.told.kind = "message"
      BY <2>4 DEF Results, LastErrorResults, BackupCommands, RemoteCommands, ListCommands
    <3>2. "message" \in AllowedKinds(m)
      BY <2>4 DEF AllowedKinds, ListCommands
    <3> QED
      BY <3>1, <3>2
  <2> QED
    BY <2>1, <2>2, <2>3, <2>4 DEF Commands
<1>6. r.told.kind \in Allowed[m]
  BY <1>5 DEF Allowed
<1> QED
  BY <1>2, <1>3, <1>6

LEMMA TypeStep == ASSUME Inv, [Next]_vars PROVE TypeOK'
<1>t. TypeOK
  BY DEF Inv
<1>Open. ASSUME NEW c \in Clients, Open(c) PROVE TypeOK'
  <2>1. asked' \in [Clients -> Origins \cup {NoOrigin}] /\ irregular' \subseteq Paths
    BY <1>Open, ClientConstants, <1>t DEF Open, Origins, KeyOf, TypeOK, Paths
  <2> QED
    BY <1>Open, <1>t, <2>1 DEF Open, Goto, clientVars, workerVars, libVars, TypeOK, PCs,
       Dropping
<1>Reuse. ASSUME NEW c \in Clients, Reuse(c) PROVE TypeOK'
  <2>1. asked[c].key \in Spellings
    BY <1>Reuse, ClientTypes, PathTypes DEF Reuse
  <2>2. registry[asked[c].key] \in Workers
    BY <1>Reuse, <2>1, <1>t DEF Reuse, Upgrades, TypeOK
  <2> QED
    BY <1>Reuse, <1>t, <2>1, <2>2 DEF Reuse, Goto, clientVars, workerVars, libVars, TypeOK,
       PCs, Dropping
<1>Spawn. ASSUME NEW c \in Clients, Spawn(c) PROVE TypeOK'
  <2>1. made + 1 \in Workers /\ made' \in 0 .. MaxWorkers
    BY <1>Spawn, ClientConstants, <1>t DEF Spawn, TypeOK, Workers
  <2>2. asked[c] \in Origins
    BY <1>Spawn, ClientTypes DEF Spawn
  <2>3. wpc' \in [Workers -> WorkerPCs]
    BY <1>Spawn, <2>1, <1>t DEF Spawn, WorkerGoto, WorkerPCs, TypeOK
  <2>4. origin' \in [Workers -> Origins \cup {NoOrigin}]
    BY <1>Spawn, <2>1, <2>2, <1>t DEF Spawn, TypeOK
  <2> QED
    BY <1>Spawn, <1>t, <2>1, <2>2, <2>3, <2>4 DEF Spawn, Goto, clientVars, workerVars,
       libVars, TypeOK, PCs, Dropping
<1>Opened. ASSUME NEW c \in Clients, Opened(c) PROVE TypeOK'
  BY <1>Opened, <1>t, ClientConstants DEF Opened, Goto, clientVars, workerVars, libVars,
     TypeOK, PCs, Dropping
<1>OpenFails. ASSUME NEW c \in Clients, OpenFails(c) PROVE TypeOK'
  BY <1>OpenFails, <1>t, ClientConstants DEF OpenFails, Goto, clientVars, workerVars,
     libVars, TypeOK, PCs, Dropping
<1>Register. ASSUME NEW c \in Clients, Register(c) PROVE TypeOK'
  <2>1. inst[c] \in Workers
    BY <1>Register, ClientTypes DEF Register, Holding
  <2> QED
    BY <1>Register, <1>t, <2>1 DEF Register, Goto, clientVars, workerVars, libVars, TypeOK,
       PCs, Dropping
<1>AnySend. ASSUME NEW c \in Clients, AnySend(c) PROVE TypeOK'
  <2>1. inst[c] \in Workers
    BY <1>AnySend, ClientTypes DEF AnySend, Send, Holding
  <2>2. Append(queue[inst[c]], c) \in Seq(Clients \cup {Shutdown})
    BY <1>AnySend, <2>1, <1>t DEF TypeOK
  <2>3. queue' \in [Workers -> Seq(Clients \cup {Shutdown})]
    BY <1>AnySend, <2>1, <2>2, <1>t DEF TypeOK, AnySend, Send
  <2>4. command' \in [Clients -> Commands \cup {NoCommand}]
    BY <1>AnySend, <1>t DEF TypeOK, AnySend, Send
  <2> QED
    BY <1>AnySend, <1>t, <2>1, <2>2, <2>3, <2>4 DEF AnySend, Send, Goto, clientVars,
       workerVars, libVars, TypeOK, PCs, Dropping
<1>Unparsed. ASSUME NEW c \in Clients, Unparsed(c) PROVE TypeOK'
  <2>1. Plain("json") \in Answers
    BY <1>Unparsed, AnswerTypes DEF Kinds
  <2>2. reply' \in [Clients -> Answers \cup {NoAnswer}]
    BY <1>Unparsed, <2>1, <1>t DEF TypeOK, Unparsed
  <2>3. command' \in [Clients -> Commands \cup {NoCommand}]
    BY <1>Unparsed, <1>t, ClientConstants DEF TypeOK, Unparsed
  <2> QED
    BY <1>Unparsed, <1>t, <2>1, <2>2, <2>3 DEF Unparsed, Goto, clientVars, workerVars,
       libVars, TypeOK, PCs, Dropping
<1>Receive. ASSUME NEW c \in Clients, Receive(c) PROVE TypeOK'
  BY <1>Receive, <1>t, ClientConstants DEF Receive, Goto, clientVars, workerVars, libVars,
     TypeOK, PCs, Dropping
<1>Drop. ASSUME NEW c \in Clients, Drop(c) PROVE TypeOK'
  <2>1. asked[c] \in Origins
    BY <1>Drop, ClientTypes DEF Drop
  <2>2. PathOf(asked[c]) \in Paths
    BY <1>Drop, <2>1, PathTypes
  <2>3. irregular' \subseteq Paths
    BY <1>Drop, <2>2, <1>t DEF Drop, TypeOK
  <2>4. asked' \in [Clients -> Origins \cup {NoOrigin}] /\ at' \in [Clients -> {0} \cup
     Workers]
    BY <1>Drop, <1>t DEF Drop, TypeOK
  <2>5. pc' \in [Clients -> PCs]
    BY <1>Drop, <1>t DEF Drop, Goto, TypeOK, PCs, Dropping
  <2> QED
    BY <1>Drop, <1>t, <2>1, <2>2, <2>3, <2>4, <2>5 DEF Drop, Goto, clientVars, workerVars,
       libVars, TypeOK, PCs, Dropping
<1>Unregister. ASSUME NEW c \in Clients, Unregister(c) PROVE TypeOK'
  <2>1. registry' \in [Spellings -> {0} \cup Workers]
    BY <1>Unregister, <1>t DEF Unregister, TypeOK
  <2> QED
    BY <1>Unregister, <1>t, <2>1 DEF Unregister, Goto, clientVars, workerVars, libVars,
       TypeOK, PCs, Dropping
<1>SendShutdown. ASSUME NEW c \in Clients, SendShutdown(c) PROVE TypeOK'
  <2>1. at[c] \in Workers
    BY <1>SendShutdown, ClientTypes DEF SendShutdown, Dropping
  <2>2. Append(queue[at[c]], Shutdown) \in Seq(Clients \cup {Shutdown})
    BY <1>SendShutdown, <2>1, <1>t DEF TypeOK
  <2>3. queue' \in [Workers -> Seq(Clients \cup {Shutdown})]
    BY <1>SendShutdown, <2>1, <2>2, <1>t DEF TypeOK, SendShutdown
  <2> QED
    BY <1>SendShutdown, <1>t, <2>1, <2>2, <2>3 DEF SendShutdown, Goto, clientVars,
       workerVars, libVars, TypeOK, PCs, Dropping
<1>Join. ASSUME NEW c \in Clients, Join(c) PROVE TypeOK'
  BY <1>Join, <1>t, ClientConstants DEF Join, Goto, clientVars, workerVars, libVars,
     TypeOK, PCs, Dropping
<1>MakeIsolate. ASSUME NEW w \in Workers, MakeIsolate(w) PROVE TypeOK'
  BY <1>MakeIsolate, <1>t, ClientConstants DEF MakeIsolate, WorkerGoto, clientVars,
     workerVars, libVars, TypeOK, WorkerPCs
<1>MakeIsolateFails. ASSUME NEW w \in Workers, MakeIsolateFails(w) PROVE TypeOK'
  <2>1. InitFails(w)
    BY <1>MakeIsolateFails DEF MakeIsolateFails
  <2>2. TypeOK'
    BY <1>MakeIsolateFails, <2>1, <1>t, InitFailsTypes DEF MakeIsolateFails, TypeOK,
       libVars
  <2> QED
    BY <2>2
<1>OpenDatabase. ASSUME NEW w \in Workers, OpenDatabase(w) PROVE TypeOK'
  <2>1. Db(w) \in Paths /\ w \in isolates
    BY <1>OpenDatabase, WorkerTypes DEF OpenDatabase, Inv, Isolates
  <2>2. there' \subseteq Paths /\ opened' \subseteq isolates' /\ isolates' \subseteq
     Workers
    BY <1>OpenDatabase, <2>1, <1>t DEF OpenDatabase, TypeOK
  <2>3. suspended' \in [Workers -> BOOLEAN] /\ writeLock' \in [Paths -> {0} \cup Workers]
    BY <1>OpenDatabase, <1>t DEF OpenDatabase, TypeOK
  <2>4. wpc' \in [Workers -> WorkerPCs]
    BY <1>OpenDatabase, <1>t DEF OpenDatabase, TypeOK, WorkerGoto, WorkerPCs
  <2> QED
    BY <1>OpenDatabase, <1>t, <2>1, <2>2, <2>3, <2>4 DEF OpenDatabase, WorkerGoto,
       clientVars, workerVars, libVars, TypeOK, WorkerPCs
<1>OpenDatabaseFails. ASSUME NEW w \in Workers, OpenDatabaseFails(w) PROVE TypeOK'
  <2>1. InitFails(w)
    BY <1>OpenDatabaseFails DEF OpenDatabaseFails
  <2>2. Db(w) \in Paths /\ w \notin opened
    BY <1>OpenDatabaseFails, WorkerTypes DEF OpenDatabaseFails, Inv, Isolates
  <2>3. there' \subseteq Paths /\ isolates' \subseteq Workers /\ opened' \subseteq
     isolates'
    BY <1>OpenDatabaseFails, <2>2, <1>t DEF OpenDatabaseFails, TypeOK
  <2>4. TypeOK'
    BY <1>OpenDatabaseFails, <2>1, <2>3, <1>t, InitFailsTypes DEF OpenDatabaseFails, TypeOK
  <2> QED
    BY <2>4
<1>PathRefused. ASSUME NEW w \in Workers, PathRefused(w) PROVE TypeOK'
  <2>1. InitFails(w)
    BY <1>PathRefused DEF PathRefused
  <2>2. TypeOK'
    BY <1>PathRefused, <2>1, <1>t, InitFailsTypes DEF PathRefused, TypeOK, libVars
  <2> QED
    BY <2>2
<1>TakeCommand. ASSUME NEW w \in Workers, TakeCommand(w) PROVE TypeOK'
  <2>1. Popped(w) /\ queue[w] # <<>>
    BY <1>TakeCommand DEF TakeCommand
  <2> QED
    BY <1>TakeCommand, <1>t, <2>1, PoppedTypes DEF TakeCommand, WorkerGoto, clientVars,
       workerVars, libVars, TypeOK, WorkerPCs, Shutdown
<1>Resume. ASSUME NEW w \in Workers, Resume(w) PROVE TypeOK'
  <2>1. Popped(w) /\ queue[w] # <<>>
    BY <1>Resume DEF Resume
  <2>2. writeLock' \in [Paths -> {0} \cup Workers] /\ serving' \in [Workers -> Clients \cup
     {NoClient}]
    BY <1>Resume, <2>1, <1>t, PoppedTypes DEF Resume, TypeOK, Shutdown
  <2> QED
    BY <1>Resume, <1>t, <2>1, <2>2, PoppedTypes DEF Resume, WorkerGoto, clientVars,
       workerVars, libVars, TypeOK, WorkerPCs
<1>TakeShutdown. ASSUME NEW w \in Workers, TakeShutdown(w) PROVE TypeOK'
  <2>1. Popped(w) /\ queue[w] # <<>>
    BY <1>TakeShutdown DEF TakeShutdown
  <2> QED
    BY <1>TakeShutdown, <1>t, <2>1, PoppedTypes DEF TakeShutdown, WorkerGoto, clientVars,
       workerVars, libVars, TypeOK, WorkerPCs
<1>IdleTimeout. ASSUME NEW w \in Workers, IdleTimeout(w) PROVE TypeOK'
  BY <1>IdleTimeout, <1>t, ClientConstants DEF IdleTimeout, WorkerGoto, clientVars,
     workerVars, libVars, TypeOK, WorkerPCs
<1>Suspend. ASSUME NEW w \in Workers, Suspend(w) PROVE TypeOK'
  <2>1. Closed(w)
    BY <1>Suspend DEF Suspend
  <2>2. suspended' \in [Workers -> BOOLEAN] /\ wpc' \in [Workers -> WorkerPCs]
    BY <1>Suspend, <1>t DEF Suspend, TypeOK, WorkerGoto, WorkerPCs
  <2> QED
    BY <1>Suspend, <1>t, <2>1, <2>2, ClosedTypes DEF Suspend, WorkerGoto, clientVars,
       workerVars, libVars, TypeOK, WorkerPCs
<1>BackoffRefuse. ASSUME NEW w \in Workers, BackoffRefuse(w) PROVE TypeOK'
  <2>1. Popped(w) /\ queue[w] # <<>> /\ Refuses(Head(queue[w]))
    BY <1>BackoffRefuse DEF BackoffRefuse
  <2>2. Head(queue[w]) \in Clients
    BY <1>BackoffRefuse, <2>1, <1>t, PoppedTypes DEF BackoffRefuse, Shutdown
  <2> QED
    BY <1>BackoffRefuse, <1>t, <2>1, <2>2, PoppedTypes, RefusesTypes DEF BackoffRefuse,
       WorkerGoto, clientVars, workerVars, libVars, TypeOK, WorkerPCs
<1>BackoffEnds. ASSUME NEW w \in Workers, BackoffEnds(w) PROVE TypeOK'
  BY <1>BackoffEnds, <1>t, ClientConstants DEF BackoffEnds, WorkerGoto, clientVars,
     workerVars, libVars, TypeOK, WorkerPCs
<1>CloseAndEnd. ASSUME NEW w \in Workers, CloseAndEnd(w) PROVE TypeOK'
  <2>1. Closed(w)
    BY <1>CloseAndEnd DEF CloseAndEnd
  <2> QED
    BY <1>CloseAndEnd, <1>t, <2>1, ClosedTypes DEF CloseAndEnd, WorkerGoto, clientVars,
       workerVars, libVars, TypeOK, WorkerPCs
<1>Serve. ASSUME NEW w \in Workers, Serve(w) PROVE TypeOK'
  <2>1. serving[w] \in Clients /\ command[serving[w]] \in Commands
    BY <1>Serve, <1>t DEF Serve, Inv, TypeOK, Isolates, Channels, Calls, Awaits, Places,
       Refers
  <2>2. PICK r \in Results(command[serving[w]], serving[w], NoClient) :
             /\ reply' = [reply EXCEPT ![serving[w]] = r.told]
             /\ lastError' = [lastError EXCEPT ![w] = r.left]
    BY <1>Serve DEF Serve, Inv, NoMessages
  <2>3. r.told \in Answers /\ r.left = NoClient
    BY <1>Serve, <2>1, ResultsTypes
  <2>4. reply' \in [Clients -> Answers \cup {NoAnswer}] /\ lastError' \in [Workers ->
     Clients \cup {NoClient}]
    BY <1>Serve, <2>2, <2>3, <1>t DEF TypeOK
  <2>5. wpc' \in [Workers -> WorkerPCs] /\ serving' \in [Workers -> Clients \cup
     {NoClient}]
    BY <1>Serve, <1>t DEF Serve, TypeOK, WorkerGoto, WorkerPCs
  <2> QED
    BY <1>Serve, <1>t, <2>1, <2>2, <2>3, <2>4, <2>5 DEF Serve, WorkerGoto, clientVars,
       workerVars, libVars, TypeOK, WorkerPCs
<1>stutter. CASE UNCHANGED vars
  BY <1>stutter, <1>t DEF TypeOK, vars, clientVars, workerVars, libVars
<1> QED
  BY CallsSend, <1>Open, <1>Reuse, <1>Spawn, <1>Opened, <1>OpenFails, <1>Register,
     <1>AnySend, <1>Unparsed, <1>Receive, <1>Drop, <1>Unregister, <1>SendShutdown, <1>Join,
     <1>MakeIsolate, <1>MakeIsolateFails, <1>OpenDatabase, <1>OpenDatabaseFails,
     <1>PathRefused, <1>TakeCommand, <1>Resume, <1>TakeShutdown, <1>IdleTimeout,
     <1>Suspend, <1>BackoffRefuse, <1>BackoffEnds, <1>CloseAndEnd, <1>Serve, <1>stutter DEF
     Next, Continues, Works

LEMMA PlacesStep == ASSUME Inv, [Next]_vars PROVE Places'
<1>t. TypeOK /\ Places
  BY DEF Inv
<1>Open. ASSUME NEW c \in Clients, Open(c) PROVE Places'
  BY <1>Open, <1>t, ClientConstants DEF Open, KeyOf, Goto, clientVars, workerVars, libVars,
     TypeOK, Places, Refers, Alone, Holding, Dropping, Origins, NoOrigin
<1>Reuse. ASSUME NEW c \in Clients, Reuse(c) PROVE Places'
  <2>1. PICK d \in Clients : inst[d] = registry[asked[c].key] /\ inst[d] # 0
    BY <1>Reuse, <1>t DEF Reuse, Upgrades, Holders
  <2> QED
    BY <1>Reuse, <1>t, <2>1 DEF Reuse, Goto, clientVars, workerVars, libVars, TypeOK,
       Places, Refers, Alone, Holding, Dropping, Origins
<1>Spawn. ASSUME NEW c \in Clients, Spawn(c) PROVE Places'
  <2>1. made \in Nat /\ \A d \in Clients : at[d] \in Nat /\ inst[d] \in Nat
    BY <1>Spawn, <1>t, ClientConstants DEF TypeOK, Workers
  <2>2. \A d \in Clients : at[d] < made + 1 /\ inst[d] < made + 1
    BY <1>Spawn, <1>t, <2>1 DEF Places, Refers
  <2>3. inst' = inst /\ at'[c] = made + 1 /\ made' = made + 1 /\ pc'[c] = "create" /\
     asked' = asked /\ command' = command
    BY <1>Spawn, <1>t DEF Spawn, Goto, TypeOK
  <2>4. \A d \in Clients \ {c} : at'[d] = at[d] /\ pc'[d] = pc[d]
    BY <1>Spawn, <1>t DEF Spawn, Goto, TypeOK
  <2>5. pc[c] = "lookup" /\ inst[c] = 0
    BY <1>Spawn, <1>t DEF Spawn, Places, Refers, Alone, Holding
  <2> QED
    BY <1>Spawn, <1>t, <2>1, <2>2, <2>3, <2>4, <2>5 DEF Spawn, Goto, clientVars,
       workerVars, libVars, TypeOK, Places, Refers, Alone, Holding, Dropping, Origins
<1>Opened. ASSUME NEW c \in Clients, Opened(c) PROVE Places'
  BY <1>Opened, <1>t DEF Opened, Goto, clientVars, workerVars, libVars, TypeOK, Places,
     Refers, Alone, Holding, Dropping, Origins
<1>OpenFails. ASSUME NEW c \in Clients, OpenFails(c) PROVE Places'
  BY <1>OpenFails, <1>t DEF OpenFails, Goto, clientVars, workerVars, libVars, TypeOK,
     Places, Refers, Alone, Holding, Dropping, Origins
<1>Register. ASSUME NEW c \in Clients, Register(c) PROVE Places'
  BY <1>Register, <1>t DEF Register, Goto, clientVars, workerVars, libVars, TypeOK, Places,
     Refers, Alone, Holding, Dropping, Origins
<1>AnySend. ASSUME NEW c \in Clients, AnySend(c) PROVE Places'
  BY <1>AnySend, <1>t DEF AnySend, Send, Goto, clientVars, workerVars, libVars, TypeOK,
     Places, Refers, Alone, Holding, Dropping, Origins
<1>Unparsed. ASSUME NEW c \in Clients, Unparsed(c) PROVE Places'
  BY <1>Unparsed, <1>t, ClientConstants DEF Unparsed, Goto, clientVars, workerVars,
     libVars, TypeOK, Places, Refers, Alone, Holding, Dropping, Origins
<1>Receive. ASSUME NEW c \in Clients, Receive(c) PROVE Places'
  BY <1>Receive, <1>t DEF Receive, Goto, clientVars, workerVars, libVars, TypeOK, Places,
     Refers, Alone, Holding, Dropping, Origins
<1>Drop. ASSUME NEW c \in Clients, Drop(c) PROVE Places'
  <2>1. inst'[c] = 0 /\ inst[c] # 0 /\ at[c] = 0 /\ pc[c] = "in" /\ command' = command /\
     made' = made
    BY <1>Drop, <1>t DEF Drop, TypeOK, Places, Refers, Alone, Holding, Dropping
  <2>2. \A d \in Clients \ {c} : inst'[d] = inst[d] /\ at'[d] = at[d] /\ pc'[d] = pc[d] /\
     asked'[d] = asked[d]
    BY <1>Drop, <1>t DEF Drop, Goto, TypeOK
  <2>3. Holders(inst[c]) = {c} => \A d \in Clients \ {c} : inst[d] # inst[c] /\ inst'[d] #
     inst[c] /\ at[d] # inst[c]
    BY <1>Drop, <1>t, <2>1, <2>2 DEF Holders, Places, Refers, Alone
  <2>4. Holders(inst[c]) = {c} => at'[c] = inst[c] /\ pc'[c] = "unregister" /\ asked'[c] =
     asked[c]
    BY <1>Drop, <1>t DEF Drop, Goto, TypeOK
  <2>5. ASSUME Holders(inst[c]) = {c} PROVE Places'
    <3>1. Refers'
      BY <1>Drop, <1>t, <2>5, <2>1, <2>2, <2>3, <2>4, <1>t DEF Places, Refers, Holding, Dropping
    <3>2. Alone'
      BY <2>5, <2>1, <2>2, <2>3, <2>4, <1>t DEF Places, Alone
    <3> QED
      BY <3>1, <3>2 DEF Places
  <2>6. ASSUME Holders(inst[c]) # {c} PROVE Places'
    BY <1>Drop, <1>t, <2>1, <2>2, <2>6 DEF Drop, Goto, TypeOK, Places, Refers, Alone,
       Holding, Dropping
  <2> QED
    BY <1>Drop, <1>t, <2>1, <2>2, <2>3, <2>4, <2>5, <2>6 DEF Drop, Goto, clientVars,
       workerVars, libVars, TypeOK, Places, Refers, Alone, Holding, Dropping, Origins,
       Holders
<1>Unregister. ASSUME NEW c \in Clients, Unregister(c) PROVE Places'
  BY <1>Unregister, <1>t DEF Unregister, Goto, clientVars, workerVars, libVars, TypeOK,
     Places, Refers, Alone, Holding, Dropping, Origins
<1>SendShutdown. ASSUME NEW c \in Clients, SendShutdown(c) PROVE Places'
  BY <1>SendShutdown, <1>t DEF SendShutdown, Goto, clientVars, workerVars, libVars, TypeOK,
     Places, Refers, Alone, Holding, Dropping, Origins
<1>Join. ASSUME NEW c \in Clients, Join(c) PROVE Places'
  BY <1>Join, <1>t DEF Join, Goto, clientVars, workerVars, libVars, TypeOK, Places, Refers,
     Alone, Holding, Dropping, Origins
<1>kept. CASE UNCHANGED <<made, inst, at, pc, asked, command>>
  BY <1>kept, <1>t DEF Places, Refers, Alone, Holding, Dropping, Origins
<1>stutter. CASE UNCHANGED vars
  BY <1>stutter, <1>kept DEF vars, clientVars, workerVars, libVars
<1>workers. ASSUME NEW w \in Workers, MakeIsolate(w) \/ MakeIsolateFails(w) \/ OpenDatabase(w) \/ OpenDatabaseFails(w)
            \/ PathRefused(w) \/ TakeCommand(w) \/ Resume(w) \/ TakeShutdown(w) \/
            IdleTimeout(w) \/ Suspend(w) \/ BackoffRefuse(w) \/ BackoffEnds(w) \/
            CloseAndEnd(w) \/ Serve(w) PROVE Places'
  BY <1>workers, <1>kept DEF MakeIsolate, MakeIsolateFails, OpenDatabase,
     OpenDatabaseFails, PathRefused, TakeCommand, Resume, TakeShutdown, IdleTimeout,
     Suspend, BackoffRefuse, BackoffEnds, CloseAndEnd, Serve, InitFails, Closed, Popped,
     Refuses, WorkerGoto, clientVars, workerVars, libVars
<1> QED
  BY CallsSend, <1>Open, <1>Reuse, <1>Spawn, <1>Opened, <1>OpenFails, <1>Register,
     <1>AnySend, <1>Unparsed, <1>Receive, <1>Drop, <1>Unregister, <1>SendShutdown, <1>Join,
     <1>stutter, <1>workers DEF Next, Continues, Works

LEMMA UnbornStep == ASSUME Inv, [Next]_vars PROVE Unborn'
<1>t. TypeOK /\ Unborn
  BY DEF Inv
<1>Spawn. ASSUME NEW c \in Clients, Spawn(c) PROVE Unborn'
  <2>1. made \in Nat /\ asked[c] \in Origins
    BY <1>Spawn, <1>t, ClientTypes, ClientConstants DEF Spawn, TypeOK
  <2>2. \/ wpc'[made + 1] = "isolate" /\ origin'[made + 1] = asked[c]
        \/ made + 1 \notin Workers
    BY <1>Spawn, <1>t DEF Spawn, WorkerGoto, TypeOK
  <2>3. \A w \in Workers : w # made + 1 => wpc'[w] = wpc[w] /\ origin'[w] = origin[w]
    BY <1>Spawn, <1>t DEF Spawn, WorkerGoto, TypeOK
  <2>4. Unborn'
    BY <1>Spawn, <1>t, <2>1, <2>2, <2>3 DEF Spawn, Unborn, workerVars, libVars, Workers
  <2> QED
    BY <2>4
<1>AnySend. ASSUME NEW c \in Clients, AnySend(c) PROVE Unborn'
  <2>1. inst[c] \in Workers /\ inst[c] <= made
    BY <1>AnySend, <1>t, ClientTypes DEF AnySend, Send, Holding
  <2> QED
    BY <1>AnySend, <1>t, <2>1 DEF AnySend, Send, Goto, clientVars, workerVars, libVars,
       TypeOK, Unborn
<1>SendShutdown. ASSUME NEW c \in Clients, SendShutdown(c) PROVE Unborn'
  <2>1. at[c] \in Workers /\ at[c] <= made
    BY <1>SendShutdown, <1>t, ClientTypes DEF SendShutdown, Dropping
  <2> QED
    BY <1>SendShutdown, <1>t, <2>1 DEF SendShutdown, Goto, clientVars, workerVars, libVars,
       TypeOK, Unborn
<1>MakeIsolate. ASSUME NEW w \in Workers, MakeIsolate(w) PROVE Unborn'
  <2>1. wpc[w] # "unborn" /\ w <= made
    BY <1>MakeIsolate, <1>t, WorkerTypes DEF MakeIsolate
  <2> QED
    BY <1>MakeIsolate, <1>t, <2>1 DEF MakeIsolate, WorkerGoto, clientVars, workerVars,
       libVars, TypeOK, Unborn
<1>MakeIsolateFails. ASSUME NEW w \in Workers, MakeIsolateFails(w) PROVE Unborn'
  <2>1. wpc[w] # "unborn" /\ w <= made
    BY <1>MakeIsolateFails, <1>t, WorkerTypes DEF MakeIsolateFails
  <2> QED
    BY <1>MakeIsolateFails, <1>t, <2>1 DEF MakeIsolateFails, InitFails, Refuses,
       WorkerGoto, clientVars, workerVars, libVars, TypeOK, Unborn
<1>OpenDatabase. ASSUME NEW w \in Workers, OpenDatabase(w) PROVE Unborn'
  <2>1. wpc[w] # "unborn" /\ w <= made
    BY <1>OpenDatabase, <1>t, WorkerTypes DEF OpenDatabase
  <2> QED
    BY <1>OpenDatabase, <1>t, <2>1 DEF OpenDatabase, WorkerGoto, clientVars, workerVars,
       libVars, TypeOK, Unborn
<1>OpenDatabaseFails. ASSUME NEW w \in Workers, OpenDatabaseFails(w) PROVE Unborn'
  <2>1. wpc[w] # "unborn" /\ w <= made
    BY <1>OpenDatabaseFails, <1>t, WorkerTypes DEF OpenDatabaseFails
  <2> QED
    BY <1>OpenDatabaseFails, <1>t, <2>1 DEF OpenDatabaseFails, InitFails, Refuses,
       WorkerGoto, clientVars, workerVars, libVars, TypeOK, Unborn
<1>PathRefused. ASSUME NEW w \in Workers, PathRefused(w) PROVE Unborn'
  <2>1. wpc[w] # "unborn" /\ w <= made
    BY <1>PathRefused, <1>t, WorkerTypes DEF PathRefused
  <2> QED
    BY <1>PathRefused, <1>t, <2>1 DEF PathRefused, InitFails, Refuses, WorkerGoto,
       clientVars, workerVars, libVars, TypeOK, Unborn
<1>TakeCommand. ASSUME NEW w \in Workers, TakeCommand(w) PROVE Unborn'
  <2>1. wpc[w] # "unborn" /\ w <= made
    BY <1>TakeCommand, <1>t, WorkerTypes DEF TakeCommand
  <2> QED
    BY <1>TakeCommand, <1>t, <2>1 DEF TakeCommand, Popped, WorkerGoto, clientVars,
       workerVars, libVars, TypeOK, Unborn
<1>Resume. ASSUME NEW w \in Workers, Resume(w) PROVE Unborn'
  <2>1. wpc[w] # "unborn" /\ w <= made
    BY <1>Resume, <1>t, WorkerTypes DEF Resume
  <2> QED
    BY <1>Resume, <1>t, <2>1 DEF Resume, Popped, WorkerGoto, clientVars, workerVars,
       libVars, TypeOK, Unborn
<1>TakeShutdown. ASSUME NEW w \in Workers, TakeShutdown(w) PROVE Unborn'
  <2>1. wpc[w] # "unborn" /\ w <= made
    BY <1>TakeShutdown, <1>t, WorkerTypes DEF TakeShutdown
  <2> QED
    BY <1>TakeShutdown, <1>t, <2>1 DEF TakeShutdown, Popped, WorkerGoto, clientVars,
       workerVars, libVars, TypeOK, Unborn
<1>IdleTimeout. ASSUME NEW w \in Workers, IdleTimeout(w) PROVE Unborn'
  <2>1. wpc[w] # "unborn" /\ w <= made
    BY <1>IdleTimeout, <1>t, WorkerTypes DEF IdleTimeout
  <2> QED
    BY <1>IdleTimeout, <1>t, <2>1 DEF IdleTimeout, WorkerGoto, clientVars, workerVars,
       libVars, TypeOK, Unborn
<1>Suspend. ASSUME NEW w \in Workers, Suspend(w) PROVE Unborn'
  <2>1. wpc[w] # "unborn" /\ w <= made
    BY <1>Suspend, <1>t, WorkerTypes DEF Suspend
  <2> QED
    BY <1>Suspend, <1>t, <2>1 DEF Suspend, Closed, WorkerGoto, clientVars, workerVars,
       libVars, TypeOK, Unborn
<1>BackoffRefuse. ASSUME NEW w \in Workers, BackoffRefuse(w) PROVE Unborn'
  <2>1. wpc[w] # "unborn" /\ w <= made
    BY <1>BackoffRefuse, <1>t, WorkerTypes DEF BackoffRefuse
  <2> QED
    BY <1>BackoffRefuse, <1>t, <2>1 DEF BackoffRefuse, Popped, Refuses, WorkerGoto,
       clientVars, workerVars, libVars, TypeOK, Unborn
<1>BackoffEnds. ASSUME NEW w \in Workers, BackoffEnds(w) PROVE Unborn'
  <2>1. wpc[w] # "unborn" /\ w <= made
    BY <1>BackoffEnds, <1>t, WorkerTypes DEF BackoffEnds
  <2> QED
    BY <1>BackoffEnds, <1>t, <2>1 DEF BackoffEnds, WorkerGoto, clientVars, workerVars,
       libVars, TypeOK, Unborn
<1>CloseAndEnd. ASSUME NEW w \in Workers, CloseAndEnd(w) PROVE Unborn'
  <2>1. wpc[w] # "unborn" /\ w <= made
    BY <1>CloseAndEnd, <1>t, WorkerTypes DEF CloseAndEnd
  <2> QED
    BY <1>CloseAndEnd, <1>t, <2>1 DEF CloseAndEnd, Closed, WorkerGoto, clientVars,
       workerVars, libVars, TypeOK, Unborn
<1>Serve. ASSUME NEW w \in Workers, Serve(w) PROVE Unborn'
  <2>1. wpc[w] # "unborn" /\ w <= made
    BY <1>Serve, <1>t, WorkerTypes DEF Serve
  <2> QED
    BY <1>Serve, <1>t, <2>1 DEF Serve, WorkerGoto, clientVars, workerVars, libVars, TypeOK,
       Unborn
<1>kept. CASE UNCHANGED <<made, wpc, queue, serving, suspended, isolates, origin>>
  BY <1>kept, <1>t DEF Unborn
<1>stutter. CASE UNCHANGED vars
  BY <1>stutter, <1>kept DEF vars, clientVars, workerVars, libVars
<1>clients. ASSUME NEW c \in Clients, Open(c) \/ Reuse(c) \/ Opened(c) \/ OpenFails(c) \/ Register(c) \/ Unparsed(c) \/
            Receive(c) \/ Drop(c) \/ Unregister(c) \/ Join(c) PROVE Unborn'
  BY <1>clients, <1>kept DEF Open, Reuse, Opened, OpenFails, Register, Unparsed, Receive,
     Drop, Unregister, Join, Goto, clientVars, workerVars, libVars
<1> QED
  BY CallsSend, <1>Spawn, <1>AnySend, <1>SendShutdown, <1>MakeIsolate, <1>MakeIsolateFails,
     <1>OpenDatabase, <1>OpenDatabaseFails, <1>PathRefused, <1>TakeCommand, <1>Resume,
     <1>TakeShutdown, <1>IdleTimeout, <1>Suspend, <1>BackoffRefuse, <1>BackoffEnds,
     <1>CloseAndEnd, <1>Serve, <1>stutter, <1>clients DEF Next, Continues, Works

LEMMA IsolatesStep == ASSUME Inv, [Next]_vars PROVE Isolates'
<1>t. TypeOK /\ Isolates /\ Unborn
  BY DEF Inv
<1>Spawn. ASSUME NEW c \in Clients, Spawn(c) PROVE Isolates'
  <2>1. made + 1 > made
    BY <1>Spawn, <1>t, ClientConstants DEF TypeOK
  <2> QED
    BY <1>Spawn, <1>t, <2>1 DEF Spawn, Goto, clientVars, workerVars, libVars, TypeOK,
       Isolates, Starting, WorkerGoto, Unborn
<1>MakeIsolate. ASSUME NEW w \in Workers, MakeIsolate(w) PROVE Isolates'
  BY <1>MakeIsolate, <1>t DEF MakeIsolate, WorkerGoto, clientVars, workerVars, libVars,
     TypeOK, Isolates, Starting
<1>MakeIsolateFails. ASSUME NEW w \in Workers, MakeIsolateFails(w) PROVE Isolates'
  BY <1>MakeIsolateFails, <1>t DEF MakeIsolateFails, InitFails, Refuses, WorkerGoto,
     clientVars, workerVars, libVars, TypeOK, Isolates, Starting
<1>OpenDatabase. ASSUME NEW w \in Workers, OpenDatabase(w) PROVE Isolates'
  BY <1>OpenDatabase, <1>t DEF OpenDatabase, WorkerGoto, clientVars, workerVars, libVars,
     TypeOK, Isolates, Starting
<1>OpenDatabaseFails. ASSUME NEW w \in Workers, OpenDatabaseFails(w) PROVE Isolates'
  BY <1>OpenDatabaseFails, <1>t DEF OpenDatabaseFails, InitFails, Refuses, WorkerGoto,
     clientVars, workerVars, libVars, TypeOK, Isolates, Starting
<1>PathRefused. ASSUME NEW w \in Workers, PathRefused(w) PROVE Isolates'
  BY <1>PathRefused, <1>t DEF PathRefused, InitFails, Refuses, WorkerGoto, clientVars,
     workerVars, libVars, TypeOK, Isolates, Starting
<1>TakeCommand. ASSUME NEW w \in Workers, TakeCommand(w) PROVE Isolates'
  <2>1. Head(queue[w]) # NoClient
    BY <1>TakeCommand, <1>t DEF TakeCommand, Shutdown
  <2> QED
    BY <1>TakeCommand, <1>t, <2>1 DEF TakeCommand, Popped, WorkerGoto, clientVars,
       workerVars, libVars, TypeOK, Isolates, Starting
<1>Resume. ASSUME NEW w \in Workers, Resume(w) PROVE Isolates'
  <2>1. Head(queue[w]) # NoClient
    BY <1>Resume, <1>t DEF Resume, Shutdown
  <2> QED
    BY <1>Resume, <1>t, <2>1 DEF Resume, Popped, WorkerGoto, clientVars, workerVars,
       libVars, TypeOK, Isolates, Starting
<1>TakeShutdown. ASSUME NEW w \in Workers, TakeShutdown(w) PROVE Isolates'
  BY <1>TakeShutdown, <1>t DEF TakeShutdown, Popped, WorkerGoto, clientVars, workerVars,
     libVars, TypeOK, Isolates, Starting
<1>IdleTimeout. ASSUME NEW w \in Workers, IdleTimeout(w) PROVE Isolates'
  BY <1>IdleTimeout, <1>t DEF IdleTimeout, WorkerGoto, clientVars, workerVars, libVars,
     TypeOK, Isolates, Starting
<1>Suspend. ASSUME NEW w \in Workers, Suspend(w) PROVE Isolates'
  BY <1>Suspend, <1>t DEF Suspend, Closed, WorkerGoto, clientVars, workerVars, libVars,
     TypeOK, Isolates, Starting
<1>BackoffRefuse. ASSUME NEW w \in Workers, BackoffRefuse(w) PROVE Isolates'
  BY <1>BackoffRefuse, <1>t DEF BackoffRefuse, Popped, Refuses, WorkerGoto, clientVars,
     workerVars, libVars, TypeOK, Isolates, Starting
<1>BackoffEnds. ASSUME NEW w \in Workers, BackoffEnds(w) PROVE Isolates'
  BY <1>BackoffEnds, <1>t DEF BackoffEnds, WorkerGoto, clientVars, workerVars, libVars,
     TypeOK, Isolates, Starting
<1>CloseAndEnd. ASSUME NEW w \in Workers, CloseAndEnd(w) PROVE Isolates'
  BY <1>CloseAndEnd, <1>t DEF CloseAndEnd, Closed, WorkerGoto, clientVars, workerVars,
     libVars, TypeOK, Isolates, Starting
<1>Serve. ASSUME NEW w \in Workers, Serve(w) PROVE Isolates'
  BY <1>Serve, <1>t DEF Serve, WorkerGoto, clientVars, workerVars, libVars, TypeOK,
     Isolates, Starting
<1>kept. CASE UNCHANGED <<wpc, suspended, serving, isolates, opened>>
  BY <1>kept, <1>t DEF Isolates, Starting
<1>stutter. CASE UNCHANGED vars
  BY <1>stutter, <1>kept DEF vars, clientVars, workerVars, libVars
<1>clients. ASSUME NEW c \in Clients, Open(c) \/ Reuse(c) \/ Opened(c) \/ OpenFails(c) \/ Register(c) \/ AnySend(c) \/
            Unparsed(c) \/ Receive(c) \/ Drop(c) \/ Unregister(c) \/ SendShutdown(c) \/
            Join(c) PROVE Isolates'
  BY <1>clients, <1>kept DEF Open, Reuse, Opened, OpenFails, Register, AnySend, Unparsed,
     Receive, Drop, Unregister, SendShutdown, Join, Send, Goto, clientVars, workerVars,
     libVars
<1> QED
  BY CallsSend, <1>Spawn, <1>MakeIsolate, <1>MakeIsolateFails, <1>OpenDatabase,
     <1>OpenDatabaseFails, <1>PathRefused, <1>TakeCommand, <1>Resume, <1>TakeShutdown,
     <1>IdleTimeout, <1>Suspend, <1>BackoffRefuse, <1>BackoffEnds, <1>CloseAndEnd,
     <1>Serve, <1>stutter, <1>clients DEF Next, Continues, Works

LEMMA ReleasedStep == ASSUME Inv, [Next]_vars PROVE IsolatesReleased'
<1>t. TypeOK /\ IsolatesReleased /\ Isolates /\ Unborn
  BY DEF Inv
<1>Spawn. ASSUME NEW c \in Clients, Spawn(c) PROVE IsolatesReleased'
  <2>1. made + 1 > made
    BY <1>Spawn, <1>t, ClientConstants DEF TypeOK
  <2> QED
    BY <1>Spawn, <1>t, <2>1 DEF Spawn, Goto, clientVars, workerVars, libVars, TypeOK,
       IsolatesReleased, WorkerGoto, Unborn
<1>MakeIsolate. ASSUME NEW w \in Workers, MakeIsolate(w) PROVE IsolatesReleased'
  BY <1>MakeIsolate, <1>t DEF MakeIsolate, WorkerGoto, clientVars, workerVars, libVars,
     TypeOK, IsolatesReleased
<1>MakeIsolateFails. ASSUME NEW w \in Workers, MakeIsolateFails(w) PROVE IsolatesReleased'
  BY <1>MakeIsolateFails, <1>t DEF MakeIsolateFails, InitFails, Refuses, WorkerGoto,
     clientVars, workerVars, libVars, TypeOK, IsolatesReleased
<1>OpenDatabase. ASSUME NEW w \in Workers, OpenDatabase(w) PROVE IsolatesReleased'
  BY <1>OpenDatabase, <1>t DEF OpenDatabase, WorkerGoto, clientVars, workerVars, libVars,
     TypeOK, IsolatesReleased
<1>OpenDatabaseFails. ASSUME NEW w \in Workers, OpenDatabaseFails(w) PROVE IsolatesReleased'
  BY <1>OpenDatabaseFails, <1>t DEF OpenDatabaseFails, InitFails, Refuses, WorkerGoto,
     clientVars, workerVars, libVars, TypeOK, IsolatesReleased
<1>PathRefused. ASSUME NEW w \in Workers, PathRefused(w) PROVE IsolatesReleased'
  BY <1>PathRefused, <1>t DEF PathRefused, InitFails, Refuses, WorkerGoto, clientVars,
     workerVars, libVars, TypeOK, IsolatesReleased
<1>TakeCommand. ASSUME NEW w \in Workers, TakeCommand(w) PROVE IsolatesReleased'
  BY <1>TakeCommand, <1>t DEF TakeCommand, Popped, WorkerGoto, clientVars, workerVars,
     libVars, TypeOK, IsolatesReleased
<1>Resume. ASSUME NEW w \in Workers, Resume(w) PROVE IsolatesReleased'
  BY <1>Resume, <1>t DEF Resume, Popped, WorkerGoto, clientVars, workerVars, libVars,
     TypeOK, IsolatesReleased
<1>TakeShutdown. ASSUME NEW w \in Workers, TakeShutdown(w) PROVE IsolatesReleased'
  BY <1>TakeShutdown, <1>t DEF TakeShutdown, Popped, WorkerGoto, clientVars, workerVars,
     libVars, TypeOK, IsolatesReleased
<1>IdleTimeout. ASSUME NEW w \in Workers, IdleTimeout(w) PROVE IsolatesReleased'
  BY <1>IdleTimeout, <1>t DEF IdleTimeout, WorkerGoto, clientVars, workerVars, libVars,
     TypeOK, IsolatesReleased
<1>Suspend. ASSUME NEW w \in Workers, Suspend(w) PROVE IsolatesReleased'
  BY <1>Suspend, <1>t DEF Suspend, Closed, WorkerGoto, clientVars, workerVars, libVars,
     TypeOK, IsolatesReleased
<1>BackoffRefuse. ASSUME NEW w \in Workers, BackoffRefuse(w) PROVE IsolatesReleased'
  BY <1>BackoffRefuse, <1>t DEF BackoffRefuse, Popped, Refuses, WorkerGoto, clientVars,
     workerVars, libVars, TypeOK, IsolatesReleased
<1>BackoffEnds. ASSUME NEW w \in Workers, BackoffEnds(w) PROVE IsolatesReleased'
  BY <1>BackoffEnds, <1>t DEF BackoffEnds, WorkerGoto, clientVars, workerVars, libVars,
     TypeOK, IsolatesReleased
<1>CloseAndEnd. ASSUME NEW w \in Workers, CloseAndEnd(w) PROVE IsolatesReleased'
  BY <1>CloseAndEnd, <1>t DEF CloseAndEnd, Closed, WorkerGoto, clientVars, workerVars,
     libVars, TypeOK, IsolatesReleased
<1>Serve. ASSUME NEW w \in Workers, Serve(w) PROVE IsolatesReleased'
  <2>1. ~suspended[w] /\ UNCHANGED <<suspended, isolates, origin>>
    BY <1>Serve, <1>t DEF Serve, Isolates
  <2>2. wpc'[w] = "recv" /\ \A x \in Workers \ {w} : wpc'[x] = wpc[x]
    BY <1>Serve, <1>t DEF Serve, WorkerGoto, TypeOK
  <2>3. IsolatesReleased'
    BY <1>Serve, <1>t, <2>1, <2>2 DEF IsolatesReleased, TypeOK
  <2> QED
    BY <2>3
<1>kept. CASE UNCHANGED <<wpc, suspended, isolates, origin>>
  BY <1>kept, <1>t DEF IsolatesReleased
<1>stutter. CASE UNCHANGED vars
  BY <1>stutter, <1>kept DEF vars, clientVars, workerVars, libVars
<1>clients. ASSUME NEW c \in Clients, Open(c) \/ Reuse(c) \/ Opened(c) \/ OpenFails(c) \/ Register(c) \/ AnySend(c) \/
            Unparsed(c) \/ Receive(c) \/ Drop(c) \/ Unregister(c) \/ SendShutdown(c) \/
            Join(c) PROVE IsolatesReleased'
  BY <1>clients, <1>kept DEF Open, Reuse, Opened, OpenFails, Register, AnySend, Unparsed,
     Receive, Drop, Unregister, SendShutdown, Join, Send, Goto, clientVars, workerVars,
     libVars
<1> QED
  BY CallsSend, <1>Spawn, <1>MakeIsolate, <1>MakeIsolateFails, <1>OpenDatabase,
     <1>OpenDatabaseFails, <1>PathRefused, <1>TakeCommand, <1>Resume, <1>TakeShutdown,
     <1>IdleTimeout, <1>Suspend, <1>BackoffRefuse, <1>BackoffEnds, <1>CloseAndEnd,
     <1>Serve, <1>stutter, <1>clients DEF Next, Continues, Works

LEMMA RefusesOwn ==
  ASSUME TypeOK, ErrorsOwn, NEW w \in Workers, InitFails(w) PROVE ErrorsOwn'
<1>1. CASE serving[w] = NoClient
  BY <1>1 DEF InitFails, ErrorsOwn
<1>2. CASE serving[w] # NoClient
  <2>1. serving[w] \in Clients /\ Refuses(serving[w])
    BY <1>2 DEF InitFails, TypeOK
  <2>2. reply'[serving[w]].of = NoClient
    BY <2>1 DEF Refuses, Plain, TypeOK
  <2>3. \A c \in Clients \ {serving[w]} : reply'[c] = reply[c]
    BY <2>1 DEF Refuses, TypeOK
  <2> QED
    BY <2>2, <2>3 DEF ErrorsOwn
<1> QED
  BY <1>1, <1>2

LEMMA NoMessagesStep == ASSUME Inv, [Next]_vars PROVE NoMessages'
<1>t. TypeOK /\ NoMessages
  BY DEF Inv
<1>Unparsed. ASSUME NEW c \in Clients, Unparsed(c) PROVE NoMessages'
  BY <1>Unparsed, <1>t DEF Unparsed, Goto, clientVars, workerVars, libVars, TypeOK,
     NoMessages, ErrorsOwn, Plain, NoAnswer
<1>Receive. ASSUME NEW c \in Clients, Receive(c) PROVE NoMessages'
  BY <1>Receive, <1>t DEF Receive, Goto, clientVars, workerVars, libVars, TypeOK,
     NoMessages, ErrorsOwn, Plain, NoAnswer
<1>MakeIsolateFails. ASSUME NEW w \in Workers, MakeIsolateFails(w) PROVE NoMessages'
  <2>1. ErrorsOwn'
    BY <1>MakeIsolateFails, <1>t, RefusesOwn DEF NoMessages, MakeIsolateFails
  <2> QED
    BY <1>MakeIsolateFails, <1>t, <2>1 DEF MakeIsolateFails, InitFails, Refuses,
       WorkerGoto, clientVars, workerVars, libVars, TypeOK, NoMessages, ErrorsOwn, Plain,
       NoAnswer
<1>OpenDatabaseFails. ASSUME NEW w \in Workers, OpenDatabaseFails(w) PROVE NoMessages'
  <2>1. ErrorsOwn'
    BY <1>OpenDatabaseFails, <1>t, RefusesOwn DEF NoMessages, OpenDatabaseFails
  <2> QED
    BY <1>OpenDatabaseFails, <1>t, <2>1 DEF OpenDatabaseFails, InitFails, Refuses,
       WorkerGoto, clientVars, workerVars, libVars, TypeOK, NoMessages, ErrorsOwn, Plain,
       NoAnswer
<1>PathRefused. ASSUME NEW w \in Workers, PathRefused(w) PROVE NoMessages'
  <2>1. ErrorsOwn'
    BY <1>PathRefused, <1>t, RefusesOwn DEF NoMessages, PathRefused
  <2> QED
    BY <1>PathRefused, <1>t, <2>1 DEF PathRefused, InitFails, Refuses, WorkerGoto,
       clientVars, workerVars, libVars, TypeOK, NoMessages, ErrorsOwn, Plain, NoAnswer
<1>Suspend. ASSUME NEW w \in Workers, Suspend(w) PROVE NoMessages'
  BY <1>Suspend, <1>t DEF Suspend, Closed, WorkerGoto, clientVars, workerVars, libVars,
     TypeOK, NoMessages, ErrorsOwn, Plain, NoAnswer
<1>BackoffRefuse. ASSUME NEW w \in Workers, BackoffRefuse(w) PROVE NoMessages'
  BY <1>BackoffRefuse, <1>t DEF BackoffRefuse, Popped, Refuses, WorkerGoto, clientVars,
     workerVars, libVars, TypeOK, NoMessages, ErrorsOwn, Plain, NoAnswer
<1>CloseAndEnd. ASSUME NEW w \in Workers, CloseAndEnd(w) PROVE NoMessages'
  BY <1>CloseAndEnd, <1>t DEF CloseAndEnd, Closed, WorkerGoto, clientVars, workerVars,
     libVars, TypeOK, NoMessages, ErrorsOwn, Plain, NoAnswer
<1>Serve. ASSUME NEW w \in Workers, Serve(w) PROVE NoMessages'
  <2>1. serving[w] \in Clients /\ command[serving[w]] \in Commands
    BY <1>Serve, <1>t DEF Serve, Inv, TypeOK, Isolates, Channels, Calls, Awaits, Places,
       Refers
  <2>2. PICK r \in Results(command[serving[w]], serving[w], NoClient) :
             /\ reply' = [reply EXCEPT ![serving[w]] = r.told]
             /\ lastError' = [lastError EXCEPT ![w] = r.left]
    BY <1>Serve, <1>t DEF Serve, Inv, NoMessages
  <2>3. r.told.of \in {serving[w], NoClient} /\ r.left = NoClient
    BY <1>Serve, <1>t, <2>1, ResultsTypes
  <2>4. NoMessages'
    BY <1>Serve, <1>t, <2>1, <2>2, <2>3 DEF NoMessages, ErrorsOwn, TypeOK
  <2> QED
    BY <2>4
<1>kept. CASE UNCHANGED <<lastError, reply>>
  BY <1>kept, <1>t DEF NoMessages, ErrorsOwn, Plain, NoAnswer
<1>stutter. CASE UNCHANGED vars
  BY <1>stutter, <1>kept DEF vars, clientVars, workerVars, libVars
<1>workers. ASSUME NEW w \in Workers, MakeIsolate(w) \/ OpenDatabase(w) \/ TakeCommand(w) \/ Resume(w) \/
            TakeShutdown(w) \/ IdleTimeout(w) \/ BackoffEnds(w) PROVE NoMessages'
  BY <1>workers, <1>kept DEF MakeIsolate, OpenDatabase, TakeCommand, Resume, TakeShutdown,
     IdleTimeout, BackoffEnds, InitFails, Closed, Popped, Refuses, WorkerGoto, clientVars,
     workerVars, libVars
<1>clients. ASSUME NEW c \in Clients, Open(c) \/ Reuse(c) \/ Spawn(c) \/ Opened(c) \/ OpenFails(c) \/ Register(c) \/
            AnySend(c) \/ Drop(c) \/ Unregister(c) \/ SendShutdown(c) \/ Join(c) PROVE NoMessages'
  BY <1>clients, <1>kept DEF Open, Reuse, Spawn, Opened, OpenFails, Register, AnySend,
     Drop, Unregister, SendShutdown, Join, Send, Goto, clientVars, workerVars, libVars
<1> QED
  BY CallsSend, <1>Unparsed, <1>Receive, <1>MakeIsolateFails, <1>OpenDatabaseFails,
     <1>PathRefused, <1>Suspend, <1>BackoffRefuse, <1>CloseAndEnd, <1>Serve, <1>stutter,
     <1>workers, <1>clients DEF Next, Continues, Works

LEMMA TailFacts ==
  ASSUME NEW S, NEW q \in Seq(S), q # <<>>
  PROVE  /\ Len(q) \in Nat \ {0} /\ Head(q) = q[1] /\ Tail(q) \in Seq(S)
         /\ Len(Tail(q)) = Len(q) - 1
         /\ \A i \in 1 .. Len(Tail(q)) : i + 1 \in 1 .. Len(q) /\ Tail(q)[i] = q[i + 1]
  OBVIOUS

LEMMA AppendFacts ==
  ASSUME NEW S, NEW q \in Seq(S), NEW x \in S
  PROVE  /\ Len(q) \in Nat /\ Len(Append(q, x)) = Len(q) + 1
         /\ \A i \in 1 .. Len(q) : Append(q, x)[i] = q[i]
         /\ Append(q, x)[Len(q) + 1] = x
  OBVIOUS

LEMMA CallsPrimed == ASSUME CallsNext PROVE Calls'
  BY DEF Calls, CallsNext, Awaits, AwaitsNext

\* A step of a client that waits for no answer, or has its answer, and leaves the channels
\* alone.
LEMMA OthersAwait ==
  ASSUME Inv, NEW c \in Clients, ~(pc[c] = "wait" /\ reply[c] = NoAnswer),
         \A x \in Clients \ {c} : pc'[x] = pc[x] /\ inst'[x] = inst[x] /\ reply'[x] = reply[x],
         reply'[c] # NoAnswer => pc'[c] = "wait",
         UNCHANGED <<queue, serving>>
  PROVE  Channels'
<1>1. \A x, w : Awaits(x, w) => x # c /\ AwaitsNext(x, w)
  BY DEF Awaits, AwaitsNext
<1>2. Calls'
  BY <1>1, CallsPrimed DEF Inv, Channels, Calls, CallsNext
<1>3. \A x \in Clients : reply'[x] # NoAnswer => pc'[x] = "wait"
  BY DEF Inv, Channels
<1> QED
  BY <1>2, <1>3 DEF Channels

\* An answer to a client that is in no channel any more.
LEMMA AnswerKeeps ==
  ASSUME Inv, NEW x \in Clients, pc[x] = "wait", NEW a, reply' = [reply EXCEPT ![x] = a],
         UNCHANGED <<pc, inst>>
  PROVE  /\ \A y, v : Awaits(y, v) /\ y # x => AwaitsNext(y, v)
         /\ \A y \in Clients : reply'[y] # NoAnswer => pc'[y] = "wait"
  BY DEF Inv, Awaits, AwaitsNext, Channels, TypeOK

\* The client that a worker serves is in no channel, and no other worker serves it.
LEMMA ServedOnce ==
  ASSUME Inv, NEW w \in Workers, serving[w] # NoClient
  PROVE  /\ serving[w] \in Clients /\ pc[serving[w]] = "wait" /\ inst[serving[w]] = w
         /\ \A v \in Workers : /\ \A i \in 1 .. Len(queue[v]) : queue[v][i] # serving[w]
                               /\ v # w => serving[v] # serving[w]
<1>1. Calls /\ serving[w] \in Clients
  BY DEF Inv, Channels, TypeOK
<1>2. pc[serving[w]] = "wait" /\ inst[serving[w]] = w
  BY <1>1 DEF Calls, Awaits, AwaitsNext
<1>3. \A v \in Workers : v # w => serving[v] # serving[w]
  BY <1>1, <1>2 DEF Calls, Awaits, AwaitsNext
<1>4. \A v \in Workers : \A i \in 1 .. Len(queue[v]) : queue[v][i] # serving[w]
  <2> SUFFICES ASSUME NEW v \in Workers, NEW i \in 1 .. Len(queue[v]), queue[v][i] = serving[w]
               PROVE FALSE
    OBVIOUS
  <2>1. queue[v][i] # Shutdown
    BY DEF Shutdown
  <2>2. Awaits(queue[v][i], v) /\ queue[v][i] # serving[v]
    BY <1>1, <2>1 DEF Calls
  <2> QED
    BY <2>2, <1>2 DEF Awaits, AwaitsNext
<1> QED
  BY <1>1, <1>2, <1>3, <1>4

\* The command at the head of a channel is in none behind it.
LEMMA HeadOnce ==
  ASSUME Inv, NEW w \in Workers, queue[w] # <<>>, Head(queue[w]) # Shutdown, Popped(w)
  PROVE  /\ Awaits(Head(queue[w]), w) /\ Head(queue[w]) # serving[w]
         /\ \A v \in Workers : /\ \A i \in 1 .. Len(queue'[v]) : queue'[v][i] # Head(queue[w])
                               /\ v # w => serving[v] # Head(queue[w])
<1> DEFINE q == queue[w]
           h == Head(queue[w])
<1>1. Calls /\ q \in Seq(Clients \cup {Shutdown})
  BY DEF Inv, Channels, TypeOK
<1>2. q # <<>> /\ h = q[1] /\ 1 \in 1 .. Len(q)
  BY <1>1, TailFacts
<1>3. Awaits(h, w) /\ h # serving[w] /\ h # NoClient
  BY <1>1, <1>2 DEF Calls, Shutdown
<1>4. \A v \in Workers : v # w => serving[v] # h
  BY <1>1, <1>3 DEF Calls, Awaits, AwaitsNext
<1>5. \A v \in Workers \ {w} : \A i \in 1 .. Len(queue'[v]) : queue'[v][i] # h
  <2> SUFFICES ASSUME NEW v \in Workers \ {w}, NEW i \in 1 .. Len(queue'[v]), queue'[v][i] = h
               PROVE FALSE
    OBVIOUS
  <2>1. queue'[v] = queue[v]
    BY DEF Popped, Inv, TypeOK
  <2>2. Awaits(queue[v][i], v)
    BY <1>1, <1>3, <2>1 DEF Calls, Shutdown
  <2> QED
    BY <2>1, <2>2, <1>3 DEF Awaits, AwaitsNext
<1>6. \A i \in 1 .. Len(queue'[w]) : queue'[w][i] # h
  <2> SUFFICES ASSUME NEW i \in 1 .. Len(queue'[w]), queue'[w][i] = h PROVE FALSE
    OBVIOUS
  <2>1. queue'[w] = Tail(q)
    BY DEF Popped, Inv, TypeOK
  <2>2. i + 1 \in 1 .. Len(q) /\ q[i + 1] = h
    BY <2>1, <1>1, <1>2, TailFacts
  <2>3. i + 1 # 1
    BY <2>1
  <2> QED
    BY <2>2, <2>3, <1>1, <1>2 DEF Calls
<1> QED
  BY <1>3, <1>4, <1>5, <1>6

\* A command taken from a channel leaves the rest of the channels as they were.
LEMMA PoppedCalls ==
  ASSUME Inv, NEW w \in Workers, queue[w] # <<>>, Popped(w),
         \A y \in Clients, v \in Workers : Awaits(y, v) /\ y # Head(queue[w]) => AwaitsNext(y, v)
  PROVE  /\ \A v \in Workers : \A i \in 1 .. Len(queue'[v]) : queue'[v][i] # Shutdown =>
              AwaitsNext(queue'[v][i], v) /\ queue'[v][i] # serving[v]
         /\ \A v \in Workers : \A i, j \in 1 .. Len(queue'[v]) : i # j => queue'[v][i] # queue'[v][j]
<1> DEFINE h == Head(queue[w])
<1>1. Calls /\ \A v \in Workers : queue[v] \in Seq(Clients \cup {Shutdown})
  BY DEF Inv, Channels, TypeOK
<1>2. queue'[w] = Tail(queue[w]) /\ \A v \in Workers \ {w} : queue'[v] = queue[v]
  BY DEF Popped, Inv, TypeOK
<1>3. \A v \in Workers : \A i \in 1 .. Len(queue'[v]) : queue'[v][i] # Shutdown =>
        queue'[v][i] # h
  <2>1. CASE h = Shutdown
    BY <2>1
  <2>2. CASE h # Shutdown
    BY <2>2, HeadOnce
  <2> QED
    BY <2>1, <2>2
<1>4. \A v \in Workers : \A i \in 1 .. Len(queue'[v]) : queue'[v][i] # Shutdown =>
        Awaits(queue'[v][i], v) /\ queue'[v][i] # serving[v]
  <2> SUFFICES ASSUME NEW v \in Workers, NEW i \in 1 .. Len(queue'[v]), queue'[v][i] # Shutdown
               PROVE Awaits(queue'[v][i], v) /\ queue'[v][i] # serving[v]
    OBVIOUS
  <2>1. CASE v = w
    <3>1. i + 1 \in 1 .. Len(queue[w]) /\ queue'[w][i] = queue[w][i + 1]
      BY <2>1, <1>1, <1>2, TailFacts
    <3> QED
      BY <2>1, <3>1, <1>1 DEF Calls
  <2>2. CASE v # w
    BY <2>2, <1>1, <1>2 DEF Calls
  <2> QED
    BY <2>1, <2>2
<1>5. \A v \in Workers : \A i \in 1 .. Len(queue'[v]) : queue'[v][i] # Shutdown =>
        AwaitsNext(queue'[v][i], v)
  BY <1>3, <1>4 DEF Awaits, AwaitsNext
<1>6. \A v \in Workers : \A i, j \in 1 .. Len(queue'[v]) : i # j => queue'[v][i] # queue'[v][j]
  <2> SUFFICES ASSUME NEW v \in Workers, NEW i \in 1 .. Len(queue'[v]),
                      NEW j \in 1 .. Len(queue'[v]), i # j
               PROVE queue'[v][i] # queue'[v][j]
    OBVIOUS
  <2>1. CASE v = w
    <3>1. /\ i + 1 \in 1 .. Len(queue[w]) /\ queue'[w][i] = queue[w][i + 1]
          /\ j + 1 \in 1 .. Len(queue[w]) /\ queue'[w][j] = queue[w][j + 1]
          /\ i + 1 # j + 1
      BY <2>1, <1>1, <1>2, TailFacts
    <3> QED
      BY <2>1, <3>1, <1>1 DEF Calls
  <2>2. CASE v # w
    BY <2>2, <1>1, <1>2 DEF Calls
  <2> QED
    BY <2>1, <2>2
<1> QED
  BY <1>4, <1>5, <1>6

LEMMA InitFailsChannels ==
  ASSUME Inv, NEW w \in Workers, InitFails(w), UNCHANGED <<queue, pc, inst>>
  PROVE  Channels'
<1>1. CASE serving[w] = NoClient
  BY <1>1 DEF InitFails, Inv, Channels, Calls, Awaits, AwaitsNext
<1>2. CASE serving[w] # NoClient
  <2>1. /\ serving' = [serving EXCEPT ![w] = NoClient]
        /\ \E a : reply' = [reply EXCEPT ![serving[w]] = a]
    BY <1>2 DEF InitFails, Refuses
  <2>2. PICK a : reply' = [reply EXCEPT ![serving[w]] = a]
    BY <2>1
  <2>3. /\ \A y, v : Awaits(y, v) /\ y # serving[w] => AwaitsNext(y, v)
        /\ \A y \in Clients : reply'[y] # NoAnswer => pc'[y] = "wait"
    BY <2>2, <1>2, ServedOnce, AnswerKeeps
  <2>4. serving'[w] = NoClient /\ \A v \in Workers \ {w} : serving'[v] = serving[v]
    BY <2>1 DEF Inv, TypeOK
  <2>5. Calls'
    BY <1>2, <2>3, <2>4, ServedOnce DEF Inv, Channels, Calls, Shutdown, Awaits, AwaitsNext
  <2> QED
    BY <2>3, <2>5 DEF Channels
<1> QED
  BY <1>1, <1>2

LEMMA ChannelsStep == ASSUME Inv, [Next]_vars PROVE Channels'
<1>t. TypeOK /\ Channels /\ Isolates
  BY DEF Inv
<1>Open. ASSUME NEW c \in Clients, Open(c) PROVE Channels'
  <2>1. /\ ~(pc[c] = "wait" /\ reply[c] = NoAnswer)
        /\ \A x \in Clients \ {c} : pc'[x] = pc[x] /\ inst'[x] = inst[x] /\ reply'[x] = reply[x]
        /\ reply'[c] # NoAnswer => pc'[c] = "wait"
        /\ UNCHANGED <<queue, serving>>
    BY <1>Open, <1>t DEF Open, Goto, TypeOK, Channels, workerVars
  <2>2. Channels'
    BY <1>Open, <1>t, <2>1, OthersAwait
  <2> QED
    BY <2>2
<1>Reuse. ASSUME NEW c \in Clients, Reuse(c) PROVE Channels'
  <2>1. /\ ~(pc[c] = "wait" /\ reply[c] = NoAnswer)
        /\ \A x \in Clients \ {c} : pc'[x] = pc[x] /\ inst'[x] = inst[x] /\ reply'[x] = reply[x]
        /\ reply'[c] # NoAnswer => pc'[c] = "wait"
        /\ UNCHANGED <<queue, serving>>
    BY <1>Reuse, <1>t DEF Reuse, Goto, TypeOK, Channels, workerVars
  <2>2. Channels'
    BY <1>Reuse, <1>t, <2>1, OthersAwait
  <2> QED
    BY <2>2
<1>Spawn. ASSUME NEW c \in Clients, Spawn(c) PROVE Channels'
  <2>1. /\ ~(pc[c] = "wait" /\ reply[c] = NoAnswer)
        /\ \A x \in Clients \ {c} : pc'[x] = pc[x] /\ inst'[x] = inst[x] /\ reply'[x] = reply[x]
        /\ reply'[c] # NoAnswer => pc'[c] = "wait"
        /\ UNCHANGED <<queue, serving>>
    BY <1>Spawn, <1>t DEF Spawn, Goto, TypeOK, Channels, workerVars
  <2>2. Channels'
    BY <1>Spawn, <1>t, <2>1, OthersAwait
  <2> QED
    BY <2>2
<1>Opened. ASSUME NEW c \in Clients, Opened(c) PROVE Channels'
  <2>1. /\ ~(pc[c] = "wait" /\ reply[c] = NoAnswer)
        /\ \A x \in Clients \ {c} : pc'[x] = pc[x] /\ inst'[x] = inst[x] /\ reply'[x] = reply[x]
        /\ reply'[c] # NoAnswer => pc'[c] = "wait"
        /\ UNCHANGED <<queue, serving>>
    BY <1>Opened, <1>t DEF Opened, Goto, TypeOK, Channels, workerVars
  <2>2. Channels'
    BY <1>Opened, <1>t, <2>1, OthersAwait
  <2> QED
    BY <2>2
<1>OpenFails. ASSUME NEW c \in Clients, OpenFails(c) PROVE Channels'
  <2>1. /\ ~(pc[c] = "wait" /\ reply[c] = NoAnswer)
        /\ \A x \in Clients \ {c} : pc'[x] = pc[x] /\ inst'[x] = inst[x] /\ reply'[x] = reply[x]
        /\ reply'[c] # NoAnswer => pc'[c] = "wait"
        /\ UNCHANGED <<queue, serving>>
    BY <1>OpenFails, <1>t DEF OpenFails, Goto, TypeOK, Channels, workerVars
  <2>2. Channels'
    BY <1>OpenFails, <1>t, <2>1, OthersAwait
  <2> QED
    BY <2>2
<1>Register. ASSUME NEW c \in Clients, Register(c) PROVE Channels'
  <2>1. /\ ~(pc[c] = "wait" /\ reply[c] = NoAnswer)
        /\ \A x \in Clients \ {c} : pc'[x] = pc[x] /\ inst'[x] = inst[x] /\ reply'[x] = reply[x]
        /\ reply'[c] # NoAnswer => pc'[c] = "wait"
        /\ UNCHANGED <<queue, serving>>
    BY <1>Register, <1>t DEF Register, Goto, TypeOK, Channels, workerVars
  <2>2. Channels'
    BY <1>Register, <1>t, <2>1, OthersAwait
  <2> QED
    BY <2>2
<1>AnySend. ASSUME NEW c \in Clients, AnySend(c) PROVE Channels'
  <2>1. inst[c] \in Workers /\ pc[c] = "in" /\ reply[c] = NoAnswer
    BY <1>AnySend, <1>t, ClientTypes DEF AnySend, Send, Holding, Channels
  <2>2. /\ queue'[inst[c]] = Append(queue[inst[c]], c)
        /\ \A v \in Workers \ {inst[c]} : queue'[v] = queue[v]
    BY <1>AnySend, <1>t, <2>1 DEF AnySend, Send, TypeOK
  <2>3. pc'[c] = "wait" /\ serving' = serving /\ inst' = inst /\ reply' = reply /\ \A x \in
     Clients \ {c} : pc'[x] = pc[x]
    BY <1>AnySend, <1>t DEF AnySend, Send, Goto, TypeOK, workerVars
  <2>4. /\ \A x, v : Awaits(x, v) => x # c /\ AwaitsNext(x, v)
        /\ AwaitsNext(c, inst[c])
    BY <1>AnySend, <1>t, <2>1, <2>3 DEF Awaits, AwaitsNext
  <2>5. \A v \in Workers \ {inst[c]} : queue'[v] = queue[v] /\ (serving[v] # NoClient =>
     AwaitsNext(serving[v], v)) /\ serving[v] # c
    <3>1. \A v \in Workers : serving[v] # NoClient => AwaitsNext(serving[v], v) /\ serving[v] # c
      BY <1>AnySend, <1>t, <2>4, <1>t DEF Channels, Calls
    <3> QED
      BY <2>2, <3>1, ClientConstants
  <2>6. Calls'
    <3> DEFINE k == inst[c]
               q == queue[inst[c]]
    <3>1. q \in Seq(Clients \cup {Shutdown}) /\ c \in Clients \cup {Shutdown} /\ c # Shutdown
      BY <1>AnySend, <1>t, <2>1, ClientConstants, <1>t DEF TypeOK, Shutdown
    <3>2. /\ Len(q) \in Nat /\ Len(queue'[k]) = Len(q) + 1 /\ queue'[k][Len(q) + 1] = c
         /\ \A i \in 1 .. Len(q) : queue'[k][i] = q[i]
      BY <2>2, <3>1, AppendFacts
    <3>3. \A i \in 1 .. Len(q) : q[i] # Shutdown => Awaits(q[i], k) /\ q[i] # serving[k]
      BY <2>1, <1>t DEF Channels, Calls
    <3>4. \A i \in 1 .. Len(q) : q[i] # c
      BY <3>1, <3>3, <2>4
    <3>5. \A i, j \in 1 .. Len(q) : i # j => q[i] # q[j]
      BY <2>1, <1>t DEF Channels, Calls
    <3>6. serving[k] # NoClient => AwaitsNext(serving[k], k) /\ serving[k] # c
      BY <2>1, <2>4, <1>t DEF Channels, Calls
    <3>7. serving[k] # c
      BY <3>6, ClientConstants
    <3>8. \A i \in 1 .. Len(queue'[k]) : queue'[k][i] # Shutdown =>
            AwaitsNext(queue'[k][i], k) /\ queue'[k][i] # serving[k]
      <4> SUFFICES ASSUME NEW i \in 1 .. Len(queue'[k]), queue'[k][i] # Shutdown
                   PROVE  AwaitsNext(queue'[k][i], k) /\ queue'[k][i] # serving[k]
        OBVIOUS
      <4>1. CASE i \in 1 .. Len(q)
        BY <4>1, <3>2, <3>3, <2>4
      <4>2. CASE i = Len(q) + 1
        BY <4>2, <3>2, <3>7, <2>4
      <4> QED
        BY <4>1, <4>2, <3>2
    <3>9. \A i, j \in 1 .. Len(queue'[k]) : i # j => queue'[k][i] # queue'[k][j]
      <4> SUFFICES ASSUME NEW i \in 1 .. Len(queue'[k]), NEW j \in 1 .. Len(queue'[k]), i # j
                   PROVE  queue'[k][i] # queue'[k][j]
        OBVIOUS
      <4>1. /\ i \in 1 .. Len(q) \/ i = Len(q) + 1
            /\ j \in 1 .. Len(q) \/ j = Len(q) + 1
        BY <3>2
      <4>2. CASE i \in 1 .. Len(q) /\ j \in 1 .. Len(q)
        BY <4>2, <3>2, <3>5
      <4>3. CASE i = Len(q) + 1 /\ j \in 1 .. Len(q)
        BY <4>3, <3>2, <3>4
      <4>4. CASE j = Len(q) + 1 /\ i \in 1 .. Len(q)
        BY <4>4, <3>2, <3>4
      <4> QED
        BY <4>1, <4>2, <4>3, <4>4
    <3>10. \A v \in Workers \ {k} :
            /\ \A i \in 1 .. Len(queue'[v]) : queue'[v][i] # Shutdown =>
                  AwaitsNext(queue'[v][i], v) /\ queue'[v][i] # serving[v]
            /\ \A i, j \in 1 .. Len(queue'[v]) : i # j => queue'[v][i] # queue'[v][j]
      BY <2>4, <2>5, <1>t DEF Channels, Calls
    <3>11. \A v \in Workers \ {k} : serving[v] # NoClient => AwaitsNext(serving[v], v)
      BY <2>5
    <3> HIDE DEF k, q
    <3> QED
      BY <2>3, <3>11, <3>6, <3>8, <3>9, <3>10, CallsPrimed DEF CallsNext
  <2>7. Channels'
    BY <1>AnySend, <1>t, <2>3, <2>6 DEF Channels
  <2> QED
    BY <2>7
<1>Unparsed. ASSUME NEW c \in Clients, Unparsed(c) PROVE Channels'
  <2>1. /\ ~(pc[c] = "wait" /\ reply[c] = NoAnswer)
        /\ \A x \in Clients \ {c} : pc'[x] = pc[x] /\ inst'[x] = inst[x] /\ reply'[x] = reply[x]
        /\ reply'[c] # NoAnswer => pc'[c] = "wait"
        /\ UNCHANGED <<queue, serving>>
    BY <1>Unparsed, <1>t DEF Unparsed, Goto, TypeOK, Channels, workerVars
  <2>2. Channels'
    BY <1>Unparsed, <1>t, <2>1, OthersAwait
  <2> QED
    BY <2>2
<1>Receive. ASSUME NEW c \in Clients, Receive(c) PROVE Channels'
  <2>1. /\ ~(pc[c] = "wait" /\ reply[c] = NoAnswer)
        /\ \A x \in Clients \ {c} : pc'[x] = pc[x] /\ inst'[x] = inst[x] /\ reply'[x] = reply[x]
        /\ reply'[c] # NoAnswer => pc'[c] = "wait"
        /\ UNCHANGED <<queue, serving>>
    BY <1>Receive, <1>t DEF Receive, Goto, TypeOK, Channels, workerVars
  <2>2. Channels'
    BY <1>Receive, <1>t, <2>1, OthersAwait
  <2> QED
    BY <2>2
<1>Drop. ASSUME NEW c \in Clients, Drop(c) PROVE Channels'
  <2>1. /\ ~(pc[c] = "wait" /\ reply[c] = NoAnswer)
        /\ \A x \in Clients \ {c} : pc'[x] = pc[x] /\ inst'[x] = inst[x] /\ reply'[x] = reply[x]
        /\ reply'[c] # NoAnswer => pc'[c] = "wait"
        /\ UNCHANGED <<queue, serving>>
    BY <1>Drop, <1>t DEF Drop, Goto, TypeOK, Channels, workerVars
  <2>2. Channels'
    BY <1>Drop, <1>t, <2>1, OthersAwait
  <2> QED
    BY <2>2
<1>Unregister. ASSUME NEW c \in Clients, Unregister(c) PROVE Channels'
  <2>1. /\ ~(pc[c] = "wait" /\ reply[c] = NoAnswer)
        /\ \A x \in Clients \ {c} : pc'[x] = pc[x] /\ inst'[x] = inst[x] /\ reply'[x] = reply[x]
        /\ reply'[c] # NoAnswer => pc'[c] = "wait"
        /\ UNCHANGED <<queue, serving>>
    BY <1>Unregister, <1>t DEF Unregister, Goto, TypeOK, Channels, workerVars
  <2>2. Channels'
    BY <1>Unregister, <1>t, <2>1, OthersAwait
  <2> QED
    BY <2>2
<1>SendShutdown. ASSUME NEW c \in Clients, SendShutdown(c) PROVE Channels'
  <2>1. at[c] \in Workers /\ queue[at[c]] = <<>>
    BY <1>SendShutdown, <1>t, ClientTypes DEF SendShutdown, Dropping, Inv, Lives, Life,
       Left
  <2>2. queue'[at[c]] = <<Shutdown>> /\ \A v \in Workers \ {at[c]} : queue'[v] = queue[v]
    BY <1>SendShutdown, <1>t, <2>1 DEF SendShutdown, TypeOK
  <2>3. pc[c] = "shutdown" /\ serving' = serving /\ inst' = inst /\ reply' = reply /\ \A x
     \in Clients \ {c} : pc'[x] = pc[x]
    BY <1>SendShutdown, <1>t DEF SendShutdown, Goto, TypeOK, workerVars
  <2>4. \A x, v : Awaits(x, v) => AwaitsNext(x, v)
    BY <1>SendShutdown, <1>t, <2>3 DEF Awaits, AwaitsNext
  <2>5. \A i \in 1 .. Len(queue'[at[c]]) : i = 1 /\ queue'[at[c]][i] = Shutdown
    BY <1>SendShutdown, <1>t, <2>2
  <2>6. CallsNext
    BY <1>SendShutdown, <1>t, <2>1, <2>2, <2>3, <2>4, <2>5 DEF Channels, Calls, CallsNext
  <2>7. Channels'
    BY <1>SendShutdown, <1>t, <2>3, <2>6, CallsPrimed DEF Channels
  <2> QED
    BY <2>7
<1>Join. ASSUME NEW c \in Clients, Join(c) PROVE Channels'
  <2>1. /\ ~(pc[c] = "wait" /\ reply[c] = NoAnswer)
        /\ \A x \in Clients \ {c} : pc'[x] = pc[x] /\ inst'[x] = inst[x] /\ reply'[x] = reply[x]
        /\ reply'[c] # NoAnswer => pc'[c] = "wait"
        /\ UNCHANGED <<queue, serving>>
    BY <1>Join, <1>t DEF Join, Goto, TypeOK, Channels, workerVars
  <2>2. Channels'
    BY <1>Join, <1>t, <2>1, OthersAwait
  <2> QED
    BY <2>2
<1>MakeIsolateFails. ASSUME NEW w \in Workers, MakeIsolateFails(w) PROVE Channels'
  <2>1. Channels'
    BY <1>MakeIsolateFails, <1>t, InitFailsChannels DEF MakeIsolateFails
  <2> QED
    BY <2>1
<1>OpenDatabaseFails. ASSUME NEW w \in Workers, OpenDatabaseFails(w) PROVE Channels'
  <2>1. Channels'
    BY <1>OpenDatabaseFails, <1>t, InitFailsChannels DEF OpenDatabaseFails
  <2> QED
    BY <2>1
<1>PathRefused. ASSUME NEW w \in Workers, PathRefused(w) PROVE Channels'
  <2>1. Channels'
    BY <1>PathRefused, <1>t, InitFailsChannels DEF PathRefused
  <2> QED
    BY <2>1
<1>TakeCommand. ASSUME NEW w \in Workers, TakeCommand(w) PROVE Channels'
  <2>1. Awaits(Head(queue[w]), w) /\ serving[w] = NoClient
    BY <1>TakeCommand, <1>t, HeadOnce DEF TakeCommand, Isolates, Starting
  <2>2. \A y, v : Awaits(y, v) <=> AwaitsNext(y, v)
    BY <1>TakeCommand, <1>t DEF TakeCommand, Awaits, AwaitsNext, clientVars
  <2>3. serving'[w] = Head(queue[w]) /\ \A v \in Workers \ {w} : serving'[v] = serving[v]
    BY <1>TakeCommand, <1>t DEF TakeCommand, TypeOK
  <2>4. Calls'
    <3>0. queue[w] # <<>> /\ Head(queue[w]) # Shutdown /\ Popped(w)
      BY <1>TakeCommand, <1>t, <1>TakeCommand DEF TakeCommand
    <3>a. \A y \in Clients, v \in Workers : Awaits(y, v) /\ y # Head(queue[w]) => AwaitsNext(y, v)
      BY <2>2
    <3>1. /\ \A v \in Workers : \A i \in 1 .. Len(queue'[v]) : queue'[v][i] # Shutdown =>
               AwaitsNext(queue'[v][i], v) /\ queue'[v][i] # serving[v] /\ queue'[v][i] # Head(queue[w])
         /\ \A v \in Workers : \A i, j \in 1 .. Len(queue'[v]) : i # j =>
               queue'[v][i] # queue'[v][j]
      BY <3>0, <3>a, PoppedCalls, HeadOnce
    <3>2. \A v \in Workers : serving'[v] # NoClient => AwaitsNext(serving'[v], v)
      BY <2>1, <2>2, <2>3, <1>t DEF Channels, Calls
    <3> QED
      BY <3>1, <3>2, <2>1, <2>3, CallsPrimed DEF CallsNext
  <2>5. Channels'
    BY <1>TakeCommand, <1>t, <2>4 DEF TakeCommand, Channels, clientVars
  <2> QED
    BY <2>5
<1>Resume. ASSUME NEW w \in Workers, Resume(w) PROVE Channels'
  <2>1. Awaits(Head(queue[w]), w) /\ serving[w] = NoClient
    BY <1>Resume, <1>t, HeadOnce DEF Resume, Isolates, Starting
  <2>2. \A y, v : Awaits(y, v) <=> AwaitsNext(y, v)
    BY <1>Resume, <1>t DEF Resume, Awaits, AwaitsNext, clientVars
  <2>3. serving'[w] = Head(queue[w]) /\ \A v \in Workers \ {w} : serving'[v] = serving[v]
    BY <1>Resume, <1>t DEF Resume, TypeOK
  <2>4. Calls'
    <3>0. queue[w] # <<>> /\ Head(queue[w]) # Shutdown /\ Popped(w)
      BY <1>Resume, <1>t, <1>Resume DEF Resume
    <3>a. \A y \in Clients, v \in Workers : Awaits(y, v) /\ y # Head(queue[w]) => AwaitsNext(y, v)
      BY <2>2
    <3>1. /\ \A v \in Workers : \A i \in 1 .. Len(queue'[v]) : queue'[v][i] # Shutdown =>
               AwaitsNext(queue'[v][i], v) /\ queue'[v][i] # serving[v] /\ queue'[v][i] # Head(queue[w])
         /\ \A v \in Workers : \A i, j \in 1 .. Len(queue'[v]) : i # j =>
               queue'[v][i] # queue'[v][j]
      BY <3>0, <3>a, PoppedCalls, HeadOnce
    <3>2. \A v \in Workers : serving'[v] # NoClient => AwaitsNext(serving'[v], v)
      BY <2>1, <2>2, <2>3, <1>t DEF Channels, Calls
    <3> QED
      BY <3>1, <3>2, <2>1, <2>3, CallsPrimed DEF CallsNext
  <2>5. Channels'
    BY <1>Resume, <1>t, <2>4 DEF Resume, Channels, clientVars
  <2> QED
    BY <2>5
<1>TakeShutdown. ASSUME NEW w \in Workers, TakeShutdown(w) PROVE Channels'
  <2>1. \A y, v : Awaits(y, v) <=> AwaitsNext(y, v)
    BY <1>TakeShutdown, <1>t DEF TakeShutdown, Awaits, AwaitsNext, clientVars
  <2>2. serving' = serving
    BY <1>TakeShutdown, <1>t DEF TakeShutdown
  <2>3. queue[w] # <<>> /\ Popped(w)
    BY <1>TakeShutdown, <1>t DEF TakeShutdown
  <2>4. \A y \in Clients, v \in Workers : Awaits(y, v) /\ y # Head(queue[w]) =>
     AwaitsNext(y, v)
    BY <1>TakeShutdown, <1>t, <2>1
  <2>5. /\ \A v \in Workers : \A i \in 1 .. Len(queue'[v]) : queue'[v][i] # Shutdown => AwaitsNext(queue'[v][i], v) /\ queue'[v][i] # serving[v]
        /\ \A v \in Workers : \A i, j \in 1 .. Len(queue'[v]) : i # j => queue'[v][i] # queue'[v][j]
    BY <1>TakeShutdown, <1>t, <2>3, <2>4, PoppedCalls
  <2>6. CallsNext
    BY <1>TakeShutdown, <1>t, <2>1, <2>2, <2>5 DEF Channels, Calls, CallsNext
  <2>7. Channels'
    BY <1>TakeShutdown, <1>t, <2>6, CallsPrimed DEF TakeShutdown, Channels, clientVars
  <2> QED
    BY <2>7
<1>BackoffRefuse. ASSUME NEW w \in Workers, BackoffRefuse(w) PROVE Channels'
  <2>1. Awaits(Head(queue[w]), w) /\ serving[w] = NoClient /\ serving' = serving
    BY <1>BackoffRefuse, <1>t, HeadOnce DEF BackoffRefuse, Isolates, Starting
  <2>2. PICK a : reply' = [reply EXCEPT ![Head(queue[w])] = a]
    BY <1>BackoffRefuse, <1>t DEF BackoffRefuse, Refuses
  <2>3. /\ \A y, v : Awaits(y, v) /\ y # Head(queue[w]) => AwaitsNext(y, v)
        /\ \A y \in Clients : reply'[y] # NoAnswer => pc'[y] = "wait"
    BY <1>BackoffRefuse, <1>t, <2>1, <2>2, AnswerKeeps DEF Awaits, AwaitsNext,
       BackoffRefuse
  <2>4. queue[w] # <<>> /\ Head(queue[w]) # Shutdown /\ Popped(w)
    BY <1>BackoffRefuse, <1>t DEF BackoffRefuse
  <2>5. \A y \in Clients, v \in Workers : Awaits(y, v) /\ y # Head(queue[w]) =>
     AwaitsNext(y, v)
    BY <1>BackoffRefuse, <1>t, <2>3
  <2>6. /\ \A v \in Workers : \A i \in 1 .. Len(queue'[v]) : queue'[v][i] # Shutdown => AwaitsNext(queue'[v][i], v) /\ queue'[v][i] # serving[v]
        /\ \A v \in Workers : \A i, j \in 1 .. Len(queue'[v]) : i # j => queue'[v][i] # queue'[v][j]
    BY <1>BackoffRefuse, <1>t, <2>4, <2>5, PoppedCalls
  <2>7. \A v \in Workers : serving[v] # NoClient => AwaitsNext(serving[v], v)
    BY <1>BackoffRefuse, <1>t, <2>1, <2>3, <2>4, HeadOnce DEF Channels, Calls
  <2>8. CallsNext
    BY <1>BackoffRefuse, <1>t, <2>1, <2>6, <2>7 DEF CallsNext
  <2>9. Channels'
    BY <1>BackoffRefuse, <1>t, <2>3, <2>8, CallsPrimed DEF Channels
  <2> QED
    BY <2>9
<1>Serve. ASSUME NEW w \in Workers, Serve(w) PROVE Channels'
  <2>1. serving[w] # NoClient
    BY <1>Serve, <1>t DEF Serve, Isolates
  <2>2. PICK a : reply' = [reply EXCEPT ![serving[w]] = a]
    BY <1>Serve, <1>t DEF Serve
  <2>3. /\ \A y, v : Awaits(y, v) /\ y # serving[w] => AwaitsNext(y, v)
        /\ \A y \in Clients : reply'[y] # NoAnswer => pc'[y] = "wait"
    BY <1>Serve, <1>t, <2>1, <2>2, ServedOnce, AnswerKeeps DEF Serve
  <2>4. serving'[w] = NoClient /\ (\A v \in Workers \ {w} : serving'[v] = serving[v]) /\
     queue' = queue
    BY <1>Serve, <1>t DEF Serve, TypeOK
  <2>5. Calls'
    BY <1>Serve, <1>t, <2>1, <2>3, <2>4, ServedOnce DEF Channels, Calls, Shutdown, Awaits,
       AwaitsNext
  <2>6. Channels'
    BY <1>Serve, <1>t, <2>3, <2>5 DEF Channels
  <2> QED
    BY <2>6
<1>kept. CASE UNCHANGED <<queue, serving, pc, inst, reply>>
  BY <1>kept, <1>t DEF Channels, Calls, Awaits, AwaitsNext
<1>stutter. CASE UNCHANGED vars
  BY <1>stutter, <1>kept DEF vars, clientVars, workerVars, libVars
<1>workers. ASSUME NEW w \in Workers, MakeIsolate(w) \/ OpenDatabase(w) \/ IdleTimeout(w) \/ Suspend(w) \/
            BackoffEnds(w) \/ CloseAndEnd(w) PROVE Channels'
  BY <1>workers, <1>kept DEF MakeIsolate, OpenDatabase, IdleTimeout, Suspend, BackoffEnds,
     CloseAndEnd, InitFails, Closed, Popped, Refuses, WorkerGoto, clientVars, workerVars,
     libVars
<1> QED
  BY CallsSend, <1>Open, <1>Reuse, <1>Spawn, <1>Opened, <1>OpenFails, <1>Register,
     <1>AnySend, <1>Unparsed, <1>Receive, <1>Drop, <1>Unregister, <1>SendShutdown, <1>Join,
     <1>MakeIsolateFails, <1>OpenDatabaseFails, <1>PathRefused, <1>TakeCommand, <1>Resume,
     <1>TakeShutdown, <1>BackoffRefuse, <1>Serve, <1>stutter, <1>workers DEF Next,
     Continues, Works

\* A worker that a step leaves alone, with the clients that refer to it.
LEMMA LifeKept ==
  ASSUME Lives, NEW v \in Workers,
         wpc'[v] = wpc[v] /\ queue'[v] = queue[v] /\ serving'[v] = serving[v],
         \A x \in Clients :
           /\ inst'[x] = v <=> inst[x] = v
           /\ at'[x] = v <=> at[x] = v
           /\ at[x] = v => pc'[x] = pc[x]
  PROVE  Life(v)'
<1>1. /\ Held(v)' <=> Held(v)
      /\ Made(v)' <=> Made(v)
      /\ Left(v)' <=> Left(v)
      /\ Ending(v)' <=> Ending(v)
      /\ Gone(v)' <=> Gone(v)
  BY DEF Held, Made, Left, Waiting, Ending, Gone
<1>2. Life(v)
  BY DEF Lives
<1> QED
  BY <1>1, <1>2 DEF Life

\* What a step does to the one worker whose life it changes.
LEMMA OneLife ==
  ASSUME Lives, NEW w \in Workers, Life(w)',
         \A v \in Workers \ {w} :
           wpc'[v] = wpc[v] /\ queue'[v] = queue[v] /\ serving'[v] = serving[v],
         \A x \in Clients, v \in Workers \ {w} :
           /\ inst'[x] = v <=> inst[x] = v
           /\ at'[x] = v <=> at[x] = v
           /\ at[x] = v => pc'[x] = pc[x]
  PROVE  Lives'
<1>1. ASSUME NEW v \in Workers \ {w} PROVE Life(v)'
  BY LifeKept
<1> QED
  BY <1>1 DEF Lives

LEMMA LivesStep == ASSUME Inv, [Next]_vars PROVE Lives'
<1>t. TypeOK /\ Places /\ Unborn /\ Isolates /\ Lives
  BY DEF Inv
<1>Open. ASSUME NEW c \in Clients, Open(c) PROVE Lives'
  <2>1. at[c] = 0
    BY <1>Open, <1>t DEF Open, Places, Refers, Dropping
  <2>2. at[c] \notin Workers /\ UNCHANGED <<inst, at, wpc, queue, serving>>
    BY <1>Open, <1>t, <2>1 DEF Open, clientVars, workerVars, libVars, Workers
  <2>3. \A x \in Clients \ {c} : pc'[x] = pc[x]
    BY <1>Open, <1>t DEF Open, KeyOf, Goto, TypeOK, clientVars, workerVars, libVars
  <2>4. \A v \in Workers : Life(v)'
    <3> TAKE v \in Workers
    <3>1. \A x \in Clients : at[x] = v => pc'[x] = pc[x]
      BY <1>Open, <1>t, <2>2, <2>3
    <3> QED
      BY <2>2, <3>1, <1>t, LifeKept
  <2>5. Lives'
    BY <1>Open, <1>t, <2>4 DEF Lives
  <2> QED
    BY <2>5
<1>Reuse. ASSUME NEW c \in Clients, Reuse(c) PROVE Lives'
  <2>1. PICK w \in Workers : w = registry[asked[c].key] /\ inst'[c] = w /\ inst[c] = 0 /\
     UNCHANGED <<wpc, queue, serving>>
    BY <1>Reuse, <1>t, ClientTypes, PathTypes DEF Reuse, Goto, TypeOK, clientVars,
       workerVars, libVars, Upgrades, Places, Refers, Holding
  <2>2. \A v \in Workers \ {w} : wpc'[v] = wpc[v] /\ queue'[v] = queue[v] /\ serving'[v] =
     serving[v]
    BY <1>Reuse, <1>t, <2>1 DEF Reuse, Goto, TypeOK, clientVars, workerVars, libVars,
       WorkerGoto
  <2>3. \A x \in Clients \ {c} : pc'[x] = pc[x] /\ inst'[x] = inst[x] /\ at'[x] = at[x]
    BY <1>Reuse, <1>t DEF Reuse, Goto, TypeOK, clientVars, workerVars, libVars
  <2>4. \A v \in Workers \ {w} : (inst'[c] = v <=> inst[c] = v) /\ (at'[c] = v <=> at[c] =
     v) /\ at[c] # v
    BY <1>Reuse, <1>t, <2>1 DEF Reuse, Goto, TypeOK, clientVars, workerVars, libVars,
       Places, Refers, Dropping, Holding, Workers
  <2>5. Life(w)
    BY <1>Reuse, <1>t DEF Lives
  <2>6. PICK d \in Clients : inst[d] = w
    BY <1>Reuse, <1>t, <2>1 DEF Reuse, Upgrades, Holders
  <2>7. Held(w) /\ Held(w)'
    BY <1>Reuse, <1>t, <2>1, <2>5, <2>6 DEF Life, Held
  <2>8. \A x \in Clients : at[x] # w /\ at'[x] # w
    BY <1>Reuse, <1>t, <2>1, <2>3, <2>6 DEF Reuse, Places, Alone, Workers
  <2>9. Life(w)'
    BY <1>Reuse, <1>t, <2>1, <2>3, <2>7, <2>8 DEF Life
  <2>10. Lives'
    BY <1>Reuse, <1>t, <2>2, <2>3, <2>4, <2>9, OneLife
  <2> QED
    BY <2>10
<1>Spawn. ASSUME NEW c \in Clients, Spawn(c) PROVE Lives'
  <2>1. PICK w \in Workers : w = made + 1 /\ at'[c] = w /\ pc'[c] = "create" /\ at[c] = 0
     /\ wpc'[w] = "isolate" /\ UNCHANGED <<inst, queue, serving>>
    <3>1. made + 1 \in Workers
      BY <1>Spawn, <1>t, <1>Spawn, <1>t, ClientConstants DEF Spawn, TypeOK, Workers
    <3>2. at[c] = 0 /\ UNCHANGED <<inst, queue, serving>>
      BY <1>Spawn, <1>t DEF Spawn, Places, Refers, Dropping
    <3>3. at'[c] = made + 1 /\ pc'[c] = "create" /\ wpc'[made + 1] = "isolate"
      BY <3>1, <1>Spawn, <1>t DEF Spawn, Goto, WorkerGoto, TypeOK
    <3> QED
      BY <3>1, <3>2, <3>3
  <2>2. \A v \in Workers \ {w} : wpc'[v] = wpc[v] /\ queue'[v] = queue[v] /\ serving'[v] =
     serving[v]
    BY <1>Spawn, <1>t, <2>1 DEF Spawn, Goto, TypeOK, clientVars, workerVars, libVars,
       WorkerGoto
  <2>3. \A x \in Clients \ {c} : pc'[x] = pc[x] /\ inst'[x] = inst[x] /\ at'[x] = at[x]
    BY <1>Spawn, <1>t DEF Spawn, Goto, TypeOK, clientVars, workerVars, libVars
  <2>4. \A v \in Workers \ {w} : (inst'[c] = v <=> inst[c] = v) /\ (at'[c] = v <=> at[c] =
     v) /\ at[c] # v
    BY <1>Spawn, <1>t, <2>1 DEF Spawn, Goto, TypeOK, clientVars, workerVars, libVars,
       Places, Refers, Dropping, Holding, Workers
  <2>5. Life(w)
    BY <1>Spawn, <1>t DEF Lives
  <2>6. queue[w] = <<>> /\ serving[w] = NoClient
    BY <1>Spawn, <1>t, <2>1, ClientConstants DEF Unborn, TypeOK
  <2>7. \A x \in Clients : at[x] # w /\ inst[x] # w
    BY <1>Spawn, <1>t, <2>1, ClientConstants DEF Places, Refers, TypeOK, Workers
  <2>8. Made(w)'
    BY <1>Spawn, <1>t, <2>1, <2>6 DEF Made
  <2>9. Life(w)'
    BY <1>Spawn, <1>t, <2>1, <2>3, <2>7, <2>8 DEF Life
  <2>10. Lives'
    BY <1>Spawn, <1>t, <2>2, <2>3, <2>4, <2>9, OneLife
  <2> QED
    BY <2>10
<1>Opened. ASSUME NEW c \in Clients, Opened(c) PROVE Lives'
  <2>1. PICK w \in Workers : w = at[c] /\ at'[c] = 0 /\ inst'[c] = w /\ pc[c] = "create" /\
     wpc[w] \notin {"isolate", "open", "ended"} /\ UNCHANGED <<wpc, queue, serving>>
    BY <1>Opened, <1>t, ClientTypes DEF Opened, Goto, TypeOK, clientVars, workerVars,
       libVars
  <2>2. \A v \in Workers \ {w} : wpc'[v] = wpc[v] /\ queue'[v] = queue[v] /\ serving'[v] =
     serving[v]
    BY <1>Opened, <1>t, <2>1 DEF Opened, Goto, TypeOK, clientVars, workerVars, libVars,
       WorkerGoto
  <2>3. \A x \in Clients \ {c} : pc'[x] = pc[x] /\ inst'[x] = inst[x] /\ at'[x] = at[x]
    BY <1>Opened, <1>t DEF Opened, Goto, TypeOK, clientVars, workerVars, libVars
  <2>4. \A v \in Workers \ {w} : (inst'[c] = v <=> inst[c] = v) /\ (at'[c] = v <=> at[c] =
     v) /\ at[c] # v
    BY <1>Opened, <1>t, <2>1 DEF Opened, Goto, TypeOK, clientVars, workerVars, libVars,
       Places, Refers, Dropping, Holding, Workers
  <2>5. Life(w)
    BY <1>Opened, <1>t DEF Lives
  <2>6. \A x \in Clients \ {c} : at[x] # w /\ inst[x] # w
    BY <1>Opened, <1>t, <2>1 DEF Places, Alone, Workers
  <2>7. Held(w)'
    BY <1>Opened, <1>t, <2>1, <2>5 DEF Life, Made, Held, Running, Starting
  <2>8. Life(w)'
    BY <1>Opened, <1>t, <2>1, <2>3, <2>6, <2>7 DEF Life, Workers
  <2>9. Lives'
    BY <1>Opened, <1>t, <2>2, <2>3, <2>4, <2>8, OneLife
  <2> QED
    BY <2>9
<1>OpenFails. ASSUME NEW c \in Clients, OpenFails(c) PROVE Lives'
  <2>1. PICK w \in Workers : w = at[c] /\ at'[c] = 0 /\ inst'[c] = 0 /\ pc[c] = "create" /\
     wpc[w] = "ended" /\ UNCHANGED <<wpc, queue, serving>>
    BY <1>OpenFails, <1>t, ClientTypes DEF OpenFails, Goto, TypeOK, clientVars, workerVars,
       libVars, Dropping, Places, Refers, Holding
  <2>2. \A v \in Workers \ {w} : wpc'[v] = wpc[v] /\ queue'[v] = queue[v] /\ serving'[v] =
     serving[v]
    BY <1>OpenFails, <1>t, <2>1 DEF OpenFails, Goto, TypeOK, clientVars, workerVars,
       libVars, WorkerGoto
  <2>3. \A x \in Clients \ {c} : pc'[x] = pc[x] /\ inst'[x] = inst[x] /\ at'[x] = at[x]
    BY <1>OpenFails, <1>t DEF OpenFails, Goto, TypeOK, clientVars, workerVars, libVars
  <2>4. \A v \in Workers \ {w} : (inst'[c] = v <=> inst[c] = v) /\ (at'[c] = v <=> at[c] =
     v) /\ at[c] # v
    BY <1>OpenFails, <1>t, <2>1 DEF OpenFails, Goto, TypeOK, clientVars, workerVars,
       libVars, Places, Refers, Dropping, Holding, Workers
  <2>5. Life(w)
    BY <1>OpenFails, <1>t DEF Lives
  <2>6. \A x \in Clients \ {c} : at[x] # w /\ inst[x] # w
    BY <1>OpenFails, <1>t, <2>1 DEF Places, Alone, Workers
  <2>7. Gone(w)'
    BY <1>OpenFails, <1>t, <2>1, <2>5 DEF Life, Made, Waiting, Gone
  <2>8. Life(w)'
    BY <1>OpenFails, <1>t, <2>1, <2>3, <2>6, <2>7 DEF Life, Workers
  <2>9. Lives'
    BY <1>OpenFails, <1>t, <2>2, <2>3, <2>4, <2>8, OneLife
  <2> QED
    BY <2>9
<1>Register. ASSUME NEW c \in Clients, Register(c) PROVE Lives'
  <2>1. at[c] = 0
    BY <1>Register, <1>t DEF Register, Places, Refers, Dropping
  <2>2. at[c] \notin Workers /\ UNCHANGED <<inst, at, wpc, queue, serving>>
    BY <1>Register, <1>t, <2>1 DEF Register, clientVars, workerVars, libVars, Workers
  <2>3. \A x \in Clients \ {c} : pc'[x] = pc[x]
    BY <1>Register, <1>t DEF Register, Goto, TypeOK, clientVars, workerVars, libVars
  <2>4. \A v \in Workers : Life(v)'
    <3> TAKE v \in Workers
    <3>1. \A x \in Clients : at[x] = v => pc'[x] = pc[x]
      BY <1>Register, <1>t, <2>2, <2>3
    <3> QED
      BY <2>2, <3>1, <1>t, LifeKept
  <2>5. Lives'
    BY <1>Register, <1>t, <2>4 DEF Lives
  <2> QED
    BY <2>5
<1>AnySend. ASSUME NEW c \in Clients, AnySend(c) PROVE Lives'
  <2>1. PICK w \in Workers : w = inst[c] /\ at[c] = 0 /\ inst' = inst /\ at' = at /\
     queue'[w] = Append(queue[w], c) /\ UNCHANGED <<wpc, serving>>
    BY <1>AnySend, <1>t, ClientTypes DEF AnySend, Send, Goto, TypeOK, clientVars,
       workerVars, libVars, Holding, Places, Refers, Dropping
  <2>2. \A v \in Workers \ {w} : wpc'[v] = wpc[v] /\ queue'[v] = queue[v] /\ serving'[v] =
     serving[v]
    BY <1>AnySend, <1>t, <2>1 DEF AnySend, Send, Goto, TypeOK, clientVars, workerVars,
       libVars, WorkerGoto
  <2>3. \A x \in Clients \ {c} : pc'[x] = pc[x] /\ inst'[x] = inst[x] /\ at'[x] = at[x]
    BY <1>AnySend, <1>t DEF AnySend, Send, Goto, TypeOK, clientVars, workerVars, libVars
  <2>4. \A v \in Workers \ {w} : (inst'[c] = v <=> inst[c] = v) /\ (at'[c] = v <=> at[c] =
     v) /\ at[c] # v
    BY <1>AnySend, <1>t, <2>1 DEF Workers
  <2>5. Life(w)
    BY <1>AnySend, <1>t DEF Lives
  <2>6. \A x \in Clients : at[x] # w
    BY <1>AnySend, <1>t, <2>1 DEF Places, Alone, Workers
  <2>7. queue[w] \in Seq(Clients \cup {Shutdown}) /\ c \in Clients \cup {Shutdown} /\ c #
     Shutdown
    BY <1>AnySend, <1>t, ClientConstants DEF TypeOK, Shutdown
  <2>8. /\ Len(queue[w]) \in Nat /\ Len(queue'[w]) = Len(queue[w]) + 1 /\ queue'[w][Len(queue[w]) + 1] = c
        /\ \A i \in 1 .. Len(queue[w]) : queue'[w][i] = queue[w][i]
    BY <1>AnySend, <1>t, <2>1, <2>7, AppendFacts
  <2>9. Held(w)
    BY <1>AnySend, <1>t, <2>1, <2>5 DEF Life
  <2>10. \A i \in 1 .. Len(queue'[w]) : queue'[w][i] # Shutdown
    BY <1>AnySend, <1>t, <2>7, <2>8, <2>9 DEF Held
  <2>11. Held(w)'
    BY <1>AnySend, <1>t, <2>1, <2>9, <2>10 DEF Held
  <2>12. Life(w)'
    BY <1>AnySend, <1>t, <2>1, <2>6, <2>11 DEF Life
  <2>13. Lives'
    BY <1>AnySend, <1>t, <2>2, <2>3, <2>4, <2>12, OneLife
  <2> QED
    BY <2>13
<1>Unparsed. ASSUME NEW c \in Clients, Unparsed(c) PROVE Lives'
  <2>1. at[c] = 0
    BY <1>Unparsed, <1>t DEF Unparsed, Places, Refers, Dropping
  <2>2. at[c] \notin Workers /\ UNCHANGED <<inst, at, wpc, queue, serving>>
    BY <1>Unparsed, <1>t, <2>1 DEF Unparsed, clientVars, workerVars, libVars, Workers
  <2>3. \A x \in Clients \ {c} : pc'[x] = pc[x]
    BY <1>Unparsed, <1>t DEF Unparsed, Goto, TypeOK, clientVars, workerVars, libVars
  <2>4. \A v \in Workers : Life(v)'
    <3> TAKE v \in Workers
    <3>1. \A x \in Clients : at[x] = v => pc'[x] = pc[x]
      BY <1>Unparsed, <1>t, <2>2, <2>3
    <3> QED
      BY <2>2, <3>1, <1>t, LifeKept
  <2>5. Lives'
    BY <1>Unparsed, <1>t, <2>4 DEF Lives
  <2> QED
    BY <2>5
<1>Receive. ASSUME NEW c \in Clients, Receive(c) PROVE Lives'
  <2>1. at[c] = 0
    BY <1>Receive, <1>t DEF Receive, Places, Refers, Dropping
  <2>2. at[c] \notin Workers /\ UNCHANGED <<inst, at, wpc, queue, serving>>
    BY <1>Receive, <1>t, <2>1 DEF Receive, clientVars, workerVars, libVars, Workers
  <2>3. \A x \in Clients \ {c} : pc'[x] = pc[x]
    BY <1>Receive, <1>t DEF Receive, Goto, TypeOK, clientVars, workerVars, libVars
  <2>4. \A v \in Workers : Life(v)'
    <3> TAKE v \in Workers
    <3>1. \A x \in Clients : at[x] = v => pc'[x] = pc[x]
      BY <1>Receive, <1>t, <2>2, <2>3
    <3> QED
      BY <2>2, <3>1, <1>t, LifeKept
  <2>5. Lives'
    BY <1>Receive, <1>t, <2>4 DEF Lives
  <2> QED
    BY <2>5
<1>Drop. ASSUME NEW c \in Clients, Drop(c) PROVE Lives'
  <2>1. PICK w \in Workers : w = inst[c] /\ inst'[c] = 0 /\ pc[c] = "in" /\ at[c] = 0 /\
     UNCHANGED <<wpc, queue, serving>>
    BY <1>Drop, <1>t, ClientTypes DEF Drop, Goto, TypeOK, clientVars, workerVars, libVars,
       Holding, Places, Refers, Dropping
  <2>2. \A v \in Workers \ {w} : wpc'[v] = wpc[v] /\ queue'[v] = queue[v] /\ serving'[v] =
     serving[v]
    BY <1>Drop, <1>t, <2>1 DEF Drop, Goto, TypeOK, clientVars, workerVars, libVars,
       WorkerGoto
  <2>3. \A x \in Clients \ {c} : pc'[x] = pc[x] /\ inst'[x] = inst[x] /\ at'[x] = at[x]
    BY <1>Drop, <1>t DEF Drop, Goto, TypeOK, clientVars, workerVars, libVars
  <2>4. \A v \in Workers \ {w} : (inst'[c] = v <=> inst[c] = v) /\ (at'[c] = v <=> at[c] =
     v) /\ at[c] # v
    BY <1>Drop, <1>t, <2>1 DEF Drop, TypeOK, Workers
  <2>5. Life(w)
    BY <1>Drop, <1>t DEF Lives
  <2>6. Held(w) /\ \A x \in Clients : at[x] # w
    BY <1>Drop, <1>t, <2>1, <2>5 DEF Life, Places, Alone, Workers
  <2>7. ASSUME Holders(w) = {c} PROVE Life(w)'
    <3>1. at'[c] = w /\ pc'[c] = "unregister"
      BY <1>Drop, <1>t, <2>1, <2>7, <1>Drop, <1>t DEF Drop, Goto, TypeOK
    <3>2. \A x \in Clients \ {c} : inst[x] # w
      BY <2>7 DEF Holders
    <3>3. \A x : ~Awaits(x, w)
      BY <3>2, <2>1 DEF Awaits
    <3>4. serving[w] = NoClient /\ \A i \in 1 .. Len(queue[w]) : queue[w][i] = Shutdown
      BY <3>3, <1>t DEF Inv, Channels, Calls
    <3>5. queue[w] = <<>>
      <4>1. Len(queue[w]) \in Nat /\ queue[w] \in Seq(Clients \cup {Shutdown})
        BY <1>t DEF TypeOK
      <4>2. ~(1 \in 1 .. Len(queue[w]))
        BY <3>4, <2>6 DEF Held
      <4> QED
        BY <4>1, <4>2
    <3>6. Left(w)'
      BY <3>4, <3>5, <2>1, <2>6, <1>t DEF Held, Left, Waiting, Running, Starting, Isolates
    <3> QED
      BY <3>1, <3>2, <3>6, <2>1, <2>3, <2>6 DEF Life, Workers
  <2>8. ASSUME Holders(w) # {c} PROVE Life(w)'
    <3>1. at'[c] = 0
      BY <1>Drop, <1>t, <2>1, <2>8, <1>Drop, <1>t DEF Drop, TypeOK
    <3>2. PICK d \in Clients \ {c} : inst[d] = w
      BY <2>1, <2>8 DEF Holders
    <3>3. Held(w)'
      BY <2>1, <2>6 DEF Held
    <3> QED
      BY <3>1, <3>2, <3>3, <2>3, <2>6 DEF Life, Workers
  <2>9. Life(w)'
    BY <1>Drop, <1>t, <2>7, <2>8
  <2>10. Lives'
    BY <1>Drop, <1>t, <2>2, <2>3, <2>4, <2>9, OneLife
  <2> QED
    BY <2>10
<1>Unregister. ASSUME NEW c \in Clients, Unregister(c) PROVE Lives'
  <2>1. PICK w \in Workers : w = at[c] /\ pc[c] = "unregister" /\ pc'[c] = "shutdown" /\
     inst' = inst /\ at' = at /\ UNCHANGED <<wpc, queue, serving>>
    BY <1>Unregister, <1>t, ClientTypes DEF Unregister, Goto, TypeOK, clientVars,
       workerVars, libVars, Dropping
  <2>2. \A v \in Workers \ {w} : wpc'[v] = wpc[v] /\ queue'[v] = queue[v] /\ serving'[v] =
     serving[v]
    BY <1>Unregister, <1>t, <2>1 DEF Unregister, Goto, TypeOK, clientVars, workerVars,
       libVars, WorkerGoto
  <2>3. \A x \in Clients \ {c} : pc'[x] = pc[x] /\ inst'[x] = inst[x] /\ at'[x] = at[x]
    BY <1>Unregister, <1>t DEF Unregister, Goto, TypeOK, clientVars, workerVars, libVars
  <2>4. \A v \in Workers \ {w} : (inst'[c] = v <=> inst[c] = v) /\ (at'[c] = v <=> at[c] =
     v) /\ at[c] # v
    BY <1>Unregister, <1>t, <2>1 DEF Unregister, Goto, TypeOK, clientVars, workerVars,
       libVars, Places, Refers, Dropping, Holding, Workers
  <2>5. Life(w)
    BY <1>Unregister, <1>t DEF Lives
  <2>6. \A x \in Clients : inst[x] # w /\ (x # c => at[x] # w)
    BY <1>Unregister, <1>t, <2>1 DEF Places, Alone, Workers
  <2>7. Left(w)'
    BY <1>Unregister, <1>t, <2>1, <2>5 DEF Life, Left, Waiting
  <2>8. Life(w)'
    BY <1>Unregister, <1>t, <2>1, <2>3, <2>6, <2>7 DEF Life, Workers
  <2>9. Lives'
    BY <1>Unregister, <1>t, <2>2, <2>3, <2>4, <2>8, OneLife
  <2> QED
    BY <2>9
<1>SendShutdown. ASSUME NEW c \in Clients, SendShutdown(c) PROVE Lives'
  <2>1. PICK w \in Workers : w = at[c] /\ pc[c] = "shutdown" /\ pc'[c] = "join" /\ inst' =
     inst /\ at' = at /\ queue'[w] = Append(queue[w], Shutdown) /\ UNCHANGED <<wpc,
     serving>>
    BY <1>SendShutdown, <1>t, ClientTypes DEF SendShutdown, Goto, TypeOK, clientVars,
       workerVars, libVars, Dropping
  <2>2. \A v \in Workers \ {w} : wpc'[v] = wpc[v] /\ queue'[v] = queue[v] /\ serving'[v] =
     serving[v]
    BY <1>SendShutdown, <1>t, <2>1 DEF SendShutdown, Goto, TypeOK, clientVars, workerVars,
       libVars, WorkerGoto
  <2>3. \A x \in Clients \ {c} : pc'[x] = pc[x] /\ inst'[x] = inst[x] /\ at'[x] = at[x]
    BY <1>SendShutdown, <1>t DEF SendShutdown, Goto, TypeOK, clientVars, workerVars,
       libVars
  <2>4. \A v \in Workers \ {w} : (inst'[c] = v <=> inst[c] = v) /\ (at'[c] = v <=> at[c] =
     v) /\ at[c] # v
    BY <1>SendShutdown, <1>t, <2>1 DEF SendShutdown, Goto, TypeOK, clientVars, workerVars,
       libVars, Places, Refers, Dropping, Holding, Workers
  <2>5. Life(w)
    BY <1>SendShutdown, <1>t DEF Lives
  <2>6. \A x \in Clients : inst[x] # w /\ (x # c => at[x] # w)
    BY <1>SendShutdown, <1>t, <2>1 DEF Places, Alone, Workers
  <2>7. Left(w)
    BY <1>SendShutdown, <1>t, <2>1, <2>5 DEF Life
  <2>8. Ending(w)'
    BY <1>SendShutdown, <1>t, <2>1, <2>7 DEF Left, Ending, Waiting
  <2>9. Life(w)'
    BY <1>SendShutdown, <1>t, <2>1, <2>3, <2>6, <2>8 DEF Life, Workers
  <2>10. Lives'
    BY <1>SendShutdown, <1>t, <2>2, <2>3, <2>4, <2>9, OneLife
  <2> QED
    BY <2>10
<1>Join. ASSUME NEW c \in Clients, Join(c) PROVE Lives'
  <2>1. PICK w \in Workers : w = at[c] /\ at'[c] = 0 /\ inst'[c] = 0 /\ pc[c] = "join" /\
     wpc[w] = "ended" /\ UNCHANGED <<wpc, queue, serving>>
    BY <1>Join, <1>t, ClientTypes DEF Join, Goto, TypeOK, clientVars, workerVars, libVars,
       Dropping, Places, Refers, Holding
  <2>2. \A v \in Workers \ {w} : wpc'[v] = wpc[v] /\ queue'[v] = queue[v] /\ serving'[v] =
     serving[v]
    BY <1>Join, <1>t, <2>1 DEF Join, Goto, TypeOK, clientVars, workerVars, libVars,
       WorkerGoto
  <2>3. \A x \in Clients \ {c} : pc'[x] = pc[x] /\ inst'[x] = inst[x] /\ at'[x] = at[x]
    BY <1>Join, <1>t DEF Join, Goto, TypeOK, clientVars, workerVars, libVars
  <2>4. \A v \in Workers \ {w} : (inst'[c] = v <=> inst[c] = v) /\ (at'[c] = v <=> at[c] =
     v) /\ at[c] # v
    BY <1>Join, <1>t, <2>1 DEF Join, Goto, TypeOK, clientVars, workerVars, libVars, Places,
       Refers, Dropping, Holding, Workers
  <2>5. Life(w)
    BY <1>Join, <1>t DEF Lives
  <2>6. \A x \in Clients \ {c} : at[x] # w /\ inst[x] # w
    BY <1>Join, <1>t, <2>1 DEF Places, Alone, Workers
  <2>7. Gone(w)'
    BY <1>Join, <1>t, <2>1, <2>5 DEF Life, Ending, Waiting, Gone
  <2>8. Life(w)'
    BY <1>Join, <1>t, <2>1, <2>3, <2>6, <2>7 DEF Life, Workers
  <2>9. Lives'
    BY <1>Join, <1>t, <2>2, <2>3, <2>4, <2>8, OneLife
  <2> QED
    BY <2>9
<1>MakeIsolate. ASSUME NEW w \in Workers, MakeIsolate(w) PROVE Lives'
  <2>1. \A v \in Workers \ {w} : wpc'[v] = wpc[v] /\ queue'[v] = queue[v] /\ serving'[v] =
     serving[v]
    BY <1>MakeIsolate, <1>t DEF MakeIsolate, WorkerGoto, TypeOK, clientVars, libVars,
       workerVars
  <2>2. UNCHANGED <<pc, inst, at>>
    BY <1>MakeIsolate, <1>t DEF MakeIsolate, WorkerGoto, TypeOK, clientVars, libVars,
       workerVars
  <2>3. Life(w)
    BY <1>MakeIsolate, <1>t DEF Lives
  <2>4. Life(w)'
    BY <1>MakeIsolate, <1>t, <2>1, <2>2, <2>3 DEF MakeIsolate, WorkerGoto, TypeOK, Running,
       Starting, Isolates, Life, Held, Made, Left, Waiting, Ending, Gone
  <2>5. Lives'
    BY <1>MakeIsolate, <1>t, <2>1, <2>2, <2>4, OneLife
  <2> QED
    BY <2>5
<1>MakeIsolateFails. ASSUME NEW w \in Workers, MakeIsolateFails(w) PROVE Lives'
  <2>1. \A v \in Workers \ {w} : wpc'[v] = wpc[v] /\ queue'[v] = queue[v] /\ serving'[v] =
     serving[v]
    BY <1>MakeIsolateFails, <1>t DEF MakeIsolateFails, InitFails, Refuses, WorkerGoto,
       TypeOK, clientVars, libVars, workerVars
  <2>2. UNCHANGED <<pc, inst, at>>
    BY <1>MakeIsolateFails, <1>t DEF MakeIsolateFails, InitFails, Refuses, WorkerGoto,
       TypeOK, clientVars, libVars, workerVars
  <2>3. Life(w)
    BY <1>MakeIsolateFails, <1>t DEF Lives
  <2>4. Life(w)'
    BY <1>MakeIsolateFails, <1>t, <2>1, <2>2, <2>3 DEF MakeIsolateFails, InitFails,
       Refuses, WorkerGoto, TypeOK, Running, Starting, Isolates, Life, Held, Made, Left,
       Waiting, Ending, Gone
  <2>5. Lives'
    BY <1>MakeIsolateFails, <1>t, <2>1, <2>2, <2>4, OneLife
  <2> QED
    BY <2>5
<1>OpenDatabase. ASSUME NEW w \in Workers, OpenDatabase(w) PROVE Lives'
  <2>1. \A v \in Workers \ {w} : wpc'[v] = wpc[v] /\ queue'[v] = queue[v] /\ serving'[v] =
     serving[v]
    BY <1>OpenDatabase, <1>t DEF OpenDatabase, WorkerGoto, TypeOK, clientVars, libVars,
       workerVars
  <2>2. UNCHANGED <<pc, inst, at>>
    BY <1>OpenDatabase, <1>t DEF OpenDatabase, WorkerGoto, TypeOK, clientVars, libVars,
       workerVars
  <2>3. Life(w)
    BY <1>OpenDatabase, <1>t DEF Lives
  <2>4. Life(w)'
    BY <1>OpenDatabase, <1>t, <2>1, <2>2, <2>3 DEF OpenDatabase, WorkerGoto, TypeOK,
       Running, Starting, Isolates, Life, Held, Made, Left, Waiting, Ending, Gone
  <2>5. Lives'
    BY <1>OpenDatabase, <1>t, <2>1, <2>2, <2>4, OneLife
  <2> QED
    BY <2>5
<1>OpenDatabaseFails. ASSUME NEW w \in Workers, OpenDatabaseFails(w) PROVE Lives'
  <2>1. \A v \in Workers \ {w} : wpc'[v] = wpc[v] /\ queue'[v] = queue[v] /\ serving'[v] =
     serving[v]
    BY <1>OpenDatabaseFails, <1>t DEF OpenDatabaseFails, InitFails, Refuses, WorkerGoto,
       TypeOK, clientVars, libVars, workerVars
  <2>2. UNCHANGED <<pc, inst, at>>
    BY <1>OpenDatabaseFails, <1>t DEF OpenDatabaseFails, InitFails, Refuses, WorkerGoto,
       TypeOK, clientVars, libVars, workerVars
  <2>3. Life(w)
    BY <1>OpenDatabaseFails, <1>t DEF Lives
  <2>4. Life(w)'
    BY <1>OpenDatabaseFails, <1>t, <2>1, <2>2, <2>3 DEF OpenDatabaseFails, InitFails,
       Refuses, WorkerGoto, TypeOK, Running, Starting, Isolates, Life, Held, Made, Left,
       Waiting, Ending, Gone
  <2>5. Lives'
    BY <1>OpenDatabaseFails, <1>t, <2>1, <2>2, <2>4, OneLife
  <2> QED
    BY <2>5
<1>PathRefused. ASSUME NEW w \in Workers, PathRefused(w) PROVE Lives'
  <2>1. \A v \in Workers \ {w} : wpc'[v] = wpc[v] /\ queue'[v] = queue[v] /\ serving'[v] =
     serving[v]
    BY <1>PathRefused, <1>t DEF PathRefused, InitFails, Refuses, WorkerGoto, TypeOK,
       clientVars, libVars, workerVars
  <2>2. UNCHANGED <<pc, inst, at>>
    BY <1>PathRefused, <1>t DEF PathRefused, InitFails, Refuses, WorkerGoto, TypeOK,
       clientVars, libVars, workerVars
  <2>3. Life(w)
    BY <1>PathRefused, <1>t DEF Lives
  <2>4. Life(w)'
    BY <1>PathRefused, <1>t, <2>1, <2>2, <2>3 DEF PathRefused, InitFails, Refuses,
       WorkerGoto, TypeOK, Running, Starting, Isolates, Life, Held, Made, Left, Waiting,
       Ending, Gone
  <2>5. Lives'
    BY <1>PathRefused, <1>t, <2>1, <2>2, <2>4, OneLife
  <2> QED
    BY <2>5
<1>TakeCommand. ASSUME NEW w \in Workers, TakeCommand(w) PROVE Lives'
  <2>1. \A v \in Workers \ {w} : wpc'[v] = wpc[v] /\ queue'[v] = queue[v] /\ serving'[v] =
     serving[v]
    BY <1>TakeCommand, <1>t DEF TakeCommand, Popped, WorkerGoto, TypeOK, clientVars,
       libVars, workerVars
  <2>2. UNCHANGED <<pc, inst, at>>
    BY <1>TakeCommand, <1>t DEF TakeCommand, Popped, WorkerGoto, TypeOK, clientVars,
       libVars, workerVars
  <2>3. Life(w)
    BY <1>TakeCommand, <1>t DEF Lives
  <2>4. queue[w] # <<>> /\ queue[w] \in Seq(Clients \cup {Shutdown}) /\ queue'[w] =
     Tail(queue[w]) /\ Head(queue[w]) = queue[w][1] /\ 1 \in 1 .. Len(queue[w])
    BY <1>TakeCommand, <1>t, TailFacts DEF TakeCommand, Popped, TypeOK
  <2>5. \A i \in 1 .. Len(queue'[w]) : i + 1 \in 1 .. Len(queue[w]) /\ queue'[w][i] =
     queue[w][i + 1]
    BY <1>TakeCommand, <1>t, <2>4, TailFacts
  <2>6. queue[w] # <<Shutdown>>
    BY <1>TakeCommand, <1>t, <2>4 DEF TakeCommand
  <2>7. Life(w)'
    BY <1>TakeCommand, <1>t, <2>2, <2>3, <2>4, <2>5, <2>6 DEF TakeCommand, WorkerGoto,
       TypeOK, Running, Starting, Isolates, Life, Held, Made, Left, Waiting, Ending, Gone
  <2>8. Lives'
    BY <1>TakeCommand, <1>t, <2>1, <2>2, <2>7, OneLife
  <2> QED
    BY <2>8
<1>Resume. ASSUME NEW w \in Workers, Resume(w) PROVE Lives'
  <2>1. \A v \in Workers \ {w} : wpc'[v] = wpc[v] /\ queue'[v] = queue[v] /\ serving'[v] =
     serving[v]
    BY <1>Resume, <1>t DEF Resume, Popped, WorkerGoto, TypeOK, clientVars, libVars,
       workerVars
  <2>2. UNCHANGED <<pc, inst, at>>
    BY <1>Resume, <1>t DEF Resume, Popped, WorkerGoto, TypeOK, clientVars, libVars,
       workerVars
  <2>3. Life(w)
    BY <1>Resume, <1>t DEF Lives
  <2>4. queue[w] # <<>> /\ queue[w] \in Seq(Clients \cup {Shutdown}) /\ queue'[w] =
     Tail(queue[w]) /\ Head(queue[w]) = queue[w][1] /\ 1 \in 1 .. Len(queue[w])
    BY <1>Resume, <1>t, TailFacts DEF Resume, Popped, TypeOK
  <2>5. \A i \in 1 .. Len(queue'[w]) : i + 1 \in 1 .. Len(queue[w]) /\ queue'[w][i] =
     queue[w][i + 1]
    BY <1>Resume, <1>t, <2>4, TailFacts
  <2>6. queue[w] # <<Shutdown>> /\ serving'[w] # NoClient
    BY <1>Resume, <1>t, <2>4 DEF Resume, Shutdown, TypeOK
  <2>7. Life(w)'
    BY <1>Resume, <1>t, <2>2, <2>3, <2>4, <2>5, <2>6 DEF Resume, WorkerGoto, TypeOK,
       Running, Starting, Isolates, Life, Held, Made, Left, Waiting, Ending, Gone
  <2>8. Lives'
    BY <1>Resume, <1>t, <2>1, <2>2, <2>7, OneLife
  <2> QED
    BY <2>8
<1>TakeShutdown. ASSUME NEW w \in Workers, TakeShutdown(w) PROVE Lives'
  <2>1. \A v \in Workers \ {w} : wpc'[v] = wpc[v] /\ queue'[v] = queue[v] /\ serving'[v] =
     serving[v]
    BY <1>TakeShutdown, <1>t DEF TakeShutdown, Popped, WorkerGoto, TypeOK, clientVars,
       libVars, workerVars
  <2>2. UNCHANGED <<pc, inst, at>>
    BY <1>TakeShutdown, <1>t DEF TakeShutdown, Popped, WorkerGoto, TypeOK, clientVars,
       libVars, workerVars
  <2>3. Life(w)
    BY <1>TakeShutdown, <1>t DEF Lives
  <2>4. queue[w] # <<>> /\ queue[w] \in Seq(Clients \cup {Shutdown}) /\ queue'[w] =
     Tail(queue[w]) /\ Head(queue[w]) = queue[w][1] /\ 1 \in 1 .. Len(queue[w])
    BY <1>TakeShutdown, <1>t, TailFacts DEF TakeShutdown, Popped, TypeOK
  <2>5. \A i \in 1 .. Len(queue'[w]) : i + 1 \in 1 .. Len(queue[w]) /\ queue'[w][i] =
     queue[w][i + 1]
    BY <1>TakeShutdown, <1>t, <2>4, TailFacts
  <2>6. ~Held(w) /\ (queue[w] = <<Shutdown>> => queue'[w] = <<>>)
    <3>1. queue[w][1] = Shutdown
      BY <1>TakeShutdown, <1>t, <1>TakeShutdown, <2>4 DEF TakeShutdown
    <3>2. ~Held(w)
      BY <2>4, <3>1 DEF Held
    <3>3. queue[w] = <<Shutdown>> => queue'[w] = <<>>
      BY <2>4
    <3> QED
      BY <3>2, <3>3
  <2>7. Life(w)'
    BY <1>TakeShutdown, <1>t, <2>2, <2>3, <2>4, <2>5, <2>6 DEF TakeShutdown, WorkerGoto,
       TypeOK, Running, Starting, Isolates, Life, Held, Made, Left, Waiting, Ending, Gone
  <2>8. Lives'
    BY <1>TakeShutdown, <1>t, <2>1, <2>2, <2>7, OneLife
  <2> QED
    BY <2>8
<1>IdleTimeout. ASSUME NEW w \in Workers, IdleTimeout(w) PROVE Lives'
  <2>1. \A v \in Workers \ {w} : wpc'[v] = wpc[v] /\ queue'[v] = queue[v] /\ serving'[v] =
     serving[v]
    BY <1>IdleTimeout, <1>t DEF IdleTimeout, WorkerGoto, TypeOK, clientVars, libVars,
       workerVars
  <2>2. UNCHANGED <<pc, inst, at>>
    BY <1>IdleTimeout, <1>t DEF IdleTimeout, WorkerGoto, TypeOK, clientVars, libVars,
       workerVars
  <2>3. Life(w)
    BY <1>IdleTimeout, <1>t DEF Lives
  <2>4. Life(w)'
    BY <1>IdleTimeout, <1>t, <2>1, <2>2, <2>3 DEF IdleTimeout, WorkerGoto, TypeOK, Running,
       Starting, Isolates, Life, Held, Made, Left, Waiting, Ending, Gone
  <2>5. Lives'
    BY <1>IdleTimeout, <1>t, <2>1, <2>2, <2>4, OneLife
  <2> QED
    BY <2>5
<1>Suspend. ASSUME NEW w \in Workers, Suspend(w) PROVE Lives'
  <2>1. \A v \in Workers \ {w} : wpc'[v] = wpc[v] /\ queue'[v] = queue[v] /\ serving'[v] =
     serving[v]
    BY <1>Suspend, <1>t DEF Suspend, Closed, WorkerGoto, TypeOK, clientVars, libVars,
       workerVars
  <2>2. UNCHANGED <<pc, inst, at>>
    BY <1>Suspend, <1>t DEF Suspend, Closed, WorkerGoto, TypeOK, clientVars, libVars,
       workerVars
  <2>3. Life(w)
    BY <1>Suspend, <1>t DEF Lives
  <2>4. Life(w)'
    BY <1>Suspend, <1>t, <2>1, <2>2, <2>3 DEF Suspend, Closed, WorkerGoto, TypeOK, Running,
       Starting, Isolates, Life, Held, Made, Left, Waiting, Ending, Gone
  <2>5. Lives'
    BY <1>Suspend, <1>t, <2>1, <2>2, <2>4, OneLife
  <2> QED
    BY <2>5
<1>BackoffRefuse. ASSUME NEW w \in Workers, BackoffRefuse(w) PROVE Lives'
  <2>1. \A v \in Workers \ {w} : wpc'[v] = wpc[v] /\ queue'[v] = queue[v] /\ serving'[v] =
     serving[v]
    BY <1>BackoffRefuse, <1>t DEF BackoffRefuse, Popped, Refuses, WorkerGoto, TypeOK,
       clientVars, libVars, workerVars
  <2>2. UNCHANGED <<pc, inst, at>>
    BY <1>BackoffRefuse, <1>t DEF BackoffRefuse, Popped, Refuses, WorkerGoto, TypeOK,
       clientVars, libVars, workerVars
  <2>3. Life(w)
    BY <1>BackoffRefuse, <1>t DEF Lives
  <2>4. queue[w] # <<>> /\ queue[w] \in Seq(Clients \cup {Shutdown}) /\ queue'[w] =
     Tail(queue[w]) /\ Head(queue[w]) = queue[w][1] /\ 1 \in 1 .. Len(queue[w])
    BY <1>BackoffRefuse, <1>t, TailFacts DEF BackoffRefuse, Popped, TypeOK
  <2>5. \A i \in 1 .. Len(queue'[w]) : i + 1 \in 1 .. Len(queue[w]) /\ queue'[w][i] =
     queue[w][i + 1]
    BY <1>BackoffRefuse, <1>t, <2>4, TailFacts
  <2>6. queue[w] # <<Shutdown>>
    BY <1>BackoffRefuse, <1>t, <2>4 DEF BackoffRefuse
  <2>7. Life(w)'
    BY <1>BackoffRefuse, <1>t, <2>2, <2>3, <2>4, <2>5, <2>6 DEF BackoffRefuse, WorkerGoto,
       TypeOK, Running, Starting, Isolates, Life, Held, Made, Left, Waiting, Ending, Gone
  <2>8. Lives'
    BY <1>BackoffRefuse, <1>t, <2>1, <2>2, <2>7, OneLife
  <2> QED
    BY <2>8
<1>BackoffEnds. ASSUME NEW w \in Workers, BackoffEnds(w) PROVE Lives'
  <2>1. \A v \in Workers \ {w} : wpc'[v] = wpc[v] /\ queue'[v] = queue[v] /\ serving'[v] =
     serving[v]
    BY <1>BackoffEnds, <1>t DEF BackoffEnds, WorkerGoto, TypeOK, clientVars, libVars,
       workerVars
  <2>2. UNCHANGED <<pc, inst, at>>
    BY <1>BackoffEnds, <1>t DEF BackoffEnds, WorkerGoto, TypeOK, clientVars, libVars,
       workerVars
  <2>3. Life(w)
    BY <1>BackoffEnds, <1>t DEF Lives
  <2>4. Life(w)'
    BY <1>BackoffEnds, <1>t, <2>1, <2>2, <2>3 DEF BackoffEnds, WorkerGoto, TypeOK, Running,
       Starting, Isolates, Life, Held, Made, Left, Waiting, Ending, Gone
  <2>5. Lives'
    BY <1>BackoffEnds, <1>t, <2>1, <2>2, <2>4, OneLife
  <2> QED
    BY <2>5
<1>CloseAndEnd. ASSUME NEW w \in Workers, CloseAndEnd(w) PROVE Lives'
  <2>1. \A v \in Workers \ {w} : wpc'[v] = wpc[v] /\ queue'[v] = queue[v] /\ serving'[v] =
     serving[v]
    BY <1>CloseAndEnd, <1>t DEF CloseAndEnd, Closed, WorkerGoto, TypeOK, clientVars,
       libVars, workerVars
  <2>2. UNCHANGED <<pc, inst, at>>
    BY <1>CloseAndEnd, <1>t DEF CloseAndEnd, Closed, WorkerGoto, TypeOK, clientVars,
       libVars, workerVars
  <2>3. Life(w)
    BY <1>CloseAndEnd, <1>t DEF Lives
  <2>4. Life(w)'
    BY <1>CloseAndEnd, <1>t, <2>1, <2>2, <2>3 DEF CloseAndEnd, Closed, WorkerGoto, TypeOK,
       Running, Starting, Isolates, Life, Held, Made, Left, Waiting, Ending, Gone
  <2>5. Lives'
    BY <1>CloseAndEnd, <1>t, <2>1, <2>2, <2>4, OneLife
  <2> QED
    BY <2>5
<1>Serve. ASSUME NEW w \in Workers, Serve(w) PROVE Lives'
  <2>1. \A v \in Workers \ {w} : wpc'[v] = wpc[v] /\ queue'[v] = queue[v] /\ serving'[v] =
     serving[v]
    BY <1>Serve, <1>t DEF Serve, WorkerGoto, TypeOK, clientVars, libVars, workerVars
  <2>2. UNCHANGED <<pc, inst, at>>
    BY <1>Serve, <1>t DEF Serve, WorkerGoto, TypeOK, clientVars, libVars, workerVars
  <2>3. Life(w)
    BY <1>Serve, <1>t DEF Lives
  <2>4. Life(w)'
    BY <1>Serve, <1>t, <2>1, <2>2, <2>3 DEF Serve, WorkerGoto, TypeOK, Running, Starting,
       Isolates, Life, Held, Made, Left, Waiting, Ending, Gone
  <2>5. Lives'
    BY <1>Serve, <1>t, <2>1, <2>2, <2>4, OneLife
  <2> QED
    BY <2>5
<1>kept. CASE UNCHANGED <<wpc, queue, serving, pc, inst, at>>
  BY <1>kept, <1>t DEF Lives, Life, Held, Made, Left, Waiting, Ending, Gone
<1>stutter. CASE UNCHANGED vars
  BY <1>stutter, <1>kept DEF vars, clientVars, workerVars, libVars
<1> QED
  BY CallsSend, <1>Open, <1>Reuse, <1>Spawn, <1>Opened, <1>OpenFails, <1>Register,
     <1>AnySend, <1>Unparsed, <1>Receive, <1>Drop, <1>Unregister, <1>SendShutdown, <1>Join,
     <1>MakeIsolate, <1>MakeIsolateFails, <1>OpenDatabase, <1>OpenDatabaseFails,
     <1>PathRefused, <1>TakeCommand, <1>Resume, <1>TakeShutdown, <1>IdleTimeout,
     <1>Suspend, <1>BackoffRefuse, <1>BackoffEnds, <1>CloseAndEnd, <1>Serve, <1>stutter DEF
     Next, Continues, Works

-----------------------------------------------------------------------------
(* The invariant and what follows from it *)

LEMMA InitInv == ASSUME Init PROVE Inv
<1>1. TypeOK
  <2>1. 0 \in 0 .. MaxWorkers
    BY ClientConstants
  <2>2. {} \subseteq Paths /\ there \subseteq Paths
    BY DEF Init
  <2> QED
    BY <2>1, <2>2 DEF Init, TypeOK, PCs, WorkerPCs
<1>2. Places
  BY ClientConstants DEF Init, Places, Refers, Alone, Holding, Dropping
<1>3. Unborn
  BY ClientConstants DEF Init, Unborn, Workers
<1>4. Isolates
  BY DEF Init, Isolates, Starting
<1>5. Channels
  BY DEF Init, Channels, Calls
<1>6. Lives
  BY DEF Init, Lives, Life, Gone, Workers
<1>7. NoMessages
  BY DEF Init, NoMessages, ErrorsOwn, NoAnswer
<1>8. IsolatesReleased
  BY DEF Init, IsolatesReleased
<1> QED
  BY <1>1, <1>2, <1>3, <1>4, <1>5, <1>6, <1>7, <1>8 DEF Inv

LEMMA InvStep == ASSUME Inv, [Next]_vars PROVE Inv'
  BY TypeStep, PlacesStep, UnbornStep, IsolatesStep, ChannelsStep, LivesStep, NoMessagesStep,
     ReleasedStep DEF Inv

THEOREM Invariance == Spec => []Inv
<1>1. Init => Inv
  BY InitInv
<1>2. Inv /\ [Next]_vars => Inv'
  BY InvStep
<1> QED
  BY <1>1, <1>2, PTL DEF Spec

\* Every variable of the registry, the clients, the workers and the library keeps its type
\* (ChronDB::open, SharedWorker::drop, run_worker_loop_with_idle).
THEOREM TypeCorrect == Spec => []TypeOK
<1>1. Inv => TypeOK
  BY DEF Inv
<1> QED
  BY <1>1, Invariance, PTL

\* The worker of an instance runs and nobody has told it to stop, however opens and drops
\* of its path interleave: Weak::upgrade against SharedWorker::drop.
THEOREM InstancesRun == Spec => []HandedOutRuns
<1>1. ASSUME Inv PROVE HandedOutRuns
  <2> SUFFICES ASSUME NEW c \in Clients, inst[c] # 0
               PROVE  /\ wpc[inst[c]] \in Running
                      /\ \A i \in 1 .. Len(queue[inst[c]]) : queue[inst[c]][i] # Shutdown
    BY DEF HandedOutRuns
  <2>1. inst[c] \in Workers
    BY <1>1 DEF Inv, TypeOK
  <2>2. Held(inst[c])
    BY <1>1, <2>1 DEF Inv, Lives, Life
  <2> QED
    BY <2>2 DEF Held
<1> QED
  BY <1>1, Invariance, PTL

\* The message that stops a worker finds no command before it and none comes behind it: no
\* command is dropped with the channel (SharedWorker::drop).
THEOREM ShutdownLosesNothing == Spec => []ShutdownFindsNoCall
<1>1. ASSUME Inv PROVE ShutdownFindsNoCall
  <2> SUFFICES ASSUME NEW w \in Workers
               PROVE  /\ \A i \in 1 .. Len(queue[w]) : queue[w][i] = Shutdown =>
                           Len(queue[w]) = 1 /\ serving[w] = NoClient
                      /\ wpc[w] \in {"close", "ended"} => queue[w] = <<>> /\ serving[w] = NoClient
    BY DEF ShutdownFindsNoCall
  <2>1. Life(w) /\ Isolates /\ TypeOK /\ Places
    BY <1>1 DEF Inv, Lives
  <2>2. CASE \E c \in Clients : inst[c] = w
    <3>1. Held(w)
      BY <2>1, <2>2 DEF Life
    <3> QED
      BY <3>1 DEF Held, Running
  <2>3. CASE \E c \in Clients : at[c] = w
    <3>1. PICK c \in Clients : at[c] = w
      BY <2>3
    <3>2. Made(w) \/ Left(w) \/ Ending(w)
      BY <2>1, <3>1 DEF Life, Places, Refers, Dropping, Workers
    <3>3. queue[w] = <<>> \/ queue[w] = <<Shutdown>>
      BY <3>2 DEF Made, Left, Ending
    <3>4. wpc[w] \in {"close", "ended"} => queue[w] = <<>>
      BY <3>2 DEF Made, Left, Ending, Waiting
    <3>5. serving[w] = NoClient
      BY <2>1, <3>2 DEF Made, Left, Ending, Waiting, Isolates, Starting
    <3>6. queue[w] = <<Shutdown>> => Len(queue[w]) = 1
      OBVIOUS
    <3>7. \A i \in 1 .. Len(queue[w]) : Len(queue[w]) = 1
      BY <3>3, <3>6
    <3> QED
      BY <3>4, <3>5, <3>7
  <2>4. CASE \A c \in Clients : inst[c] # w /\ at[c] # w
    <3>1. Gone(w)
      BY <2>1, <2>4 DEF Life
    <3> QED
      BY <2>1, <3>1 DEF Gone, Isolates, Starting
  <2> QED
    BY <2>2, <2>3, <2>4
<1> QED
  BY <1>1, Invariance, PTL

\* A command is served with the isolate of an open database, never with the closed handle
\* of a suspended worker (run_worker_loop_with_idle).
THEOREM LibraryCalledOpen == Spec => []LibraryUsedOpen
<1>1. Inv => LibraryUsedOpen
  BY DEF Inv, Isolates, LibraryUsedOpen
<1> QED
  BY <1>1, Invariance, PTL

\* The message told with an error is that of the caller's own command (last_error_or).
THEOREM MessagesOwn == Spec => []ErrorsOwn
<1>1. Inv => ErrorsOwn
  BY DEF Inv, NoMessages
<1> QED
  BY <1>1, Invariance, PTL

\* An isolate is up only while its worker needs it, but for paths with a NUL byte
\* (init_worker, FfiWorkerState::close).
THEOREM IsolatesAreReleased == Spec => []IsolatesReleased
<1>1. Inv => IsolatesReleased
  BY DEF Inv
<1> QED
  BY <1>1, Invariance, PTL

-----------------------------------------------------------------------------
(* No call is lost *)

\* A call that waits is in the channel of worker w or taken from it.
Keeps(w, c) == serving[w] = c \/ \E i \in 1 .. Len(queue[w]) : queue[w][i] = c
KeepsNext(w, c) == serving'[w] = c \/ \E i \in 1 .. Len(queue'[w]) : queue'[w][i] = c

LEMMA CallsKept ==
  ASSUME \A c \in Clients : pc'[c] = "wait" /\ reply'[c] = NoAnswer => KeepsNext(inst'[c], c)
  PROVE  CallsInHand'
<1> SUFFICES ASSUME NEW c \in Clients, pc'[c] = "wait", reply'[c] = NoAnswer
             PROVE  c \in InHand(inst[c])'
  BY DEF CallsInHand
<1>1. KeepsNext(inst'[c], c)
  OBVIOUS
<1> QED
  BY <1>1 DEF KeepsNext, InHand

LEMMA CallsHeld ==
  ASSUME CallsInHand, NEW c \in Clients, NEW w, Awaits(c, w)
  PROVE  Keeps(w, c)
  BY DEF CallsInHand, InHand, Awaits, Keeps

\* A step that makes nobody wait and takes nothing from a channel.
LEMMA NobodyMore ==
  ASSUME CallsInHand, \A x, w : AwaitsNext(x, w) => Awaits(x, w), UNCHANGED <<queue, serving>>
  PROVE  CallsInHand'
<1>1. ASSUME NEW c \in Clients, pc'[c] = "wait", reply'[c] = NoAnswer
      PROVE  KeepsNext(inst'[c], c)
  <2>1. Awaits(c, inst'[c])
    BY <1>1 DEF AwaitsNext
  <2>2. Keeps(inst'[c], c)
    BY <2>1, CallsHeld
  <2> QED
    BY <2>2 DEF Keeps, KeepsNext
<1> QED
  BY <1>1, CallsKept

\* What is put in a channel puts nothing out of it.
LEMMA AppendedKept ==
  ASSUME TypeOK, NEW k \in Workers, NEW x \in Clients \cup {Shutdown},
         queue' = [queue EXCEPT ![k] = Append(@, x)], serving' = serving
  PROVE  /\ \A w \in Workers, c \in Clients : Keeps(w, c) => KeepsNext(w, c)
         /\ KeepsNext(k, x)
<1>1. queue[k] \in Seq(Clients \cup {Shutdown}) /\ queue'[k] = Append(queue[k], x)
      /\ \A w \in Workers \ {k} : queue'[w] = queue[w]
  BY DEF TypeOK
<1>2. /\ Len(queue[k]) \in Nat /\ Len(queue'[k]) = Len(queue[k]) + 1
      /\ \A i \in 1 .. Len(queue[k]) : queue'[k][i] = queue[k][i]
      /\ queue'[k][Len(queue[k]) + 1] = x
  BY <1>1, AppendFacts
<1>3. Len(queue[k]) + 1 \in 1 .. Len(queue'[k])
      /\ \A i \in 1 .. Len(queue[k]) : i \in 1 .. Len(queue'[k])
  BY <1>2
<1>4. KeepsNext(k, x)
  BY <1>2, <1>3 DEF KeepsNext
<1>5. ASSUME NEW c \in Clients, Keeps(k, c) PROVE KeepsNext(k, c)
  BY <1>2, <1>3, <1>5 DEF Keeps, KeepsNext
<1>6. ASSUME NEW w \in Workers \ {k}, NEW c \in Clients, Keeps(w, c) PROVE KeepsNext(w, c)
  BY <1>1, <1>6 DEF Keeps, KeepsNext
<1> QED
  BY <1>4, <1>5, <1>6

\* Of the calls in its hands a worker loses only the one at the head of its channel.
LEMMA PoppedKept ==
  ASSUME TypeOK, NEW k \in Workers, queue[k] # <<>>, Popped(k), NEW w \in Workers,
         NEW c \in Clients,
         \E i \in 1 .. Len(queue[w]) : queue[w][i] = c
  PROVE  \/ w = k /\ c = Head(queue[k])
         \/ \E i \in 1 .. Len(queue'[w]) : queue'[w][i] = c
<1>1. queue[k] \in Seq(Clients \cup {Shutdown}) /\ queue'[k] = Tail(queue[k])
      /\ \A v \in Workers \ {k} : queue'[v] = queue[v]
  BY DEF TypeOK, Popped
<1>2. CASE w # k
  BY <1>1, <1>2
<1>3. CASE w = k
  <2>1. PICK i \in 1 .. Len(queue[k]) : queue[k][i] = c
    BY <1>3
  <2>2. /\ Len(queue[k]) \in Nat /\ Head(queue[k]) = queue[k][1]
        /\ Len(queue'[k]) = Len(queue[k]) - 1
        /\ \A j \in 1 .. Len(queue'[k]) : queue'[k][j] = queue[k][j + 1]
    BY <1>1, TailFacts
  <2>3. CASE i = 1
    BY <1>3, <2>1, <2>2, <2>3
  <2>4. CASE i # 1
    <3>1. i - 1 \in 1 .. Len(queue'[k]) /\ (i - 1) + 1 = i
      BY <2>2, <2>4
    <3>2. queue'[k][i - 1] = c
      BY <2>1, <2>2, <3>1
    <3> QED
      BY <1>3, <3>1, <3>2
  <2> QED
    BY <2>3, <2>4
<1> QED
  BY <1>2, <1>3

\* A worker takes the call at the head of its channel.
LEMMA TakenKept ==
  ASSUME Inv, CallsInHand, NEW k \in Workers, queue[k] # <<>>, Popped(k),
         serving[k] = NoClient, serving' = [serving EXCEPT ![k] = Head(queue[k])],
         UNCHANGED clientVars
  PROVE  CallsInHand'
<1> USE DEF Inv
<1>1. serving'[k] = Head(queue[k]) /\ \A w \in Workers \ {k} : serving'[w] = serving[w]
  BY DEF TypeOK
<1>2. ASSUME NEW c \in Clients, pc'[c] = "wait", reply'[c] = NoAnswer
      PROVE  KeepsNext(inst'[c], c)
  <2>1. Awaits(c, inst[c]) /\ inst' = inst /\ inst[c] \in Workers
    BY <1>2, ClientTypes DEF Awaits, clientVars, Holding
  <2>2. Keeps(inst[c], c)
    BY <2>1, CallsHeld
  <2>3. CASE serving[inst[c]] = c
    <3>1. inst[c] # k
      BY <2>3, ClientConstants
    <3> QED
      BY <1>1, <2>1, <2>3, <3>1 DEF KeepsNext
  <2>4. CASE \E i \in 1 .. Len(queue[inst[c]]) : queue[inst[c]][i] = c
    <3>1. \/ inst[c] = k /\ c = Head(queue[k])
          \/ \E i \in 1 .. Len(queue'[inst[c]]) : queue'[inst[c]][i] = c
      BY <2>1, <2>4, PoppedKept
    <3> QED
      BY <1>1, <2>1, <3>1 DEF KeepsNext
  <2> QED
    BY <2>2, <2>3, <2>4 DEF Keeps
<1> QED
  BY <1>2, CallsKept

\* A worker answers the call that it serves.
LEMMA AnsweredKept ==
  ASSUME Inv, CallsInHand, NEW k \in Workers, serving[k] # NoClient, NEW a, a # NoAnswer,
         reply' = [reply EXCEPT ![serving[k]] = a],
         serving' = [serving EXCEPT ![k] = NoClient], UNCHANGED <<pc, inst, queue>>
  PROVE  CallsInHand'
<1>1. serving[k] \in Clients /\ reply'[serving[k]] = a
      /\ \A c \in Clients \ {serving[k]} : reply'[c] = reply[c]
      /\ \A w \in Workers \ {k} : serving'[w] = serving[w]
  BY DEF Inv, TypeOK
<1>2. ASSUME NEW c \in Clients, pc'[c] = "wait", reply'[c] = NoAnswer
      PROVE  KeepsNext(inst'[c], c)
  <2>1. c # serving[k] /\ Awaits(c, inst[c]) /\ inst' = inst /\ inst[c] \in Workers
    BY <1>1, <1>2, ClientTypes DEF Awaits, Inv, Holding
  <2>2. Keeps(inst[c], c)
    BY <2>1, CallsHeld
  <2> QED
    BY <1>1, <2>1, <2>2 DEF Keeps, KeepsNext
<1> QED
  BY <1>2, CallsKept

LEMMA RefusalTold ==
  ASSUME NEW c, Refuses(c)
  PROVE  \E a : a # NoAnswer /\ reply' = [reply EXCEPT ![c] = a]
<1> DEFINE a == Plain(IF command[c] = "last_error" THEN "message" ELSE "unavailable")
<1>1. a # NoAnswer
  BY DEF Plain, NoAnswer
<1>2. reply' = [reply EXCEPT ![c] = a]
  BY DEF Refuses
<1> HIDE DEF a
<1> QED
  BY <1>1, <1>2

LEMMA InitFailsKept ==
  ASSUME Inv, CallsInHand, NEW w \in Workers, InitFails(w), UNCHANGED <<queue, pc, inst>>
  PROVE  CallsInHand'
<1>1. CASE serving[w] = NoClient
  <2>1. UNCHANGED <<reply, serving>>
    BY <1>1 DEF InitFails
  <2> QED
    BY <2>1, NobodyMore DEF Awaits, AwaitsNext
<1>2. CASE serving[w] # NoClient
  <2>1. Refuses(serving[w]) /\ serving' = [serving EXCEPT ![w] = NoClient]
    BY <1>2 DEF InitFails
  <2>2. PICK a : a # NoAnswer /\ reply' = [reply EXCEPT ![serving[w]] = a]
    BY <2>1, RefusalTold
  <2> QED
    BY <1>2, <2>1, <2>2, AnsweredKept
<1> QED
  BY <1>1, <1>2

LEMMA CallsInHandStep == ASSUME Inv, CallsInHand, [Next]_vars PROVE CallsInHand'
<1>t. TypeOK /\ Channels /\ Isolates
  BY DEF Inv
<1>clients. ASSUME NEW c \in Clients, Open(c) \/ Reuse(c) \/ Spawn(c) \/ Opened(c) \/ OpenFails(c)
                     \/ Register(c) \/ Unparsed(c) \/ Receive(c) \/ Drop(c) \/ Unregister(c)
                     \/ Join(c)
            PROVE  CallsInHand'
  <2>1. /\ \A x \in Clients \ {c} : pc'[x] = pc[x] /\ inst'[x] = inst[x] /\ reply'[x] = reply[x]
        /\ ~(pc'[c] = "wait" /\ reply'[c] = NoAnswer)
        /\ UNCHANGED <<queue, serving>>
    BY <1>clients, <1>t DEF Open, Reuse, Spawn, Opened, OpenFails, Register, Unparsed, Receive, Drop,
       Unregister, Join, Goto, TypeOK, Channels, workerVars, Plain, NoAnswer
  <2>2. \A x, w : AwaitsNext(x, w) => Awaits(x, w)
    BY <2>1 DEF Awaits, AwaitsNext
  <2> QED
    BY <2>1, <2>2, NobodyMore
<1>AnySend. ASSUME NEW c \in Clients, AnySend(c) PROVE CallsInHand'
  <2>1. inst[c] \in Workers
    BY <1>AnySend, <1>t, ClientTypes DEF AnySend, Send, Holding
  <2>2. /\ queue' = [queue EXCEPT ![inst[c]] = Append(@, c)] /\ serving' = serving
        /\ inst' = inst /\ reply' = reply /\ \A x \in Clients \ {c} : pc'[x] = pc[x]
    BY <1>AnySend, <1>t DEF AnySend, Send, Goto, TypeOK, workerVars
  <2>3. /\ \A w \in Workers, x \in Clients : Keeps(w, x) => KeepsNext(w, x)
        /\ KeepsNext(inst[c], c)
    BY <1>t, <2>1, <2>2, AppendedKept
  <2>4. ASSUME NEW x \in Clients \ {c}, pc'[x] = "wait", reply'[x] = NoAnswer
        PROVE  KeepsNext(inst'[x], x)
    <3>1. Awaits(x, inst[x]) /\ inst[x] \in Workers
      BY <2>2, <2>4, ClientTypes DEF Awaits, Holding
    <3> QED
      BY <2>2, <2>3, <3>1, CallsHeld
  <2> QED
    BY <2>2, <2>3, <2>4, CallsKept
<1>SendShutdown. ASSUME NEW c \in Clients, SendShutdown(c) PROVE CallsInHand'
  <2>1. at[c] \in Workers
    BY <1>SendShutdown, <1>t, ClientTypes DEF SendShutdown, Dropping
  <2>2. /\ queue' = [queue EXCEPT ![at[c]] = Append(@, Shutdown)] /\ serving' = serving
        /\ inst' = inst /\ reply' = reply /\ \A x \in Clients \ {c} : pc'[x] = pc[x]
        /\ pc'[c] # "wait"
    BY <1>SendShutdown, <1>t DEF SendShutdown, Goto, TypeOK, workerVars
  <2>3. \A w \in Workers, x \in Clients : Keeps(w, x) => KeepsNext(w, x)
    BY <1>t, <2>1, <2>2, AppendedKept
  <2>4. ASSUME NEW x \in Clients, pc'[x] = "wait", reply'[x] = NoAnswer
        PROVE  KeepsNext(inst'[x], x)
    <3>1. Awaits(x, inst[x]) /\ inst[x] \in Workers
      BY <2>2, <2>4, ClientTypes DEF Awaits, Holding
    <3> QED
      BY <2>2, <2>3, <3>1, CallsHeld
  <2> QED
    BY <2>4, CallsKept
<1>InitFails. ASSUME NEW w \in Workers, MakeIsolateFails(w) \/ OpenDatabaseFails(w) \/ PathRefused(w)
              PROVE  CallsInHand'
  BY <1>InitFails, InitFailsKept DEF MakeIsolateFails, OpenDatabaseFails, PathRefused
<1>Take. ASSUME NEW w \in Workers, TakeCommand(w) \/ Resume(w) PROVE CallsInHand'
  <2>1. wpc[w] = "recv" /\ queue[w] # <<>> /\ Popped(w) /\ UNCHANGED clientVars
        /\ serving' = [serving EXCEPT ![w] = Head(queue[w])]
    BY <1>Take DEF TakeCommand, Resume
  <2>2. serving[w] = NoClient
    BY <1>t, <2>1 DEF Isolates, Starting
  <2> QED
    BY <2>1, <2>2, TakenKept
<1>TakeShutdown. ASSUME NEW w \in Workers, TakeShutdown(w) PROVE CallsInHand'
  <2>1. /\ queue[w] # <<>> /\ Head(queue[w]) = Shutdown /\ Popped(w)
        /\ UNCHANGED clientVars /\ serving' = serving
    BY <1>TakeShutdown DEF TakeShutdown
  <2>2. ASSUME NEW c \in Clients, pc'[c] = "wait", reply'[c] = NoAnswer
        PROVE  KeepsNext(inst'[c], c)
    <3>1. Awaits(c, inst[c]) /\ inst' = inst /\ inst[c] \in Workers /\ c # Shutdown
      BY <1>t, <2>1, <2>2, ClientTypes, ClientConstants DEF Awaits, clientVars, Holding, Shutdown
    <3>2. Keeps(inst[c], c)
      BY <3>1, CallsHeld
    <3>3. CASE \E i \in 1 .. Len(queue[inst[c]]) : queue[inst[c]][i] = c
      BY <1>t, <2>1, <3>1, <3>3, PoppedKept DEF KeepsNext
    <3> QED
      BY <2>1, <3>1, <3>2, <3>3 DEF Keeps, KeepsNext
  <2> QED
    BY <2>2, CallsKept
<1>BackoffRefuse. ASSUME NEW w \in Workers, BackoffRefuse(w) PROVE CallsInHand'
  <2>1. /\ queue[w] # <<>> /\ Head(queue[w]) # Shutdown /\ Popped(w) /\ Refuses(Head(queue[w]))
        /\ UNCHANGED <<pc, inst, serving>>
    BY <1>BackoffRefuse DEF BackoffRefuse
  <2>2. PICK a : a # NoAnswer /\ reply' = [reply EXCEPT ![Head(queue[w])] = a]
    BY <2>1, RefusalTold
  <2>3. Head(queue[w]) \in Clients
    BY <2>1, HeadOnce DEF Awaits
  <2>4. ASSUME NEW c \in Clients, pc'[c] = "wait", reply'[c] = NoAnswer
        PROVE  KeepsNext(inst'[c], c)
    <3>1. c # Head(queue[w]) /\ reply[c] = NoAnswer
      BY <1>t, <2>2, <2>3, <2>4 DEF TypeOK
    <3>2. Awaits(c, inst[c]) /\ inst' = inst /\ inst[c] \in Workers
      BY <1>t, <2>1, <2>4, <3>1, ClientTypes DEF Awaits, Holding
    <3>3. Keeps(inst[c], c)
      BY <3>2, CallsHeld
    <3>4. CASE \E i \in 1 .. Len(queue[inst[c]]) : queue[inst[c]][i] = c
      BY <1>t, <2>1, <3>1, <3>2, <3>4, PoppedKept DEF KeepsNext
    <3> QED
      BY <2>1, <3>2, <3>3, <3>4 DEF Keeps, KeepsNext
  <2> QED
    BY <2>4, CallsKept
<1>Serve. ASSUME NEW w \in Workers, Serve(w) PROVE CallsInHand'
  <2>1. /\ serving[w] # NoClient /\ serving[w] \in Clients /\ command[serving[w]] \in Commands
        /\ lastError[w] = NoClient
    BY <1>Serve, <1>t DEF Serve, Inv, TypeOK, Isolates, Channels, Calls, Awaits, Places, Refers,
       NoMessages
  <2>2. PICK r \in Results(command[serving[w]], serving[w], NoClient) :
             reply' = [reply EXCEPT ![serving[w]] = r.told]
    BY <1>Serve, <2>1 DEF Serve
  <2>3. r.told # NoAnswer
    BY <2>1, <2>2, ResultsTypes DEF Answers, Kinds, NoAnswer
  <2>4. serving' = [serving EXCEPT ![w] = NoClient] /\ UNCHANGED <<pc, inst, queue>>
    BY <1>Serve DEF Serve
  <2> QED
    BY <2>1, <2>2, <2>3, <2>4, AnsweredKept
<1>kept. CASE UNCHANGED <<queue, serving, pc, inst, reply>>
  BY <1>kept, NobodyMore DEF Awaits, AwaitsNext
<1>stutter. CASE UNCHANGED vars
  BY <1>stutter, <1>kept DEF vars, clientVars, workerVars, libVars
<1>workers. ASSUME NEW w \in Workers, MakeIsolate(w) \/ OpenDatabase(w) \/ IdleTimeout(w) \/ Suspend(w)
                     \/ BackoffEnds(w) \/ CloseAndEnd(w)
            PROVE  CallsInHand'
  BY <1>workers, <1>kept DEF MakeIsolate, OpenDatabase, IdleTimeout, Suspend, BackoffEnds,
     CloseAndEnd, clientVars
<1> QED
  BY CallsSend, <1>clients, <1>AnySend, <1>SendShutdown, <1>InitFails, <1>Take, <1>TakeShutdown,
     <1>BackoffRefuse, <1>Serve, <1>stutter, <1>workers DEF Next, Continues, Works

\* A call that has no answer yet is in the channel of its worker or in the worker's hands,
\* and a worker that is told to stop has none: no call is lost in a suspension, a failed
\* reopening, the backoff behind it (run_worker_loop_with_idle) or SharedWorker::drop.
THEOREM NoCallIsLost == Spec => []NoCallLost
<1>1. Init => CallsInHand
  BY DEF Init, CallsInHand
<1>2. Inv /\ CallsInHand /\ [Next]_vars => CallsInHand'
  BY CallsInHandStep
<1>3. CallsInHand /\ ShutdownFindsNoCall => NoCallLost
  BY DEF NoCallLost
<1> QED
  BY <1>1, <1>2, <1>3, Invariance, ShutdownLosesNothing, PTL DEF Spec

-----------------------------------------------------------------------------
(* The crate implements CallService *)

Phases  == [c \in Clients |-> Phase(c)]
Answered == [c \in Clients |-> reply[c].kind]

\* The kinds of answer that a command may have.
LEMMA KindsAllowed ==
  ASSUME NEW m \in Commands
  PROVE  /\ m # "last_error" => "unavailable" \in Allowed[m]
         /\ m = "last_error" => "message" \in Allowed[m]
         /\ m \in ParsedCommands => "json" \in Allowed[m]
<1>1. m # "last_error" => "unavailable" \in AllowedKinds(m)
  BY DEF AllowedKinds, ListCommands, ParsedCommands
<1>2. m = "last_error" => "message" \in AllowedKinds(m)
  BY DEF AllowedKinds, ListCommands, ParsedCommands
<1>3. m \in ParsedCommands => "json" \in AllowedKinds(m)
  BY DEF AllowedKinds, ListCommands, ParsedCommands
<1> QED
  BY <1>1, <1>2, <1>3 DEF Allowed

LEMMA ServiceSame ==
  ASSUME command' = command,
         \A x \in Clients : reply'[x] = reply[x],
         \A x \in Clients : Phase(x)' = Phase(x)
  PROVE  UNCHANGED Service!vars
<1>1. UNCHANGED <<Phases, Answered>>
  BY DEF Phases, Answered
<1> QED
  BY <1>1 DEF Service!vars, Phases, Answered

LEMMA PhaseOf ==
  ASSUME NEW c \in Clients, NEW p, Phase(c)' = p,
         \A x \in Clients \ {c} : Phase(x)' = Phase(x)
  PROVE  Phases' = [Phases EXCEPT ![c] = p]
  BY DEF Phases

LEMMA AnswerOf ==
  ASSUME NEW c \in Clients, NEW a, reply'[c].kind = a,
         \A x \in Clients \ {c} : reply'[x] = reply[x]
  PROVE  Answered' = [Answered EXCEPT ![c] = a]
  BY DEF Answered

LEMMA ServiceEnter ==
  ASSUME NEW c \in Clients, Phase(c) = "out", Phase(c)' = "in",
         \A x \in Clients \ {c} : Phase(x)' = Phase(x), UNCHANGED <<command, reply>>
  PROVE  Service!Next
<1>1. Phases[c] = "out" /\ Phases' = [Phases EXCEPT ![c] = "in"] /\ Answered' = Answered
  BY PhaseOf DEF Phases, Answered
<1>2. Service!Enter(c)
  BY <1>1 DEF Service!Enter, Phases, Answered
<1> QED
  BY <1>2 DEF Service!Next

LEMMA ServiceLeave ==
  ASSUME NEW c \in Clients, Phase(c) = "in", Phase(c)' = "out",
         \A x \in Clients \ {c} : Phase(x)' = Phase(x), UNCHANGED <<command, reply>>
  PROVE  Service!Next
<1>1. Phases[c] = "in" /\ Phases' = [Phases EXCEPT ![c] = "out"] /\ Answered' = Answered
  BY PhaseOf DEF Phases, Answered
<1>2. Service!Leave(c)
  BY <1>1 DEF Service!Leave, Phases, Answered
<1> QED
  BY <1>2 DEF Service!Next

LEMMA ServiceAsk ==
  ASSUME NEW c \in Clients, NEW m \in Commands, Phase(c) = "in", Phase(c)' = "asked",
         \A x \in Clients \ {c} : Phase(x)' = Phase(x) /\ reply'[x] = reply[x],
         command' = [command EXCEPT ![c] = m],
         reply'[c] = reply[c] \/ reply'[c].kind \in Allowed[m]
  PROVE  Service!Next
<1>1. Phases[c] = "in" /\ Phases' = [Phases EXCEPT ![c] = "asked"]
  BY PhaseOf DEF Phases
<1>2. Answered' = Answered \/ \E a \in Allowed[m] : Answered' = [Answered EXCEPT ![c] = a]
  <2>1. CASE reply'[c] = reply[c]
    BY <2>1 DEF Answered
  <2>2. CASE reply'[c].kind \in Allowed[m]
    BY <2>2, AnswerOf
  <2> QED
    BY <2>1, <2>2
<1>3. Service!Ask(c)
  BY <1>1, <1>2 DEF Service!Ask, Phases, Answered
<1> QED
  BY <1>3 DEF Service!Next

LEMMA ServiceAnswer ==
  ASSUME NEW c \in Clients, Phase(c) = "asked", reply[c] = NoAnswer,
         reply'[c].kind \in Allowed[command[c]],
         \A x \in Clients \ {c} : reply'[x] = reply[x], UNCHANGED <<pc, inst, command>>
  PROVE  Service!Next
<1>1. Phases[c] = "asked" /\ Phases' = Phases /\ Answered[c] = "none"
  BY DEF Phases, Phase, Answered, NoAnswer
<1>2. \E a \in Allowed[command[c]] : Answered' = [Answered EXCEPT ![c] = a]
  BY AnswerOf
<1>3. Service!Answer(c)
  BY <1>1, <1>2 DEF Service!Answer, Phases, Answered
<1> QED
  BY <1>3 DEF Service!Next

LEMMA ServiceReturn ==
  ASSUME NEW c \in Clients, Phase(c) = "asked", Phase(c)' = "in", reply[c].kind # "none",
         reply'[c] = NoAnswer,
         \A x \in Clients \ {c} : Phase(x)' = Phase(x) /\ reply'[x] = reply[x],
         command' = [command EXCEPT ![c] = NoCommand]
  PROVE  Service!Next
<1>1. Phases[c] = "asked" /\ Phases' = [Phases EXCEPT ![c] = "in"]
  BY PhaseOf DEF Phases
<1>2. reply'[c].kind = "none"
  BY DEF NoAnswer, Plain
<1>3. Answered[c] # "none" /\ Answered' = [Answered EXCEPT ![c] = "none"]
  BY <1>2, AnswerOf DEF Answered
<1>4. Service!Return(c)
  BY <1>1, <1>3 DEF Service!Return, Phases, Answered
<1> QED
  BY <1>4 DEF Service!Next

\* A refusal is an answer, to a call that waits for one.
LEMMA RefusalAnswers ==
  ASSUME Inv, NEW c \in Clients, NEW w \in Workers, Awaits(c, w), Refuses(c),
         UNCHANGED <<pc, inst, command>>
  PROVE  Service!Next
<1>1. command[c] \in Commands /\ inst[c] # 0
  BY DEF Inv, Places, Refers, Awaits, Workers
<1>2. reply' = [reply EXCEPT ![c] = Plain(IF command[c] = "last_error" THEN "message" ELSE "unavailable")]
  BY DEF Refuses
<1>3. reply'[c].kind = (IF command[c] = "last_error" THEN "message" ELSE "unavailable")
  BY <1>2 DEF Inv, TypeOK, Plain
<1>4. reply'[c].kind \in Allowed[command[c]]
  BY <1>1, <1>3, KindsAllowed
<1>5. \A x \in Clients \ {c} : reply'[x] = reply[x]
  BY <1>2 DEF Inv, TypeOK
<1> QED
  BY <1>1, <1>4, <1>5, ServiceAnswer DEF Awaits, Phase

LEMMA InitFailsAnswers ==
  ASSUME Inv, NEW w \in Workers, InitFails(w), UNCHANGED <<pc, inst, command>>
  PROVE  [Service!Next]_(Service!vars)
<1>1. CASE serving[w] = NoClient
  BY <1>1, ServiceSame DEF InitFails, Phase
<1>2. CASE serving[w] # NoClient
  <2>1. serving[w] \in Clients /\ Awaits(serving[w], w)
    BY <1>2 DEF Inv, Channels, Calls, TypeOK
  <2>2. Refuses(serving[w])
    BY <1>2 DEF InitFails
  <2> QED
    BY <2>1, <2>2, RefusalAnswers
<1> QED
  BY <1>1, <1>2

LEMMA ServiceStep == ASSUME Inv, [Next]_vars PROVE [Service!Next]_(Service!vars)
<1>t. TypeOK /\ Places /\ Isolates
  BY DEF Inv
<1>Open. ASSUME NEW c \in Clients, Open(c) PROVE [Service!Next]_(Service!vars)
  <2>1. \A x \in Clients \ {c} : Phase(x)' = Phase(x)
    BY <1>Open, <1>t DEF Open, KeyOf, Goto, TypeOK, Phase
  <2>2. Phase(c)' = Phase(c)
    BY <1>Open, <1>t DEF Open, KeyOf, Goto, TypeOK, Phase, Places, Refers, Holding,
       Dropping
  <2>3. UNCHANGED <<command, reply>>
    BY <1>Open, <1>t DEF Open
  <2>4. [Service!Next]_(Service!vars)
    BY <1>Open, <1>t, <2>1, <2>2, <2>3, ServiceSame
  <2> QED
    BY <2>4
<1>Reuse. ASSUME NEW c \in Clients, Reuse(c) PROVE [Service!Next]_(Service!vars)
  <2>1. \A x \in Clients \ {c} : Phase(x)' = Phase(x)
    BY <1>Reuse, <1>t DEF Reuse, Goto, TypeOK, Phase
  <2>2. Phase(c) = "out" /\ Phase(c)' = "in"
    BY <1>Reuse, <1>t DEF Reuse, Goto, TypeOK, Phase, Upgrades, Places, Refers, Holding,
       Dropping
  <2>3. UNCHANGED <<command, reply>>
    BY <1>Reuse, <1>t DEF Reuse
  <2>4. [Service!Next]_(Service!vars)
    BY <1>Reuse, <1>t, <2>1, <2>2, <2>3, ServiceEnter
  <2> QED
    BY <2>4
<1>Spawn. ASSUME NEW c \in Clients, Spawn(c) PROVE [Service!Next]_(Service!vars)
  <2>1. \A x \in Clients \ {c} : Phase(x)' = Phase(x)
    BY <1>Spawn, <1>t DEF Spawn, Goto, TypeOK, Phase
  <2>2. Phase(c)' = Phase(c)
    BY <1>Spawn, <1>t DEF Spawn, Goto, TypeOK, Phase, Places, Refers, Holding, Dropping
  <2>3. UNCHANGED <<command, reply>>
    BY <1>Spawn, <1>t DEF Spawn
  <2>4. [Service!Next]_(Service!vars)
    BY <1>Spawn, <1>t, <2>1, <2>2, <2>3, ServiceSame
  <2> QED
    BY <2>4
<1>Opened. ASSUME NEW c \in Clients, Opened(c) PROVE [Service!Next]_(Service!vars)
  <2>1. \A x \in Clients \ {c} : Phase(x)' = Phase(x)
    BY <1>Opened, <1>t DEF Opened, Goto, TypeOK, Phase
  <2>2. Phase(c) = "out" /\ Phase(c)' = "in"
    BY <1>Opened, <1>t DEF Opened, Goto, TypeOK, Phase, Workers, Places, Refers, Holding,
       Dropping
  <2>3. UNCHANGED <<command, reply>>
    BY <1>Opened, <1>t DEF Opened
  <2>4. [Service!Next]_(Service!vars)
    BY <1>Opened, <1>t, <2>1, <2>2, <2>3, ServiceEnter
  <2> QED
    BY <2>4
<1>OpenFails. ASSUME NEW c \in Clients, OpenFails(c) PROVE [Service!Next]_(Service!vars)
  <2>1. \A x \in Clients \ {c} : Phase(x)' = Phase(x)
    BY <1>OpenFails, <1>t DEF OpenFails, Goto, TypeOK, Phase
  <2>2. Phase(c)' = Phase(c)
    BY <1>OpenFails, <1>t DEF OpenFails, Goto, TypeOK, Phase, Places, Refers, Holding,
       Dropping
  <2>3. UNCHANGED <<command, reply>>
    BY <1>OpenFails, <1>t DEF OpenFails
  <2>4. [Service!Next]_(Service!vars)
    BY <1>OpenFails, <1>t, <2>1, <2>2, <2>3, ServiceSame
  <2> QED
    BY <2>4
<1>Register. ASSUME NEW c \in Clients, Register(c) PROVE [Service!Next]_(Service!vars)
  <2>1. \A x \in Clients \ {c} : Phase(x)' = Phase(x)
    BY <1>Register, <1>t DEF Register, Goto, TypeOK, Phase
  <2>2. Phase(c)' = Phase(c)
    BY <1>Register, <1>t DEF Register, Goto, TypeOK, Phase, Places, Refers, Holding,
       Dropping
  <2>3. UNCHANGED <<command, reply>>
    BY <1>Register, <1>t DEF Register
  <2>4. [Service!Next]_(Service!vars)
    BY <1>Register, <1>t, <2>1, <2>2, <2>3, ServiceSame
  <2> QED
    BY <2>4
<1>AnySend. ASSUME NEW c \in Clients, AnySend(c) PROVE [Service!Next]_(Service!vars)
  <2>1. \A x \in Clients \ {c} : Phase(x)' = Phase(x)
    BY <1>AnySend, <1>t DEF AnySend, Send, Goto, TypeOK, Phase
  <2>2. Phase(c) = "in" /\ Phase(c)' = "asked"
    BY <1>AnySend, <1>t DEF AnySend, Send, Goto, TypeOK, Phase, Places, Refers, Holding,
       Dropping
  <2>3. reply' = reply /\ \E m \in Commands : command' = [command EXCEPT ![c] = m]
    BY <1>AnySend, <1>t DEF AnySend, Send
  <2>4. [Service!Next]_(Service!vars)
    BY <1>AnySend, <1>t, <2>1, <2>2, <2>3, ServiceAsk
  <2> QED
    BY <2>4
<1>Unparsed. ASSUME NEW c \in Clients, Unparsed(c) PROVE [Service!Next]_(Service!vars)
  <2>1. \A x \in Clients \ {c} : Phase(x)' = Phase(x)
    BY <1>Unparsed, <1>t DEF Unparsed, Goto, TypeOK, Phase
  <2>2. Phase(c) = "in" /\ Phase(c)' = "asked"
    BY <1>Unparsed, <1>t DEF Unparsed, Goto, TypeOK, Phase, Places, Refers, Holding,
       Dropping
  <2>3. reply'[c].kind = "json" /\ \A x \in Clients \ {c} : reply'[x] = reply[x]
    BY <1>Unparsed, <1>t DEF Unparsed, TypeOK, Plain
  <2>4. PICK m \in ParsedCommands \cap CommandsOf[c] : command' = [command EXCEPT ![c] = m]
    BY <1>Unparsed, <1>t DEF Unparsed
  <2>5. m \in Commands
    BY <1>Unparsed, <1>t, <2>4 DEF ParsedCommands, Commands, DocumentCommands,
       QueryCommands
  <2>6. "json" \in Allowed[m]
    BY <1>Unparsed, <1>t, <2>4, <2>5, KindsAllowed
  <2>7. [Service!Next]_(Service!vars)
    BY <1>Unparsed, <1>t, <2>1, <2>2, <2>3, <2>4, <2>5, <2>6, ServiceAsk
  <2> QED
    BY <2>7
<1>Receive. ASSUME NEW c \in Clients, Receive(c) PROVE [Service!Next]_(Service!vars)
  <2>1. \A x \in Clients \ {c} : Phase(x)' = Phase(x) /\ reply'[x] = reply[x]
    BY <1>Receive, <1>t DEF Receive, Goto, TypeOK, Phase
  <2>2. Phase(c) = "asked" /\ Phase(c)' = "in"
    BY <1>Receive, <1>t DEF Receive, Goto, TypeOK, Phase, Places, Refers, Holding, Dropping
  <2>3. reply[c].kind # "none" /\ reply'[c] = NoAnswer
    BY <1>Receive, <1>t DEF Receive, TypeOK, Answers, Kinds
  <2>4. command' = [command EXCEPT ![c] = NoCommand]
    BY <1>Receive, <1>t DEF Receive
  <2>5. [Service!Next]_(Service!vars)
    BY <1>Receive, <1>t, <2>1, <2>2, <2>3, <2>4, ServiceReturn
  <2> QED
    BY <2>5
<1>Drop. ASSUME NEW c \in Clients, Drop(c) PROVE [Service!Next]_(Service!vars)
  <2>1. \A x \in Clients \ {c} : Phase(x)' = Phase(x)
    BY <1>Drop, <1>t DEF Drop, Goto, TypeOK, Phase
  <2>2. Phase(c) = "in" /\ Phase(c)' = "out"
    BY <1>Drop, <1>t DEF Drop, Goto, TypeOK, Phase, Workers, Places, Refers, Holding,
       Dropping
  <2>3. UNCHANGED <<command, reply>>
    BY <1>Drop, <1>t DEF Drop
  <2>4. [Service!Next]_(Service!vars)
    BY <1>Drop, <1>t, <2>1, <2>2, <2>3, ServiceLeave
  <2> QED
    BY <2>4
<1>Unregister. ASSUME NEW c \in Clients, Unregister(c) PROVE [Service!Next]_(Service!vars)
  <2>1. \A x \in Clients \ {c} : Phase(x)' = Phase(x)
    BY <1>Unregister, <1>t DEF Unregister, Goto, TypeOK, Phase
  <2>2. Phase(c)' = Phase(c)
    BY <1>Unregister, <1>t DEF Unregister, Goto, TypeOK, Phase, Places, Refers, Holding,
       Dropping
  <2>3. UNCHANGED <<command, reply>>
    BY <1>Unregister, <1>t DEF Unregister
  <2>4. [Service!Next]_(Service!vars)
    BY <1>Unregister, <1>t, <2>1, <2>2, <2>3, ServiceSame
  <2> QED
    BY <2>4
<1>SendShutdown. ASSUME NEW c \in Clients, SendShutdown(c) PROVE [Service!Next]_(Service!vars)
  <2>1. \A x \in Clients \ {c} : Phase(x)' = Phase(x)
    BY <1>SendShutdown, <1>t DEF SendShutdown, Goto, TypeOK, Phase
  <2>2. Phase(c)' = Phase(c)
    BY <1>SendShutdown, <1>t DEF SendShutdown, Goto, TypeOK, Phase, Places, Refers,
       Holding, Dropping
  <2>3. UNCHANGED <<command, reply>>
    BY <1>SendShutdown, <1>t DEF SendShutdown
  <2>4. [Service!Next]_(Service!vars)
    BY <1>SendShutdown, <1>t, <2>1, <2>2, <2>3, ServiceSame
  <2> QED
    BY <2>4
<1>Join. ASSUME NEW c \in Clients, Join(c) PROVE [Service!Next]_(Service!vars)
  <2>1. \A x \in Clients \ {c} : Phase(x)' = Phase(x)
    BY <1>Join, <1>t DEF Join, Goto, TypeOK, Phase
  <2>2. Phase(c)' = Phase(c)
    BY <1>Join, <1>t DEF Join, Goto, TypeOK, Phase, Places, Refers, Holding, Dropping
  <2>3. UNCHANGED <<command, reply>>
    BY <1>Join, <1>t DEF Join
  <2>4. [Service!Next]_(Service!vars)
    BY <1>Join, <1>t, <2>1, <2>2, <2>3, ServiceSame
  <2> QED
    BY <2>4
<1>MakeIsolateFails. ASSUME NEW w \in Workers, MakeIsolateFails(w) PROVE [Service!Next]_(Service!vars)
  <2>1. [Service!Next]_(Service!vars)
    BY <1>MakeIsolateFails, <1>t, InitFailsAnswers DEF MakeIsolateFails
  <2> QED
    BY <2>1
<1>OpenDatabaseFails. ASSUME NEW w \in Workers, OpenDatabaseFails(w) PROVE [Service!Next]_(Service!vars)
  <2>1. [Service!Next]_(Service!vars)
    BY <1>OpenDatabaseFails, <1>t, InitFailsAnswers DEF OpenDatabaseFails
  <2> QED
    BY <2>1
<1>PathRefused. ASSUME NEW w \in Workers, PathRefused(w) PROVE [Service!Next]_(Service!vars)
  <2>1. [Service!Next]_(Service!vars)
    BY <1>PathRefused, <1>t, InitFailsAnswers DEF PathRefused
  <2> QED
    BY <2>1
<1>BackoffRefuse. ASSUME NEW w \in Workers, BackoffRefuse(w) PROVE [Service!Next]_(Service!vars)
  <2>1. Awaits(Head(queue[w]), w) /\ Head(queue[w]) \in Clients
    BY <1>BackoffRefuse, <1>t, HeadOnce DEF BackoffRefuse, Awaits
  <2>2. [Service!Next]_(Service!vars)
    BY <1>BackoffRefuse, <1>t, <2>1, RefusalAnswers DEF BackoffRefuse
  <2> QED
    BY <2>2
<1>Serve. ASSUME NEW w \in Workers, Serve(w) PROVE [Service!Next]_(Service!vars)
  <2>1. serving[w] # NoClient
    BY <1>Serve, <1>t DEF Serve, Isolates
  <2>2. serving[w] \in Clients /\ Awaits(serving[w], w) /\ lastError[w] = NoClient
    BY <1>Serve, <1>t, <2>1 DEF Inv, Channels, Calls, NoMessages, TypeOK
  <2>3. command[serving[w]] \in Commands /\ Phase(serving[w]) = "asked"
    BY <1>Serve, <1>t, <2>2 DEF Places, Refers, Awaits, Phase, Workers
  <2>4. PICK r \in Results(command[serving[w]], serving[w], NoClient) : reply' = [reply
     EXCEPT ![serving[w]] = r.told]
    BY <1>Serve, <1>t, <2>2 DEF Serve
  <2>5. r.told.kind \in Allowed[command[serving[w]]]
    BY <1>Serve, <1>t, <2>2, <2>3, <2>4, ResultsTypes
  <2>6. reply'[serving[w]].kind \in Allowed[command[serving[w]]] /\ \A x \in Clients \
     {serving[w]} : reply'[x] = reply[x]
    BY <1>Serve, <1>t, <2>2, <2>4, <2>5 DEF TypeOK
  <2>7. UNCHANGED <<pc, inst, command>>
    BY <1>Serve, <1>t DEF Serve
  <2>8. [Service!Next]_(Service!vars)
    BY <1>Serve, <1>t, <2>2, <2>3, <2>6, <2>7, ServiceAnswer DEF Awaits
  <2> QED
    BY <2>8
<1>kept. CASE UNCHANGED <<pc, inst, command, reply>>
  BY <1>kept, ServiceSame DEF Phase
<1>stutter. CASE UNCHANGED vars
  BY <1>stutter, <1>kept DEF vars, clientVars, workerVars, libVars
<1>workers. ASSUME NEW w \in Workers, MakeIsolate(w) \/ OpenDatabase(w) \/ TakeCommand(w) \/ Resume(w) \/
            TakeShutdown(w) \/ IdleTimeout(w) \/ Suspend(w) \/ BackoffEnds(w) \/
            CloseAndEnd(w) PROVE [Service!Next]_(Service!vars)
  BY <1>workers, <1>kept DEF MakeIsolate, OpenDatabase, TakeCommand, Resume, TakeShutdown,
     IdleTimeout, Suspend, BackoffEnds, CloseAndEnd, InitFails, Closed, Popped, Refuses,
     WorkerGoto, clientVars, workerVars, libVars
<1> QED
  BY CallsSend, <1>Open, <1>Reuse, <1>Spawn, <1>Opened, <1>OpenFails, <1>Register,
     <1>AnySend, <1>Unparsed, <1>Receive, <1>Drop, <1>Unregister, <1>SendShutdown, <1>Join,
     <1>MakeIsolateFails, <1>OpenDatabaseFails, <1>PathRefused, <1>BackoffRefuse, <1>Serve,
     <1>stutter, <1>workers DEF Next, Continues, Works

\* Every step of the crate is a step of the service it promises or leaves it as it was: a
\* call is answered once and by an answer that its command may have, whether it is served,
\* refused after a failed reopening or not sent at all (dispatch_command, reply_error).
THEOREM ServiceImplemented == Spec => Service!Init /\ [][Service!Next]_(Service!vars)
<1>1. Init => Service!Init
  BY DEF Init, Service!Init, Phase, NoAnswer
<1>2. Inv /\ [Next]_vars => [Service!Next]_(Service!vars)
  BY ServiceStep
<1> QED
  BY <1>1, <1>2, Invariance, PTL DEF Spec
=============================================================================
