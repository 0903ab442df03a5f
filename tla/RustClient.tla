----------------------------- MODULE RustClient -----------------------------
(***************************************************************************)
(* The Rust crate (bindings/rust): a process-wide registry of workers, one *)
(* per database path, each a thread with a GraalVM isolate of its own that *)
(* takes the commands of all the ChronDB instances of its path from one    *)
(* channel.  An instance is a counted reference to its worker; the last to *)
(* be dropped stops the worker.                                            *)
(*                                                                         *)
(* Abstractions.  A client is a thread with at most one instance: threads  *)
(* that borrow an instance behave as clients with an instance each, as     *)
(* none of them is dropped during a call.  A spelling stands for the data  *)
(* and the index path as the caller writes them, which become canonical    *)
(* together.  Time is left out: a timeout is a step that may happen when   *)
(* the channel is empty.  The library is what LibHandles models, here only *)
(* its results.                                                            *)
(***************************************************************************)
EXTENDS Naturals, Sequences, FiniteSets

CONSTANTS
  Clients,
  NoClient,
  Spellings,    \* ways to write a database path
  NulSpellings, \* those with a NUL byte in them
  NoSpelling,
  Canon,        \* Canon[s]: what fs::canonicalize makes of s once s exists
  OpensOf,      \* OpensOf[c]: <<spelling, whether with an idle timeout>> that c opens
  CommandsOf,   \* CommandsOf[c]: commands c sends
  WrapperOf,    \* WrapperOf[c]: what c calls the crate through
  MaxWorkers    \* bound: workers started

-----------------------------------------------------------------------------
(* Commands and their answers *)

DocumentCommands == {"put", "get", "delete"}
ListCommands     == {"list_by_prefix", "list_by_table", "history"}
QueryCommands    == {"query", "execute_sql"}
RemoteCommands   == {"setup_remote", "push", "pull", "fetch", "remote_status"}
BackupCommands   == {"export_to_directory", "create_backup", "restore_backup",
                     "export_snapshot", "import_snapshot"}
Commands == DocumentCommands \cup ListCommands \cup QueryCommands \cup RemoteCommands
              \cup BackupCommands \cup {"last_error"}
NoCommand == "none"

\* The commands a wrapper passes on, and those whose argument it parses as JSON.
UniffiCommands == Commands
NodeCommands   == Commands \ RemoteCommands
PassedOn == [crate |-> Commands, uniffi |-> UniffiCommands, node |-> NodeCommands]
ParsedCommands == {"put", "query"}

Kinds == {"value", "notfound", "empty", "error", "message", "unavailable", "json"}

\* An answer, and the client whose failure left the message told with it.
Answers == [kind : Kinds, of : Clients \cup {NoClient}]
NoAnswer == [kind |-> "none", of |-> NoClient]
Plain(kind) == [kind |-> kind, of |-> NoClient]

ASSUME ClientConstants ==
  /\ IsFiniteSet(Clients) /\ NoClient \notin Clients
  /\ NulSpellings \subseteq Spellings /\ NoSpelling \notin Spellings
  /\ Canon \in [Spellings -> Spellings]
  /\ \A s \in Spellings : Canon[Canon[s]] = Canon[s]
  /\ \A s \in Spellings : Canon[s] \in NulSpellings <=> s \in NulSpellings
  /\ OpensOf \in [Clients -> SUBSET (Spellings \X BOOLEAN)]
  /\ WrapperOf \in [Clients -> DOMAIN PassedOn]
  /\ CommandsOf \in [Clients -> SUBSET Commands]
  /\ \A c \in Clients : CommandsOf[c] \subseteq PassedOn[WrapperOf[c]]
  /\ MaxWorkers \in Nat

VARIABLES
  registry,   \* WORKER_REGISTRY: the worker weakly referred to under a key, or 0
  made,       \* workers started so far
  origin,     \* origin[w]: path, key and idle timeout worker w was started with
  pc, asked, inst, at,   \* of each client: next step, arguments of open, the worker of
                         \* its instance or 0, the worker it waits for
  command, reply,        \* of each client: the command it waits for, what its channel holds
  queue,      \* queue[w]: the channel of w: a client stands for its command
  wpc, suspended, serving,   \* of each worker: next step, whether its isolate is closed,
                             \* the client whose command it has taken
  isolates,   \* workers whose isolate is up
  opened,     \* workers with a handle on their database
  lastError,  \* lastError[w]: whose failure the library of w has a message about
  there,      \* paths that exist on disk
  writeLock,  \* writeLock[p]: the worker whose index writer holds write.lock, or 0
  irregular   \* history: paths opened or given up by two clients at a time, or opened
              \* under a key that is not the canonical one

clientVars == <<pc, asked, inst, at, command, reply>>
workerVars == <<wpc, suspended, serving>>
libVars    == <<isolates, opened, lastError, there, writeLock>>
vars == <<registry, made, origin, clientVars, queue, workerVars, libVars, irregular>>

-----------------------------------------------------------------------------
Workers == 1 .. MaxWorkers
Paths == {Canon[s] : s \in Spellings}

\* The message that stops a worker.
Shutdown == NoClient

Origins == [path : Spellings, key : Spellings, idle : BOOLEAN]
NoOrigin == [path |-> NoSpelling, key |-> NoSpelling, idle |-> FALSE]
PathOf(o) == Canon[o.path]

Dropping == {"unregister", "shutdown", "join"}
PCs == {"out", "lookup", "create", "register", "in", "wait"} \cup Dropping
WorkerPCs == {"unborn", "isolate", "open", "recv", "serve", "suspend", "backoff", "close",
              "ended"}

TypeOK ==
  /\ registry \in [Spellings -> {0} \cup Workers]
  /\ made \in 0 .. MaxWorkers
  /\ origin \in [Workers -> Origins \cup {NoOrigin}]
  /\ pc \in [Clients -> PCs]
  /\ asked \in [Clients -> Origins \cup {NoOrigin}]
  /\ inst \in [Clients -> {0} \cup Workers]
  /\ at \in [Clients -> {0} \cup Workers]
  /\ command \in [Clients -> Commands \cup {NoCommand}]
  /\ reply \in [Clients -> Answers \cup {NoAnswer}]
  /\ queue \in [Workers -> Seq(Clients \cup {Shutdown})]
  /\ wpc \in [Workers -> WorkerPCs]
  /\ suspended \in [Workers -> BOOLEAN]
  /\ serving \in [Workers -> Clients \cup {NoClient}]
  /\ isolates \subseteq Workers /\ opened \subseteq isolates
  /\ lastError \in [Workers -> Clients \cup {NoClient}]
  /\ there \subseteq Paths
  /\ writeLock \in [Paths -> {0} \cup Workers]
  /\ irregular \subseteq Paths

Init ==
  /\ registry = [k \in Spellings |-> 0]
  /\ made = 0
  /\ origin = [w \in Workers |-> NoOrigin]
  /\ pc = [c \in Clients |-> "out"]
  /\ asked = [c \in Clients |-> NoOrigin]
  /\ inst = [c \in Clients |-> 0]
  /\ at = [c \in Clients |-> 0]
  /\ command = [c \in Clients |-> NoCommand]
  /\ reply = [c \in Clients |-> NoAnswer]
  /\ queue = [w \in Workers |-> <<>>]
  /\ wpc = [w \in Workers |-> "unborn"]
  /\ suspended = [w \in Workers |-> FALSE]
  /\ serving = [w \in Workers |-> NoClient]
  /\ isolates = {} /\ opened = {}
  /\ lastError = [w \in Workers |-> NoClient]
  /\ there \in SUBSET {p \in Paths : p \notin NulSpellings}
  /\ writeLock = [p \in Paths |-> 0]
  /\ irregular = {}

Goto(c, step) == pc' = [pc EXCEPT ![c] = step]
WorkerGoto(w, step) == wpc' = [wpc EXCEPT ![w] = step]

\* Strong references to worker w: Arc::strong_count.
Holders(w) == {c \in Clients : inst[c] = w}
UpgradesRegistered(w) == w # 0
Upgrades(w) == w # 0 /\ Holders(w) # {}

-----------------------------------------------------------------------------
(* Opening an instance *)

\* fs::canonicalize, or the path as it is written while nothing is there.
KeyOf(s) == IF Canon[s] \in there THEN Canon[s] ELSE s

\* Clients in the middle of opening or of giving up path p, other than c.
InFlight(p, c) ==
  {x \in Clients \ {c} : pc[x] \notin {"out", "in", "wait"} /\ PathOf(asked[x]) = p}

\* Bound: every client that looks a key up may start a worker.
Room == made + Cardinality({c \in Clients : pc[c] = "lookup"}) < MaxWorkers

\* open, open_path and the builder's open: with or without an idle timeout.
Open(c) ==
  /\ pc[c] = "out" /\ Room
  /\ \E s \in Spellings, idle \in BOOLEAN :
       /\ <<s, idle>> \in OpensOf[c]
       /\ asked' = [asked EXCEPT ![c] = [path |-> s, key |-> KeyOf(s), idle |-> idle]]
       /\ irregular' = IF InFlight(Canon[s], c) # {} \/ KeyOf(s) # Canon[s]
                         THEN irregular \cup {Canon[s]} ELSE irregular
  /\ Goto(c, "lookup")
  /\ UNCHANGED <<registry, made, origin, inst, at, command, reply, queue, workerVars, libVars>>

\* The registered worker still has an instance: one more reference to it.
Reuse(c) ==
  /\ pc[c] = "lookup" /\ Upgrades(registry[asked[c].key])
  /\ inst' = [inst EXCEPT ![c] = registry[asked[c].key]]
  /\ Goto(c, "in")
  /\ UNCHANGED <<registry, made, origin, asked, at, command, reply, queue, workerVars,
                 libVars, irregular>>

\* A worker thread is started, the registry unlocked meanwhile.
Spawn(c) ==
  /\ pc[c] = "lookup" /\ ~Upgrades(registry[asked[c].key]) /\ made < MaxWorkers
  /\ made' = made + 1
  /\ origin' = [origin EXCEPT ![made + 1] = asked[c]]
  /\ at' = [at EXCEPT ![c] = made + 1]
  /\ WorkerGoto(made + 1, "isolate")
  /\ Goto(c, "create")
  /\ UNCHANGED <<registry, asked, inst, command, reply, queue, suspended, serving, libVars,
                 irregular>>

\* The worker reports its database open.
Opened(c) ==
  /\ pc[c] = "create" /\ wpc[at[c]] \notin {"isolate", "open", "ended"}
  /\ inst' = [inst EXCEPT ![c] = at[c]]
  /\ at' = [at EXCEPT ![c] = 0]
  /\ Goto(c, "register")
  /\ UNCHANGED <<registry, made, origin, asked, command, reply, queue, workerVars, libVars,
                 irregular>>

\* It reports an error, which the caller is given.
OpenFails(c) ==
  /\ pc[c] = "create" /\ wpc[at[c]] = "ended"
  /\ at' = [at EXCEPT ![c] = 0]
  /\ asked' = [asked EXCEPT ![c] = NoOrigin]
  /\ Goto(c, "out")
  /\ UNCHANGED <<registry, made, origin, inst, command, reply, queue, workerVars, libVars,
                 irregular>>

Register(c) ==
  /\ pc[c] = "register"
  /\ registry' = [registry EXCEPT ![asked[c].key] = inst[c]]
  /\ Goto(c, "in")
  /\ UNCHANGED <<made, origin, asked, inst, at, command, reply, queue, workerVars, libVars,
                 irregular>>

-----------------------------------------------------------------------------
(* Calls *)

\* A command is put in the channel of the worker, its answer awaited in a channel of
\* the call.
Send(c, commands) ==
  /\ pc[c] = "in"
  /\ \E m \in commands \cap CommandsOf[c] : command' = [command EXCEPT ![c] = m]
  /\ queue' = [queue EXCEPT ![inst[c]] = Append(@, c)]
  /\ Goto(c, "wait")
  /\ UNCHANGED <<registry, made, origin, asked, inst, at, reply, workerVars, libVars,
                 irregular>>

CallDocument(c)  == Send(c, DocumentCommands)
CallList(c)      == Send(c, ListCommands)
CallQuery(c)     == Send(c, QueryCommands)
CallRemote(c)    == Send(c, RemoteCommands)
CallBackup(c)    == Send(c, BackupCommands)
CallLastError(c) == Send(c, {"last_error"})

\* A wrapper cannot parse the document or the query: nothing is sent.
Unparsed(c) ==
  /\ pc[c] = "in" /\ WrapperOf[c] # "crate"
  /\ \E m \in ParsedCommands \cap CommandsOf[c] : command' = [command EXCEPT ![c] = m]
  /\ reply' = [reply EXCEPT ![c] = Plain("json")]
  /\ Goto(c, "wait")
  /\ UNCHANGED <<registry, made, origin, asked, inst, at, queue, workerVars, libVars,
                 irregular>>

Receive(c) ==
  /\ pc[c] = "wait" /\ reply[c] # NoAnswer
  /\ reply' = [reply EXCEPT ![c] = NoAnswer]
  /\ command' = [command EXCEPT ![c] = NoCommand]
  /\ Goto(c, "in")
  /\ UNCHANGED <<registry, made, origin, asked, inst, at, queue, workerVars, libVars,
                 irregular>>

-----------------------------------------------------------------------------
(* Giving an instance up *)

DropEach(c) ==
  /\ pc[c] = "in"
  /\ inst' = [inst EXCEPT ![c] = 0]
  /\ at' = [at EXCEPT ![c] = inst[c]]
  /\ Goto(c, "unregister")
  /\ UNCHANGED <<registry, made, origin, asked, command, reply, queue, workerVars, libVars,
                 irregular>>

\* The reference is given back; the last one runs SharedWorker::drop.
Drop(c) ==
  /\ pc[c] = "in"
  /\ inst' = [inst EXCEPT ![c] = 0]
  /\ IF Holders(inst[c]) = {c}
       THEN /\ at' = [at EXCEPT ![c] = inst[c]]
            /\ irregular' = IF InFlight(PathOf(asked[c]), c) # {}
                              THEN irregular \cup {PathOf(asked[c])} ELSE irregular
            /\ Goto(c, "unregister")
            /\ UNCHANGED asked
       ELSE /\ asked' = [asked EXCEPT ![c] = NoOrigin]
            /\ Goto(c, "out")
            /\ UNCHANGED <<at, irregular>>
  /\ UNCHANGED <<registry, made, origin, command, reply, queue, workerVars, libVars>>

\* Whatever worker is registered under the key is taken out.
Unregister(c) ==
  /\ pc[c] = "unregister"
  /\ registry' = [registry EXCEPT ![origin[at[c]].key] = 0]
  /\ Goto(c, "shutdown")
  /\ UNCHANGED <<made, origin, asked, inst, at, command, reply, queue, workerVars, libVars,
                 irregular>>

SendShutdown(c) ==
  /\ pc[c] = "shutdown"
  /\ queue' = [queue EXCEPT ![at[c]] = Append(@, Shutdown)]
  /\ Goto(c, "join")
  /\ UNCHANGED <<registry, made, origin, asked, inst, at, command, reply, workerVars, libVars,
                 irregular>>

JoinAtOnce(c) ==
  /\ pc[c] = "join"
  /\ at' = [at EXCEPT ![c] = 0]
  /\ asked' = [asked EXCEPT ![c] = NoOrigin]
  /\ Goto(c, "out")
  /\ UNCHANGED <<registry, made, origin, inst, command, reply, queue, workerVars, libVars,
                 irregular>>

Join(c) ==
  /\ pc[c] = "join" /\ wpc[at[c]] = "ended"
  /\ at' = [at EXCEPT ![c] = 0]
  /\ asked' = [asked EXCEPT ![c] = NoOrigin]
  /\ Goto(c, "out")
  /\ UNCHANGED <<registry, made, origin, inst, command, reply, queue, workerVars, libVars,
                 irregular>>

-----------------------------------------------------------------------------
(* The worker: opening the database, when it starts and after an idle suspension *)

Db(w) == PathOf(origin[w])

ClosedButForTheHandle(w) ==
  /\ UNCHANGED opened
  /\ isolates' = isolates \ {w}
  /\ lastError' = [lastError EXCEPT ![w] = NoClient]
  /\ writeLock' = [writeLock EXCEPT ![Db(w)] = IF @ = w THEN 0 ELSE @]

\* FfiWorkerState::close: chrondb_close gives the index lock back, then the isolate is
\* torn down.
Closed(w) ==
  /\ opened' = opened \ {w}
  /\ isolates' = isolates \ {w}
  /\ lastError' = [lastError EXCEPT ![w] = NoClient]
  /\ writeLock' = [writeLock EXCEPT ![Db(w)] = IF @ = w THEN 0 ELSE @]

\* reply_error: the command is answered without the library.
Refuses(c) ==
  reply' = [reply EXCEPT
              ![c] = Plain(IF command[c] = "last_error" THEN "message" ELSE "unavailable")]

InitFailsSilently(w) ==
  /\ WorkerGoto(w, IF serving[w] = NoClient THEN "ended" ELSE "backoff")
  /\ serving' = [serving EXCEPT ![w] = NoClient]
  /\ UNCHANGED reply

\* init_worker gives an error: a new worker ends, a suspended one refuses the command
\* that woke it.
InitFails(w) ==
  IF serving[w] = NoClient
    THEN /\ WorkerGoto(w, "ended")
         /\ UNCHANGED <<reply, serving>>
    ELSE /\ Refuses(serving[w])
         /\ serving' = [serving EXCEPT ![w] = NoClient]
         /\ WorkerGoto(w, "backoff")

\* The library is loaded and an isolate made.
MakeIsolate(w) ==
  /\ wpc[w] = "isolate"
  /\ isolates' = isolates \cup {w}
  /\ WorkerGoto(w, "open")
  /\ UNCHANGED <<registry, made, origin, pc, asked, inst, at, command, reply, queue, suspended,
                 serving, opened, lastError, there, writeLock, irregular>>

MakeIsolateFails(w) ==
  /\ wpc[w] = "isolate"
  /\ InitFails(w)
  /\ UNCHANGED <<registry, made, origin, pc, asked, inst, at, command, queue, suspended,
                 libVars, irregular>>

\* chrondb_open succeeds: the paths exist now, and the writer of the index has taken
\* write.lock, also from another isolate of the process.
OpenDatabase(w) ==
  /\ wpc[w] = "open" /\ origin[w].path \notin NulSpellings
  /\ opened' = opened \cup {w}
  /\ there' = there \cup {Db(w)}
  /\ writeLock' = [writeLock EXCEPT ![Db(w)] = w]
  /\ suspended' = [suspended EXCEPT ![w] = FALSE]
  /\ WorkerGoto(w, IF serving[w] = NoClient THEN "recv" ELSE "serve")
  /\ UNCHANGED <<registry, made, origin, pc, asked, inst, at, command, reply, queue, serving,
                 isolates, lastError, irregular>>

OpenDatabaseFailsKeepingIsolate(w) ==
  /\ wpc[w] = "open" /\ origin[w].path \notin NulSpellings
  /\ there' \in {there, there \cup {Db(w)}}
  /\ InitFails(w)
  /\ UNCHANGED <<registry, made, origin, pc, asked, inst, at, command, queue, suspended,
                 isolates, opened, lastError, writeLock, irregular>>

\* It fails, having made the directories or not: its error is taken and the isolate
\* torn down.
OpenDatabaseFails(w) ==
  /\ wpc[w] = "open" /\ origin[w].path \notin NulSpellings
  /\ there' \in {there, there \cup {Db(w)}}
  /\ isolates' = isolates \ {w}
  /\ InitFails(w)
  /\ UNCHANGED <<registry, made, origin, pc, asked, inst, at, command, queue, suspended,
                 opened, lastError, writeLock, irregular>>

\* A path that is no C string is an error that leaves the isolate up.
PathRefused(w) ==
  /\ wpc[w] = "open" /\ origin[w].path \in NulSpellings
  /\ InitFails(w)
  /\ UNCHANGED <<registry, made, origin, pc, asked, inst, at, command, queue, suspended,
                 libVars, irregular>>

-----------------------------------------------------------------------------
(* The worker: its loop *)

Popped(w) == queue' = [queue EXCEPT ![w] = Tail(@)]

TakeCommandSuspended(w) ==
  /\ wpc[w] = "recv" /\ queue[w] # <<>> /\ Head(queue[w]) # Shutdown
  /\ Popped(w)
  /\ serving' = [serving EXCEPT ![w] = Head(queue[w])]
  /\ WorkerGoto(w, "serve")
  /\ UNCHANGED <<registry, made, origin, clientVars, suspended, libVars, irregular>>

TakeCommand(w) ==
  /\ wpc[w] = "recv" /\ queue[w] # <<>> /\ Head(queue[w]) # Shutdown /\ ~suspended[w]
  /\ Popped(w)
  /\ serving' = [serving EXCEPT ![w] = Head(queue[w])]
  /\ WorkerGoto(w, "serve")
  /\ UNCHANGED <<registry, made, origin, clientVars, suspended, libVars, irregular>>

\* A command for a suspended worker: write.lock is removed, whoever holds it, and the
\* database opened again before the command is served.
Resume(w) ==
  /\ wpc[w] = "recv" /\ queue[w] # <<>> /\ Head(queue[w]) # Shutdown /\ suspended[w]
  /\ Popped(w)
  /\ serving' = [serving EXCEPT ![w] = Head(queue[w])]
  /\ writeLock' = [writeLock EXCEPT ![Db(w)] = 0]
  /\ WorkerGoto(w, "isolate")
  /\ UNCHANGED <<registry, made, origin, clientVars, suspended, isolates, opened, lastError,
                 there, irregular>>

TakeShutdownOutsideBackoff(w) ==
  /\ wpc[w] = "recv" /\ queue[w] # <<>> /\ Head(queue[w]) = Shutdown
  /\ Popped(w)
  /\ WorkerGoto(w, "close")
  /\ UNCHANGED <<registry, made, origin, clientVars, suspended, serving, libVars, irregular>>

TakeShutdown(w) ==
  /\ wpc[w] \in {"recv", "backoff"} /\ queue[w] # <<>> /\ Head(queue[w]) = Shutdown
  /\ Popped(w)
  /\ WorkerGoto(w, "close")
  /\ UNCHANGED <<registry, made, origin, clientVars, suspended, serving, libVars, irregular>>

IdleTimeout(w) ==
  /\ wpc[w] = "recv" /\ queue[w] = <<>> /\ origin[w].idle /\ ~suspended[w]
  /\ WorkerGoto(w, "suspend")
  /\ UNCHANGED <<registry, made, origin, clientVars, queue, suspended, serving, libVars,
                 irregular>>

Suspend(w) ==
  /\ wpc[w] = "suspend"
  /\ Closed(w)
  /\ suspended' = [suspended EXCEPT ![w] = TRUE]
  /\ WorkerGoto(w, "recv")
  /\ UNCHANGED <<registry, made, origin, clientVars, queue, serving, there, irregular>>

BackoffDiscard(w) ==
  /\ wpc[w] = "backoff" /\ queue[w] # <<>> /\ Head(queue[w]) # Shutdown
  /\ Popped(w)
  /\ WorkerGoto(w, "recv")
  /\ UNCHANGED <<registry, made, origin, clientVars, suspended, serving, libVars, irregular>>

\* During the backoff after a failed reopening the next command is refused too.
BackoffRefuse(w) ==
  /\ wpc[w] = "backoff" /\ queue[w] # <<>> /\ Head(queue[w]) # Shutdown
  /\ Popped(w)
  /\ Refuses(Head(queue[w]))
  /\ WorkerGoto(w, "recv")
  /\ UNCHANGED <<registry, made, origin, pc, asked, inst, at, command, suspended, serving,
                 libVars, irregular>>

BackoffEnds(w) ==
  /\ wpc[w] = "backoff" /\ queue[w] = <<>>
  /\ WorkerGoto(w, "recv")
  /\ UNCHANGED <<registry, made, origin, clientVars, queue, suspended, serving, libVars,
                 irregular>>

CloseAndEnd(w) ==
  /\ wpc[w] = "close"
  /\ Closed(w)
  /\ WorkerGoto(w, "ended")
  /\ UNCHANGED <<registry, made, origin, clientVars, queue, suspended, serving, there,
                 irregular>>

-----------------------------------------------------------------------------
(* The worker: serving a command.  A result is what the caller is told and whose       *)
(* message is left in the library, given the one that was there.                       *)

Told(kind, error) == [told |-> Plain(kind), left |-> error]

\* last_error_or: the message in the library is told and taken.
Taken(error) == [told |-> [kind |-> "error", of |-> error], left |-> NoClient]

\* An id, a document or a branch with a NUL byte: the library is not called.
NotCString(error) == {Told("error", error)}

\* parse_string_result of what the library gives: its JSON is the value, or does not parse.
Parsed(error) == {Told("value", error), Told("json", error)}

\* The same, of a call that leaves a message when it gives null.
Reporting(c, error) == Parsed(error) \cup {Taken(c)}

PutResultsLeavingMessage(c, error) ==
  Parsed(error) \cup {[told |-> [kind |-> "error", of |-> c], left |-> c]}
PutResults(c, error)    == Reporting(c, error)
GetResults(error)       == Parsed(error) \cup {Told("notfound", error)}
DeleteResults(error)    == {Told("value", error), Told("notfound", error), Taken(error)}
ListResults(error)      == Parsed(error) \cup {Told("empty", error)}
QueryResults(error)     == Parsed(error) \cup {Taken(error)}
SqlResults(c, error)    == Reporting(c, error)
RemoteResults(c, error) == Reporting(c, error)
BackupResults(c, error) == Reporting(c, error)
LastErrorResults(error) == {[told |-> [kind |-> "message", of |-> error], left |-> NoClient]}

Results(m, c, error) ==
  CASE m = "put" -> PutResults(c, error) \cup NotCString(error)
    [] m = "get" -> GetResults(error) \cup NotCString(error)
    [] m = "delete" -> DeleteResults(error) \cup NotCString(error)
    [] m \in ListCommands -> ListResults(error) \cup NotCString(error)
    [] m = "query" -> QueryResults(error) \cup NotCString(error)
    [] m = "execute_sql" -> SqlResults(c, error) \cup NotCString(error)
    [] m = "setup_remote" -> RemoteResults(c, error) \cup NotCString(error)
    [] m \in RemoteCommands \ {"setup_remote"} -> RemoteResults(c, error)
    [] m \in BackupCommands -> BackupResults(c, error) \cup NotCString(error)
    [] OTHER -> LastErrorResults(error)

Serve(w) ==
  /\ wpc[w] = "serve"
  /\ \E r \in Results(command[serving[w]], serving[w], lastError[w]) :
       /\ reply' = [reply EXCEPT ![serving[w]] = r.told]
       /\ lastError' = [lastError EXCEPT ![w] = r.left]
  /\ serving' = [serving EXCEPT ![w] = NoClient]
  /\ WorkerGoto(w, "recv")
  /\ UNCHANGED <<registry, made, origin, pc, asked, inst, at, command, queue, suspended,
                 isolates, opened, there, writeLock, irregular>>

-----------------------------------------------------------------------------
(* The specification *)

Calling(c) ==
  \/ CallDocument(c) \/ CallList(c) \/ CallQuery(c) \/ CallRemote(c) \/ CallBackup(c)
  \/ CallLastError(c) \/ Unparsed(c)

\* What a client does once it has begun a call, an open or a drop.
Continues(c) ==
  \/ Reuse(c) \/ Spawn(c) \/ Opened(c) \/ OpenFails(c) \/ Register(c) \/ Receive(c)
  \/ Unregister(c) \/ SendShutdown(c) \/ Join(c)

\* What a worker does without a timeout of its idle clock.
Works(w) ==
  \/ MakeIsolate(w) \/ MakeIsolateFails(w) \/ OpenDatabase(w) \/ OpenDatabaseFails(w)
  \/ PathRefused(w) \/ TakeCommand(w) \/ Resume(w) \/ TakeShutdown(w) \/ Suspend(w)
  \/ BackoffRefuse(w) \/ BackoffEnds(w) \/ CloseAndEnd(w) \/ Serve(w)

Next ==
  \/ \E c \in Clients : Open(c) \/ Calling(c) \/ Drop(c) \/ Continues(c)
  \/ \E w \in Workers : Works(w) \/ IdleTimeout(w)

Spec == Init /\ [][Next]_vars

\* Threads run and calls of the library return; nobody has to open, call or drop.
Fairness ==
  /\ \A c \in Clients : WF_vars(Continues(c))
  /\ \A w \in Workers : WF_vars(Works(w))

FairSpec == Spec /\ Fairness

-----------------------------------------------------------------------------
(* Properties *)

\* An instance that a caller holds, or is about to be given, has a worker that runs and
\* that nobody has told to stop: a weak reference in the registry never brings back a
\* worker whose last instance is being dropped.
Running == {"recv", "serve", "suspend", "backoff", "isolate", "open"}
HandedOutRuns ==
  \A c \in Clients : inst[c] # 0 =>
    /\ wpc[inst[c]] \in Running
    /\ \A i \in 1 .. Len(queue[inst[c]]) : queue[inst[c]][i] # Shutdown

\* A worker is told to stop when no command is left for it: none is dropped with its
\* channel, also when other instances of the path call while one is given up.
ShutdownFindsNoCall ==
  \A w \in Workers :
    /\ \A i \in 1 .. Len(queue[w]) : queue[w][i] = Shutdown =>
         Len(queue[w]) = 1 /\ serving[w] = NoClient
    /\ wpc[w] \in {"close", "ended"} => queue[w] = <<>> /\ serving[w] = NoClient

\* A call that has no answer yet is in the channel of its worker or in the worker's hands:
\* it is never let go without an answer, in a suspension, a failed reopening or the
\* backoff behind it.
InHand(w) == {queue[w][i] : i \in 1 .. Len(queue[w])} \cup {serving[w]}
CallsInHand ==
  \A c \in Clients : pc[c] = "wait" /\ reply[c] = NoAnswer => c \in InHand(inst[c])

\* No call is lost: not by a worker that runs, nor with the channel of one that stops.
NoCallLost == CallsInHand /\ ShutdownFindsNoCall

\* The library is called with the handle and the isolate of an open database, after
\* suspensions, failed attempts to open it again and refused commands too.
LibraryUsedOpen == \A w \in Workers : wpc[w] = "serve" => w \in opened /\ ~suspended[w]

\* The message of an error is about the command of the caller it is told to: no message
\* stays in the library for another instance of the path to be told.
ErrorsOwn == \A c \in Clients : reply[c].of \in {c, NoClient}

\* No isolate outlives its worker or its suspension, but for that of a path with a NUL
\* byte.
IsolatesReleased ==
  \A w \in isolates :
    \/ origin[w].path \in NulSpellings
    \/ wpc[w] \in {"open", "serve", "suspend", "close"}
    \/ wpc[w] = "recv" /\ ~suspended[w]

WorkersOf(p) == {w \in Workers : wpc[w] \notin {"unborn", "ended"} /\ Db(w) = p}

\* The instances of a path share a worker, and it alone has write.lock, as long as the
\* path exists before it is opened, or is opened by its canonical name, and no two
\* clients open it or give it up at once.
RegularPathsShare ==
  \A p \in Paths \ irregular :
    /\ Cardinality(WorkersOf(p)) <= 1
    /\ \A w \in opened \cap WorkersOf(p) : writeLock[p] = w

\* What the documentation of the crate says, without that proviso: instances of the same
\* path share a worker.
PathsShare ==
  \A c, d \in Clients :
    /\ pc[c] \in {"in", "wait"} /\ pc[d] \in {"in", "wait"}
    /\ PathOf(asked[c]) = PathOf(asked[d])
    => inst[c] = inst[d]

\* Opening, calling and giving up an instance come to an end.
EveryCallReturns ==
  \A c \in Clients : (pc[c] \notin {"out", "in"}) ~> (pc[c] \in {"out", "in"})

-----------------------------------------------------------------------------
(* Refinement *)

AllowedKinds(m) ==
  CASE m = "delete" -> {"value", "notfound", "error", "unavailable"}
    [] m = "get" -> {"value", "json", "notfound", "error", "unavailable"}
    [] m \in ListCommands -> {"value", "json", "empty", "error", "unavailable"}
    [] m = "last_error" -> {"message"}
    [] OTHER -> {"value", "json", "error", "unavailable"}

Allowed == [m \in Commands |-> AllowedKinds(m)]

Phase(c) == IF inst[c] = 0 THEN "out" ELSE IF pc[c] = "wait" THEN "asked" ELSE "in"

Service == INSTANCE CallService WITH
  NoAnswer <- "none",
  phase <- [c \in Clients |-> Phase(c)],
  answer <- [c \in Clients |-> reply[c].kind]

\* The crate implements its abstract specification: a call is answered once, whichever
\* of the worker's paths its command takes, by an answer the command may have.
AnsweredOnce == Service!Spec
=============================================================================
