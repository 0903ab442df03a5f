-------------------------- MODULE RustSharingProofs --------------------------
(***************************************************************************)
(* The instances of a regular path share one worker, which alone has the   *)
(* lock of the index: a proof for every set of clients and of paths and    *)
(* every number of workers.                                                *)
(*                                                                         *)
(* A regular path is known by one key (Keyed), and one client at a time    *)
(* opens or gives it up (Orderly).  So the registry and the clients agree  *)
(* on its worker, and the lock that a worker takes or removes is that of   *)
(* no other (Locked).                                                      *)
(***************************************************************************)
EXTENDS RustClientProofs

\* A client opens or gives up path p: the steps that InFlight counts.
Flying(c, p)  == pc[c] \notin {"out", "in", "wait"} /\ PathOf(asked[c]) = p
Bringing(c, p) == pc[c] \in {"create", "register"} \cup Dropping /\ PathOf(asked[c]) = p
Seated(c, p)  == pc[c] \in {"in", "wait"} /\ PathOf(asked[c]) = p

\* The path a client asked for, the key it looked up, the worker registered under a key and
\* the worker a client refers to are of one database.
AskedKeyed ==
  \A c \in Clients : pc[c] # "out" =>
    /\ Canon[asked[c].key] = PathOf(asked[c])
    /\ PathOf(asked[c]) \in irregular \/ asked[c].key = PathOf(asked[c])
OriginKeyed == \A w \in Workers : w <= made => Canon[origin[w].key] = Db(w)
RegistryKeyed ==
  \A k \in Spellings : registry[k] # 0 => registry[k] <= made /\ Canon[k] = Db(registry[k])
OwnKeyed(c) == \A w \in Workers : inst[c] = w \/ at[c] = w => Db(w) = PathOf(asked[c])
RefersKeyed == \A c \in Clients : OwnKeyed(c)
Keyed == AskedKeyed /\ OriginKeyed /\ RegistryKeyed /\ RefersKeyed

\* On a regular path one client at a time opens or gives up; the instances are those of the
\* registered worker; and there are none while a worker is started or stopped.
OrderlyOn(p) ==
  /\ \A c, d \in Clients : Flying(c, p) /\ Flying(d, p) => c = d
  /\ \A c \in Clients : Seated(c, p) => registry[p] = inst[c]
  /\ \A c, d \in Clients : Bringing(c, p) => ~Seated(d, p)
Orderly == \A p \in Paths \ irregular : OrderlyOn(p)

\* The open database of a regular path has the lock of its index.
Locked == \A w \in opened : Db(w) \in irregular \/ writeLock[Db(w)] = w

ShareInv == Keyed /\ Orderly /\ Locked

-----------------------------------------------------------------------------
(* Steps that change nobody's place *)

\* Who asks for what, who refers to whom, and who is opening, seated or leaving.
Placed(s) == IF s = "wait" THEN "in" ELSE s
SamePlaces ==
  /\ UNCHANGED <<registry, made, origin, asked, inst, at, irregular>>
  /\ \A c \in Clients : Placed(pc'[c]) = Placed(pc[c])

LEMMA CallsStay ==
  ASSUME TypeOK, NEW c \in Clients, AnySend(c) \/ Unparsed(c) \/ Receive(c)
  PROVE  SamePlaces /\ UNCHANGED <<opened, writeLock>>
  BY DEF AnySend, Send, Unparsed, Receive, Goto, TypeOK, SamePlaces, Placed, libVars

LEMMA WorkersStay ==
  ASSUME NEW w \in Workers, Works(w) \/ IdleTimeout(w)
  PROVE  SamePlaces
<1>1. UNCHANGED <<registry, made, origin, pc, asked, inst, at, irregular>>
  BY DEF Works, MakeIsolate, MakeIsolateFails, OpenDatabase, OpenDatabaseFails, PathRefused,
     TakeCommand, Resume, TakeShutdown, IdleTimeout, Suspend, BackoffRefuse, BackoffEnds,
     CloseAndEnd, Serve, clientVars
<1> QED
  BY <1>1 DEF SamePlaces

LEMMA SameKeyed == ASSUME TypeOK, Keyed, SamePlaces PROVE Keyed'
  BY DEF TypeOK, Keyed, AskedKeyed, OriginKeyed, RegistryKeyed, RefersKeyed, OwnKeyed, SamePlaces, Placed,
     PathOf, Db

LEMMA SameOrderly == ASSUME Orderly, SamePlaces PROVE Orderly'
<1>1. ASSUME NEW c \in Clients, NEW p
      PROVE  /\ Flying(c, p)' <=> Flying(c, p)
             /\ Bringing(c, p)' <=> Bringing(c, p)
             /\ Seated(c, p)' <=> Seated(c, p)
  BY DEF SamePlaces, Placed, Flying, Bringing, Seated, Dropping, PathOf
<1>2. ASSUME NEW p \in Paths \ irregular PROVE OrderlyOn(p)'
  BY <1>1 DEF Orderly, OrderlyOn, SamePlaces
<1> QED
  BY <1>2 DEF Orderly, SamePlaces

-----------------------------------------------------------------------------
(* Keys *)

LEMMA Canonical ==
  ASSUME TypeOK, NEW s \in Spellings
  PROVE  KeyOf(s) \in Spellings /\ Canon[KeyOf(s)] = Canon[s] /\ Canon[s] \in Paths
  BY ClientConstants DEF KeyOf, Paths

LEMMA PathIsCanonical == \A p \in Paths : p \in Spellings /\ Canon[p] = p
  BY ClientConstants DEF Paths

Others(c) ==
  \A x \in Clients \ {c} :
    pc'[x] = pc[x] /\ asked'[x] = asked[x] /\ inst'[x] = inst[x] /\ at'[x] = at[x]

LEMMA OthersStay ==
  ASSUME TypeOK, NEW c \in Clients,
         \E s : pc' = [pc EXCEPT ![c] = s],
         UNCHANGED asked \/ \E o : asked' = [asked EXCEPT ![c] = o],
         UNCHANGED inst \/ \E i : inst' = [inst EXCEPT ![c] = i],
         UNCHANGED at \/ \E i : at' = [at EXCEPT ![c] = i]
  PROVE  Others(c)
  BY DEF TypeOK, Others

\* A step of client c that starts no worker, registers none and keeps what c asked for.
LEMMA ClientKeyed ==
  ASSUME TypeOK, Keyed, NEW c \in Clients, pc[c] # "out",
         UNCHANGED <<registry, made, origin>>,
         irregular \subseteq irregular',
         asked'[c] = asked[c] \/ pc'[c] = "out",
         OwnKeyed(c)',
         Others(c)
  PROVE  Keyed'
<1>1. AskedKeyed'
  BY DEF Keyed, AskedKeyed, PathOf, Others
<1>2. OriginKeyed' /\ RegistryKeyed'
  BY DEF Keyed, OriginKeyed, RegistryKeyed, Db, PathOf
<1>3. RefersKeyed'
  BY DEF Keyed, RefersKeyed, OwnKeyed, Db, PathOf, Others
<1> QED
  BY <1>1, <1>2, <1>3 DEF Keyed

LEMMA OpenKeyed == ASSUME Inv, Keyed, NEW c \in Clients, Open(c) PROVE Keyed'
<1>t. TypeOK /\ Places
  BY DEF Inv
<1>1. PICK s \in Spellings, idle \in BOOLEAN :
        /\ asked' = [asked EXCEPT ![c] = [path |-> s, key |-> KeyOf(s), idle |-> idle]]
        /\ irregular' = IF InFlight(Canon[s], c) # {} \/ KeyOf(s) # Canon[s]
                          THEN irregular \cup {Canon[s]} ELSE irregular
  BY DEF Open
<1>2. /\ asked'[c] = [path |-> s, key |-> KeyOf(s), idle |-> idle]
      /\ \A x \in Clients \ {c} : asked'[x] = asked[x] /\ pc'[x] = pc[x]
  BY <1>t, <1>1 DEF Open, Goto, TypeOK
<1>3. AskedKeyed'
  BY <1>1, <1>2, <1>t, Canonical DEF Keyed, AskedKeyed, PathOf
<1>4. OriginKeyed' /\ RegistryKeyed'
  BY DEF Open, Keyed, OriginKeyed, RegistryKeyed, Db, PathOf
<1>5. inst[c] = 0 /\ at[c] = 0 /\ 0 \notin Workers
  BY <1>t DEF Open, Places, Refers, Holding, Dropping, Workers
<1>6. RefersKeyed'
  BY <1>2, <1>5 DEF Open, Keyed, RefersKeyed, OwnKeyed, Db, PathOf
<1> QED
  BY <1>3, <1>4, <1>6 DEF Keyed

LEMMA SpawnKeyed == ASSUME Inv, Keyed, NEW c \in Clients, Spawn(c) PROVE Keyed'
<1>t. TypeOK /\ Places
  BY DEF Inv
<1>0. PICK n \in Workers : n = made + 1 /\ made \in Nat
  BY <1>t, ClientConstants DEF Spawn, TypeOK, Workers
<1>1. /\ made' = n /\ at'[c] = n /\ pc[c] = "lookup"
      /\ origin'[n] = asked[c] /\ \A w \in Workers \ {n} : origin'[w] = origin[w]
      /\ UNCHANGED <<inst, asked, registry, irregular>>
      /\ \A x \in Clients \ {c} : at'[x] = at[x] /\ pc'[x] = pc[x]
  BY <1>t, <1>0 DEF Spawn, Goto, TypeOK
<1>2. \A w \in Workers : w <= made => w # n /\ Db(w)' = Db(w)
  BY <1>0, <1>1 DEF Db, PathOf, Workers
<1>3. Db(n)' = PathOf(asked[c])
  BY <1>1 DEF Db, PathOf
<1>4. AskedKeyed'
  BY <1>1 DEF Keyed, AskedKeyed, PathOf
<1>5. OriginKeyed'
  <2> SUFFICES ASSUME NEW w \in Workers, w <= made'
               PROVE  Canon[origin'[w].key] = Db(w)'
    BY DEF OriginKeyed
  <2>1. CASE w = n
    BY <2>1, <1>1, <1>3 DEF Keyed, AskedKeyed
  <2>2. CASE w # n
    <3>1. w <= made
      BY <2>2, <1>0, <1>1 DEF Workers
    <3> QED
      BY <3>1, <2>2, <1>1, <1>2 DEF Keyed, OriginKeyed
  <2> QED
    BY <2>1, <2>2
<1>6. RegistryKeyed'
  <2> SUFFICES ASSUME NEW k \in Spellings, registry[k] # 0
               PROVE  registry[k] <= made' /\ Canon[k] = Db(registry[k])'
    BY <1>1 DEF RegistryKeyed
  <2>1. registry[k] \in Workers /\ registry[k] <= made /\ Canon[k] = Db(registry[k])
    BY <1>t DEF TypeOK, Keyed, RegistryKeyed
  <2>2. origin'[registry[k]] = origin[registry[k]]
    BY <2>1, <1>0, <1>1 DEF Workers
  <2> QED
    BY <2>1, <2>2, <1>0, <1>1 DEF Workers, Db, PathOf
<1>7. RefersKeyed'
  <2> SUFFICES ASSUME NEW x \in Clients, NEW w \in Workers, inst'[x] = w \/ at'[x] = w
               PROVE  Db(w)' = PathOf(asked'[x])
    BY DEF RefersKeyed, OwnKeyed, PathOf
  <2>1. CASE x = c /\ w = n
    BY <2>1, <1>1, <1>3 DEF PathOf
  <2>2. CASE ~(x = c /\ w = n)
    <3>1. (inst[x] = w \/ at[x] = w) /\ w <= made
      BY <2>2, <1>1, <1>t DEF Places, Refers, Holding
    <3> QED
      BY <3>1, <1>1, <1>2 DEF Keyed, RefersKeyed, OwnKeyed, Db, PathOf
  <2> QED
    BY <2>1, <2>2
<1> QED
  BY <1>4, <1>5, <1>6, <1>7 DEF Keyed

LEMMA KeyedStep == ASSUME Inv, Keyed, [Next]_vars PROVE Keyed'
<1>t. TypeOK /\ Places
  BY DEF Inv
<1>0. 0 \notin Workers
  BY DEF Workers
<1>Reuse. ASSUME NEW c \in Clients, Reuse(c) PROVE Keyed'
  <2>1. registry[asked[c].key] # 0 /\ asked[c] \in Origins
    BY <1>Reuse, <1>t DEF Reuse, Upgrades, Places, Refers
  <2>2. Db(registry[asked[c].key]) = PathOf(asked[c])
    BY <1>Reuse, <2>1, PathTypes DEF Reuse, Keyed, AskedKeyed, RegistryKeyed
  <2>3. at[c] = 0
    BY <1>Reuse, <1>t DEF Reuse, Places, Refers, Dropping
  <2>4. Others(c)
    BY <1>Reuse, <1>t, OthersStay DEF Reuse, Goto
  <2>5. /\ pc[c] # "out" /\ UNCHANGED <<registry, made, origin, irregular, asked>>
        /\ inst'[c] = registry[asked[c].key] /\ at'[c] = 0
    BY <1>Reuse, <1>t, <2>3 DEF Reuse, TypeOK
  <2> QED
    <3>1. OwnKeyed(c)'
      BY <1>0, <2>2, <2>5 DEF OwnKeyed, Db, PathOf
    <3> QED
      BY <1>t, <2>4, <2>5, <3>1, ClientKeyed
<1>Opened. ASSUME NEW c \in Clients, Opened(c) PROVE Keyed'
  <2>1. Others(c)
    BY <1>Opened, <1>t, OthersStay DEF Opened, Goto
  <2>2. /\ pc[c] # "out" /\ UNCHANGED <<registry, made, origin, irregular, asked>>
        /\ inst'[c] = at[c] /\ at'[c] = 0
    BY <1>Opened, <1>t DEF Opened, TypeOK
  <2> QED
    <3>1. OwnKeyed(c)'
      BY <1>0, <2>2 DEF Keyed, RefersKeyed, OwnKeyed, Db, PathOf
    <3> QED
      BY <1>t, <2>1, <2>2, <3>1, ClientKeyed
<1>OpenFails. ASSUME NEW c \in Clients, OpenFails(c) PROVE Keyed'
  <2>1. inst[c] = 0
    BY <1>OpenFails, <1>t DEF OpenFails, Places, Refers, Holding
  <2>2. Others(c)
    BY <1>OpenFails, <1>t, OthersStay DEF OpenFails, Goto
  <2>3. /\ pc[c] # "out" /\ UNCHANGED <<registry, made, origin, irregular>>
        /\ inst'[c] = 0 /\ at'[c] = 0 /\ pc'[c] = "out"
    BY <1>OpenFails, <1>t, <2>1 DEF OpenFails, Goto, TypeOK
  <2> QED
    BY <1>t, <1>0, <2>2, <2>3, ClientKeyed DEF OwnKeyed
<1>Register. ASSUME NEW c \in Clients, Register(c) PROVE Keyed'
  <2>1. /\ inst[c] \in Workers /\ inst[c] <= made /\ asked[c] \in Origins
    BY <1>Register, <1>t DEF Register, Places, Refers, Holding, TypeOK
  <2>2. Canon[asked[c].key] = Db(inst[c])
    BY <1>Register, <2>1 DEF Register, Keyed, AskedKeyed, RefersKeyed, OwnKeyed
  <2>3. RegistryKeyed'
    BY <1>Register, <1>t, <2>1, <2>2 DEF Register, TypeOK, Keyed, RegistryKeyed, Db, PathOf
  <2>4. AskedKeyed'
    BY <1>Register, <1>t DEF Register, Goto, TypeOK, Keyed, AskedKeyed, PathOf
  <2>5. OriginKeyed' /\ RefersKeyed'
    BY <1>Register DEF Register, Keyed, OriginKeyed, RefersKeyed, OwnKeyed, Db, PathOf
  <2> QED
    BY <2>3, <2>4, <2>5 DEF Keyed
<1>Drop. ASSUME NEW c \in Clients, Drop(c) PROVE Keyed'
  <2>1. at[c] = 0 /\ inst'[c] = 0 /\ pc[c] = "in"
    BY <1>Drop, <1>t DEF Drop, Places, Refers, Dropping, TypeOK
  <2>2. UNCHANGED <<registry, made, origin>>
    BY <1>Drop DEF Drop
  <2>3. CASE Holders(inst[c]) = {c}
    <3>1. Others(c)
      BY <1>Drop, <1>t, <2>3, OthersStay DEF Drop, Goto
    <3>2. at'[c] = inst[c] /\ asked' = asked /\ irregular \subseteq irregular'
      BY <1>Drop, <1>t, <2>3 DEF Drop, TypeOK
    <3> QED
      <4>1. OwnKeyed(c)'
        BY <1>0, <2>1, <2>2, <3>2 DEF Keyed, RefersKeyed, OwnKeyed, Db, PathOf
      <4> QED
        BY <1>t, <2>1, <2>2, <3>1, <3>2, <4>1, ClientKeyed
  <2>4. CASE Holders(inst[c]) # {c}
    <3>1. Others(c)
      BY <1>Drop, <1>t, <2>4, OthersStay DEF Drop, Goto
    <3>2. at'[c] = 0 /\ pc'[c] = "out" /\ irregular' = irregular
      BY <1>Drop, <1>t, <2>1, <2>4 DEF Drop, Goto, TypeOK
    <3> QED
      BY <1>t, <1>0, <2>1, <2>2, <3>1, <3>2, ClientKeyed DEF OwnKeyed
  <2> QED
    BY <2>3, <2>4
<1>Unregister. ASSUME NEW c \in Clients, Unregister(c) PROVE Keyed'
  <2>1. RegistryKeyed'
    BY <1>Unregister, <1>t DEF Unregister, TypeOK, Keyed, RegistryKeyed, Db, PathOf
  <2>2. AskedKeyed'
    BY <1>Unregister, <1>t DEF Unregister, Goto, TypeOK, Keyed, AskedKeyed, PathOf
  <2>3. OriginKeyed' /\ RefersKeyed'
    BY <1>Unregister DEF Unregister, Keyed, OriginKeyed, RefersKeyed, OwnKeyed, Db, PathOf
  <2> QED
    BY <2>1, <2>2, <2>3 DEF Keyed
<1>SendShutdown. ASSUME NEW c \in Clients, SendShutdown(c) PROVE Keyed'
  <2>1. Others(c)
    BY <1>SendShutdown, <1>t, OthersStay DEF SendShutdown, Goto
  <2>2. pc[c] # "out" /\ UNCHANGED <<registry, made, origin, irregular, asked, inst, at>>
    BY <1>SendShutdown DEF SendShutdown
  <2> QED
    <3>1. OwnKeyed(c)'
      BY <2>2 DEF Keyed, RefersKeyed, OwnKeyed, Db, PathOf
    <3> QED
      BY <1>t, <2>1, <2>2, <3>1, ClientKeyed
<1>Join. ASSUME NEW c \in Clients, Join(c) PROVE Keyed'
  <2>1. inst[c] = 0
    BY <1>Join, <1>t DEF Join, Places, Refers, Holding
  <2>2. Others(c)
    BY <1>Join, <1>t, OthersStay DEF Join, Goto
  <2>3. /\ pc[c] # "out" /\ UNCHANGED <<registry, made, origin, irregular>>
        /\ inst'[c] = 0 /\ at'[c] = 0 /\ pc'[c] = "out"
    BY <1>Join, <1>t, <2>1 DEF Join, Goto, TypeOK
  <2> QED
    BY <1>t, <1>0, <2>2, <2>3, ClientKeyed DEF OwnKeyed
<1>same. CASE SamePlaces
  BY <1>same, <1>t, SameKeyed
<1>stutter. CASE UNCHANGED vars
  BY <1>stutter, <1>same DEF vars, clientVars, SamePlaces
<1> QED
  BY CallsSend, CallsStay, WorkersStay, OpenKeyed, SpawnKeyed, <1>t, <1>Reuse, <1>Opened,
     <1>OpenFails, <1>Register, <1>Drop, <1>Unregister, <1>SendShutdown, <1>Join, <1>same,
     <1>stutter DEF Next, Continues

-----------------------------------------------------------------------------
(* Order *)

\* Client c has, after its step, no place on path p.
LEMMA Elsewhere ==
  ASSUME NEW c \in Clients, NEW p, OrderlyOn(p), Others(c), registry'[p] = registry[p],
         ~Flying(c, p)', ~Seated(c, p)'
  PROVE  OrderlyOn(p)'
<1>1. ~Bringing(c, p)'
  BY DEF Flying, Bringing, Dropping
<1>2. ASSUME NEW x \in Clients \ {c}
      PROVE  /\ Flying(x, p)' <=> Flying(x, p)
             /\ Bringing(x, p)' <=> Bringing(x, p)
             /\ Seated(x, p)' <=> Seated(x, p)
             /\ inst'[x] = inst[x]
  BY DEF Others, Flying, Bringing, Seated, PathOf
<1> QED
  BY <1>1, <1>2 DEF OrderlyOn

\* Client c goes on starting or stopping the worker of p: there was no instance to lose it.
LEMMA StillBringing ==
  ASSUME NEW c \in Clients, NEW p, OrderlyOn(p), Others(c), Bringing(c, p), Bringing(c, p)'
  PROVE  OrderlyOn(p)'
<1>1. Flying(c, p) /\ Flying(c, p)' /\ ~Seated(c, p)'
  BY DEF Flying, Bringing, Seated, Dropping
<1>2. ASSUME NEW x \in Clients \ {c} PROVE ~Flying(x, p)' /\ ~Bringing(x, p)' /\ ~Seated(x, p)'
  <2>1. ~Flying(x, p) /\ ~Seated(x, p)
    BY <1>1 DEF OrderlyOn
  <2>2. ~Flying(x, p)' /\ ~Seated(x, p)'
    BY <2>1 DEF Others, Flying, Seated, PathOf
  <2> QED
    BY <2>2 DEF Flying, Bringing, Dropping
<1> QED
  BY <1>1, <1>2 DEF OrderlyOn

LEMMA OpenOrderly ==
  ASSUME Inv, Orderly, NEW c \in Clients, Open(c), NEW p \in Paths \ irregular'
  PROVE  OrderlyOn(p)'
<1>t. TypeOK /\ Places
  BY DEF Inv
<1>1. PICK s \in Spellings, idle \in BOOLEAN :
        /\ asked' = [asked EXCEPT ![c] = [path |-> s, key |-> KeyOf(s), idle |-> idle]]
        /\ irregular' = IF InFlight(Canon[s], c) # {} \/ KeyOf(s) # Canon[s]
                          THEN irregular \cup {Canon[s]} ELSE irregular
  BY DEF Open
<1>2. asked'[c].path = s /\ pc'[c] = "lookup" /\ registry' = registry /\ p \notin irregular
  BY <1>t, <1>1 DEF Open, Goto, TypeOK
<1>3. Others(c)
  BY <1>t, <1>1, OthersStay DEF Open, Goto
<1>4. OrderlyOn(p)
  BY <1>2 DEF Orderly
<1>5. CASE Canon[s] = p
  <2>1. \A x \in Clients \ {c} : ~Flying(x, p)
    BY <1>1, <1>5 DEF InFlight, Flying
  <2>2. \A x \in Clients \ {c} : ~Flying(x, p)' /\ (Seated(x, p)' <=> Seated(x, p)) /\ inst'[x] = inst[x]
    BY <1>3, <2>1 DEF Others, Flying, Seated, PathOf
  <2>3. \A x \in Clients : ~Bringing(x, p)' /\ ~Seated(c, p)'
    BY <1>2, <2>2 DEF Bringing, Flying, Seated, Dropping
  <2> QED
    BY <1>2, <1>4, <2>2, <2>3 DEF OrderlyOn
<1>6. CASE Canon[s] # p
  BY <1>2, <1>3, <1>4, <1>6, Elsewhere DEF Flying, Seated, PathOf
<1> QED
  BY <1>5, <1>6

LEMMA ReuseOrderly ==
  ASSUME Inv, Keyed, Orderly, NEW c \in Clients, Reuse(c), NEW p \in Paths \ irregular'
  PROVE  OrderlyOn(p)'
<1>t. TypeOK /\ Places
  BY DEF Inv
<1>1. Others(c)
  BY <1>t, OthersStay DEF Reuse, Goto
<1>2. /\ pc[c] = "lookup" /\ pc'[c] = "in" /\ asked' = asked /\ registry' = registry
      /\ inst'[c] = registry[asked[c].key] /\ irregular' = irregular
  BY <1>t DEF Reuse, Goto, TypeOK
<1>3. OrderlyOn(p)
  BY <1>2 DEF Orderly
<1>4. CASE PathOf(asked[c]) = p
  <2>1. asked[c].key = p
    BY <1>2, <1>4 DEF Keyed, AskedKeyed
  <2>2. \A x \in Clients \ {c} : ~Flying(x, p)
    BY <1>2, <1>3, <1>4 DEF OrderlyOn, Flying
  <2>3. \A x \in Clients \ {c} : ~Flying(x, p)' /\ (Seated(x, p)' <=> Seated(x, p)) /\ inst'[x] = inst[x]
    BY <1>1, <2>2 DEF Others, Flying, Seated, PathOf
  <2>4. \A x \in Clients : ~Bringing(x, p)' /\ ~Flying(c, p)'
    BY <1>2, <2>3 DEF Bringing, Flying, Dropping
  <2> QED
    BY <1>2, <1>3, <2>1, <2>3, <2>4 DEF OrderlyOn
<1>5. CASE PathOf(asked[c]) # p
  BY <1>1, <1>2, <1>3, <1>5, Elsewhere DEF Flying, Seated, PathOf
<1> QED
  BY <1>4, <1>5

LEMMA SpawnOrderly ==
  ASSUME Inv, Keyed, Orderly, NEW c \in Clients, Spawn(c), NEW p \in Paths \ irregular'
  PROVE  OrderlyOn(p)'
<1>t. TypeOK /\ Places
  BY DEF Inv
<1>1. Others(c)
  BY <1>t, OthersStay DEF Spawn, Goto
<1>2. /\ pc[c] = "lookup" /\ pc'[c] = "create" /\ asked' = asked /\ registry' = registry
      /\ irregular' = irregular /\ ~Upgrades(registry[asked[c].key])
  BY <1>t DEF Spawn, Goto, TypeOK
<1>3. OrderlyOn(p)
  BY <1>2 DEF Orderly
<1>4. CASE PathOf(asked[c]) = p
  <2>1. asked[c].key = p
    BY <1>2, <1>4 DEF Keyed, AskedKeyed
  <2>2. \A x \in Clients : ~Seated(x, p)
    <3> SUFFICES ASSUME NEW x \in Clients, Seated(x, p) PROVE FALSE
      OBVIOUS
    <3>1. inst[x] = registry[p] /\ inst[x] # 0
      BY <1>3, <1>t DEF OrderlyOn, Seated, Places, Refers, Holding
    <3> QED
      BY <3>1, <1>2, <2>1 DEF Upgrades, Holders
  <2>3. \A x \in Clients \ {c} : ~Flying(x, p)
    BY <1>2, <1>3, <1>4 DEF OrderlyOn, Flying
  <2>4. \A x \in Clients \ {c} : ~Flying(x, p)' /\ ~Seated(x, p)'
    BY <1>1, <2>2, <2>3 DEF Others, Flying, Seated, PathOf
  <2>5. ~Seated(c, p)'
    BY <1>2 DEF Seated
  <2> QED
    BY <2>4, <2>5 DEF OrderlyOn
<1>5. CASE PathOf(asked[c]) # p
  BY <1>1, <1>2, <1>3, <1>5, Elsewhere DEF Flying, Seated, PathOf
<1> QED
  BY <1>4, <1>5

LEMMA RegisterOrderly ==
  ASSUME Inv, Keyed, Orderly, NEW c \in Clients, Register(c), NEW p \in Paths \ irregular'
  PROVE  OrderlyOn(p)'
<1>t. TypeOK /\ Places
  BY DEF Inv
<1>1. Others(c)
  BY <1>t, OthersStay DEF Register, Goto
<1>2. /\ pc[c] = "register" /\ pc'[c] = "in" /\ asked' = asked /\ inst' = inst
      /\ registry' = [registry EXCEPT ![asked[c].key] = inst[c]] /\ irregular' = irregular
  BY <1>t DEF Register, Goto, TypeOK
<1>3. OrderlyOn(p) /\ p \in Spellings /\ Canon[p] = p
  BY <1>2, PathIsCanonical DEF Orderly
<1>4. CASE PathOf(asked[c]) = p
  <2>1. asked[c].key = p /\ registry'[p] = inst[c]
    BY <1>2, <1>3, <1>4, <1>t DEF Keyed, AskedKeyed, TypeOK
  <2>2. Bringing(c, p) /\ Flying(c, p)
    BY <1>2, <1>4 DEF Bringing, Flying
  <2>3. \A x \in Clients \ {c} : ~Flying(x, p) /\ ~Seated(x, p)
    BY <2>2, <1>3 DEF OrderlyOn
  <2>4. \A x \in Clients \ {c} : ~Flying(x, p)' /\ ~Seated(x, p)'
    BY <1>1, <2>3 DEF Others, Flying, Seated, PathOf
  <2>5. \A x \in Clients : ~Bringing(x, p)' /\ ~Flying(c, p)'
    BY <1>2, <2>4 DEF Bringing, Flying, Dropping
  <2> QED
    BY <1>2, <2>1, <2>4, <2>5 DEF OrderlyOn
<1>5. CASE PathOf(asked[c]) # p
  <2>1. asked[c].key # p
    BY <1>2, <1>3, <1>5 DEF Keyed, AskedKeyed
  <2>2. registry'[p] = registry[p]
    BY <2>1, <1>2, <1>3, <1>t DEF TypeOK
  <2> QED
    BY <1>1, <1>2, <1>3, <1>5, <2>2, Elsewhere DEF Flying, Seated, PathOf
<1> QED
  BY <1>4, <1>5

LEMMA DropOrderly ==
  ASSUME Inv, Keyed, Orderly, NEW c \in Clients, Drop(c), NEW p \in Paths \ irregular'
  PROVE  OrderlyOn(p)'
<1>t. TypeOK /\ Places
  BY DEF Inv
<1>1. CASE Holders(inst[c]) = {c}
  <2>1. Others(c)
    BY <1>1, <1>t, OthersStay DEF Drop, Goto
  <2>2. /\ pc[c] = "in" /\ pc'[c] = "unregister" /\ asked' = asked /\ registry' = registry
        /\ irregular' = IF InFlight(PathOf(asked[c]), c) # {}
                          THEN irregular \cup {PathOf(asked[c])} ELSE irregular
    BY <1>1, <1>t DEF Drop, Goto, TypeOK
  <2>3. OrderlyOn(p)
    BY <2>2 DEF Orderly
  <2>4. CASE PathOf(asked[c]) = p
    <3>1. \A x \in Clients \ {c} : ~Flying(x, p)
      BY <2>2, <2>4 DEF InFlight, Flying
    <3>2. \A x \in Clients \ {c} : ~Seated(x, p)
      BY <1>1, <2>2, <2>3, <2>4 DEF OrderlyOn, Seated, Holders
    <3>3. \A x \in Clients \ {c} : ~Flying(x, p)' /\ ~Seated(x, p)'
      BY <2>1, <3>1, <3>2 DEF Others, Flying, Seated, PathOf
    <3>4. ~Seated(c, p)'
      BY <2>2 DEF Seated
    <3> QED
      BY <3>3, <3>4 DEF OrderlyOn
  <2>5. CASE PathOf(asked[c]) # p
    BY <2>1, <2>2, <2>3, <2>5, Elsewhere DEF Flying, Seated, PathOf
  <2> QED
    BY <2>4, <2>5
<1>2. CASE Holders(inst[c]) # {c}
  <2>1. Others(c)
    BY <1>2, <1>t, OthersStay DEF Drop, Goto
  <2>2. pc'[c] = "out" /\ registry' = registry /\ irregular' = irregular
    BY <1>2, <1>t DEF Drop, Goto, TypeOK
  <2> QED
    BY <2>1, <2>2, Elsewhere DEF Orderly, Flying, Seated
<1> QED
  BY <1>1, <1>2

LEMMA UnregisterOrderly ==
  ASSUME Inv, Keyed, Orderly, NEW c \in Clients, Unregister(c), NEW p \in Paths \ irregular'
  PROVE  OrderlyOn(p)'
<1>t. TypeOK /\ Places
  BY DEF Inv
<1>1. Others(c)
  BY <1>t, OthersStay DEF Unregister, Goto
<1>2. /\ pc[c] = "unregister" /\ pc'[c] = "shutdown" /\ asked' = asked
      /\ registry' = [registry EXCEPT ![origin[at[c]].key] = 0] /\ irregular' = irregular
  BY <1>t DEF Unregister, Goto, TypeOK
<1>3. OrderlyOn(p) /\ p \in Spellings /\ Canon[p] = p
  BY <1>2, PathIsCanonical DEF Orderly
<1>4. CASE PathOf(asked[c]) = p
  BY <1>1, <1>2, <1>3, <1>4, StillBringing DEF Bringing, Dropping, PathOf
<1>5. CASE PathOf(asked[c]) # p
  <2>1. at[c] \in Workers /\ at[c] <= made
    BY <1>2, <1>t DEF Places, Refers, Dropping, TypeOK
  <2>2. Canon[origin[at[c]].key] = PathOf(asked[c])
    BY <2>1 DEF Keyed, OriginKeyed, RefersKeyed, OwnKeyed
  <2>3. registry'[p] = registry[p]
    BY <1>2, <1>3, <1>5, <2>2, <1>t DEF TypeOK
  <2> QED
    BY <1>1, <1>2, <1>3, <1>5, <2>3, Elsewhere DEF Flying, Seated, PathOf
<1> QED
  BY <1>4, <1>5

\* The steps of a client that start, stop or end on their own path only.
LEMMA OwnOrderly ==
  ASSUME TypeOK, Orderly, NEW c \in Clients,
         Opened(c) \/ OpenFails(c) \/ SendShutdown(c) \/ Join(c), NEW p \in Paths \ irregular'
  PROVE  OrderlyOn(p)'
<1>1. Others(c) /\ registry' = registry /\ irregular' = irregular
  BY OthersStay DEF Opened, OpenFails, SendShutdown, Join, Goto
<1>2. OrderlyOn(p)
  BY <1>1 DEF Orderly
<1>3. CASE OpenFails(c) \/ Join(c)
  <2>1. pc'[c] = "out"
    BY <1>3 DEF OpenFails, Join, Goto, TypeOK
  <2> QED
    BY <1>1, <1>2, <2>1, Elsewhere DEF Flying, Seated
<1>4. CASE Opened(c) \/ SendShutdown(c)
  <2>1. /\ asked' = asked
        /\ pc[c] \in {"create"} \cup Dropping /\ pc'[c] \in {"register"} \cup Dropping
    BY <1>4 DEF Opened, SendShutdown, Goto, TypeOK, Dropping
  <2>2. CASE PathOf(asked[c]) = p
    BY <1>1, <1>2, <2>1, <2>2, StillBringing DEF Bringing, PathOf
  <2>3. CASE PathOf(asked[c]) # p
    BY <1>1, <1>2, <2>1, <2>3, Elsewhere DEF Flying, Seated, PathOf
  <2> QED
    BY <2>2, <2>3
<1> QED
  BY <1>3, <1>4

LEMMA OrderlyStep == ASSUME Inv, Keyed, Orderly, [Next]_vars PROVE Orderly'
<1>t. TypeOK
  BY DEF Inv
<1>clients. ASSUME NEW c \in Clients,
                   Open(c) \/ Reuse(c) \/ Spawn(c) \/ Register(c) \/ Drop(c) \/ Unregister(c)
                   \/ Opened(c) \/ OpenFails(c) \/ SendShutdown(c) \/ Join(c)
            PROVE  Orderly'
  BY <1>clients, <1>t, OpenOrderly, ReuseOrderly, SpawnOrderly, RegisterOrderly, DropOrderly,
     UnregisterOrderly, OwnOrderly DEF Orderly
<1>same. CASE SamePlaces
  BY <1>same, SameOrderly
<1>stutter. CASE UNCHANGED vars
  BY <1>stutter, <1>same DEF vars, clientVars, SamePlaces
<1> QED
  BY CallsSend, CallsStay, WorkersStay, <1>t, <1>clients, <1>same, <1>stutter DEF Next, Continues

-----------------------------------------------------------------------------
(* One worker, and its lock *)

\* A worker that runs has a client that refers to it, and on a regular path the clients
\* refer to one.
LEMMA OneWorker ==
  ASSUME Inv, Keyed, Orderly, NEW p \in Paths \ irregular,
         NEW v \in WorkersOf(p), NEW w \in WorkersOf(p)
  PROVE  v = w
<1>t. Places /\ Lives /\ TypeOK
  BY DEF Inv
<1>1. ASSUME NEW u \in WorkersOf(p)
      PROVE  \E c \in Clients : (inst[c] = u \/ at[c] = u) /\ PathOf(asked[c]) = p
  <2>1. PICK c \in Clients : inst[c] = u \/ at[c] = u
    BY <1>t DEF WorkersOf, Lives, Life, Gone
  <2> QED
    BY <2>1 DEF WorkersOf, Keyed, RefersKeyed, OwnKeyed
<1>2. PICK c \in Clients : (inst[c] = v \/ at[c] = v) /\ PathOf(asked[c]) = p
  BY <1>1
<1>3. PICK d \in Clients : (inst[d] = w \/ at[d] = w) /\ PathOf(asked[d]) = p
  BY <1>1
<1>4. OrderlyOn(p) /\ v # 0 /\ w # 0
  BY DEF Orderly, WorkersOf, Workers
<1>5. ASSUME NEW x \in Clients, inst[x] # 0 \/ at[x] # 0, PathOf(asked[x]) = p
      PROVE  /\ inst[x] = 0 \/ at[x] = 0
             /\ \/ Bringing(x, p) /\ Flying(x, p)
                \/ Seated(x, p) /\ at[x] = 0
  <2>1. /\ inst[x] # 0 <=> pc[x] \in Holding
        /\ at[x] # 0 <=> pc[x] \in {"create"} \cup Dropping
    BY <1>t DEF Places, Refers
  <2> QED
    BY <1>5, <2>1 DEF Holding, Dropping, Bringing, Flying, Seated
<1>6. CASE c = d
  BY <1>2, <1>3, <1>4, <1>5, <1>6
<1>7. CASE c # d
  <2>1. Seated(c, p) /\ Seated(d, p) /\ at[c] = 0 /\ at[d] = 0
    BY <1>2, <1>3, <1>4, <1>5, <1>7 DEF OrderlyOn
  <2> QED
    BY <1>2, <1>3, <1>4, <2>1 DEF OrderlyOn
<1> QED
  BY <1>6, <1>7

\* A worker of the same path that has its database open is the worker itself.
LEMMA OpenedAlone ==
  ASSUME Inv, Keyed, Orderly, NEW w \in Workers, wpc[w] \notin {"unborn", "ended"},
         NEW v \in opened, Db(v) = Db(w), Db(w) \notin irregular
  PROVE  v = w
<1>1. w \in WorkersOf(Db(w)) /\ Db(w) \in Paths
  BY WorkerTypes DEF WorkersOf
<1>2. v \in WorkersOf(Db(w))
  BY DEF Inv, TypeOK, Isolates, WorkersOf
<1> QED
  BY <1>1, <1>2, OneWorker

LEMMA LockedStep == ASSUME Inv, Keyed, Orderly, Locked, [Next]_vars PROVE Locked'
<1>t. TypeOK /\ Unborn /\ Isolates
  BY DEF Inv
<1>kept. ASSUME UNCHANGED <<opened, writeLock, origin>>, irregular \subseteq irregular' PROVE Locked'
  BY <1>kept DEF Locked, Db, PathOf
<1>clients. ASSUME NEW c \in Clients,
                   Open(c) \/ Reuse(c) \/ Register(c) \/ Drop(c) \/ Unregister(c)
                   \/ Opened(c) \/ OpenFails(c) \/ SendShutdown(c) \/ Join(c)
            PROVE  Locked'
  BY <1>clients, <1>kept DEF Open, Reuse, Register, Drop, Unregister, Opened, OpenFails,
     SendShutdown, Join, libVars
<1>Spawn. ASSUME NEW c \in Clients, Spawn(c) PROVE Locked'
  <2>1. /\ UNCHANGED <<opened, writeLock, irregular>>
        /\ origin' = [origin EXCEPT ![made + 1] = asked[c]]
    BY <1>Spawn DEF Spawn, libVars
  <2>2. \A w \in opened : w \in Workers /\ w # made + 1
    <3>1. made \in Nat /\ opened \subseteq Workers /\ opened \subseteq isolates
      BY <1>t, ClientConstants DEF TypeOK
    <3>2. \A w \in Workers : w = made + 1 => w \notin isolates
      BY <1>t, <3>1 DEF Unborn
    <3> QED
      BY <3>1, <3>2
  <2>3. \A w \in opened : origin'[w] = origin[w]
    BY <2>1, <2>2, <1>t DEF TypeOK
  <2> QED
    BY <2>1, <2>3 DEF Locked, Db, PathOf
<1>workers. ASSUME NEW w \in Workers,
                   MakeIsolate(w) \/ MakeIsolateFails(w) \/ OpenDatabaseFails(w)
                   \/ PathRefused(w) \/ TakeCommand(w) \/ TakeShutdown(w) \/ IdleTimeout(w)
                   \/ BackoffRefuse(w) \/ BackoffEnds(w) \/ Serve(w)
            PROVE  Locked'
  BY <1>workers, <1>kept DEF MakeIsolate, MakeIsolateFails, OpenDatabaseFails, PathRefused,
     TakeCommand, TakeShutdown, IdleTimeout, BackoffRefuse, BackoffEnds, Serve, libVars
<1>OpenDatabase. ASSUME NEW w \in Workers, OpenDatabase(w) PROVE Locked'
  <2>1. /\ wpc[w] = "open" /\ UNCHANGED <<origin, irregular>> /\ opened' = opened \cup {w}
        /\ writeLock' = [writeLock EXCEPT ![Db(w)] = w]
    BY <1>OpenDatabase DEF OpenDatabase
  <2>2. Db(w) \in Paths
    BY <2>1, WorkerTypes
  <2>3. \A v \in opened \ {w} : Db(v) # Db(w) \/ Db(w) \in irregular
    BY <2>1, OpenedAlone
  <2>4. \A v \in Workers : Db(v)' = Db(v)
    BY <2>1 DEF Db, PathOf
  <2> QED
    BY <2>1, <2>2, <2>3, <2>4, <1>t DEF Locked, TypeOK
<1>Resume. ASSUME NEW w \in Workers, Resume(w) PROVE Locked'
  <2>1. /\ wpc[w] = "recv" /\ suspended[w] /\ UNCHANGED <<origin, irregular, opened>>
        /\ writeLock' = [writeLock EXCEPT ![Db(w)] = 0]
    BY <1>Resume DEF Resume
  <2>2. w \notin opened /\ \A v \in opened : v \in Workers
    BY <2>1, <1>t DEF Isolates, TypeOK
  <2>3. \A v \in opened : Db(v) # Db(w) \/ Db(w) \in irregular
    BY <2>1, <2>2, OpenedAlone
  <2>4. \A v \in Workers : Db(v)' = Db(v)
    BY <2>1 DEF Db, PathOf
  <2> QED
    BY <2>1, <2>2, <2>3, <2>4, <1>t DEF Locked, TypeOK
<1>closed. ASSUME NEW w \in Workers, Suspend(w) \/ CloseAndEnd(w) PROVE Locked'
  <2>1. /\ UNCHANGED <<origin, irregular>> /\ opened' = opened \ {w}
        /\ writeLock' = [writeLock EXCEPT ![Db(w)] = IF @ = w THEN 0 ELSE @]
    BY <1>closed DEF Suspend, CloseAndEnd, Closed
  <2>2. \A v \in opened : v \in Workers /\ Db(v)' = Db(v)
    BY <2>1, <1>t DEF TypeOK, Db, PathOf
  <2>3. \A v \in opened \ {w} : writeLock[Db(v)] = v => writeLock'[Db(v)] = v
    BY <2>1, <1>t DEF TypeOK
  <2> QED
    BY <2>1, <2>2, <2>3 DEF Locked
<1>calls. ASSUME NEW c \in Clients, AnySend(c) \/ Unparsed(c) \/ Receive(c) PROVE Locked'
  BY <1>calls, <1>t, <1>kept, CallsStay DEF SamePlaces
<1>stutter. CASE UNCHANGED vars
  BY <1>stutter, <1>kept DEF vars, libVars
<1> QED
  BY CallsSend, <1>clients, <1>Spawn, <1>workers, <1>OpenDatabase, <1>Resume, <1>closed,
     <1>calls, <1>stutter DEF Next, Continues, Works

-----------------------------------------------------------------------------
LEMMA InitShares == ASSUME Init PROVE ShareInv
<1>1. Keyed
  BY ClientConstants DEF Init, Keyed, AskedKeyed, OriginKeyed, RegistryKeyed, RefersKeyed,
     OwnKeyed, Workers
<1>2. Orderly
  BY DEF Init, Orderly, OrderlyOn, Flying, Seated, Bringing, Dropping
<1>3. Locked
  BY DEF Init, Locked
<1> QED
  BY <1>1, <1>2, <1>3 DEF ShareInv

\* A set of which all members are the same has at most one.
LEMMA AtMostOne ==
  ASSUME NEW S, \A x, y \in S : x = y
  PROVE  Cardinality(S) <= 1
<1>1. CASE S = {}
  BY <1>1, FS_EmptySet
<1>2. CASE S # {}
  <2>1. PICK x \in S : S = {x}
    BY <1>2
  <2> QED
    BY <2>1, FS_Singleton
<1> QED
  BY <1>1, <1>2

\* The instances of a path share one worker, and the worker has the lock of the index as
\* long as its database is open, also after suspensions, when the path is known by its
\* canonical name and is not opened or given up by two clients at once (ChronDB::open,
\* SharedWorker::drop, remove_stale_lock).
THEOREM RegularPathsAreShared == Spec => []RegularPathsShare
<1>1. Init => Inv /\ ShareInv
  BY InitInv, InitShares
<1>2. Inv /\ ShareInv /\ [Next]_vars => (Inv /\ ShareInv)'
  BY InvStep, KeyedStep, OrderlyStep, LockedStep DEF ShareInv
<1>3. ASSUME Inv, ShareInv PROVE RegularPathsShare
  <2> SUFFICES ASSUME NEW p \in Paths \ irregular
               PROVE  /\ Cardinality(WorkersOf(p)) <= 1
                      /\ \A w \in opened \cap WorkersOf(p) : writeLock[p] = w
    BY DEF RegularPathsShare
  <2>1. Cardinality(WorkersOf(p)) <= 1
    BY <1>3, OneWorker, AtMostOne DEF ShareInv
  <2>2. \A w \in opened \cap WorkersOf(p) : writeLock[p] = w
    BY <1>3 DEF ShareInv, Locked, WorkersOf
  <2> QED
    BY <2>1, <2>2
<1> QED
  BY <1>1, <1>2, <1>3, PTL DEF Spec
=============================================================================
