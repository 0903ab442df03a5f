---------------------------- MODULE LibrarySetup ----------------------------
(***************************************************************************)
(* How the native library gets on disk and into a process: the setup that  *)
(* the Rust crate runs once per process (setup.rs), the loading that       *)
(* follows (ffi.rs) and the build script that may install the library      *)
(* beforehand (build.rs).  Processes share two directories, that of        *)
(* CHRONDB_LIB_DIR ("env") and ~/.chrondb/lib ("home"), and the temporary  *)
(* directories they unpack archives in; nothing locks them.                *)
(*                                                                         *)
(* Abstractions.  A directory is what its library file is; headers and     *)
(* other files of an archive are left out.  The latest release, which a    *)
(* -dev version downloads, is the same for all its processes.  A process   *)
(* is its one thread in SETUP_RESULT and LIBRARY: the others wait there    *)
(* for its result.  A build told to skip the download is one that does not *)
(* start.                                                                  *)
(***************************************************************************)
EXTENDS Naturals, FiniteSets

CONSTANTS
  Procs,      \* processes
  NoProc,
  Builds,     \* those that are build scripts; the others run the crate
  WithEnv,    \* those in whose environment CHRONDB_LIB_DIR is set
  Homeless,   \* those without a home directory
  Unbuilt,    \* those on a platform that no library is published for
  Versions,   \* of the crate and of the library: older ones are smaller
  NoVersion,
  Flat,       \* versions whose archive has no directory around its files
  VersionOf,  \* VersionOf[p]: the version of the crate that p is built from
  ReleaseOf,  \* ReleaseOf[p]: the release it downloads, the latest for a -dev version
  MaxStarts,  \* bound: starts of processes
  MaxFaults   \* bound: errors of the network and of the file system

ASSUME SetupConstants ==
  /\ NoProc \notin Procs /\ Builds \subseteq Procs /\ WithEnv \subseteq Procs
  /\ Homeless \subseteq Procs /\ Unbuilt \subseteq Procs
  /\ Versions \subseteq Nat /\ NoVersion \notin Versions /\ Flat \subseteq Versions
  /\ VersionOf \in [Procs -> Versions] /\ ReleaseOf \in [Procs -> Versions]
  /\ MaxStarts \in Nat /\ MaxFaults \in Nat

VARIABLES
  lib,       \* lib[d]: the library file of d, the version it will be once it is whole and
             \* the last process that truncated it
  tree,      \* tree[t]: what is unpacked of each version in temporary directory t
  pc,        \* pc[p]: the next step of p
  starts, faults,
  disturbed  \* history: directories where an installation was cut short, or where two
             \* went on at a time
vars == <<lib, tree, pc, starts, faults, disturbed>>

-----------------------------------------------------------------------------
Dirs == {"env", "home"}
Temps == Dirs \X {"runtime", "build"}
Contents == {"none", "part", "whole"}

Libs == [state : Contents, version : Versions \cup {NoVersion}, by : Procs \cup {NoProc}]
NoLib == [state |-> "none", version |-> NoVersion, by |-> NoProc]
Trees == [state : Contents, by : Procs \cup {NoProc}]
NoTree == [state |-> "none", by |-> NoProc]

Unpacks  == {"unpack", "unpacking", "flatten", "copying", "clean"}
Installs == {"fetch"} \cup Unpacks
RunPCs   == {"off", "check", "verify", "load", "loaded", "failed"} \cup Installs
BuildPCs == {"off", "check", "done"} \cup Installs

TypeOK ==
  /\ lib \in [Dirs -> Libs]
  /\ tree \in [Temps -> [Versions -> Trees]]
  /\ pc \in [Procs -> RunPCs \cup BuildPCs]
  /\ \A p \in Procs : pc[p] \in IF p \in Builds THEN BuildPCs ELSE RunPCs
  /\ starts \in 0 .. MaxStarts /\ faults \in 0 .. MaxFaults
  /\ disturbed \subseteq Dirs

Init ==
  /\ lib = [d \in Dirs |-> NoLib]
  /\ tree = [t \in Temps |-> [v \in Versions |-> NoTree]]
  /\ pc = [p \in Procs |-> "off"]
  /\ starts = 0 /\ faults = 0
  /\ disturbed = {}

Goto(p, step) == pc' = [pc EXCEPT ![p] = step]

\* The crate installs to ~/.chrondb/lib, a build to the directory of its environment.
Dest(p) == IF p \in Builds \cap WithEnv THEN "env" ELSE "home"
TempOf(p) == <<Dest(p), IF p \in Builds THEN "build" ELSE "runtime">>

There(d) == lib[d].state # "none"
Installing(d) == {p \in Procs : Dest(p) = d /\ pc[p] \in Installs}
Copying(d) == {p \in Procs : Dest(p) = d /\ pc[p] = "copying"}

-----------------------------------------------------------------------------
(* Is the library there? *)

\* library_exists: a file of that name, whatever is in it.
LibraryExistsInFirst(p) == There(IF p \in WithEnv THEN "env" ELSE "home")
LibraryExists(p) ==
  (p \in WithEnv /\ There("env")) \/ (p \notin Homeless /\ There("home"))

\* A build looks only where it would install.
BuildFinds(p) == There(Dest(p))

\* The download begins, perhaps while another process installs in the same place.
Begins(p) ==
  /\ Goto(p, "fetch")
  /\ disturbed' = IF Installing(Dest(p)) = {} THEN disturbed ELSE disturbed \cup {Dest(p)}

\* An error ends the setup for the life of the process; for a build it is a warning.
\* What is unpacked or half copied stays.
GivesUp(p) == Goto(p, IF p \in Builds THEN "done" ELSE "failed")

\* There is a release for the platform, and a directory to install it in.
CanInstall(p) ==
  /\ p \notin Unbuilt
  /\ p \in Builds \cap WithEnv \/ p \notin Homeless

\* download_library: nothing is touched when there is nothing to download or nowhere to
\* install it.
Download(p) ==
  \/ CanInstall(p) /\ Begins(p)
  \/ ~CanInstall(p) /\ GivesUp(p) /\ UNCHANGED disturbed

Start(p) ==
  /\ pc[p] = "off" /\ starts < MaxStarts
  /\ starts' = starts + 1
  /\ Goto(p, "check")
  /\ UNCHANGED <<lib, tree, faults, disturbed>>

\* ensure_library_installed, the first time a process calls it.
Check(p) ==
  /\ pc[p] = "check" /\ p \notin Builds
  /\ IF LibraryExists(p) THEN Goto(p, "load") /\ UNCHANGED disturbed ELSE Download(p)
  /\ UNCHANGED <<lib, tree, starts, faults>>

\* main of the build script.
BuildCheck(p) ==
  /\ pc[p] = "check" /\ p \in Builds
  /\ IF BuildFinds(p) THEN Goto(p, "done") /\ UNCHANGED disturbed ELSE Download(p)
  /\ UNCHANGED <<lib, tree, starts, faults>>

-----------------------------------------------------------------------------
(* Downloading and unpacking *)

Fetch(p) ==
  /\ pc[p] = "fetch"
  /\ Goto(p, "unpack")
  /\ UNCHANGED <<lib, tree, starts, faults, disturbed>>

\* The library of the archive is created anew, in place of one that is there already.
UnpackBegins(p) ==
  /\ pc[p] = "unpack"
  /\ tree' = [tree EXCEPT ![TempOf(p)] = [v \in Versions |->
       IF v = ReleaseOf[p] THEN [state |-> "part", by |-> p]
       ELSE IF {v, ReleaseOf[p]} \subseteq Flat THEN NoTree ELSE @[v]]]
  /\ Goto(p, "unpacking")
  /\ UNCHANGED <<lib, starts, faults, disturbed>>

UnpackEnds(p) ==
  /\ pc[p] = "unpacking"
  /\ tree' = [tree EXCEPT ![TempOf(p)][ReleaseOf[p]] =
       IF @ = [state |-> "part", by |-> p] THEN [state |-> "whole", by |-> NoProc] ELSE @]
  /\ Goto(p, "flatten")
  /\ UNCHANGED <<lib, starts, faults, disturbed>>

-----------------------------------------------------------------------------
(* Copying the library out of the temporary directory *)

Unpacked(p) == {v \in Versions : tree[TempOf(p)][v].state # "none"}
Nested(p) == Unpacked(p) \ Flat
PicksNested(p) == Nested(p)

\* The versions whose library may be copied: that at the root of the temporary directory
\* if there is one, otherwise that of the directory listed first.  A file that is not
\* yet whole may not yet be there.  A build knows nothing of a library at the root.
Picks(p) ==
  LET root == Unpacked(p) \cap Flat IN
  IF p \in Builds \/ root = {} THEN Nested(p)
  ELSE IF \E v \in root : tree[TempOf(p)][v].state = "whole" THEN root
  ELSE root \cup Nested(p)

\* What the file will be once v is copied.  A file copied while it is unpacked may be cut
\* short, and one that two processes write may have parts of both.
Outcomes(p, v) ==
  LET t == tree[TempOf(p)][v]
      alone == Copying(Dest(p)) = {} \/ lib[Dest(p)].version = v
      unpacked == t.by \in Procs /\ pc[t.by] = "unpacking"
  IN  IF t.state = "whole" THEN (IF alone THEN {v} ELSE {v, NoVersion})
      ELSE IF unpacked THEN {v, NoVersion} ELSE {NoVersion}

CopyBeginsEarly(p) ==
  /\ pc[p] \in {"unpacking", "flatten"}
  /\ \E v \in Picks(p) : \E w \in Outcomes(p, v) :
       lib' = [lib EXCEPT ![Dest(p)] = [state |-> "part", version |-> w, by |-> p]]
  /\ Goto(p, "copying")
  /\ UNCHANGED <<tree, starts, faults, disturbed>>

\* fs::copy truncates the file first.
CopyBegins(p) ==
  /\ pc[p] = "flatten"
  /\ \E v \in Picks(p) : \E w \in Outcomes(p, v) :
       lib' = [lib EXCEPT ![Dest(p)] = [state |-> "part", version |-> w, by |-> p]]
  /\ Goto(p, "copying")
  /\ UNCHANGED <<tree, starts, faults, disturbed>>

CopyEnds(p) ==
  /\ pc[p] = "copying"
  /\ lib' = [lib EXCEPT ![Dest(p)] =
       IF @.by = p /\ @.version # NoVersion THEN [@ EXCEPT !.state = "whole"] ELSE @]
  /\ Goto(p, "clean")
  /\ UNCHANGED <<tree, starts, faults, disturbed>>

\* The directory listed first has no library, and for a build there need be none.
CopiesNothing(p) ==
  /\ pc[p] = "flatten"
  /\ \/ p \in Builds /\ Nested(p) = {}
     \/ \E v \in Picks(p) \ Flat : tree[TempOf(p)][v].state = "part"
  /\ Goto(p, "clean")
  /\ UNCHANGED <<lib, tree, starts, faults, disturbed>>

\* The crate finds neither a library at the root nor a directory.
FindsNothing(p) ==
  /\ pc[p] = "flatten" /\ p \notin Builds
  /\ Nested(p) = {} /\ \A v \in Picks(p) : tree[TempOf(p)][v].state = "part"
  /\ GivesUp(p)
  /\ UNCHANGED <<lib, tree, starts, faults, disturbed>>

RemoveTempThenVerify(p) ==
  /\ pc[p] = "clean"
  /\ tree' = [tree EXCEPT ![TempOf(p)] = [v \in Versions |-> NoTree]]
  /\ Goto(p, "verify")
  /\ UNCHANGED <<lib, starts, faults, disturbed>>

\* The temporary directory is removed, with what others have unpacked in it.
RemoveTemp(p) ==
  /\ pc[p] = "clean"
  /\ tree' = [tree EXCEPT ![TempOf(p)] = [v \in Versions |-> NoTree]]
  /\ Goto(p, IF p \in Builds THEN "done" ELSE "verify")
  /\ UNCHANGED <<lib, starts, faults, disturbed>>

\* An error of the removal is ignored.
KeepTemp(p) ==
  /\ pc[p] = "clean" /\ faults < MaxFaults
  /\ faults' = faults + 1
  /\ Goto(p, IF p \in Builds THEN "done" ELSE "verify")
  /\ UNCHANGED <<lib, tree, starts, disturbed>>

Verify(p) ==
  /\ pc[p] = "verify"
  /\ IF There("home") THEN Goto(p, "load") ELSE GivesUp(p)
  /\ UNCHANGED <<lib, tree, starts, faults, disturbed>>

-----------------------------------------------------------------------------
(* Loading *)

\* find_library_path: the directory whose file is loaded.
Found(p) == IF p \in WithEnv /\ There("env") THEN "env" ELSE "home"

\* A file that is not whole is no library, an older one lacks a function that the crate
\* looks up.  The outcome is kept for the life of the process.
Load(p) ==
  /\ pc[p] = "load"
  /\ LET l == lib[Found(p)] IN
       IF l.state = "whole" /\ l.version >= VersionOf[p] THEN Goto(p, "loaded") ELSE GivesUp(p)
  /\ UNCHANGED <<lib, tree, starts, faults, disturbed>>

-----------------------------------------------------------------------------
(* Faults and ends *)

CutShort(p) == IF pc[p] \in Unpacks THEN disturbed \cup {Dest(p)} ELSE disturbed

\* The network or the file system fails.
Fault(p) ==
  /\ pc[p] \in Installs \ {"clean"} /\ faults < MaxFaults
  /\ faults' = faults + 1
  /\ disturbed' = CutShort(p)
  /\ GivesUp(p)
  /\ UNCHANGED <<lib, tree, starts>>

\* Another process has removed the files that this one writes or reads.
Robbed(p) ==
  /\ pc[p] \in {"unpacking", "copying"} /\ Unpacked(p) = {}
  /\ disturbed' = CutShort(p)
  /\ GivesUp(p)
  /\ UNCHANGED <<lib, tree, starts, faults>>

\* The process ends or is killed; it may be started again.
Stop(p) ==
  /\ pc[p] # "off"
  /\ disturbed' = CutShort(p)
  /\ Goto(p, "off")
  /\ UNCHANGED <<lib, tree, starts, faults>>

Next ==
  \E p \in Procs :
    \/ Start(p) \/ Check(p) \/ BuildCheck(p) \/ Fetch(p) \/ UnpackBegins(p) \/ UnpackEnds(p)
    \/ CopyBegins(p) \/ CopyEnds(p) \/ CopiesNothing(p) \/ FindsNothing(p) \/ RemoveTemp(p)
    \/ KeepTemp(p) \/ Verify(p) \/ Load(p) \/ Fault(p) \/ Robbed(p) \/ Stop(p)

Spec == Init /\ [][Next]_vars

-----------------------------------------------------------------------------
(* Properties *)

\* A library is never replaced or truncated once it is whole, so that a process that has
\* it mapped keeps what it loaded, unless two processes installed at a time or an earlier
\* installation was cut short.
InstalledStays ==
  [][\A d \in Dirs : lib[d].state = "whole" /\ d \notin disturbed => lib'[d] = lib[d]]_vars

\* A broken library, which every later process takes for an installed one, is left only by
\* an installation cut short or by two at a time.
BrokenExplained ==
  \A d \in Dirs : lib[d].state = "part" => d \in disturbed \/ Copying(d) # {}

\* The crate fails to set up or to load its library only for a fault, a platform without
\* a release or a user without a home, an older library there, or an installation by
\* another process, going on or disturbed before: the layout of its archive and an empty
\* CHRONDB_LIB_DIR are no reason.
Explained(p) ==
  \/ ~CanInstall(p)
  \/ faults' # faults
  \/ \E d \in {"home", Found(p)} : d \in disturbed \/ Installing(d) \ {p} # {}
  \/ There(Found(p)) /\ lib[Found(p)].version < VersionOf[p]
FailuresExplained ==
  [][\A p \in Procs : pc[p] # "failed" /\ pc'[p] = "failed" => Explained(p)]_vars
=============================================================================
