-------------------------- MODULE LibrarySetupProofs --------------------------
(***************************************************************************)
(* Type correctness of LibrarySetup, and what an installation that runs    *)
(* alone guarantees whatever the processes, their versions and the layouts *)
(* of the archives are.                                                    *)
(***************************************************************************)
EXTENDS LibrarySetup, TLAPS

Undisturbed == Dirs \ disturbed

\* Where nothing was disturbed one process installs,
Alone ==
  \A d \in Undisturbed : \A p, q \in Procs :
    /\ Dest(p) = d /\ pc[p] \in Installs
    /\ Dest(q) = d /\ pc[q] \in Installs
    => p = q

\* what is half unpacked is being unpacked,
Pieces ==
  \A t \in Temps : \A v \in Versions :
    t[1] \notin disturbed /\ tree[t][v].state = "part" =>
      /\ tree[t][v].by \in Procs /\ ReleaseOf[tree[t][v].by] = v
      /\ pc[tree[t][v].by] = "unpacking" /\ TempOf(tree[t][v].by) = t

\* a library half copied is being copied from one that is whole,
Files ==
  \A d \in Undisturbed :
    lib[d].state = "part" =>
      /\ lib[d].version # NoVersion
      /\ lib[d].by \in Procs /\ pc[lib[d].by] = "copying" /\ Dest(lib[d].by) = d

\* and a process that has not begun to copy found no library.
Missing ==
  \A d \in Undisturbed : \A p \in Procs :
    Dest(p) = d /\ pc[p] \in Installs \ {"copying", "clean"} => lib[d].state = "none"

\* A process keeps what it unpacks until it removes it, where nothing was disturbed,
Kept ==
  \A p \in Procs : Dest(p) \notin disturbed =>
    /\ pc[p] = "unpacking" =>
         tree[TempOf(p)][ReleaseOf[p]] = [state |-> "part", by |-> p]
    /\ pc[p] \in {"flatten", "copying"} => tree[TempOf(p)][ReleaseOf[p]].state = "whole"

\* the library it has copied is there, and so is the one that it goes on to load,
Arrived ==
  \A p \in Procs \ Builds :
    /\ pc[p] \in {"copying", "clean", "verify"} /\ "home" \notin disturbed => There("home")
    /\ pc[p] = "load" => There(Found(p))

\* and a whole library has a version.
Versioned == \A d \in Dirs : lib[d].state = "whole" => lib[d].version \in Versions

Inv == TypeOK /\ Alone /\ Pieces /\ Files /\ Missing /\ Kept /\ Arrived /\ Versioned

-----------------------------------------------------------------------------
LEMMA Constants ==
  /\ NoProc \notin Procs
  /\ \A p \in Procs : VersionOf[p] \in Versions /\ ReleaseOf[p] \in Versions
  /\ \A p \in Procs : Dest(p) \in Dirs /\ TempOf(p) \in Temps /\ TempOf(p)[1] = Dest(p)
  /\ NoVersion \notin Versions
  /\ NoLib \in Libs /\ NoTree \in Trees
  BY SetupConstants
     DEF Dest, TempOf, Dirs, Temps, NoLib, NoTree, Libs, Trees, Contents

LEMMA PCs ==
  ASSUME TypeOK, NEW p \in Procs, NEW s, pc' = [pc EXCEPT ![p] = s],
         s \in (IF p \in Builds THEN BuildPCs ELSE RunPCs)
  PROVE  /\ pc' \in [Procs -> RunPCs \cup BuildPCs]
         /\ \A q \in Procs : pc'[q] \in IF q \in Builds THEN BuildPCs ELSE RunPCs
  BY DEF TypeOK

LEMMA TypeStep == ASSUME TypeOK, [Next]_vars PROVE TypeOK'
<1> USE Constants
<1> DEFINE Steps(p) == IF p \in Builds THEN BuildPCs ELSE RunPCs
<1>steps. \A p \in Procs :
            /\ {"off", "check", "fetch", "unpack", "unpacking", "flatten", "copying",
                "clean"} \subseteq Steps(p)
            /\ p \in Builds => "done" \in Steps(p)
            /\ p \notin Builds => {"verify", "load", "loaded", "failed"} \subseteq Steps(p)
  BY DEF BuildPCs, RunPCs, Installs, Unpacks
<1>Goto. \A p \in Procs, s \in {"off", "check", "fetch", "unpack", "unpacking", "flatten",
                                "copying", "clean"} : Goto(p, s) =>
           /\ pc' \in [Procs -> RunPCs \cup BuildPCs]
           /\ \A q \in Procs : pc'[q] \in Steps(q)
  BY <1>steps, PCs DEF Goto
<1>Crate. \A p \in Procs \ Builds, s \in {"verify", "load", "loaded", "failed"} :
           Goto(p, s) =>
           /\ pc' \in [Procs -> RunPCs \cup BuildPCs]
           /\ \A q \in Procs : pc'[q] \in Steps(q)
  BY <1>steps, PCs DEF Goto
<1>Build. \A p \in Procs \cap Builds : Goto(p, "done") =>
           /\ pc' \in [Procs -> RunPCs \cup BuildPCs]
           /\ \A q \in Procs : pc'[q] \in Steps(q)
  BY <1>steps, PCs DEF Goto
<1>GivesUp. \A p \in Procs : GivesUp(p) =>
           /\ pc' \in [Procs -> RunPCs \cup BuildPCs]
           /\ \A q \in Procs : pc'[q] \in Steps(q)
  BY <1>Crate, <1>Build DEF GivesUp
<1>Cut. \A p \in Procs : disturbed \subseteq Dirs => CutShort(p) \subseteq Dirs
  BY DEF CutShort
<1>Copy. ASSUME NEW p \in Procs, NEW v \in Picks(p), NEW w \in Outcomes(p, v), TypeOK,
                lib' = [lib EXCEPT ![Dest(p)] = [state |-> "part", version |-> w, by |-> p]]
         PROVE  lib' \in [Dirs -> Libs]
  <2>1. v \in Versions
    BY <1>Copy DEF Picks, Nested, Unpacked
  <2>2. w \in Versions \cup {NoVersion}
    BY <1>Copy, <2>1 DEF Outcomes
  <2>3. [state |-> "part", version |-> w, by |-> p] \in Libs
    BY <2>2 DEF Libs, Contents
  <2> QED
    BY <1>Copy, <2>3 DEF TypeOK
<1>keep. CASE UNCHANGED vars
  BY <1>keep DEF vars, TypeOK
<1>step. ASSUME NEW p \in Procs,
                \/ Start(p) \/ Check(p) \/ BuildCheck(p) \/ Fetch(p) \/ UnpackBegins(p)
                \/ UnpackEnds(p) \/ CopyBegins(p) \/ CopyEnds(p) \/ CopiesNothing(p)
                \/ FindsNothing(p) \/ RemoveTemp(p) \/ KeepTemp(p) \/ Verify(p) \/ Load(p)
                \/ Fault(p) \/ Robbed(p) \/ Stop(p)
         PROVE  TypeOK'
  <2>Start. CASE Start(p)
    BY <2>Start, <1>Goto, SetupConstants DEF Start, TypeOK
  <2>Check. CASE Check(p)
    BY <2>Check, <1>Goto, <1>Crate, <1>GivesUp DEF Check, Begins, Download, TypeOK
  <2>BuildCheck. CASE BuildCheck(p)
    BY <2>BuildCheck, <1>Goto, <1>Build, <1>GivesUp DEF BuildCheck, Begins, Download, TypeOK
  <2>Fetch. CASE Fetch(p)
    BY <2>Fetch, <1>Goto DEF Fetch, TypeOK
  <2>UnpackBegins. CASE UnpackBegins(p)
    <3>1. [v \in Versions |->
             IF v = ReleaseOf[p] THEN [state |-> "part", by |-> p]
             ELSE IF {v, ReleaseOf[p]} \subseteq Flat THEN NoTree ELSE tree[TempOf(p)][v]]
          \in [Versions -> Trees]
      BY DEF TypeOK, Trees, Contents
    <3>2. tree' \in [Temps -> [Versions -> Trees]]
      BY <2>UnpackBegins, <3>1 DEF UnpackBegins, TypeOK
    <3> QED
      BY <2>UnpackBegins, <1>Goto, <3>2 DEF UnpackBegins, TypeOK
  <2>UnpackEnds. CASE UnpackEnds(p)
    <3>1. tree' \in [Temps -> [Versions -> Trees]]
      BY <2>UnpackEnds DEF UnpackEnds, TypeOK, Trees, Contents
    <3> QED
      BY <2>UnpackEnds, <1>Goto, <3>1 DEF UnpackEnds, TypeOK
  <2>CopyBegins. CASE CopyBegins(p)
    <3>1. lib' \in [Dirs -> Libs]
      BY <2>CopyBegins, <1>Copy DEF CopyBegins
    <3> QED
      BY <2>CopyBegins, <1>Goto, <3>1 DEF CopyBegins, TypeOK
  <2>CopyEnds. CASE CopyEnds(p)
    <3>1. lib' \in [Dirs -> Libs]
      BY <2>CopyEnds DEF CopyEnds, TypeOK, Libs, Contents
    <3> QED
      BY <2>CopyEnds, <1>Goto, <3>1 DEF CopyEnds, TypeOK
  <2>CopiesNothing. CASE CopiesNothing(p)
    BY <2>CopiesNothing, <1>Goto DEF CopiesNothing, TypeOK
  <2>FindsNothing. CASE FindsNothing(p)
    BY <2>FindsNothing, <1>GivesUp DEF FindsNothing, TypeOK
  <2>RemoveTemp. CASE RemoveTemp(p)
    <3>1. tree' \in [Temps -> [Versions -> Trees]]
      BY <2>RemoveTemp DEF RemoveTemp, TypeOK
    <3> QED
      BY <2>RemoveTemp, <1>Crate, <1>Build, <3>1 DEF RemoveTemp, TypeOK
  <2>KeepTemp. CASE KeepTemp(p)
    BY <2>KeepTemp, <1>Crate, <1>Build, SetupConstants DEF KeepTemp, TypeOK
  <2>Verify. CASE Verify(p)
    <3>1. p \notin Builds
      BY <2>Verify DEF Verify, TypeOK, BuildPCs, Installs, Unpacks
    <3> QED
      BY <2>Verify, <1>Crate, <1>GivesUp, <3>1 DEF Verify, TypeOK
  <2>Load. CASE Load(p)
    <3>1. p \notin Builds
      BY <2>Load DEF Load, TypeOK, BuildPCs, Installs, Unpacks
    <3> QED
      BY <2>Load, <1>Crate, <1>GivesUp, <3>1 DEF Load, TypeOK
  <2>Fault. CASE Fault(p)
    BY <2>Fault, <1>GivesUp, <1>Cut, SetupConstants DEF Fault, TypeOK
  <2>Robbed. CASE Robbed(p)
    BY <2>Robbed, <1>GivesUp, <1>Cut DEF Robbed, TypeOK
  <2>Stop. CASE Stop(p)
    BY <2>Stop, <1>Goto, <1>Cut DEF Stop, TypeOK
  <2> QED
    BY <1>step, <2>Start, <2>Check, <2>BuildCheck, <2>Fetch, <2>UnpackBegins, <2>UnpackEnds,
       <2>CopyBegins, <2>CopyEnds, <2>CopiesNothing, <2>FindsNothing, <2>RemoveTemp,
       <2>KeepTemp, <2>Verify, <2>Load, <2>Fault, <2>Robbed, <2>Stop
<1> QED
  BY <1>keep, <1>step DEF Next


\* A second installer is a disturbance.


\* A second installer is a disturbance.


\* A second installer is a disturbance.


\* A second installer is a disturbance.


\* A second installer is a disturbance.


\* A second installer is a disturbance.


\* A second installer is a disturbance.
LEMMA AloneStep == ASSUME Inv, [Next]_vars PROVE Alone'
<1> USE Constants
<1>inv. TypeOK /\ Alone /\ Pieces /\ Files /\ Missing /\ Kept /\ Arrived /\ Versioned
  BY DEF Inv
<1>keep. CASE UNCHANGED vars
  BY <1>keep, <1>inv DEF vars, Alone, Undisturbed, Installs, Unpacks
<1>Start. ASSUME NEW p \in Procs, Start(p) PROVE Alone'
  BY <1>Start, <1>inv DEF Start, Goto, TypeOK, Alone, Undisturbed, Installs, Unpacks
<1>Check. ASSUME NEW p \in Procs, Check(p) PROVE Alone'
  BY <1>Check, <1>inv
     DEF Check, Begins, Download, CanInstall, GivesUp, Installing, Goto, TypeOK, Alone,
       Undisturbed, Installs, Unpacks, Dest
<1>BuildCheck. ASSUME NEW p \in Procs, BuildCheck(p) PROVE Alone'
  <2>1. CASE Goto(p, "done") /\ UNCHANGED disturbed
    BY <1>BuildCheck, <1>inv, <2>1
       DEF BuildCheck, Goto, TypeOK, Alone, Undisturbed, Installs, Unpacks
  <2>2. CASE Begins(p)
    BY <1>BuildCheck, <1>inv, <2>2
       DEF BuildCheck, Begins, Installing, Goto, TypeOK, Alone, Undisturbed, Installs, Unpacks,
           Dest
  <2> QED
    BY <1>BuildCheck, <2>1, <2>2 DEF BuildCheck, Download, GivesUp
<1>Fetch. ASSUME NEW p \in Procs, Fetch(p) PROVE Alone'
  BY <1>Fetch, <1>inv DEF Fetch, Goto, TypeOK, Alone, Undisturbed, Installs, Unpacks
<1>UnpackBegins. ASSUME NEW p \in Procs, UnpackBegins(p) PROVE Alone'
  BY <1>UnpackBegins, <1>inv DEF UnpackBegins, Goto, TypeOK, Alone, Undisturbed, Installs,
       Unpacks
<1>UnpackEnds. ASSUME NEW p \in Procs, UnpackEnds(p) PROVE Alone'
  BY <1>UnpackEnds, <1>inv DEF UnpackEnds, Goto, TypeOK, Alone, Undisturbed, Installs, Unpacks
<1>CopyBegins. ASSUME NEW p \in Procs, CopyBegins(p) PROVE Alone'
  BY <1>CopyBegins, <1>inv DEF CopyBegins, Goto, TypeOK, Alone, Undisturbed, Installs, Unpacks
<1>CopyEnds. ASSUME NEW p \in Procs, CopyEnds(p) PROVE Alone'
  BY <1>CopyEnds, <1>inv DEF CopyEnds, Goto, TypeOK, Alone, Undisturbed, Installs, Unpacks
<1>CopiesNothing. ASSUME NEW p \in Procs, CopiesNothing(p) PROVE Alone'
  BY <1>CopiesNothing, <1>inv DEF CopiesNothing, Goto, TypeOK, Alone, Undisturbed, Installs,
       Unpacks
<1>FindsNothing. ASSUME NEW p \in Procs, FindsNothing(p) PROVE Alone'
  BY <1>FindsNothing, <1>inv DEF FindsNothing, GivesUp, Goto, TypeOK, Alone, Undisturbed,
       Installs, Unpacks
<1>RemoveTemp. ASSUME NEW p \in Procs, RemoveTemp(p) PROVE Alone'
  BY <1>RemoveTemp, <1>inv DEF RemoveTemp, Goto, TypeOK, Alone, Undisturbed, Installs, Unpacks
<1>KeepTemp. ASSUME NEW p \in Procs, KeepTemp(p) PROVE Alone'
  BY <1>KeepTemp, <1>inv DEF KeepTemp, Goto, TypeOK, Alone, Undisturbed, Installs, Unpacks
<1>Verify. ASSUME NEW p \in Procs, Verify(p) PROVE Alone'
  BY <1>Verify, <1>inv DEF Verify, GivesUp, Goto, TypeOK, Alone, Undisturbed, Installs, Unpacks
<1>Load. ASSUME NEW p \in Procs, Load(p) PROVE Alone'
  BY <1>Load, <1>inv DEF Load, GivesUp, Goto, TypeOK, Alone, Undisturbed, Installs, Unpacks
<1>Fault. ASSUME NEW p \in Procs, Fault(p) PROVE Alone'
  BY <1>Fault, <1>inv DEF Fault, CutShort, GivesUp, Goto, TypeOK, Alone, Undisturbed, Installs,
       Unpacks
<1>Robbed. ASSUME NEW p \in Procs, Robbed(p) PROVE Alone'
  BY <1>Robbed, <1>inv DEF Robbed, CutShort, GivesUp, Goto, TypeOK, Alone, Undisturbed,
       Installs, Unpacks
<1>Stop. ASSUME NEW p \in Procs, Stop(p) PROVE Alone'
  BY <1>Stop, <1>inv DEF Stop, CutShort, Goto, TypeOK, Alone, Undisturbed, Installs, Unpacks
<1> QED
  BY <1>keep, <1>Start, <1>Check, <1>BuildCheck, <1>Fetch, <1>UnpackBegins, <1>UnpackEnds,
       <1>CopyBegins, <1>CopyEnds, <1>CopiesNothing, <1>FindsNothing, <1>RemoveTemp,
       <1>KeepTemp, <1>Verify, <1>Load, <1>Fault, <1>Robbed, <1>Stop DEF Next

\* A library appears when its installer copies.
LEMMA MissingStep == ASSUME Inv, [Next]_vars PROVE Missing'
<1> USE Constants
<1>inv. TypeOK /\ Alone /\ Pieces /\ Files /\ Missing /\ Kept /\ Arrived /\ Versioned
  BY DEF Inv
<1>keep. CASE UNCHANGED vars
  BY <1>keep, <1>inv DEF vars, Missing, Undisturbed, Installs, Unpacks
<1>Start. ASSUME NEW p \in Procs, Start(p) PROVE Missing'
  BY <1>Start, <1>inv DEF Start, Goto, TypeOK, Missing, Undisturbed, Installs, Unpacks
<1>Check. ASSUME NEW p \in Procs, Check(p) PROVE Missing'
  <2>1. CASE LibraryExists(p) \/ ~CanInstall(p)
    BY <1>Check, <1>inv, <2>1
       DEF Check, Download, GivesUp, Goto, TypeOK, Missing, Undisturbed, Installs, Unpacks
  <2>2. CASE ~LibraryExists(p) /\ CanInstall(p)
    <3>1. Dest(p) = "home" /\ lib["home"].state = "none"
      BY <1>Check, <2>2 DEF Check, LibraryExists, CanInstall, Dest, There
    <3> QED
      BY <1>Check, <1>inv, <2>2, <3>1
         DEF Check, Download, Begins, Goto, TypeOK, Missing, Undisturbed, Installs, Unpacks
  <2> QED
    BY <2>1, <2>2
<1>BuildCheck. ASSUME NEW p \in Procs, BuildCheck(p) PROVE Missing'
  BY <1>BuildCheck, <1>inv DEF BuildCheck, Begins, Download, CanInstall, GivesUp, Installing,
       BuildFinds, There, Goto, TypeOK,
       Missing, Undisturbed, Installs, Unpacks
<1>Fetch. ASSUME NEW p \in Procs, Fetch(p) PROVE Missing'
  BY <1>Fetch, <1>inv DEF Fetch, Goto, TypeOK, Missing, Undisturbed, Installs, Unpacks
<1>UnpackBegins. ASSUME NEW p \in Procs, UnpackBegins(p) PROVE Missing'
  BY <1>UnpackBegins, <1>inv DEF UnpackBegins, Goto, TypeOK, Missing, Undisturbed, Installs,
       Unpacks
<1>UnpackEnds. ASSUME NEW p \in Procs, UnpackEnds(p) PROVE Missing'
  BY <1>UnpackEnds, <1>inv DEF UnpackEnds, Goto, TypeOK, Missing, Undisturbed, Installs,
       Unpacks
<1>CopyBegins. ASSUME NEW p \in Procs, CopyBegins(p) PROVE Missing'
  <2>1. \A d \in Dirs \ {Dest(p)} : lib'[d] = lib[d]
    BY <1>CopyBegins, <1>inv DEF CopyBegins, TypeOK
  <2>2. \A q \in Procs : pc'[q] \in Installs \ {"copying", "clean"} =>
          q # p /\ pc'[q] = pc[q] /\ pc[p] \in Installs
    BY <1>CopyBegins, <1>inv DEF CopyBegins, Goto, TypeOK, Installs, Unpacks
  <2>3. UNCHANGED disturbed
    BY <1>CopyBegins DEF CopyBegins
  <2> QED
    BY <1>inv, <2>1, <2>2, <2>3 DEF Missing, Alone, Undisturbed
<1>CopyEnds. ASSUME NEW p \in Procs, CopyEnds(p) PROVE Missing'
  <2>1. \A d \in Dirs \ {Dest(p)} : lib'[d] = lib[d]
    BY <1>CopyEnds, <1>inv DEF CopyEnds, TypeOK
  <2>2. \A q \in Procs : pc'[q] \in Installs \ {"copying", "clean"} =>
          q # p /\ pc'[q] = pc[q] /\ pc[p] \in Installs
    BY <1>CopyEnds, <1>inv DEF CopyEnds, Goto, TypeOK, Installs, Unpacks
  <2>3. UNCHANGED disturbed
    BY <1>CopyEnds DEF CopyEnds
  <2> QED
    BY <1>inv, <2>1, <2>2, <2>3 DEF Missing, Alone, Undisturbed
<1>CopiesNothing. ASSUME NEW p \in Procs, CopiesNothing(p) PROVE Missing'
  BY <1>CopiesNothing, <1>inv DEF CopiesNothing, Goto, TypeOK, Missing, Undisturbed, Installs,
       Unpacks
<1>FindsNothing. ASSUME NEW p \in Procs, FindsNothing(p) PROVE Missing'
  BY <1>FindsNothing, <1>inv DEF FindsNothing, GivesUp, Goto, TypeOK, Missing, Undisturbed,
       Installs, Unpacks
<1>RemoveTemp. ASSUME NEW p \in Procs, RemoveTemp(p) PROVE Missing'
  BY <1>RemoveTemp, <1>inv DEF RemoveTemp, Goto, TypeOK, Missing, Undisturbed, Installs,
       Unpacks
<1>KeepTemp. ASSUME NEW p \in Procs, KeepTemp(p) PROVE Missing'
  BY <1>KeepTemp, <1>inv DEF KeepTemp, Goto, TypeOK, Missing, Undisturbed, Installs, Unpacks
<1>Verify. ASSUME NEW p \in Procs, Verify(p) PROVE Missing'
  BY <1>Verify, <1>inv DEF Verify, GivesUp, Goto, TypeOK, Missing, Undisturbed, Installs,
       Unpacks
<1>Load. ASSUME NEW p \in Procs, Load(p) PROVE Missing'
  BY <1>Load, <1>inv DEF Load, GivesUp, Goto, TypeOK, Missing, Undisturbed, Installs, Unpacks
<1>Fault. ASSUME NEW p \in Procs, Fault(p) PROVE Missing'
  BY <1>Fault, <1>inv DEF Fault, CutShort, GivesUp, Goto, TypeOK, Missing, Undisturbed,
       Installs, Unpacks
<1>Robbed. ASSUME NEW p \in Procs, Robbed(p) PROVE Missing'
  BY <1>Robbed, <1>inv DEF Robbed, CutShort, GivesUp, Goto, TypeOK, Missing, Undisturbed,
       Installs, Unpacks
<1>Stop. ASSUME NEW p \in Procs, Stop(p) PROVE Missing'
  BY <1>Stop, <1>inv DEF Stop, CutShort, Goto, TypeOK, Missing, Undisturbed, Installs, Unpacks
<1> QED
  BY <1>keep, <1>Start, <1>Check, <1>BuildCheck, <1>Fetch, <1>UnpackBegins, <1>UnpackEnds,
       <1>CopyBegins, <1>CopyEnds, <1>CopiesNothing, <1>FindsNothing, <1>RemoveTemp,
       <1>KeepTemp, <1>Verify, <1>Load, <1>Fault, <1>Robbed, <1>Stop DEF Next

\* A file half copied has a copier, and comes from a whole one.
LEMMA FilesStep == ASSUME Inv, [Next]_vars PROVE Files'
<1> USE Constants
<1>inv. TypeOK /\ Alone /\ Pieces /\ Files /\ Missing /\ Kept /\ Arrived /\ Versioned
  BY DEF Inv
<1>keep. CASE UNCHANGED vars
  BY <1>keep, <1>inv DEF vars, Files, Undisturbed, Installs, Unpacks
<1>Start. ASSUME NEW p \in Procs, Start(p) PROVE Files'
  BY <1>Start, <1>inv DEF Start, Goto, TypeOK, Files, Undisturbed, Installs, Unpacks
<1>Check. ASSUME NEW p \in Procs, Check(p) PROVE Files'
  BY <1>Check, <1>inv DEF Check, Begins, Download, CanInstall, GivesUp, Installing, Goto,
       TypeOK, Files, Undisturbed, Installs,
       Unpacks
<1>BuildCheck. ASSUME NEW p \in Procs, BuildCheck(p) PROVE Files'
  BY <1>BuildCheck, <1>inv DEF BuildCheck, Begins, Download, CanInstall, GivesUp, Installing,
       BuildFinds, There, Goto, TypeOK,
       Files, Undisturbed, Installs, Unpacks
<1>Fetch. ASSUME NEW p \in Procs, Fetch(p) PROVE Files'
  BY <1>Fetch, <1>inv DEF Fetch, Goto, TypeOK, Files, Undisturbed, Installs, Unpacks
<1>UnpackBegins. ASSUME NEW p \in Procs, UnpackBegins(p) PROVE Files'
  BY <1>UnpackBegins, <1>inv DEF UnpackBegins, Goto, TypeOK, Files, Undisturbed, Installs,
       Unpacks
<1>UnpackEnds. ASSUME NEW p \in Procs, UnpackEnds(p) PROVE Files'
  BY <1>UnpackEnds, <1>inv DEF UnpackEnds, Goto, TypeOK, Files, Undisturbed, Installs, Unpacks
<1>CopyBegins. ASSUME NEW p \in Procs, CopyBegins(p) PROVE Files'
  <2>1. PICK v \in Picks(p) : \E w \in Outcomes(p, v) :
          lib' = [lib EXCEPT ![Dest(p)] = [state |-> "part", version |-> w, by |-> p]]
    BY <1>CopyBegins DEF CopyBegins
  <2>2. PICK w \in Outcomes(p, v) :
          lib' = [lib EXCEPT ![Dest(p)] = [state |-> "part", version |-> w, by |-> p]]
    BY <2>1
  <2>3. v \in Versions /\ tree[TempOf(p)][v].state # "none"
    BY DEF Picks, Nested, Unpacked
  <2>4. Dest(p) \notin disturbed => tree[TempOf(p)][v].state = "whole"
    <3>1. SUFFICES ASSUME Dest(p) \notin disturbed, tree[TempOf(p)][v].state = "part"
                   PROVE  FALSE
      BY <1>inv, <2>3 DEF TypeOK, Trees, Contents
    <3>2. PICK q \in Procs : pc[q] = "unpacking" /\ TempOf(q) = TempOf(p)
      BY <1>inv, <2>3, <3>1 DEF Pieces
    <3>3. Dest(q) = Dest(p) /\ q # p
      BY <1>CopyBegins, <3>2 DEF CopyBegins
    <3> QED
      BY <1>CopyBegins, <1>inv, <3>1, <3>2, <3>3
         DEF CopyBegins, Alone, Undisturbed, Installs, Unpacks
  <2>5. Dest(p) \notin disturbed => Copying(Dest(p)) = {}
    BY <1>CopyBegins, <1>inv DEF CopyBegins, Copying, Alone, Undisturbed, Installs, Unpacks
  <2>6. Dest(p) \notin disturbed => w # NoVersion
    BY <2>2, <2>3, <2>4, <2>5 DEF Outcomes
  <2>7. \A d \in Dirs \ {Dest(p)} : lib'[d] = lib[d]
    BY <2>2, <1>inv DEF TypeOK
  <2>8. lib'[Dest(p)].version = w /\ lib'[Dest(p)].by = p
    BY <2>2, <1>inv DEF TypeOK
  <2>9. pc'[p] = "copying" /\ (\A q \in Procs : pc[q] = "copying" => pc'[q] = pc[q])
    BY <1>CopyBegins, <1>inv DEF CopyBegins, Goto, TypeOK
  <2>10. UNCHANGED disturbed
    BY <1>CopyBegins DEF CopyBegins
  <2> QED
    BY <1>inv, <2>6, <2>7, <2>8, <2>9, <2>10 DEF Files, Undisturbed
<1>CopyEnds. ASSUME NEW p \in Procs, CopyEnds(p) PROVE Files'
  BY <1>CopyEnds, <1>inv DEF CopyEnds, Goto, TypeOK, Files, Undisturbed, Installs, Unpacks
<1>CopiesNothing. ASSUME NEW p \in Procs, CopiesNothing(p) PROVE Files'
  BY <1>CopiesNothing, <1>inv DEF CopiesNothing, Goto, TypeOK, Files, Undisturbed, Installs,
       Unpacks
<1>FindsNothing. ASSUME NEW p \in Procs, FindsNothing(p) PROVE Files'
  BY <1>FindsNothing, <1>inv DEF FindsNothing, GivesUp, Goto, TypeOK, Files, Undisturbed,
       Installs, Unpacks
<1>RemoveTemp. ASSUME NEW p \in Procs, RemoveTemp(p) PROVE Files'
  BY <1>RemoveTemp, <1>inv DEF RemoveTemp, Goto, TypeOK, Files, Undisturbed, Installs, Unpacks
<1>KeepTemp. ASSUME NEW p \in Procs, KeepTemp(p) PROVE Files'
  BY <1>KeepTemp, <1>inv DEF KeepTemp, Goto, TypeOK, Files, Undisturbed, Installs, Unpacks
<1>Verify. ASSUME NEW p \in Procs, Verify(p) PROVE Files'
  BY <1>Verify, <1>inv DEF Verify, GivesUp, Goto, TypeOK, Files, Undisturbed, Installs, Unpacks
<1>Load. ASSUME NEW p \in Procs, Load(p) PROVE Files'
  BY <1>Load, <1>inv DEF Load, GivesUp, Goto, TypeOK, Files, Undisturbed, Installs, Unpacks
<1>Fault. ASSUME NEW p \in Procs, Fault(p) PROVE Files'
  BY <1>Fault, <1>inv DEF Fault, CutShort, GivesUp, Goto, TypeOK, Files, Undisturbed, Installs,
       Unpacks
<1>Robbed. ASSUME NEW p \in Procs, Robbed(p) PROVE Files'
  BY <1>Robbed, <1>inv DEF Robbed, CutShort, GivesUp, Goto, TypeOK, Files, Undisturbed,
       Installs, Unpacks
<1>Stop. ASSUME NEW p \in Procs, Stop(p) PROVE Files'
  BY <1>Stop, <1>inv DEF Stop, CutShort, Goto, TypeOK, Files, Undisturbed, Installs, Unpacks
<1> QED
  BY <1>keep, <1>Start, <1>Check, <1>BuildCheck, <1>Fetch, <1>UnpackBegins, <1>UnpackEnds,
       <1>CopyBegins, <1>CopyEnds, <1>CopiesNothing, <1>FindsNothing, <1>RemoveTemp,
       <1>KeepTemp, <1>Verify, <1>Load, <1>Fault, <1>Robbed, <1>Stop DEF Next

\* A tree half unpacked has an unpacker.
LEMMA PiecesStep == ASSUME Inv, [Next]_vars PROVE Pieces'
<1> USE Constants
<1>inv. TypeOK /\ Alone /\ Pieces /\ Files /\ Missing /\ Kept /\ Arrived /\ Versioned
  BY DEF Inv
<1>keep. CASE UNCHANGED vars
  BY <1>keep, <1>inv DEF vars, Pieces, Undisturbed, Installs, Unpacks
<1>Start. ASSUME NEW p \in Procs, Start(p) PROVE Pieces'
  BY <1>Start, <1>inv DEF Start, Goto, TypeOK, Pieces, Undisturbed, Installs, Unpacks
<1>Check. ASSUME NEW p \in Procs, Check(p) PROVE Pieces'
  BY <1>Check, <1>inv DEF Check, Begins, Download, CanInstall, GivesUp, Installing, Goto,
       TypeOK, Pieces, Undisturbed,
       Installs, Unpacks
<1>BuildCheck. ASSUME NEW p \in Procs, BuildCheck(p) PROVE Pieces'
  BY <1>BuildCheck, <1>inv DEF BuildCheck, Begins, Download, CanInstall, GivesUp, Installing,
       BuildFinds, There, Goto, TypeOK,
       Pieces, Undisturbed, Installs, Unpacks
<1>Fetch. ASSUME NEW p \in Procs, Fetch(p) PROVE Pieces'
  BY <1>Fetch, <1>inv DEF Fetch, Goto, TypeOK, Pieces, Undisturbed, Installs, Unpacks
<1>UnpackBegins. ASSUME NEW p \in Procs, UnpackBegins(p) PROVE Pieces'
  <2>1. \A t \in Temps \ {TempOf(p)} : tree'[t] = tree[t]
    BY <1>UnpackBegins, <1>inv DEF UnpackBegins, TypeOK
  <2>2. \A v \in Versions : tree'[TempOf(p)][v] =
          IF v = ReleaseOf[p] THEN [state |-> "part", by |-> p]
          ELSE IF {v, ReleaseOf[p]} \subseteq Flat THEN NoTree ELSE tree[TempOf(p)][v]
    BY <1>UnpackBegins, <1>inv DEF UnpackBegins, TypeOK
  <2>3. pc'[p] = "unpacking" /\ \A q \in Procs : pc[q] = "unpacking" => pc'[q] = pc[q]
    BY <1>UnpackBegins, <1>inv DEF UnpackBegins, Goto, TypeOK
  <2>4. UNCHANGED disturbed
    BY <1>UnpackBegins DEF UnpackBegins
  <2>5. Dest(p) \notin disturbed => \A v \in Versions : tree[TempOf(p)][v].state # "part"
    BY <1>UnpackBegins, <1>inv
       DEF UnpackBegins, Pieces, Alone, Undisturbed, Installs, Unpacks
  <2>6. ASSUME NEW v \in Versions, Dest(p) \notin disturbed,
               tree'[TempOf(p)][v].state = "part"
        PROVE  v = ReleaseOf[p] /\ tree'[TempOf(p)][v].by = p
    BY <2>2, <2>5, <2>6 DEF NoTree
  <2>7. ASSUME NEW t \in Temps, NEW v \in Versions, t[1] \notin disturbed,
               tree'[t][v].state = "part"
        PROVE  /\ tree'[t][v].by \in Procs /\ ReleaseOf[tree'[t][v].by] = v
               /\ pc'[tree'[t][v].by] = "unpacking" /\ TempOf(tree'[t][v].by) = t
    <3>1. CASE t = TempOf(p)
      BY <2>3, <2>6, <2>7, <3>1
    <3>2. CASE t # TempOf(p)
      BY <1>inv, <2>1, <2>3, <2>7, <3>2 DEF Pieces
    <3> QED
      BY <3>1, <3>2
  <2> QED
    BY <2>4, <2>7 DEF Pieces
<1>UnpackEnds. ASSUME NEW p \in Procs, UnpackEnds(p) PROVE Pieces'
  <2>1. \A t \in Temps, v \in Versions :
          t # TempOf(p) \/ v # ReleaseOf[p] => tree'[t][v] = tree[t][v]
    BY <1>UnpackEnds, <1>inv DEF UnpackEnds, TypeOK
  <2>2. tree'[TempOf(p)][ReleaseOf[p]] =
          IF tree[TempOf(p)][ReleaseOf[p]] = [state |-> "part", by |-> p]
          THEN [state |-> "whole", by |-> NoProc] ELSE tree[TempOf(p)][ReleaseOf[p]]
    BY <1>UnpackEnds, <1>inv DEF UnpackEnds, TypeOK
  <2>3. \A q \in Procs \ {p} : pc'[q] = pc[q]
    BY <1>UnpackEnds, <1>inv DEF UnpackEnds, Goto, TypeOK
  <2>4. pc[p] = "unpacking" /\ UNCHANGED disturbed
    BY <1>UnpackEnds DEF UnpackEnds
  <2>5. ASSUME NEW t \in Temps, NEW v \in Versions, t[1] \notin disturbed,
               tree'[t][v].state = "part"
        PROVE  /\ tree[t][v] = tree'[t][v]
               /\ tree[t][v].by # p
    <3>1. tree[t][v] = tree'[t][v] /\ (t # TempOf(p) \/ v # ReleaseOf[p] \/ tree[t][v].by # p)
      <4>1. CASE t # TempOf(p) \/ v # ReleaseOf[p]
        BY <2>1, <4>1
      <4>2. CASE t = TempOf(p) /\ v = ReleaseOf[p]
        <5>1. tree[t][v] \in Trees
          BY <1>inv DEF TypeOK
        <5> QED
          BY <2>2, <2>5, <4>2, <5>1 DEF Trees
      <4> QED
        BY <4>1, <4>2
    <3> QED
      BY <1>inv, <2>5, <3>1 DEF Pieces
  <2> QED
    BY <1>inv, <2>3, <2>4, <2>5 DEF Pieces
<1>CopyBegins. ASSUME NEW p \in Procs, CopyBegins(p) PROVE Pieces'
  BY <1>CopyBegins, <1>inv DEF CopyBegins, Goto, TypeOK, Pieces, Undisturbed, Installs, Unpacks
<1>CopyEnds. ASSUME NEW p \in Procs, CopyEnds(p) PROVE Pieces'
  BY <1>CopyEnds, <1>inv DEF CopyEnds, Goto, TypeOK, Pieces, Undisturbed, Installs, Unpacks
<1>CopiesNothing. ASSUME NEW p \in Procs, CopiesNothing(p) PROVE Pieces'
  BY <1>CopiesNothing, <1>inv DEF CopiesNothing, Goto, TypeOK, Pieces, Undisturbed, Installs,
       Unpacks
<1>FindsNothing. ASSUME NEW p \in Procs, FindsNothing(p) PROVE Pieces'
  BY <1>FindsNothing, <1>inv DEF FindsNothing, GivesUp, Goto, TypeOK, Pieces, Undisturbed,
       Installs, Unpacks
<1>RemoveTemp. ASSUME NEW p \in Procs, RemoveTemp(p) PROVE Pieces'
  <2>1. \A t \in Temps \ {TempOf(p)} : tree'[t] = tree[t]
    BY <1>RemoveTemp, <1>inv DEF RemoveTemp, TypeOK
  <2>2. \A v \in Versions : tree'[TempOf(p)][v].state = "none"
    BY <1>RemoveTemp, <1>inv DEF RemoveTemp, TypeOK, NoTree
  <2>3. \A q \in Procs : pc[q] = "unpacking" => pc'[q] = pc[q]
    BY <1>RemoveTemp, <1>inv DEF RemoveTemp, Goto, TypeOK
  <2>4. UNCHANGED disturbed
    BY <1>RemoveTemp DEF RemoveTemp
  <2> QED
    BY <1>inv, <2>1, <2>2, <2>3, <2>4 DEF Pieces
<1>KeepTemp. ASSUME NEW p \in Procs, KeepTemp(p) PROVE Pieces'
  BY <1>KeepTemp, <1>inv DEF KeepTemp, Goto, TypeOK, Pieces, Undisturbed, Installs, Unpacks
<1>Verify. ASSUME NEW p \in Procs, Verify(p) PROVE Pieces'
  BY <1>Verify, <1>inv DEF Verify, GivesUp, Goto, TypeOK, Pieces, Undisturbed, Installs,
       Unpacks
<1>Load. ASSUME NEW p \in Procs, Load(p) PROVE Pieces'
  BY <1>Load, <1>inv DEF Load, GivesUp, Goto, TypeOK, Pieces, Undisturbed, Installs, Unpacks
<1>Fault. ASSUME NEW p \in Procs, Fault(p) PROVE Pieces'
  BY <1>Fault, <1>inv DEF Fault, CutShort, GivesUp, Goto, TypeOK, Pieces, Undisturbed,
       Installs,
       Unpacks
<1>Robbed. ASSUME NEW p \in Procs, Robbed(p) PROVE Pieces'
  BY <1>Robbed, <1>inv DEF Robbed, CutShort, GivesUp, Goto, TypeOK, Pieces, Undisturbed,
       Installs, Unpacks
<1>Stop. ASSUME NEW p \in Procs, Stop(p) PROVE Pieces'
  BY <1>Stop, <1>inv DEF Stop, CutShort, Goto, TypeOK, Pieces, Undisturbed, Installs, Unpacks
<1> QED
  BY <1>keep, <1>Start, <1>Check, <1>BuildCheck, <1>Fetch, <1>UnpackBegins, <1>UnpackEnds,
       <1>CopyBegins, <1>CopyEnds, <1>CopiesNothing, <1>FindsNothing, <1>RemoveTemp,
       <1>KeepTemp, <1>Verify, <1>Load, <1>Fault, <1>Robbed, <1>Stop DEF Next

\* Only its process removes a tree.
LEMMA KeptStep == ASSUME Inv, [Next]_vars PROVE Kept'
<1> USE Constants
<1>inv. TypeOK /\ Alone /\ Pieces /\ Files /\ Missing /\ Kept /\ Arrived /\ Versioned
  BY DEF Inv
<1>keep. CASE UNCHANGED vars
  BY <1>keep, <1>inv DEF vars, Kept, Undisturbed, Installs, Unpacks
<1>Start. ASSUME NEW p \in Procs, Start(p) PROVE Kept'
  BY <1>Start, <1>inv DEF Start, Goto, TypeOK, Kept, Undisturbed, Installs, Unpacks
<1>Check. ASSUME NEW p \in Procs, Check(p) PROVE Kept'
  BY <1>Check, <1>inv DEF Check, Begins, Download, CanInstall, GivesUp, Installing, Goto,
       TypeOK, Kept, Undisturbed, Installs,
       Unpacks
<1>BuildCheck. ASSUME NEW p \in Procs, BuildCheck(p) PROVE Kept'
  BY <1>BuildCheck, <1>inv DEF BuildCheck, Begins, Download, CanInstall, GivesUp, Installing,
       BuildFinds, There, Goto, TypeOK,
       Kept, Undisturbed, Installs, Unpacks
<1>Fetch. ASSUME NEW p \in Procs, Fetch(p) PROVE Kept'
  BY <1>Fetch, <1>inv DEF Fetch, Goto, TypeOK, Kept, Undisturbed, Installs, Unpacks
<1>UnpackBegins. ASSUME NEW p \in Procs, UnpackBegins(p) PROVE Kept'
  <2>1. \A t \in Temps \ {TempOf(p)} : tree'[t] = tree[t]
    BY <1>UnpackBegins, <1>inv DEF UnpackBegins, TypeOK
  <2>2. ASSUME NEW q \in Procs \ {p}, Dest(q) \notin disturbed,
               pc[q] \in {"unpacking", "flatten", "copying"}
        PROVE  tree'[TempOf(q)] = tree[TempOf(q)]
    <3>1. Dest(q) # Dest(p)
      BY <1>UnpackBegins, <1>inv, <2>2 DEF UnpackBegins, Alone, Undisturbed, Installs, Unpacks
    <3> QED
      BY <2>1, <3>1
  <2>3. \A q \in Procs \ {p} : pc'[q] = pc[q]
    BY <1>UnpackBegins, <1>inv DEF UnpackBegins, Goto, TypeOK
  <2>4. UNCHANGED disturbed
    BY <1>UnpackBegins DEF UnpackBegins
  <2>5. /\ pc'[p] = "unpacking"
        /\ tree'[TempOf(p)][ReleaseOf[p]] = [state |-> "part", by |-> p]
    BY <1>UnpackBegins, <1>inv DEF UnpackBegins, Goto, TypeOK
  <2> QED
    BY <1>inv, <2>2, <2>3, <2>4, <2>5 DEF Kept
<1>UnpackEnds. ASSUME NEW p \in Procs, UnpackEnds(p) PROVE Kept'
  BY <1>UnpackEnds, <1>inv DEF UnpackEnds, Goto, TypeOK, Kept, Undisturbed, Installs, Unpacks
<1>CopyBegins. ASSUME NEW p \in Procs, CopyBegins(p) PROVE Kept'
  BY <1>CopyBegins, <1>inv DEF CopyBegins, Goto, TypeOK, Kept, Undisturbed, Installs, Unpacks
<1>CopyEnds. ASSUME NEW p \in Procs, CopyEnds(p) PROVE Kept'
  BY <1>CopyEnds, <1>inv DEF CopyEnds, Goto, TypeOK, Kept, Undisturbed, Installs, Unpacks
<1>CopiesNothing. ASSUME NEW p \in Procs, CopiesNothing(p) PROVE Kept'
  BY <1>CopiesNothing, <1>inv DEF CopiesNothing, Goto, TypeOK, Kept, Undisturbed, Installs,
       Unpacks
<1>FindsNothing. ASSUME NEW p \in Procs, FindsNothing(p) PROVE Kept'
  BY <1>FindsNothing, <1>inv DEF FindsNothing, GivesUp, Goto, TypeOK, Kept, Undisturbed,
       Installs, Unpacks
<1>RemoveTemp. ASSUME NEW p \in Procs, RemoveTemp(p) PROVE Kept'
  <2>1. \A t \in Temps \ {TempOf(p)} : tree'[t] = tree[t]
    BY <1>RemoveTemp, <1>inv DEF RemoveTemp, TypeOK
  <2>2. ASSUME NEW q \in Procs \ {p}, Dest(q) \notin disturbed,
               pc[q] \in {"unpacking", "flatten", "copying"}
        PROVE  tree'[TempOf(q)] = tree[TempOf(q)]
    <3>1. Dest(q) # Dest(p)
      BY <1>RemoveTemp, <1>inv, <2>2 DEF RemoveTemp, Alone, Undisturbed, Installs, Unpacks
    <3> QED
      BY <2>1, <3>1
  <2>3. \A q \in Procs \ {p} : pc'[q] = pc[q]
    BY <1>RemoveTemp, <1>inv DEF RemoveTemp, Goto, TypeOK
  <2>4. UNCHANGED disturbed
    BY <1>RemoveTemp DEF RemoveTemp
  <2>5. pc'[p] \in {"done", "verify"}
    BY <1>RemoveTemp, <1>inv DEF RemoveTemp, Goto, TypeOK
  <2> QED
    BY <1>inv, <2>2, <2>3, <2>4, <2>5 DEF Kept
<1>KeepTemp. ASSUME NEW p \in Procs, KeepTemp(p) PROVE Kept'
  BY <1>KeepTemp, <1>inv DEF KeepTemp, Goto, TypeOK, Kept, Undisturbed, Installs, Unpacks
<1>Verify. ASSUME NEW p \in Procs, Verify(p) PROVE Kept'
  BY <1>Verify, <1>inv DEF Verify, GivesUp, Goto, TypeOK, Kept, Undisturbed, Installs, Unpacks
<1>Load. ASSUME NEW p \in Procs, Load(p) PROVE Kept'
  BY <1>Load, <1>inv DEF Load, GivesUp, Goto, TypeOK, Kept, Undisturbed, Installs, Unpacks
<1>Fault. ASSUME NEW p \in Procs, Fault(p) PROVE Kept'
  BY <1>Fault, <1>inv DEF Fault, CutShort, GivesUp, Goto, TypeOK, Kept, Undisturbed, Installs,
       Unpacks
<1>Robbed. ASSUME NEW p \in Procs, Robbed(p) PROVE Kept'
  BY <1>Robbed, <1>inv DEF Robbed, CutShort, GivesUp, Goto, TypeOK, Kept, Undisturbed,
       Installs,
       Unpacks
<1>Stop. ASSUME NEW p \in Procs, Stop(p) PROVE Kept'
  BY <1>Stop, <1>inv DEF Stop, CutShort, Goto, TypeOK, Kept, Undisturbed, Installs, Unpacks
<1> QED
  BY <1>keep, <1>Start, <1>Check, <1>BuildCheck, <1>Fetch, <1>UnpackBegins, <1>UnpackEnds,
       <1>CopyBegins, <1>CopyEnds, <1>CopiesNothing, <1>FindsNothing, <1>RemoveTemp,
       <1>KeepTemp, <1>Verify, <1>Load, <1>Fault, <1>Robbed, <1>Stop DEF Next

\* A library that is there stays there.
LEMMA ArrivedStep == ASSUME Inv, [Next]_vars PROVE Arrived'
<1> USE Constants
<1>inv. TypeOK /\ Alone /\ Pieces /\ Files /\ Missing /\ Kept /\ Arrived /\ Versioned
  BY DEF Inv
<1>keep. CASE UNCHANGED vars
  BY <1>keep, <1>inv DEF vars, Arrived, There, Found, Undisturbed, Installs, Unpacks
<1>Start. ASSUME NEW p \in Procs, Start(p) PROVE Arrived'
  BY <1>Start, <1>inv DEF Start, Goto, TypeOK, Arrived, There, Found, Undisturbed, Installs,
       Unpacks
<1>Check. ASSUME NEW p \in Procs, Check(p) PROVE Arrived'
  BY <1>Check, <1>inv
     DEF Check, Begins, Download, CanInstall, GivesUp, LibraryExists, Goto, TypeOK, Arrived,
       There, Found
<1>BuildCheck. ASSUME NEW p \in Procs, BuildCheck(p) PROVE Arrived'
  BY <1>BuildCheck, <1>inv DEF BuildCheck, Begins, Download, CanInstall, GivesUp, Installing,
       BuildFinds, There, Goto, TypeOK,
       Arrived, Found, Undisturbed, Installs, Unpacks
<1>Fetch. ASSUME NEW p \in Procs, Fetch(p) PROVE Arrived'
  BY <1>Fetch, <1>inv DEF Fetch, Goto, TypeOK, Arrived, There, Found, Undisturbed, Installs,
       Unpacks
<1>UnpackBegins. ASSUME NEW p \in Procs, UnpackBegins(p) PROVE Arrived'
  BY <1>UnpackBegins, <1>inv DEF UnpackBegins, Goto, TypeOK, Arrived, There, Found,
       Undisturbed,
       Installs, Unpacks
<1>UnpackEnds. ASSUME NEW p \in Procs, UnpackEnds(p) PROVE Arrived'
  BY <1>UnpackEnds, <1>inv DEF UnpackEnds, Goto, TypeOK, Arrived, There, Found, Undisturbed,
       Installs, Unpacks
<1>CopyBegins. ASSUME NEW p \in Procs, CopyBegins(p) PROVE Arrived'
  <2>1. PICK w : lib' = [lib EXCEPT ![Dest(p)] = [state |-> "part", version |-> w, by |-> p]]
    BY <1>CopyBegins DEF CopyBegins
  <2>2. \A d \in Dirs : There(d) => There(d)'
    BY <2>1, <1>inv DEF TypeOK, There
  <2>3. \A q \in Procs : There(Found(q)) => There(Found(q))'
    BY <2>2 DEF There, Found, Dirs
  <2>4. p \notin Builds => There("home")'
    BY <2>1, <1>inv DEF TypeOK, There, Dest, Dirs
  <2>5. pc'[p] = "copying" /\ \A q \in Procs \ {p} : pc'[q] = pc[q]
    BY <1>CopyBegins, <1>inv DEF CopyBegins, Goto, TypeOK
  <2>6. UNCHANGED disturbed
    BY <1>CopyBegins DEF CopyBegins
  <2> QED
    BY <1>inv, <2>2, <2>3, <2>4, <2>5, <2>6 DEF Arrived, Dirs
<1>CopyEnds. ASSUME NEW p \in Procs, CopyEnds(p) PROVE Arrived'
  <2>1. \A d \in Dirs : There(d) => There(d)'
    BY <1>CopyEnds, <1>inv DEF CopyEnds, TypeOK, Libs, There
  <2>2. \A q \in Procs : There(Found(q)) => There(Found(q))'
    BY <2>1 DEF There, Found, Dirs
  <2>3. pc[p] = "copying" /\ pc'[p] = "clean" /\ \A q \in Procs \ {p} : pc'[q] = pc[q]
    BY <1>CopyEnds, <1>inv DEF CopyEnds, Goto, TypeOK
  <2>4. UNCHANGED disturbed
    BY <1>CopyEnds DEF CopyEnds
  <2>5. ASSUME NEW q \in Procs \ Builds
        PROVE  /\ pc'[q] \in {"copying", "clean", "verify"} /\ "home" \notin disturbed
                    => There("home")'
               /\ pc'[q] = "load" => There(Found(q))'
    <3>1. pc'[q] = "load" => There(Found(q))
      BY <1>inv, <2>3 DEF Arrived
    <3>2. pc'[q] \in {"copying", "clean", "verify"} /\ "home" \notin disturbed => There("home")
      BY <1>inv, <2>3 DEF Arrived
    <3> QED
      BY <2>1, <2>2, <3>1, <3>2 DEF Dirs
  <2> QED
    BY <2>4, <2>5 DEF Arrived
<1>CopiesNothing. ASSUME NEW p \in Procs, CopiesNothing(p) PROVE Arrived'
  <2>1. p \in Builds \/ "home" \in disturbed
    <3>1. SUFFICES ASSUME p \notin Builds, "home" \notin disturbed PROVE FALSE
      OBVIOUS
    <3>2. Dest(p) = "home"
      BY <3>1 DEF Dest
    <3>3. PICK v \in Versions : tree[TempOf(p)][v].state = "part"
      BY <1>CopiesNothing, <3>1 DEF CopiesNothing, Picks, Nested, Unpacked
    <3>4. PICK q \in Procs : pc[q] = "unpacking" /\ TempOf(q) = TempOf(p)
      BY <1>inv, <3>1, <3>2, <3>3 DEF Pieces
    <3>5. Dest(q) = "home" /\ q # p
      BY <1>CopiesNothing, <3>2, <3>4 DEF CopiesNothing
    <3> QED
      BY <1>CopiesNothing, <1>inv, <3>1, <3>2, <3>4, <3>5
         DEF CopiesNothing, Alone, Undisturbed, Dirs, Installs, Unpacks
  <2> QED
    BY <1>CopiesNothing, <1>inv, <2>1 DEF CopiesNothing, Goto, TypeOK, Arrived, There, Found
<1>FindsNothing. ASSUME NEW p \in Procs, FindsNothing(p) PROVE Arrived'
  BY <1>FindsNothing, <1>inv DEF FindsNothing, GivesUp, Goto, TypeOK, Arrived, There, Found,
       Undisturbed, Installs, Unpacks
<1>RemoveTemp. ASSUME NEW p \in Procs, RemoveTemp(p) PROVE Arrived'
  BY <1>RemoveTemp, <1>inv DEF RemoveTemp, Goto, TypeOK, Arrived, There, Found, Undisturbed,
       Installs, Unpacks
<1>KeepTemp. ASSUME NEW p \in Procs, KeepTemp(p) PROVE Arrived'
  BY <1>KeepTemp, <1>inv DEF KeepTemp, Goto, TypeOK, Arrived, There, Found, Undisturbed,
       Installs, Unpacks
<1>Verify. ASSUME NEW p \in Procs, Verify(p) PROVE Arrived'
  BY <1>Verify, <1>inv DEF Verify, GivesUp, Goto, TypeOK, Arrived, There, Found, Undisturbed,
       Installs, Unpacks
<1>Load. ASSUME NEW p \in Procs, Load(p) PROVE Arrived'
  BY <1>Load, <1>inv DEF Load, GivesUp, Goto, TypeOK, Arrived, There, Found, Undisturbed,
       Installs, Unpacks
<1>Fault. ASSUME NEW p \in Procs, Fault(p) PROVE Arrived'
  BY <1>Fault, <1>inv DEF Fault, CutShort, GivesUp, Goto, TypeOK, Arrived, There, Found,
       Undisturbed, Installs, Unpacks
<1>Robbed. ASSUME NEW p \in Procs, Robbed(p) PROVE Arrived'
  BY <1>Robbed, <1>inv DEF Robbed, CutShort, GivesUp, Goto, TypeOK, Arrived, There, Found,
       Undisturbed, Installs, Unpacks
<1>Stop. ASSUME NEW p \in Procs, Stop(p) PROVE Arrived'
  BY <1>Stop, <1>inv DEF Stop, CutShort, Goto, TypeOK, Arrived, There, Found, Undisturbed,
       Installs, Unpacks
<1> QED
  BY <1>keep, <1>Start, <1>Check, <1>BuildCheck, <1>Fetch, <1>UnpackBegins, <1>UnpackEnds,
       <1>CopyBegins, <1>CopyEnds, <1>CopiesNothing, <1>FindsNothing, <1>RemoveTemp,
       <1>KeepTemp, <1>Verify, <1>Load, <1>Fault, <1>Robbed, <1>Stop DEF Next

\* A copy becomes whole only if it has a version.
LEMMA VersionedStep == ASSUME Inv, [Next]_vars PROVE Versioned'
<1> USE Constants
<1>inv. TypeOK /\ Alone /\ Pieces /\ Files /\ Missing /\ Kept /\ Arrived /\ Versioned
  BY DEF Inv
<1>keep. CASE UNCHANGED vars
  BY <1>keep, <1>inv DEF vars, Versioned, Libs, Contents, Undisturbed, Installs, Unpacks
<1>Start. ASSUME NEW p \in Procs, Start(p) PROVE Versioned'
  BY <1>Start, <1>inv DEF Start, Goto, TypeOK, Versioned, Libs, Contents, Undisturbed,
       Installs,
       Unpacks
<1>Check. ASSUME NEW p \in Procs, Check(p) PROVE Versioned'
  BY <1>Check, <1>inv DEF Check, Begins, Download, CanInstall, GivesUp, Installing, Goto,
       TypeOK, Versioned, Libs, Contents,
       Undisturbed, Installs, Unpacks
<1>BuildCheck. ASSUME NEW p \in Procs, BuildCheck(p) PROVE Versioned'
  BY <1>BuildCheck, <1>inv DEF BuildCheck, Begins, Download, CanInstall, GivesUp, Installing,
       BuildFinds, There, Goto, TypeOK,
       Versioned, Libs, Contents, Undisturbed, Installs, Unpacks
<1>Fetch. ASSUME NEW p \in Procs, Fetch(p) PROVE Versioned'
  BY <1>Fetch, <1>inv DEF Fetch, Goto, TypeOK, Versioned, Libs, Contents, Undisturbed,
       Installs,
       Unpacks
<1>UnpackBegins. ASSUME NEW p \in Procs, UnpackBegins(p) PROVE Versioned'
  BY <1>UnpackBegins, <1>inv DEF UnpackBegins, Goto, TypeOK, Versioned, Libs, Contents,
       Undisturbed, Installs, Unpacks
<1>UnpackEnds. ASSUME NEW p \in Procs, UnpackEnds(p) PROVE Versioned'
  BY <1>UnpackEnds, <1>inv DEF UnpackEnds, Goto, TypeOK, Versioned, Libs, Contents,
       Undisturbed,
       Installs, Unpacks
<1>CopyBegins. ASSUME NEW p \in Procs, CopyBegins(p) PROVE Versioned'
  BY <1>CopyBegins, <1>inv DEF CopyBegins, Goto, TypeOK, Versioned, Libs, Contents,
       Undisturbed,
       Installs, Unpacks
<1>CopyEnds. ASSUME NEW p \in Procs, CopyEnds(p) PROVE Versioned'
  BY <1>CopyEnds, <1>inv DEF CopyEnds, Goto, TypeOK, Versioned, Libs, Contents, Undisturbed,
       Installs, Unpacks
<1>CopiesNothing. ASSUME NEW p \in Procs, CopiesNothing(p) PROVE Versioned'
  BY <1>CopiesNothing, <1>inv DEF CopiesNothing, Goto, TypeOK, Versioned, Libs, Contents,
       Undisturbed, Installs, Unpacks
<1>FindsNothing. ASSUME NEW p \in Procs, FindsNothing(p) PROVE Versioned'
  BY <1>FindsNothing, <1>inv DEF FindsNothing, GivesUp, Goto, TypeOK, Versioned, Libs,
       Contents,
       Undisturbed, Installs, Unpacks
<1>RemoveTemp. ASSUME NEW p \in Procs, RemoveTemp(p) PROVE Versioned'
  BY <1>RemoveTemp, <1>inv DEF RemoveTemp, Goto, TypeOK, Versioned, Libs, Contents,
       Undisturbed,
       Installs, Unpacks
<1>KeepTemp. ASSUME NEW p \in Procs, KeepTemp(p) PROVE Versioned'
  BY <1>KeepTemp, <1>inv DEF KeepTemp, Goto, TypeOK, Versioned, Libs, Contents, Undisturbed,
       Installs, Unpacks
<1>Verify. ASSUME NEW p \in Procs, Verify(p) PROVE Versioned'
  BY <1>Verify, <1>inv DEF Verify, GivesUp, Goto, TypeOK, Versioned, Libs, Contents,
       Undisturbed, Installs, Unpacks
<1>Load. ASSUME NEW p \in Procs, Load(p) PROVE Versioned'
  BY <1>Load, <1>inv DEF Load, GivesUp, Goto, TypeOK, Versioned, Libs, Contents, Undisturbed,
       Installs, Unpacks
<1>Fault. ASSUME NEW p \in Procs, Fault(p) PROVE Versioned'
  BY <1>Fault, <1>inv DEF Fault, CutShort, GivesUp, Goto, TypeOK, Versioned, Libs, Contents,
       Undisturbed, Installs, Unpacks
<1>Robbed. ASSUME NEW p \in Procs, Robbed(p) PROVE Versioned'
  BY <1>Robbed, <1>inv DEF Robbed, CutShort, GivesUp, Goto, TypeOK, Versioned, Libs, Contents,
       Undisturbed, Installs, Unpacks
<1>Stop. ASSUME NEW p \in Procs, Stop(p) PROVE Versioned'
  BY <1>Stop, <1>inv DEF Stop, CutShort, Goto, TypeOK, Versioned, Libs, Contents, Undisturbed,
       Installs, Unpacks
<1> QED
  BY <1>keep, <1>Start, <1>Check, <1>BuildCheck, <1>Fetch, <1>UnpackBegins, <1>UnpackEnds,
       <1>CopyBegins, <1>CopyEnds, <1>CopiesNothing, <1>FindsNothing, <1>RemoveTemp,
       <1>KeepTemp, <1>Verify, <1>Load, <1>Fault, <1>Robbed, <1>Stop DEF Next

-----------------------------------------------------------------------------
LEMMA InitInv == ASSUME Init PROVE Inv
<1>1. TypeOK
  BY Constants, SetupConstants DEF Init, TypeOK, BuildPCs, RunPCs, Installs, Unpacks
<1>2. Alone
  BY DEF Init, Alone, Installs, Unpacks
<1>3. Pieces /\ Files /\ Missing
  BY DEF Init, Pieces, Files, Missing, Undisturbed, NoLib, NoTree, Installs, Unpacks
<1>4. Kept /\ Arrived /\ Versioned
  BY DEF Init, Kept, Arrived, Versioned, NoLib
<1> QED
  BY <1>1, <1>2, <1>3, <1>4 DEF Inv

LEMMA InvStep == ASSUME Inv, [Next]_vars PROVE Inv'
  BY TypeStep, AloneStep, PiecesStep, FilesStep, MissingStep, KeptStep, ArrivedStep,
     VersionedStep DEF Inv

THEOREM Invariance == Spec => []Inv
<1>1. Init => Inv
  BY InitInv
<1>2. Inv /\ [Next]_vars => Inv'
  BY InvStep
<1> QED
  BY <1>1, <1>2, PTL DEF Spec

\* The variables keep their types: the setup never leaves the steps of ensure_library_installed
\* and of the build script.
THEOREM TypeCorrect == Spec => []TypeOK
<1>1. Inv => TypeOK
  BY DEF Inv
<1> QED
  BY <1>1, Invariance, PTL

\* A library that is not whole is being copied, unless an installation was cut short or two
\* went on at a time (download_and_install, main of build.rs).
THEOREM BrokenIsExplained == Spec => []BrokenExplained
<1>1. Inv => BrokenExplained
  BY DEF Inv, Files, BrokenExplained, Undisturbed, Copying
<1> QED
  BY <1>1, Invariance, PTL

\* Setup never replaces or truncates a whole library where nothing was disturbed
\* (library_exists, fs::copy), so what a process has mapped stays what it was.
THEOREM InstalledLibraryStays == Spec => InstalledStays
<1>1. ASSUME Inv, [Next]_vars, NEW d \in Dirs, lib[d].state = "whole", d \notin disturbed
      PROVE  lib'[d] = lib[d]
  <2>1. CASE UNCHANGED vars
    BY <2>1 DEF vars
  <2>2. CASE \E p \in Procs : CopyBegins(p)
    <3>1. PICK p \in Procs : CopyBegins(p)
      BY <2>2
    <3>2. Dest(p) # d
      BY <1>1, <3>1 DEF CopyBegins, Inv, Missing, Undisturbed, Installs, Unpacks
    <3> QED
      BY <1>1, <3>1, <3>2 DEF CopyBegins, Inv, TypeOK
  <2>3. CASE \E p \in Procs : CopyEnds(p)
    <3>1. PICK p \in Procs : CopyEnds(p)
      BY <2>3
    <3>2. lib[d] \in Libs
      BY <1>1 DEF Inv, TypeOK
    <3> QED
      BY <1>1, <3>1, <3>2, Constants DEF CopyEnds, Inv, TypeOK, Libs
  <2>4. CASE UNCHANGED lib
    BY <2>4
  <2> QED
    BY <1>1, <2>1, <2>2, <2>3, <2>4
       DEF Next, Start, Check, BuildCheck, Fetch, UnpackBegins, UnpackEnds, CopiesNothing,
           FindsNothing, RemoveTemp, KeepTemp, Verify, Load, Fault, Robbed, Stop
<1>2. Inv /\ [Next]_vars =>
        [\A d \in Dirs : lib[d].state = "whole" /\ d \notin disturbed => lib'[d] = lib[d]]_vars
  BY <1>1
<1> QED
  BY <1>2, Invariance, PTL DEF Spec, InstalledStays

\* The crate fails to set up or to load only for a fault, a platform without a release, a
\* user without a home, an older library or another installation (download_library,
\* download_and_install, find_and_copy, load_library): no layout of the archive
\* and no empty directory of the environment is a reason.
THEOREM FailuresAreExplained == Spec => FailuresExplained
<1> USE Constants
<1>inv. Inv => TypeOK /\ Alone /\ Pieces /\ Files /\ Missing /\ Kept /\ Arrived /\ Versioned
  BY DEF Inv
<1>others. ASSUME Inv, NEW p \in Procs, NEW d \in Dirs, d \in {"home", Found(p)},
                  NEW q \in Procs \ {p}, Dest(q) = d, pc[q] \in Installs
           PROVE  Explained(p)
  BY <1>others DEF Explained, Installing
<1>FindsNothing. ASSUME Inv, NEW p \in Procs, FindsNothing(p) PROVE Explained(p)
  <2>1. SUFFICES ASSUME "home" \notin disturbed PROVE Explained(p)
    BY DEF Explained
  <2>2. Dest(p) = "home" /\ pc[p] = "flatten"
    BY <1>FindsNothing DEF FindsNothing, Dest
  <2>3. tree[TempOf(p)][ReleaseOf[p]].state = "whole"
    BY <1>FindsNothing, <1>inv, <2>1, <2>2 DEF Kept
  <2>4. ReleaseOf[p] \in Unpacked(p)
    BY <2>3 DEF Unpacked
  <2>5. ReleaseOf[p] \in Flat => ReleaseOf[p] \in Picks(p)
    BY <1>FindsNothing, <2>4 DEF FindsNothing, Picks
  <2> QED
    BY <1>FindsNothing, <2>3, <2>4, <2>5 DEF FindsNothing, Nested
<1>Verify. ASSUME Inv, NEW p \in Procs, Verify(p), pc'[p] = "failed" PROVE Explained(p)
  <2>1. p \notin Builds
    BY <1>Verify, <1>inv DEF Verify, TypeOK, BuildPCs, Installs, Unpacks
  <2>2. ~ There("home")
    BY <1>Verify, <1>inv DEF Verify, Goto, TypeOK
  <2> QED
    BY <1>Verify, <1>inv, <2>1, <2>2 DEF Verify, Arrived, Explained
<1>Load. ASSUME Inv, NEW p \in Procs, Load(p), pc'[p] = "failed" PROVE Explained(p)
  <2>1. p \notin Builds
    BY <1>Load, <1>inv DEF Load, TypeOK, BuildPCs, Installs, Unpacks
  <2>2. There(Found(p)) /\ Found(p) \in Dirs
    BY <1>Load, <1>inv, <2>1 DEF Load, Arrived, Found, Dirs
  <2>3. ~ (lib[Found(p)].state = "whole" /\ lib[Found(p)].version >= VersionOf[p])
    BY <1>Load, <1>inv DEF Load, Goto, TypeOK
  <2>4. CASE lib[Found(p)].state = "whole"
    <3>1. lib[Found(p)].version \in Nat /\ VersionOf[p] \in Nat
      BY <1>Load, <1>inv, <2>2, <2>4, SetupConstants DEF Versioned
    <3>2. lib[Found(p)].version < VersionOf[p]
      BY <2>3, <2>4, <3>1
    <3> QED
      BY <2>2, <3>2 DEF Explained
  <2>5. CASE lib[Found(p)].state = "part"
    <3>1. SUFFICES ASSUME Found(p) \notin disturbed PROVE Explained(p)
      BY DEF Explained
    <3>2. PICK q \in Procs : pc[q] = "copying" /\ Dest(q) = Found(p)
      BY <1>Load, <1>inv, <2>2, <2>5, <3>1 DEF Files, Undisturbed
    <3>3. q # p
      BY <1>Load, <3>2 DEF Load
    <3> QED
      BY <1>Load, <1>others, <2>2, <3>2, <3>3 DEF Installs, Unpacks
  <2>6. lib[Found(p)] \in Libs
    BY <1>Load, <1>inv, <2>2 DEF TypeOK
  <2> QED
    BY <2>2, <2>4, <2>5, <2>6 DEF There, Libs, Contents
<1>Fault. ASSUME Inv, NEW p \in Procs, Fault(p) PROVE Explained(p)
  BY <1>Fault, <1>inv DEF Fault, Explained, TypeOK
<1>Robbed. ASSUME Inv, NEW p \in Procs \ Builds, Robbed(p) PROVE Explained(p)
  <2>1. SUFFICES ASSUME "home" \notin disturbed PROVE Explained(p)
    BY DEF Explained
  <2>2. Dest(p) = "home"
    BY DEF Dest
  <2>3. tree[TempOf(p)][ReleaseOf[p]].state # "none"
    <3>1. CASE pc[p] = "unpacking"
      <4>1. tree[TempOf(p)][ReleaseOf[p]] = [state |-> "part", by |-> p]
        BY <1>Robbed, <1>inv, <2>1, <2>2, <3>1 DEF Kept
      <4> QED
        BY <4>1
    <3>2. CASE pc[p] = "copying"
      <4>1. tree[TempOf(p)][ReleaseOf[p]].state = "whole"
        BY <1>Robbed, <1>inv, <2>1, <2>2, <3>2 DEF Kept
      <4> QED
        BY <4>1
    <3> QED
      BY <1>Robbed, <3>1, <3>2 DEF Robbed
  <2> QED
    BY <1>Robbed, <2>3 DEF Robbed, Unpacked
<1>step. ASSUME Inv, [Next]_vars, NEW p \in Procs, pc[p] # "failed", pc'[p] = "failed"
         PROVE  Explained(p)
  <2>1. PICK q \in Procs :
          \/ Start(q) \/ Check(q) \/ BuildCheck(q) \/ Fetch(q) \/ UnpackBegins(q)
          \/ UnpackEnds(q) \/ CopyBegins(q) \/ CopyEnds(q) \/ CopiesNothing(q)
          \/ FindsNothing(q) \/ RemoveTemp(q) \/ KeepTemp(q) \/ Verify(q) \/ Load(q)
          \/ Fault(q) \/ Robbed(q) \/ Stop(q)
    BY <1>step DEF Next, vars
  <2>2. q = p
    BY <1>step, <1>inv, <2>1
       DEF TypeOK, Goto, GivesUp, Begins, Download, Start, Check, BuildCheck, Fetch,
           UnpackBegins, UnpackEnds, CopyBegins, CopyEnds, CopiesNothing, FindsNothing,
           RemoveTemp, KeepTemp,
           Verify, Load, Fault, Robbed, Stop
  <2>3. (Check(p) /\ ~CanInstall(p)) \/ FindsNothing(p) \/ Verify(p) \/ Load(p) \/ Fault(p)
          \/ Robbed(p)
    BY <1>step, <1>inv, <2>1, <2>2
       DEF TypeOK, Goto, GivesUp, Begins, Download, Start, Check, BuildCheck, Fetch,
       UnpackBegins, UnpackEnds,
           CopyBegins, CopyEnds, CopiesNothing, RemoveTemp, KeepTemp, Stop
  <2>4. Robbed(p) => p \notin Builds
    BY <1>step, <1>inv DEF TypeOK, Robbed, GivesUp, Goto
  <2> QED
    BY <1>step, <1>FindsNothing, <1>Verify, <1>Load, <1>Fault, <1>Robbed, <2>3, <2>4
       DEF Explained
<1>1. Inv /\ [Next]_vars =>
        [\A p \in Procs : pc[p] # "failed" /\ pc'[p] = "failed" => Explained(p)]_vars
  BY <1>step
<1> QED
  BY <1>1, Invariance, PTL DEF Spec, FailuresExplained
===============================================================================
