--------------------------- MODULE MCLibrarySetup ---------------------------
(***************************************************************************)
(* A small instance of LibrarySetup for TLC.                               *)
(***************************************************************************)
EXTENDS LibrarySetup

CONSTANTS r1, r2, r3, b1, b2

\* Each directory is the destination of a build, each release that of a build and of the
\* crate, and one process looks in both directories.  A second one of the crate is a -dev
\* version ahead of the latest release, a third cannot install a library, for want of a
\* home, but finds one in the directory of its environment.
VersionsOf == [p \in Procs |-> IF p \in {r3, b1} THEN 1 ELSE 2]
ReleasesOf == [p \in Procs |-> IF p \in {r2, r3, b1} THEN 1 ELSE 2]
=============================================================================
