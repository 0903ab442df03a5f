CONSTANTS
  r1 = r1
  r2 = r2
  r3 = r3
  b1 = b1
  b2 = b2
  Procs = {r1, r2, r3, b1, b2}
  NoProc = NoProc
  Builds = {b1, b2}
  WithEnv = {r1, r3, b1}
  Homeless = {r3}
  Unbuilt = {}
  Versions = {1, 2}
  NoVersion = 0
  Flat = {2}
  VersionOf <- VersionsOf
  ReleaseOf <- ReleasesOf
  MaxStarts = 4
  MaxFaults = 1
SPECIFICATION Spec
INVARIANTS
  TypeOK
  BrokenExplained
PROPERTIES
  InstalledStays
  FailuresExplained
CHECK_DEADLOCK FALSE
