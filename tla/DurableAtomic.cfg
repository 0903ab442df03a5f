CONSTANTS
  t1 = t1
  t2 = t2
  v1 = v1
  v2 = v2
  Threads = {t1, t2}
  Branches = {main, dev}
  Docs = {doc}
  Values = {v1, v2}
  Absent = Absent
  NoThread = NoThread
  Unversioned = Unversioned
  Ops = {"save", "delete"}
  FaultKinds = {"git", "index"}
  Admin = TRUE
  MaxCalls = 2
  MaxCrashes = 2
  MaxFaults = 1
SPECIFICATION Spec
SYMMETRY Symmetry
INVARIANTS
  TypeOK
  LockDiscipline
  PendingIsHeld
  OnePendingPerBranch
  IndexBehindGit
PROPERTIES
  LogMovesOn
  Implements
CHECK_DEADLOCK FALSE
