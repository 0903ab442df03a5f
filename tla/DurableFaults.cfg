CONSTANTS
  t1 = t1
  t2 = t2
  v1 = v1
  v2 = v2
  Threads = {t1, t2}
  Branches = {main}
  Docs = {doc}
  Values = {v1, v2}
  Absent = Absent
  NoThread = NoThread
  Unversioned = Unversioned
  Ops = {"save", "delete", "cas"}
  FaultKinds = {"git", "index", "wal"}
  Admin = TRUE
  MaxCalls = 2
  MaxCrashes = 1
  MaxFaults = 2
SPECIFICATION FairSpec
INVARIANTS
  HolderSeesOwnWrite
  LogBehindGit
PROPERTIES
  CallsAnswered
  RecoveryEnds
CHECK_DEADLOCK FALSE
