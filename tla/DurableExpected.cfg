CONSTANTS
  t1 = t1
  t2 = t2
  v1 = v1
  v2 = v2
  Threads = {t1, t2}
  Branches = {main}
  Docs = {doc}
  Values = {v1, v2}
  Absent = Absent
  NoThread = NoThread
  Unversioned = Unversioned
  Ops = {"cas"}
  FaultKinds = {}
  Admin = FALSE
  MaxCalls = 3
  MaxCrashes = 0
  MaxFaults = 0
SPECIFICATION Spec
PROPERTIES
  ExpectedVersionHolds
CHECK_DEADLOCK FALSE
