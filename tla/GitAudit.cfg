CONSTANTS
  n1 = n1
  n2 = n2
  t1 = t1
  t2 = t2
  t3 = t3
  Nodes = {n1, n2}
  Founder = n1
  Threads = {t1, t3}
  NodeOf <- NodeOfThreads
  Docs = {doc}
  NoDoc = NoDoc
  Ops = {"save"}
  MaxCalls = 2
  MaxFaults = 0
  MaxCrashes = 0
SPECIFICATION Spec
INVARIANTS
  CompleteAuditTrail
CHECK_DEADLOCK FALSE
