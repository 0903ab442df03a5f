CONSTANTS
  n1 = n1
  n2 = n2
  t1 = t1
  t2 = t2
  t3 = t3
  Nodes = {n1, n2}
  Founder = n1
  Threads = {t1, t2, t3}
  NodeOf <- NodeOfThreads
  Docs = {doc}
  NoDoc = NoDoc
  Ops = {"save", "delete", "restore", "push", "pull", "fetch", "batch"}
  MaxCalls = 3
  MaxFaults = 1
  MaxCrashes = 1
SPECIFICATION Spec
SYMMETRY Symmetry
INVARIANTS
  TypeOK
  AnsweredTruly
  BatchHeld
  TurnsMirrored
PROPERTIES
  HeadsAdvance
CHECK_DEADLOCK FALSE
