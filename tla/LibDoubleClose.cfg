CONSTANTS
  t1 = t1
  t2 = t2
  t3 = t3
  d1 = d1
  d2 = d2
  d3 = d3
  Threads = {t1, t2}
  NoThread = NoThread
  Paths = {p}
  NoPath = NoPath
  Docs = {d1, d2}
  NoDoc = NoDoc
  DocsOf <- OwnDocs
  Private = FALSE
  Failing = {}
  MaxCalls = 4
  MaxFaults = 0
SPECIFICATION Spec
INVARIANTS
  HandlesOpen
CHECK_DEADLOCK FALSE
