CONSTANTS
  t1 = t1
  t2 = t2
  t3 = t3
  d1 = d1
  d2 = d2
  d3 = d3
  Threads = {t1, t2}
  NoThread = NoThread
  Paths = {p}
  NoPath = NoPath
  Docs = {d1, d2}
  NoDoc = NoDoc
  DocsOf <- OwnDocs
  Private = TRUE
  Failing = {"storage", "writer", "listing", "commit", "indexing"}
  MaxCalls = 5
  MaxFaults = 1
SPECIFICATION FairSpec
INVARIANTS
  TypeOK
  CountsReferences
  OpenWhileUsed
  SearchMatches
  CreatedAlone
  NothingLeaks
PROPERTIES
  CallsReturn
CHECK_DEADLOCK FALSE
