CONSTANTS
  d1 = d1
  v1 = v1
  v2 = v2
  Docs = {d1}
  NoDoc = NoDoc
  Values = {v1, v2}
  Absent = Absent
  Existing <- FirstValue
  MaxRequests = 2
  MaxCrashes = 1
SPECIFICATION FairSpec
INVARIANTS
  TypeOK
  ReadersUsable
  SettledDocsFiled
PROPERTIES
  FiledIsFound
CHECK_DEADLOCK FALSE
