CONSTANTS
  c1 = c1
  c2 = c2
  c3 = c3
  p = p
  q = q
  n = n
  Clients = {c1, c2, c3}
  NoClient = NoClient
  Spellings = {p}
  NulSpellings = {}
  NoSpelling = NoSpelling
  Canon <- CanonOf
  OpensOf <- OpenedCanonically
  CommandsOf <- SentBy
  WrapperOf <- WrappedBy
  MaxWorkers = 2
SPECIFICATION Spec
INVARIANTS
  PathsShare
CHECK_DEADLOCK FALSE
