CONSTANTS
  c1 = c1
  c2 = c2
  c3 = c3
  p = p
  q = q
  n = n
  Clients = {c1, c2, c3}
  NoClient = NoClient
  Spellings = {p, q, n}
  NulSpellings = {n}
  NoSpelling = NoSpelling
  Canon <- CanonOf
  OpensOf <- OpenedBy
  CommandsOf <- SentBy
  WrapperOf <- WrappedBy
  MaxWorkers = 2
SPECIFICATION FairSpec
INVARIANTS
  TypeOK
  HandedOutRuns
  NoCallLost
  LibraryUsedOpen
  ErrorsOwn
  IsolatesReleased
  RegularPathsShare
PROPERTIES
  EveryCallReturns
  AnsweredOnce
CHECK_DEADLOCK FALSE
