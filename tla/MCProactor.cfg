\* Two IOCP threads, a thread of the application, the scenarios of MCProactor.tla.
CONSTANTS
  Maker = Maker
  Iocp = {i1, i2}
  Biz = Biz
  App = {a1}
  Chunk = 2
  Scenarios <- MCScenarios
SPECIFICATION FairSpec
CHECK_DEADLOCK FALSE
INVARIANTS
  TypeOK
  RefsCountHolders
  RemovedIsLive
  InOrder
PROPERTIES
  
  Reclaimed
