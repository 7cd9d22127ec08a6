\* Two writers, five texts, and the scenarios of MCLog.tla.
CONSTANTS
  Writer = {w1, w2}
  Configs <- MCConfigs
  PerRecord = 2
  Reserve = 2
  MaxSize = 2
  MaxTexts = 5
  MaxSecond = 1
SPECIFICATION FairSpec
CHECK_DEADLOCK FALSE
INVARIANTS
  TypeOK
  AsynInOrder
  ExitWrites
  LazyHolds
  FilesComplete
PROPERTIES
  AsynWritten
