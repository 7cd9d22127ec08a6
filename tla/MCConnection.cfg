\* Two writers, a socket with room for one byte, chunks of two, a peer that may leave.
CONSTANTS
  Writer = {w1, w2}
  Chunk = 2
  Room = 1
  Loads <- MCLoads
  MaxEvents <- MCEvents
  PeerEnds = {"fin", "reset"}
SPECIFICATION FairSpec
CHECK_DEADLOCK FALSE
INVARIANTS
  TypeOK
  InOrder
  UnsentExcused
  Announced
  ReadBeforeClose
PROPERTIES
  NoLostSend
  NoLostRecv
  CloseCompletes
