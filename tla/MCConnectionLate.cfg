\* One writer; the peer sends a byte after close().
CONSTANTS
  Writer = {w1}
  Chunk = 2
  Room = 2
  Loads <- LateLoads
  MaxEvents <- LateEvents
  PeerEnds = {}
SPECIFICATION Spec
CHECK_DEADLOCK FALSE
INVARIANT
  LateDataHarmless
