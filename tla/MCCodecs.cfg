\* Integers around every power of two, then one of a few values; texts of up to
\* eight characters; destinations that suffice and that do not.
CONSTANTS
  Items <- MCItems
  Room = 139
  Plain <- MCPlain
  Coded <- MCCoded
  Rooms = {0, 3, 4, 12, 13}
SPECIFICATION Spec
CHECK_DEADLOCK FALSE
INVARIANTS
  StreamRoundTrip
  TextRoundTrip
