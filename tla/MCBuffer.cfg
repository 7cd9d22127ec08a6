\* A receive and a send buffer over three blocks of two bytes.
CONSTANTS
  Buf = {"recv", "send"}
  Block = {1, 2, 3}
  BlockSize = 2
  MaxFill = 3
  MaxBytes = 4
SPECIFICATION Spec
INVARIANTS
  TypeOK
PROPERTY
  ImplementsQueue
