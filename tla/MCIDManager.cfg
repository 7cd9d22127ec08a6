\* Ids 1 .. 8: id 0 and id 9 are the out-of-range arguments of release().
CONSTANTS
  MinId = 1
  MaxId = 9
SPECIFICATION Spec
INVARIANTS
  TypeOK
PROPERTY
  ImplementsPool
