\* One accepted connection: a data thread and a business thread drop the last
\* references to it.
CONSTANTS
  a = a
  r = r
  None = None
  Conn = {a}
  Requester = {}
  Closeable = {}
  DataCount = 1
  BizCount = 1
  DataKinds <- MCDataKinds
  MaxPolls = 1
  Exits = FALSE
SPECIFICATION Spec
INVARIANT
  NoUseAfterRelease
