\* One accepted and one requested connection, one data thread, one business
\* thread; epoll reports each connection once.
CONSTANTS
  a = a
  r = r
  None = None
  Conn = {a, r}
  Requester = {r}
  Closeable = {r}
  DataCount = 1
  BizCount = 1
  DataKinds <- MCSendOnly
  MaxPolls = 1
  Exits = FALSE
SPECIFICATION Spec
INVARIANTS
  RefsCountHolders
  CloseOnce
