\* One requested connection: its events race with the end of do_connect.
CONSTANTS
  a = a
  r = r
  None = None
  Conn = {r}
  Requester = {r}
  Closeable = {}
  DataCount = 1
  BizCount = 1
  DataKinds <- MCDataKinds
  MaxPolls = 1
  Exits = FALSE
SPECIFICATION Spec
INVARIANT
  OpenFirst
