\* One accepted connection, one data thread, two business threads; epoll reports
\* it twice and exit() may be called at any time.
CONSTANTS
  a = a
  r = r
  None = None
  Conn = {a}
  Requester = {}
  Closeable = {}
  DataCount = 1
  BizCount = 2
  DataKinds <- MCDataKinds
  MaxPolls = 2
  Exits = TRUE
SPECIFICATION FairSpec
INVARIANTS
  TypeOK
  HeldIsLive
  ReportedBeforeFreed
  Tracked
  AcceptFirst
  CallbacksSerial
PROPERTY
  Reclaimed
