SPECIFICATION Spec
CHECK_DEADLOCK FALSE
CONSTANTS
  window = window
  stuck = stuck
  Conns <- TwoClients
  Windows <- OneWindow
  Asks <- BothAsk
  Token = TRUE
  QueueLen = 2
  NoConn = NoConn
  MaxJobs = 2
INVARIANTS
  QuietWindowCurrent
