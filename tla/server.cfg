SPECIFICATION Spec
CHECK_DEADLOCK FALSE
CONSTANTS
  window = window
  stuck = stuck
  Conns <- TwoClients
  Windows <- OneWindow
  Asks <- BothAsk
  Token = TRUE
  QueueLen = 1
  NoConn = NoConn
  MaxJobs = 2
INVARIANTS
  TypeOK
  NoSendOnClosedQueue
  OneLookupAtATime
PROPERTIES
  AnswersInOrder
  EveryChangePublished
  EveryCallAnswered
  ConnectionsEnd
