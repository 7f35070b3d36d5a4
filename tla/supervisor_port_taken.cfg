SPECIFICATION Spec
CONSTANTS
  c1 = c1
  c2 = c2
  i1 = i1
  i2 = i2
  NoId = NoId
  Callers <- OneCaller
  Ids <- OneService
  MaxStarts = 1
  Foreign = TRUE
INVARIANTS
  RunningHasListened
