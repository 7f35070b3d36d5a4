SPECIFICATION Spec
CONSTANTS
  c1 = c1
  c2 = c2
  i1 = i1
  i2 = i2
  NoId = NoId
  Callers <- TwoCallers
  Ids <- TwoServices
  MaxStarts = 2
  Foreign = FALSE
SYMMETRY Interchangeable
INVARIANTS
  TypeOK
  NoUntrackedProcess
  OneProcessPerService
  NothingSurvivesShutdown
  CrashNoticed
  ShutdownInv
PROPERTIES
  StartErrorKept
