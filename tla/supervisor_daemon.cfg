SPECIFICATION Spec
CONSTANTS
  c1 = c1
  c2 = c2
  i1 = i1
  i2 = i2
  NoId = NoId
  Callers <- OneCaller
  Ids <- TwoServices
  MaxStarts = 2
  Foreign = TRUE
PROPERTIES
  StopLeavesNothing
  StartOkMeansRunning
  LifecycleSpec
  ListensUnlessPortTaken
