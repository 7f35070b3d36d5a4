SPECIFICATION Spec
CONSTANTS
  c1 = c1
  c2 = c2
  v1 = v1
  v2 = v2
  Nobody = Nobody
  None = None
  Clients <- TwoCalls
  Versions <- TwoVersions
  Machines <- SomeMachines
  Number <- InOrder
  Releases <- TwoReleases
  Now = 2
  MaxCalls = 3
  MaxTrouble = 1
CHECK_DEADLOCK FALSE
INVARIANTS
  TypeOK
  InPlaceIsWhole
  DownloadsApart
  ConfigSettled
PROPERTIES
  NothingInUseTakenAway
  CallsEnd
