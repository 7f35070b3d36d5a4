SPECIFICATION Spec
CHECK_DEADLOCK FALSE
CONSTANTS
  client = client
  zshrc = zshrc
  profile = profile
  Watcher = Watcher
  Nobody = Nobody
  Clients <- OneClient
  StartupFiles <- TwoStartupFiles
  Calls <- SomeCalls
  MaxEvents = 3
INVARIANTS
  TypeOK
  MemoryIsFile
  SavedFilesApplied
PROPERTIES
  StartupFilesSafe
  OffLeavesNoBlock
  EditsComeIn
