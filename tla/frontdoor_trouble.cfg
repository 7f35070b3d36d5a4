SPECIFICATION Spec
CONSTANTS
  p1 = p1
  p2 = p2
  nginx = nginx
  apache = apache
  NoProject = NoProject
  NoServer = NoServer
  NoConf = NoConf
  Projects <- OneProject
  Servers <- BothServers
  OwnPorts <- TwoPorts
  LanPorts <- SecondPort
  HandPorts <- NoPort
  HandLans <- SecondPort
  MaxTrouble = 3
SYMMETRY Interchangeable
INVARIANTS
  TypeOK
  LedgersAgree
  PortsDistinct
  ServesWhatItShows
  
  NothingAfterShutdown
