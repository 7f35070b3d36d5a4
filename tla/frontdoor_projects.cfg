SPECIFICATION Spec
CONSTANTS
  p1 = p1
  p2 = p2
  nginx = nginx
  apache = apache
  NoProject = NoProject
  NoServer = NoServer
  NoConf = NoConf
  Projects <- TwoProjects
  Servers <- BothServers
  OwnPorts <- TwoPorts
  LanPorts <- NoPort
  HandPorts <- FirstPort
  HandLans <- NoPort
  MaxTrouble = 1
SYMMETRY Interchangeable
INVARIANTS
  PortsDistinct
  ServesWhatItShows
