CONSTANTS
  None = None
  Groups <- Group
  Name <- NameList
  Encoded <- RandomLabels
  NameMax = 5
  Limit <- Thresholds
  Window = 3  FloodWindow = 2  Interval = 2  FloodInterval = 1  BeaconInterval = 4
  Samples = 3  MinGaps = 2
  MaxSources = 1  MaxPairs = 3  MaxDomains = 2  MaxPorts = 1
  LiveReorder = 2
  Never <- Least  Forever <- Most
  Times <- Seconds
  Settings <- Everyday
SPECIFICATION FairSpec
INVARIANTS AlertsExact HeldInOrder
PROPERTY HeldProcessed
CHECK_DEADLOCK FALSE
