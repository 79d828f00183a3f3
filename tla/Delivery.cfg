CONSTANTS
  None = None
  Alerts <- Raised
  Allowed <- AllowedHere
  Window = 2  Keep = 2  Cap = 2
  Times = {0, 1, 2, 3, 4, 5, 6, 7, 8, 9, 10}
  MaxLate = 2  MaxAlerts = 6
  AddrBits <- SmallFamilies
  Upper = 8  HexLabels = {4}  MaxName = 4  SeenCap = 2
  MaxSize = 2  KeepLogs = 2  BufLines = 2
  Retain = 2  RetainBytes = 1
  Settings <- SettingsHere
  Home <- HomeNet
  Pairs <- PairsHere
  Meets <- MeetsHere
SPECIFICATION DeliverySpec
INVARIANTS DeliverySound RecordsTrue
PROPERTIES ImplementsSuppression LinesReachDisk LinesKept
CHECK_DEADLOCK FALSE
