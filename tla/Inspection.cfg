CONSTANTS
  None = None
  MaxDepth = 24  MaxField = 64  Random = 2
  KnownInterfaces <- Interfaces
  MaxHash = 6  HeadBytes = 4  MaxChunk = 255
  Magic <- MagicTable  Descriptions <- DescriptionTable
  Scenes <- AllScenes
  Cuts <- TheCuts
  MinAppBytes = 8
  MaxTags = 3  MaxHops = 8  MaxInspect = 80
  MaxSessions = 2  MinInitial = 20  MaxCid = 3  MaxHandshake = 80
  Mails <- AllMails
SPECIFICATION ReadersSpec
INVARIANTS ToldAsWhole EverythingSaid FilesTrue ReadTrue HellosTrue
CHECK_DEADLOCK FALSE
