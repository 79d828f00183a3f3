SPECIFICATION ReloadSpec
CONSTANTS
  None = None
  Width = 16
  MaxBytes = 2
  AddrBits <- Bits32
  Client <- ClientIs
  Server <- ServerIs
  SideOf <- TheSides
  MaxParts = 2
  MaxVars = 2
  Files <- GrowingFiles
  Vars = {"n", "m"}
  Traffic <- GrowingTraffic
  MaxStream <- Bounds2
  WordBits = 2
  DenseAfter = 1
  MaxLoad = 6
INVARIANTS TableFits
CHECK_DEADLOCK FALSE
