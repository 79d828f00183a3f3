SPECIFICATION Spec
CONSTANTS
  None = None
  Width = 16
  MaxBytes = 2
  AddrBits <- Bits32
  Client <- ClientIs
  Server <- ServerIs
  SideOf <- TheSides
  MaxParts = 2
  MaxVars = 2
  Files <- TheFiles
  Vars = {"n", "m"}
  Traffic <- TheTraffic
  MaxStream <- Bounds6
  WordBits = 2
  DenseAfter = 1
  MaxLoad = 6
INVARIANTS BadLinesHarmNothing TermsMeant StaysMatched
PROPERTIES ImplementsPlain
CHECK_DEADLOCK FALSE
