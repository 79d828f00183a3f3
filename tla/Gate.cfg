CONSTANTS
  x = x  y = y  None = None
  Sids = {1, 2, 3, 4, 5, 6, 7, 8}
  Sources <- Two
  Rule <- RuleSet
  Bits <- Names
  Settings <- Everyday
  MaxWindows = 2  Longest = 4
  Times <- Seconds
  MaxReloads = 1  MaxAlerts = 4
SPECIFICATION Spec
INVARIANT GateSound
PROPERTY ImplementsRateControl
CHECK_DEADLOCK FALSE
