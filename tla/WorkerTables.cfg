CONSTANTS
  a = a  b = b  c = c  None = None
  Settings <- Options
  Times <- Seconds
  MaxFlows = 2  Idle = 2  Ghosts = TRUE
SPECIFICATION WorkerSpec
INVARIANTS FloodsTrue ScansTrue RepliesKnown VolumeReported ConversationsTrue
CHECK_DEADLOCK FALSE
