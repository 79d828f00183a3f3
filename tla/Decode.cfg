CONSTANTS
  k1 = k1  k2 = k2  a = a  b = b  None = None
  Keys <- TwoKeys
  Copies <- TwoCopies
  Fragments <- Wire
  Datagrams <- Kinds
  MaxDatagrams = 1  MaxPieces = 3  MaxBytes = 4
  Timeout = 2  MaxTunnels = 1
  Times <- Seconds
  MaxLate = 1  MaxFrames = 4
SYMMETRY Alike
SPECIFICATION Spec
INVARIANTS TableSound PiecesTrue
PROPERTY NeverEvicted
CHECK_DEADLOCK FALSE
