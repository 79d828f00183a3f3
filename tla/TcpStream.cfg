CONSTANTS
  SeqSpace = 20
  Isn = 17
  StreamLen = 8
  MaxSegment = 3
  Window = 5
  StreamCap = 5
  MaxOoo = 3
  c1 = c1
  c2 = c2
  Copies <- OneCopy
  SynPayload <- BareSyn
  None = None
SPECIFICATION FairSpec
INVARIANT TypeOK
INVARIANT NothingStranded
PROPERTY ImplementsByteStream
PROPERTY DrainEnds
