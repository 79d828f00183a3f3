CONSTANTS
  k1 = k1  k2 = k2  k3 = k3
  Keys <- ThreeKeys
  MaxFlows = 2
  Times <- Seconds
  MaxLate = 1
  Idle = 3  Pressure = 1  Unanswered = 1  Interim = 2
  SweepEvery = 3
  Frames <- OneFrame
  ObserveEnabled = TRUE  RecordFlows = TRUE
  MaxPackets = 4
SPECIFICATION Spec
INVARIANTS TableSound BytesToldOnce
PROPERTY LiveFlowsStay
CHECK_DEADLOCK FALSE
SYMMETRY KeySymmetry
