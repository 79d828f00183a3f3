----------------------------- MODULE MCFlowTable -----------------------------
EXTENDS FlowTable, TLC

CONSTANTS k1, k2, k3

TwoKeys == {k1, k2}
ThreeKeys == {k1, k2, k3}
Seconds == 0 .. 4
OneFrame == {1}
KeySymmetry == Permutations(Keys)
==============================================================================
