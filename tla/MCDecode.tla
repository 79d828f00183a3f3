------------------------------ MODULE MCDecode ------------------------------
EXTENDS Decode, TLC

CONSTANTS k1, k2, a, b

TwoKeys == {k1, k2}
TwoCopies == {a, b}
Seconds == 0 .. 2
Alike == Permutations(TwoKeys) \cup Permutations(TwoCopies)

(* Fragments that meet, overlap and repeat within the first units, and one *)
(* that reaches too far, each of either copy.                              *)
Wire ==
  [off : {0}, len : 1 .. 2, more : {TRUE}, copy : Copies] \cup
  [off : {1}, len : {1}, more : BOOLEAN, copy : Copies] \cup
  [off : {1}, len : {2}, more : {FALSE}, copy : Copies] \cup
  [off : {3}, len : {2}, more : {FALSE}, copy : Copies]

(* Plain, in a tunnel that is followed, in one tunnel too many, broken, and *)
(* broken beyond where the decoder looks.                                   *)
Bare == [depth |-> 0, inner |-> "plain"]
Kinds ==
  {Bare, [Bare EXCEPT !.inner = "esp"], [Bare EXCEPT !.depth = 1, !.inner = "bad"],
   [Bare EXCEPT !.depth = 2, !.inner = "bad"]}
=============================================================================
