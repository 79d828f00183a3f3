-------------------------- MODULE MCThresholdGate --------------------------
EXTENDS ThresholdGate

CONSTANTS x, y

Threshold(kind, track, count, span) ==
  [kind |-> kind, track |-> track, count |-> count, span |-> span,
   ops |-> <<>>, noalert |-> FALSE]
Xbits(ops, noalert) ==
  [kind |-> None, track |-> "src", count |-> 1, span |-> 1, ops |-> ops, noalert |-> noalert]
Op(verb, name, track) == [verb |-> verb, name |-> name, track |-> track, expire |-> 2]

(* A rule of each kind; rules that set, read, toggle and clear a bit, one  *)
(* of them with a threshold of its own; and a rule with neither.           *)
RuleSet ==
  <<Threshold("limit", "src", 1, 2), Threshold("every", "rule", 2, 3),
    Threshold("both", "src", 2, 3), Threshold("over", "rule", 1, 2),
    Xbits(<<Op("set", x, "src")>>, TRUE),
    [Threshold("limit", "src", 1, 2) EXCEPT !.ops = <<Op("isset", x, "src"), Op("toggle", y, "rule")>>],
    Xbits(<<Op("isnotset", y, "rule"), Op("unset", x, "src")>>, FALSE),
    Xbits(<<>>, FALSE)>>

One == {7}
Two == {7, 8}
Names == {x, y}
Seconds == 0 .. 4

(* Live on the thresholds and on the bits; replays that hold to the end,   *)
(* of two rules and of two sources, and one that holds two at a time.      *)
Rates == [ordered |-> FALSE, maxHeld |-> 9, sids |-> 1 .. 4, sources |-> One, late |-> 1]
Flags == [Rates EXCEPT !.sids = 5 .. 7, !.sources = Two, !.late = 0]
TwoRules == [ordered |-> TRUE, maxHeld |-> 9, sids |-> {1, 5}, sources |-> One, late |-> 4]
TwoSources == [TwoRules EXCEPT !.sids = {3}, !.sources = Two]
Batches == [TwoRules EXCEPT !.maxHeld = 2, !.sids = {4, 7, 8}, !.late = 1]
Everyday == {Rates, Flags, TwoRules, TwoSources, Batches}
=============================================================================
