----------------------------- MODULE MCBehavior -----------------------------
EXTENDS Behavior

Shape(kind, src, dst, port, out, in, answered, name) ==
  [kind |-> kind, ts |-> 0, src |-> src, dst |-> dst, port |-> port, out |-> out, in |-> in,
   answered |-> answered, name |-> name]
Probe(src, dst, port)       == Shape("flow", src, dst, port, 1, 0, FALSE, 0)
Flow(src, dst, out, in)     == Shape("flow", src, dst, 1, out, in, TRUE, 0)
Traffic(src, dst, out, in)  == Shape("traffic", src, dst, 1, out, in, FALSE, 0)
Volume(src, packets)        == Shape("volume", src, 0, 0, packets, 0, FALSE, 0)
Attempt(src, dst)           == Shape("attempt", src, dst, 1, 0, 0, FALSE, 0)
Refusal(src, dst)           == Shape("refusal", src, dst, 1, 0, 0, FALSE, 0)
Query(src, name)            == Shape("dns", src, 5, 0, 0, 0, FALSE, name)

Group == {9}
RandomLabels == {7, 8}
NameList == <<<<7, 1, 2>>, <<8, 1, 2>>, <<3, 1, 2>>, <<7, 8, 1, 2>>, <<1, 2>>>>
Thresholds ==
  [scan |-> 1, sweep |-> 2, flood |-> 4, bytes |-> 5, ratioBytes |-> 2, ratio |-> 2,
   attempts |-> 2, refusals |-> 1, beaconMean |-> 1, beaconSpread |-> <<9, 400>>,
   nameLen |-> 4, tunnel |-> 1]
Seconds == 1 .. 6
Least == -1000
Most == 1000

(* One source's probes, bytes, logins, packets, beacons and queries, live  *)
(* and in order; two sources where one fits; skew and lateness; and        *)
(* replays, held to the end and three at a time.                           *)
InOrder5(shapes) == [ordered |-> TRUE, maxHeld |-> 1, shapes |-> shapes, most |-> 5, late |-> 0]
Probes   == InOrder5({Probe(1, 2, 1), Probe(1, 3, 1), Probe(1, 3, 2)})
Bytes    == InOrder5({Flow(1, 2, 2, 0), Traffic(1, 3, 0, 2), Traffic(1, 9, 4, 0)})
Logins   == [InOrder5({Attempt(1, 2), Refusal(1, 2), Attempt(1, 3)}) EXCEPT !.most = 4]
Floods   == InOrder5({Volume(1, 2), Volume(1, 3)})
Beacons  == [InOrder5({Flow(1, 2, 0, 0)}) EXCEPT !.most = 6]
Queries  == [InOrder5({Query(1, 1), Query(1, 2), Query(1, 4)}) EXCEPT !.most = 4]
Crowd    == [InOrder5({Probe(1, 2, 1), Probe(2, 2, 1), Probe(2, 9, 1)}) EXCEPT !.most = 4]
Skewed   == [ordered |-> FALSE, maxHeld |-> 99, shapes |-> {Flow(1, 2, 2, 0), Flow(1, 2, 0, 2), Volume(1, 3)}, most |-> 3, late |-> 4]
Replay   == [Skewed EXCEPT !.ordered = TRUE]
Batches  == [Replay EXCEPT !.maxHeld = 2, !.most = 4, !.late = 2]
Everyday ==
  {Probes, Bytes, Logins, Floods, Beacons, Queries, Crowd, Skewed, Replay, Batches}

LongFlow == {[Skewed EXCEPT !.shapes = {Flow(1, 2, 1, 1), Volume(2, 1)}, !.late = 5]}
=============================================================================
