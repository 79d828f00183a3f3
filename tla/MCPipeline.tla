---------------------------- MODULE MCPipeline ----------------------------
EXTENDS Pipeline

CONSTANTS c1, c2, w1, w2

Devices == {c1, c2}
Threads == {w1, w2}

(* A file or an interface with packets dumped on an alert, a longer run    *)
(* that fills every queue, two interfaces, which never dump, and two       *)
(* workers.                                                                *)
Replayed == [replay |-> TRUE, dumps |-> TRUE, captures |-> {c1}, workers |-> {w1}, frames |-> 2]
Live == [Replayed EXCEPT !.replay = FALSE]
Crowded == [Live EXCEPT !.dumps = FALSE, !.frames = 3]
Interfaces == [Crowded EXCEPT !.captures = {c1, c2}, !.frames = 1]
Sharded == [Replayed EXCEPT !.dumps = FALSE, !.workers = {w1, w2}, !.frames = 1]
AllModes == {Replayed, Live, Crowded, Interfaces, Sharded}
=============================================================================
