---------------------------- MODULE MCHotReload ----------------------------
EXTENDS HotReload

CONSTANTS w1

OneWorker == {w1}

(* Two edits, of two files or of one twice, or two signals and an edit:    *)
(* each may come at any step of the reload another asked for, or while     *)
(* another is being passed on.  A worker reads in the first, and the gate. *)
Met(reader, e, s) == [packets |-> reader = "worker", alerts |-> reader = "gate", edits |-> e, signals |-> s]
TheBudgets == {Met("worker", 2, 0), Met("gate", 2, 0), Met("gate", 1, 2)}
=============================================================================
