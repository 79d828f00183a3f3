----------------------------- MODULE Suppression -----------------------------
(***************************************************************************)
(* What alert suppression promises: an alert is written unless one like it *)
(* was last written less than a window before, and a withheld one is       *)
(* counted.  Nothing is forgotten.  AlertWriter is shown to do this with a *)
(* table it prunes.                                                        *)
(***************************************************************************)
EXTENDS Integers, Sequences

CONSTANTS
  Key,       \* what makes two alerts alike
  Window,    \* the suppression window
  Time       \* the seconds alerts may carry

VARIABLES
  last,      \* key -> time of the alert of it last written
  out,       \* the alerts written, in order
  hidden     \* number of alerts withheld as repeats

vars == <<last, out, hidden>>

(* `t` is a repeat of an alert of `k`: not earlier, and within the window. *)
Repeats(tab, k, t) == k \in DOMAIN tab /\ t >= tab[k] /\ t - tab[k] < Window

Note(tab, k, t) == [j \in DOMAIN tab \cup {k} |-> IF j = k THEN t ELSE tab[j]]

Init == last = <<>> /\ out = <<>> /\ hidden = 0

Write(k, t) ==
  /\ ~Repeats(last, k, t)
  /\ last' = Note(last, k, t)
  /\ out' = Append(out, [key |-> k, ts |-> t])
  /\ UNCHANGED hidden

Hide(k, t) ==
  /\ Repeats(last, k, t)
  /\ hidden' = hidden + 1
  /\ UNCHANGED <<last, out>>

Next == \E k \in Key, t \in Time : Write(k, t) \/ Hide(k, t)

Spec == Init /\ [][Next]_vars
=============================================================================
