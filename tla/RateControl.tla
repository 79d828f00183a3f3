---------------------------- MODULE RateControl ----------------------------
(***************************************************************************)
(* What a threshold promises of one rule's matches: they are numbered      *)
(* within a window that starts at a match and lasts `span`, and the number *)
(* alone decides whether a match is reported.  Nothing is forgotten but by *)
(* starting over, which a reload does.                                     *)
(***************************************************************************)
EXTENDS Integers

CONSTANTS
  Counters,    \* what is counted apart: a rule and whom it is tracked by
  Kind,        \* counter -> "limit", "every", "both" or "over"
  Count,       \* counter -> count
  Span,        \* counter -> length of its window
  Time

VARIABLES
  numbered,    \* counter -> start of its window and matches in it
  reports      \* counter -> matches reported in its window

vars == <<numbered, reports>>

Reports(kind, count, n) ==
  \/ kind = "limit" /\ n <= count
  \/ kind = "every" /\ n % count = 0
  \/ kind = "both"  /\ n = count
  \/ kind = "over"  /\ n > count

Init == numbered = <<>> /\ reports = <<>>

Same(c, t) == c \in DOMAIN numbered /\ t < numbered[c].start + Span[c]

Put(f, c, v) == [d \in DOMAIN f \cup {c} |-> IF d = c THEN v ELSE f[d]]

Match(c, t) ==
  LET n == IF Same(c, t) THEN numbered[c].n + 1 ELSE 1
      r == IF Same(c, t) THEN reports[c] ELSE 0
  IN  /\ numbered' = Put(numbered, c,
                       [start |-> IF Same(c, t) THEN numbered[c].start ELSE t, n |-> n])
      /\ reports' = Put(reports, c, IF Reports(Kind[c], Count[c], n) THEN r + 1 ELSE r)

StartOver == numbered' = <<>> /\ reports' = <<>>

(* A reload and the match that follows it are one step of the gate. *)
Again(c, t) ==
  /\ numbered' = [d \in {c} |-> [start |-> t, n |-> 1]]
  /\ reports' = [d \in {c} |-> IF Reports(Kind[c], Count[c], 1) THEN 1 ELSE 0]

Next == (\E c \in Counters, t \in Time : Match(c, t) \/ Again(c, t)) \/ StartOver

Spec == Init /\ [][Next]_vars
=============================================================================
