---------------------------- MODULE AlertWriter ----------------------------
(***************************************************************************)
(* The alert writer: run_alert_writer() in src/engine.rs, the one thread   *)
(* that takes every alert the gate lets through, drops the allowlisted,    *)
(* withholds repeats, writes the rest and asks for a packet dump of each.  *)
(* Where the lines go is in Sinks; Delivery puts the two together.         *)
(*                                                                         *)
(* Alerts carry the time of their packet and come from every worker, so    *)
(* they arrive out of order.  The table that suppression needs is pruned   *)
(* once it is half full, and cleared when it is over its cap.              *)
(***************************************************************************)
EXTENDS Integers, Sequences, FiniteSets

CONSTANTS
  Alerts,         \* what detection may raise, the time aside
  Allowed,        \* those an allowlist entry matches
  Window,         \* suppress_window
  Keep,           \* windows a key is kept for when the table is pruned: 10
  Cap,            \* MAX_SUPPRESSION_KEYS
  Times,          \* seconds an alert may carry
  MaxLate,        \* how far behind the newest alert one may be
  MaxAlerts,      \* bound on the alerts of a behaviour
  None            \* no timestamp yet

ASSUME WriterAssumption ==
  /\ IsFiniteSet(Alerts) /\ Allowed \subseteq Alerts
  /\ Window \in Nat /\ Keep \in Nat \ {0} /\ Cap \in Nat
  /\ Times \subseteq Nat /\ MaxLate \in Nat /\ MaxAlerts \in Nat
  /\ None \notin Int

(* "Only ever discards entries far older than anything still in flight":   *)
(* the newest alert is ahead of none by what pruning keeps, less a window. *)
ASSUME InFlightAssumption == MaxLate + Window <= Keep * Window

VARIABLES
  open,         \* the alert channel is connected
  lastSeen,     \* last_seen
  suppressed,   \* suppressed: key -> repeats not yet mentioned
  newest, lastPruned,
  emitted, hidden, allowlisted, resets,   \* AlertStats
  noted,        \* repeats a note has mentioned
  asked,        \* packet dumps asked for
  received,     \* alerts taken from the channel
  memory,       \* ghost: last_seen had it never been pruned or cleared
  out           \* ghost: the alerts written

table == <<lastSeen, suppressed, newest, lastPruned>>
stats == <<emitted, hidden, allowlisted, resets, noted, asked>>
vars == <<open, table, stats, received, memory, out>>

Init ==
  /\ open = TRUE
  /\ lastSeen = <<>> /\ suppressed = <<>>
  /\ newest = None /\ lastPruned = None
  /\ emitted = 0 /\ hidden = 0 /\ allowlisted = 0 /\ resets = 0
  /\ noted = 0 /\ asked = 0 /\ received = 0
  /\ memory = <<>> /\ out = <<>>

-----------------------------------------------------------------------------
(* suppression_key(): the floods of a source are one thing whatever their  *)
(* target, the matches of two rules never.                                 *)
SuppressionKey(a) ==
  CASE a.category = "PACKET_FLOOD" -> <<a.category, a.src, a.proto>>
    [] a.category = "SIGNATURE_MATCH" -> <<a.category, a.src, a.dst, a.proto, a.message>>
    [] OTHER -> <<a.category, a.src, a.dst, a.proto>>
Keys == {SuppressionKey(a) : a \in Alerts}

Restricted(f, S) == [k \in DOMAIN f \cap S |-> f[k]]
Noting(f, k, v) == [j \in DOMAIN f \cup {k} |-> IF j = k THEN v ELSE f[j]]

Newest(t) == IF newest = None \/ t > newest THEN t ELSE newest

(* A time before the last prune is no time since it. *)
Due(t) ==
  /\ Cardinality(DOMAIN lastSeen) >= Cap \div 2
  /\ lastPruned = None \/ t - lastPruned >= 1

(* A slip: a key is kept for one window only. *)
RecentWindow(t) == {k \in DOMAIN lastSeen : Newest(t) - lastSeen[k] < Window}

(* What is left of the table by the time a repeat is looked for. *)
Recent(t) == {k \in DOMAIN lastSeen : Newest(t) - lastSeen[k] < Keep * Window}
Overfull(t) == Due(t) /\ Cardinality(Recent(t)) > Cap
Pruned(t) ==
  IF ~Due(t) THEN lastSeen
  ELSE IF Overfull(t) THEN <<>> ELSE Restricted(lastSeen, Recent(t))
(* A slip: the counts of pruned keys stay. *)
MentionsKept(t) == suppressed

Mentions(t) ==
  IF ~Due(t) THEN suppressed
  ELSE IF Overfull(t) THEN <<>>
  ELSE Restricted(suppressed, {k \in Recent(t) : k \in DOMAIN suppressed /\ suppressed[k] > 0})

Housekeep(t) ==
  /\ newest' = Newest(t)
  /\ lastPruned' = IF Due(t) THEN t ELSE lastPruned
  /\ resets' = IF Overfull(t) THEN resets + 1 ELSE resets

(* An alert is a repeat of the one last written, if that is in the table   *)
(* and not later than it.                                                  *)
Repeats(tab, k, t) == k \in DOMAIN tab /\ t >= tab[k] /\ t - tab[k] < Window

Take(t) ==
  /\ open /\ received < MaxAlerts
  /\ newest # None => t >= newest - MaxLate
  /\ received' = received + 1
  /\ UNCHANGED open

Allow(a, t) ==
  /\ Take(t) /\ a \in Allowed
  /\ allowlisted' = allowlisted + 1
  /\ UNCHANGED <<table, emitted, hidden, resets, noted, asked, memory, out>>

Suppress(a, t) ==
  LET k == SuppressionKey(a)
  IN  /\ Take(t) /\ a \notin Allowed
      /\ Repeats(Pruned(t), k, t)
      /\ Housekeep(t)
      /\ lastSeen' = Pruned(t)
      /\ suppressed' = Noting(Mentions(t), k,
                         IF k \in DOMAIN Mentions(t) THEN Mentions(t)[k] + 1 ELSE 1)
      /\ hidden' = hidden + 1
      /\ UNCHANGED <<emitted, allowlisted, noted, asked, memory, out>>

(* A repeat that was withheld is mentioned when the next one is written. *)
Withheld(a, t) ==
  LET k == SuppressionKey(a) IN IF k \in DOMAIN Mentions(t) THEN Mentions(t)[k] ELSE 0

Emit(a, t) ==
  LET k == SuppressionKey(a)
  IN  /\ Take(t) /\ a \notin Allowed
      /\ ~Repeats(Pruned(t), k, t)
      /\ Housekeep(t)
      /\ suppressed' = IF Withheld(a, t) > 0 THEN Noting(Mentions(t), k, 0) ELSE Mentions(t)
      /\ noted' = noted + Withheld(a, t)
      /\ lastSeen' = Noting(Pruned(t), k, t)
      /\ emitted' = emitted + 1 /\ asked' = asked + 1
      /\ memory' = Noting(memory, k, t)
      /\ out' = Append(out, [key |-> k, ts |-> t])
      /\ UNCHANGED <<hidden, allowlisted>>

(* The gate is gone and the channel empty. *)
Disconnected ==
  /\ open /\ open' = FALSE
  /\ UNCHANGED <<table, stats, received, memory, out>>

Next ==
  \/ \E a \in Alerts, t \in Times : Allow(a, t) \/ Suppress(a, t) \/ Emit(a, t)
  \/ Disconnected

Spec == Init /\ [][Next]_vars

-----------------------------------------------------------------------------
TypeOK ==
  /\ open \in BOOLEAN
  /\ DOMAIN lastSeen \subseteq Keys /\ lastSeen \in [DOMAIN lastSeen -> Times]
  /\ DOMAIN suppressed \subseteq Keys /\ suppressed \in [DOMAIN suppressed -> Nat]
  /\ newest \in Times \cup {None} /\ lastPruned \in Times \cup {None}
  /\ emitted \in Nat /\ hidden \in Nat /\ allowlisted \in Nat /\ resets \in Nat
  /\ noted \in Nat /\ asked \in Nat /\ received \in Nat
  /\ DOMAIN memory \subseteq Keys /\ memory \in [DOMAIN memory -> Times]
  /\ out \in Seq([key : Keys, ts : Times])

(* No alert is lost without a trace: each one taken is written, withheld   *)
(* after one like it was, or allowlisted ("emitted + suppressed is the     *)
(* total number of alerts detection actually raised").  A withheld one has *)
(* not yet been mentioned, has been, or went with a pruned key.            *)
EveryAlertAccounted ==
  /\ received = emitted + hidden + allowlisted
  /\ emitted = Len(out) /\ asked = emitted
  /\ \A k \in DOMAIN suppressed : k \in DOMAIN lastSeen

WriterSound == TypeOK /\ EveryAlertAccounted
=============================================================================
