--------------------------- MODULE DeliveryProofs ---------------------------
(***************************************************************************)
(* For any alerts, window, cap, feeds and settings, and a process that may *)
(* be killed at any time: every alert is accounted for, one line is told   *)
(* for each that is written, and pruning the suppression table is never    *)
(* seen until the table is cleared; what a feed lists is found, whatever   *)
(* else it lists; a dump holds the frames before its alert; and the lines  *)
(* of each sink are in order, and leave it only as output.rs says.         *)
(***************************************************************************)
EXTENDS Delivery, FiniteSetTheorems, WellFoundedInduction, TLAPS

-----------------------------------------------------------------------------
(* The parts of the inductive invariant besides what the run checks. *)

(* What the table has it remembers rightly. *)
Coherent ==
  \A k \in DOMAIN lastSeen : k \in DOMAIN memory /\ lastSeen[k] = memory[k]

(* Nothing was written after the newest alert. *)
Bounded == \A k \in DOMAIN memory : newest \in Nat /\ memory[k] <= newest

(* Unless the table was cleared, what it has forgotten is too old for any  *)
(* alert that may still come.                                              *)
Forgotten ==
  resets = 0 =>
    \A k \in DOMAIN memory : k \in DOMAIN lastSeen \/ newest - memory[k] >= Keep * Window

WriterInv == WriterSound /\ Coherent /\ Bounded /\ Forgotten

(* A process that has told nothing has nothing to remember. *)
Line ==
  {[kind |-> "note"]} \cup {[kind |-> "alert", alert |-> a, tags |-> TagsOf(intel, a)] : a \in Alerts}
LinesInv ==
  /\ text \in Seq(Line) /\ base \in Nat /\ base <= Len(text)
  /\ Len(text) = base => memory = <<>> /\ out = <<>> /\ hidden = 0

IInv == WriterInv /\ LinesInv /\ TellsOnlyEmitted

-----------------------------------------------------------------------------
(* What pruning keeps, and what it may discard. *)
Kept(t) ==
  /\ Pruned(t) \in [DOMAIN Pruned(t) -> Times] /\ Mentions(t) \in [DOMAIN Mentions(t) -> Nat]
  /\ DOMAIN Mentions(t) \subseteq DOMAIN Pruned(t)
  /\ \A k \in DOMAIN Pruned(t) : k \in DOMAIN lastSeen /\ Pruned(t)[k] = lastSeen[k]
  /\ ~Overfull(t) =>
       \A k \in DOMAIN lastSeen : k \in DOMAIN Pruned(t) \/ Newest(t) - lastSeen[k] >= Keep * Window

LEMMA NewestIs ==
  ASSUME TypeOK, NEW t \in Times
  PROVE  /\ Newest(t) \in Times /\ Newest(t) \in Nat /\ t <= Newest(t)
         /\ newest # None => newest \in Nat /\ newest <= Newest(t)
BY WriterAssumption DEF TypeOK, Newest

LEMMA PrunedIs ==
  ASSUME WriterSound, NEW t \in Times
  PROVE  Kept(t)
<1> USE DEF WriterSound, TypeOK, EveryAlertAccounted
<1>0. Newest(t) \in Nat /\ Keep * Window \in Nat /\ \A k \in DOMAIN lastSeen : lastSeen[k] \in Nat
  <2>1. Newest(t) \in Nat
    BY NewestIs
  <2>2. Keep * Window \in Nat
    <3>1. Keep \in Nat /\ Window \in Nat
      BY WriterAssumption
    <3> QED BY <3>1
  <2>3. \A k \in DOMAIN lastSeen : lastSeen[k] \in Nat
    BY WriterAssumption
  <2> QED BY <2>1, <2>2, <2>3
<1>1. CASE ~Due(t)
  BY <1>1 DEF Pruned, Mentions, Kept
<1>2. CASE Due(t) /\ Overfull(t)
  <2>1. Pruned(t) = <<>> /\ Mentions(t) = <<>>
    BY <1>2 DEF Pruned, Mentions
  <2> QED BY <1>2, <2>1 DEF Kept
<1>3. CASE Due(t) /\ ~Overfull(t)
  <2>1. Pruned(t) = [k \in DOMAIN lastSeen \cap Recent(t) |-> lastSeen[k]]
    BY <1>3 DEF Pruned, Restricted
  <2> DEFINE S == {k \in Recent(t) : k \in DOMAIN suppressed /\ suppressed[k] > 0}
  <2>2. Mentions(t) = [k \in DOMAIN suppressed \cap S |-> suppressed[k]]
    BY <1>3 DEF Mentions, Restricted
  <2>3. \A k \in DOMAIN lastSeen : k \in Recent(t) \/ Newest(t) - lastSeen[k] >= Keep * Window
    BY <1>0 DEF Recent
  <2>4. DOMAIN Pruned(t) = DOMAIN lastSeen \cap Recent(t) /\ DOMAIN Mentions(t) = DOMAIN suppressed \cap S
    BY <2>1, <2>2
  <2>5. Pruned(t) \in [DOMAIN Pruned(t) -> Times] /\ Mentions(t) \in [DOMAIN Mentions(t) -> Nat]
    BY <2>1, <2>2
  <2>6. DOMAIN Mentions(t) \subseteq DOMAIN Pruned(t)
    BY <2>4 DEF Recent
  <2>7. \A k \in DOMAIN Pruned(t) : k \in DOMAIN lastSeen /\ Pruned(t)[k] = lastSeen[k]
    BY <2>1
  <2>8. \A k \in DOMAIN lastSeen : k \in DOMAIN Pruned(t) \/ Newest(t) - lastSeen[k] >= Keep * Window
    BY <2>3, <2>4
  <2> QED BY <2>5, <2>6, <2>7, <2>8 DEF Kept
<1> QED
  BY <1>1, <1>2, <1>3

LEMMA NotingIs ==
  ASSUME NEW f, NEW k, NEW v
  PROVE  /\ DOMAIN Noting(f, k, v) = DOMAIN f \cup {k}
         /\ Noting(f, k, v)[k] = v
         /\ \A j \in DOMAIN f : j # k => Noting(f, k, v)[j] = f[j]
BY DEF Noting

LEMMA NotingTyped ==
  ASSUME NEW S, NEW f, f \in [DOMAIN f -> S], NEW k, NEW v \in S
  PROVE  Noting(f, k, v) \in [DOMAIN Noting(f, k, v) -> S]
BY DEF Noting

-----------------------------------------------------------------------------
(* The writer, an action at a time. *)

LEMMA KeyIs == ASSUME NEW a \in Alerts PROVE SuppressionKey(a) \in Keys
BY DEF Keys

LEMMA AllowStep ==
  ASSUME WriterInv, NEW a \in Alerts, NEW t \in Times, Allow(a, t)
  PROVE  WriterInv'
BY DEF WriterInv, WriterSound, TypeOK, EveryAlertAccounted, Coherent, Bounded, Forgotten, Allow, Take, table

LEMMA HousekeepStep ==
  ASSUME WriterInv, NEW t \in Times, Housekeep(t)
  PROVE  /\ newest' \in Times /\ newest' \in Nat /\ t <= newest'
         /\ newest # None => newest <= newest'
         /\ lastPruned' \in Times \cup {None} /\ resets' \in Nat
         /\ resets' = 0 => resets = 0 /\ ~Overfull(t)
<1>1. newest' = Newest(t)
  BY DEF Housekeep
<1> QED
  BY <1>1, NewestIs DEF WriterInv, WriterSound, TypeOK, Housekeep

(* What the table has lost, now or before, is old even as of now. *)
LEMMA ForgetsTheOld ==
  ASSUME WriterInv, NEW t \in Times, Housekeep(t), resets' = 0, NEW k \in DOMAIN memory,
         k \notin DOMAIN Pruned(t)
  PROVE  newest' - memory[k] >= Keep * Window
<1> USE DEF WriterInv
<1>1. /\ newest' = Newest(t) /\ newest' \in Nat /\ resets = 0 /\ ~Overfull(t)
      /\ newest \in Nat /\ newest <= newest' /\ memory[k] \in Nat
  <2>1. newest \in Nat /\ newest # None
    BY WriterAssumption DEF Bounded
  <2>2. memory[k] \in Nat
    BY WriterAssumption DEF WriterSound, TypeOK
  <2> QED BY <2>1, <2>2, HousekeepStep DEF Housekeep
<1>2. Keep * Window \in Nat
  BY WriterAssumption
<1>3. CASE k \in DOMAIN lastSeen
  <2>1. Newest(t) - lastSeen[k] >= Keep * Window
    BY <1>1, <1>3, PrunedIs DEF Kept
  <2> QED BY <1>1, <1>3, <2>1 DEF Coherent
<1>4. CASE k \notin DOMAIN lastSeen
  <2>1. newest - memory[k] >= Keep * Window
    BY <1>1, <1>4 DEF Forgotten
  <2> QED BY <1>1, <1>2, <2>1
<1> QED
  BY <1>3, <1>4

LEMMA SuppressStep ==
  ASSUME WriterInv, NEW a \in Alerts, NEW t \in Times, Suppress(a, t)
  PROVE  WriterInv'
<1> USE DEF WriterInv
<1> DEFINE k == SuppressionKey(a)
           n == IF k \in DOMAIN Mentions(t) THEN Mentions(t)[k] + 1 ELSE 1
<1>1. Kept(t)
  BY PrunedIs
<1>2. /\ Housekeep(t) /\ lastSeen' = Pruned(t) /\ suppressed' = Noting(Mentions(t), k, n)
      /\ k \in DOMAIN Pruned(t) /\ hidden' = hidden + 1 /\ received' = received + 1
      /\ UNCHANGED <<open, emitted, allowlisted, noted, asked, memory, out>>
  BY DEF Suppress, Repeats, Take
<1>3. /\ newest' \in Times /\ newest' \in Nat /\ lastPruned' \in Times \cup {None} /\ resets' \in Nat
      /\ newest # None => newest <= newest'
  BY <1>2, HousekeepStep
<1>4. n \in Nat
  BY <1>1 DEF Kept
<1>5. DOMAIN suppressed' = DOMAIN Mentions(t) \cup {k} /\ suppressed' \in [DOMAIN suppressed' -> Nat]
  <2> HIDE DEF k, n
  <2> QED BY <1>1, <1>2, <1>4, NotingIs, NotingTyped DEF Kept
<1>6. /\ DOMAIN lastSeen' \subseteq DOMAIN lastSeen /\ lastSeen' \in [DOMAIN lastSeen' -> Times]
      /\ DOMAIN suppressed' \subseteq DOMAIN lastSeen'
  BY <1>1, <1>2, <1>5 DEF Kept
<1>7. TypeOK'
  BY <1>2, <1>3, <1>5, <1>6 DEF WriterSound, TypeOK
<1>8. EveryAlertAccounted'
  BY <1>2, <1>6 DEF WriterSound, TypeOK, EveryAlertAccounted
<1>9. Coherent'
  BY <1>1, <1>2 DEF Coherent, Kept
<1>10. Bounded'
  <2> SUFFICES ASSUME NEW j \in DOMAIN memory PROVE memory[j] <= newest'
    BY <1>2, <1>3 DEF Bounded
  <2>1. memory[j] \in Nat
    BY WriterAssumption DEF WriterSound, TypeOK
  <2>2. newest \in Nat /\ newest # None /\ memory[j] <= newest
    BY WriterAssumption DEF Bounded
  <2> QED BY <1>3, <2>1, <2>2
<1>11. Forgotten'
  BY <1>2, ForgetsTheOld DEF Forgotten
<1> QED
  BY <1>7, <1>8, <1>9, <1>10, <1>11 DEF WriterSound

LEMMA EmitStep ==
  ASSUME WriterInv, NEW a \in Alerts, NEW t \in Times, Emit(a, t)
  PROVE  WriterInv'
<1> USE DEF WriterInv
<1> DEFINE k == SuppressionKey(a)
<1>1. Kept(t) /\ k \in Keys
  BY PrunedIs, KeyIs
<1>2. /\ Housekeep(t) /\ lastSeen' = Noting(Pruned(t), k, t) /\ memory' = Noting(memory, k, t)
      /\ suppressed' = Mentions(t) \/ suppressed' = Noting(Mentions(t), k, 0)
      /\ noted' = noted + Withheld(a, t) /\ out' = Append(out, [key |-> k, ts |-> t])
      /\ emitted' = emitted + 1 /\ asked' = asked + 1 /\ received' = received + 1
      /\ UNCHANGED <<open, hidden, allowlisted>>
  BY DEF Emit, Take
<1>3. /\ newest' \in Times /\ newest' \in Nat /\ t <= newest'
      /\ lastPruned' \in Times \cup {None} /\ resets' \in Nat
      /\ newest # None => newest <= newest'
  BY <1>2, HousekeepStep
<1>4. Withheld(a, t) \in Nat
  BY <1>1 DEF Kept, Withheld
<1>5. /\ DOMAIN lastSeen' = DOMAIN Pruned(t) \cup {k} /\ lastSeen'[k] = t
      /\ \A j \in DOMAIN Pruned(t) : j # k => lastSeen'[j] = Pruned(t)[j]
      /\ lastSeen' \in [DOMAIN lastSeen' -> Times]
  <2> HIDE DEF k
  <2>1. Noting(Pruned(t), k, t) \in [DOMAIN Noting(Pruned(t), k, t) -> Times]
    BY <1>1, NotingTyped DEF Kept
  <2>2. /\ DOMAIN Noting(Pruned(t), k, t) = DOMAIN Pruned(t) \cup {k} /\ Noting(Pruned(t), k, t)[k] = t
        /\ \A j \in DOMAIN Pruned(t) : j # k => Noting(Pruned(t), k, t)[j] = Pruned(t)[j]
    BY DEF Noting
  <2> QED BY <1>2, <2>1, <2>2
<1>6. /\ DOMAIN memory' = DOMAIN memory \cup {k} /\ memory'[k] = t
      /\ \A j \in DOMAIN memory : j # k => memory'[j] = memory[j]
      /\ memory' \in [DOMAIN memory' -> Times]
  <2> HIDE DEF k
  <2>1. Noting(memory, k, t) \in [DOMAIN Noting(memory, k, t) -> Times]
    BY NotingTyped DEF WriterSound, TypeOK
  <2>2. /\ DOMAIN Noting(memory, k, t) = DOMAIN memory \cup {k} /\ Noting(memory, k, t)[k] = t
        /\ \A j \in DOMAIN memory : j # k => Noting(memory, k, t)[j] = memory[j]
    BY DEF Noting
  <2> QED BY <1>2, <2>1, <2>2
<1>7. DOMAIN suppressed' \subseteq DOMAIN Mentions(t) \cup {k} /\ suppressed' \in [DOMAIN suppressed' -> Nat]
  <2> HIDE DEF k
  <2>1. Noting(Mentions(t), k, 0) \in [DOMAIN Noting(Mentions(t), k, 0) -> Nat]
    BY <1>1, NotingTyped DEF Kept
  <2>2. DOMAIN Noting(Mentions(t), k, 0) = DOMAIN Mentions(t) \cup {k}
    BY NotingIs
  <2> QED BY <1>1, <1>2, <2>1, <2>2 DEF Kept
<1>8. out' \in Seq([key : Keys, ts : Times]) /\ Len(out') = Len(out) + 1
  BY <1>1, <1>2 DEF WriterSound, TypeOK
<1>9. TypeOK'
  <2>1. DOMAIN lastSeen' \subseteq Keys /\ DOMAIN suppressed' \subseteq Keys /\ DOMAIN memory' \subseteq Keys
    <3> HIDE DEF k
    <3> QED BY <1>1, <1>5, <1>6, <1>7 DEF Kept, WriterSound, TypeOK
  <2>2. /\ open' \in BOOLEAN
        /\ emitted' \in Nat /\ hidden' \in Nat /\ allowlisted' \in Nat
        /\ asked' \in Nat /\ received' \in Nat
    <3> HIDE DEF k
    <3>1. /\ open \in BOOLEAN
          /\ emitted \in Nat /\ hidden \in Nat /\ allowlisted \in Nat /\ asked \in Nat /\ received \in Nat
      BY DEF WriterSound, TypeOK
    <3>2. emitted + 1 \in Nat /\ asked + 1 \in Nat /\ received + 1 \in Nat
      BY <3>1
    <3> QED BY <1>2, <3>1, <3>2, Zenon
  <2>3. noted' \in Nat
    <3> HIDE DEF k
    <3>1. noted \in Nat
      BY DEF WriterSound, TypeOK
    <3> QED BY <1>2, <1>4, <3>1
  <2> HIDE DEF k
  <2> QED
    BY <1>3, <1>5, <1>6, <1>7, <1>8, <2>1, <2>2, <2>3, Zenon DEF TypeOK
<1>10. EveryAlertAccounted'
  <2>1. \A j \in DOMAIN suppressed' : j \in DOMAIN lastSeen'
    <3> HIDE DEF k
    <3> QED BY <1>1, <1>5, <1>7 DEF Kept
  <2> QED
    BY <1>2, <1>8, <2>1 DEF WriterSound, TypeOK, EveryAlertAccounted
<1>11. Coherent'
  <2> HIDE DEF k
  <2> QED BY <1>1, <1>5, <1>6 DEF Coherent, Kept
<1>12. Bounded'
  <2> SUFFICES ASSUME NEW j \in DOMAIN memory' PROVE memory'[j] <= newest'
    BY <1>3 DEF Bounded
  <2>1. CASE j = k
    BY <1>3, <1>6, <2>1
  <2>2. CASE j # k
    <3>1. j \in DOMAIN memory /\ memory'[j] = memory[j] /\ memory[j] \in Nat
      BY <1>6, <2>2, WriterAssumption DEF WriterSound, TypeOK
    <3>2. newest \in Nat /\ newest # None /\ memory[j] <= newest
      BY <3>1, WriterAssumption DEF Bounded
    <3> QED BY <1>3, <3>1, <3>2
  <2> QED BY <2>1, <2>2
<1>13. Forgotten'
  <2> SUFFICES ASSUME resets' = 0, NEW j \in DOMAIN memory', j \notin DOMAIN lastSeen'
               PROVE  newest' - memory'[j] >= Keep * Window
    BY DEF Forgotten
  <2>1. j # k /\ j \in DOMAIN memory /\ j \notin DOMAIN Pruned(t) /\ memory'[j] = memory[j]
    BY <1>5, <1>6
  <2>2. newest' - memory[j] >= Keep * Window
    BY <1>2, <2>1, ForgetsTheOld
  <2> QED BY <2>1, <2>2
<1> QED
  BY <1>9, <1>10, <1>11, <1>12, <1>13 DEF WriterSound

-----------------------------------------------------------------------------
(* The lines. *)

Alerting(s, b) == {n \in b + 1 .. Len(s) : s[n].kind = "alert"}

LineAdded(s, x, b) ==
  /\ Len(Append(s, x)) = Len(s) + 1
  /\ Cardinality(Alerting(s, b)) \in Nat
  /\ Cardinality(Alerting(Append(s, x), b)) =
       Cardinality(Alerting(s, b)) + (IF x.kind = "alert" THEN 1 ELSE 0)
  /\ \A n \in Alerting(Append(s, x), b) :
       \/ n \in Alerting(s, b) /\ Append(s, x)[n] = s[n]
       \/ Append(s, x)[n] = x /\ x.kind = "alert"

LEMMA AlertLineAdded ==
  ASSUME NEW T, NEW s \in Seq(T), NEW x \in T, NEW b \in Nat, b <= Len(s)
  PROVE  LineAdded(s, x, b)
<1> DEFINE t == Append(s, x)
<1>1. t \in Seq(T) /\ Len(t) = Len(s) + 1 /\ t[Len(s) + 1] = x /\ \A n \in 1 .. Len(s) : t[n] = s[n]
  OBVIOUS
<1>2. IsFiniteSet(b + 1 .. Len(s))
  <2>1. b + 1 \in Int /\ Len(s) \in Int
    OBVIOUS
  <2> QED BY <2>1, FS_Interval
<1>3. IsFiniteSet(Alerting(s, b))
  <2>1. Alerting(s, b) \in SUBSET (b + 1 .. Len(s))
    BY DEF Alerting
  <2> QED BY <1>2, <2>1, FS_Subset
<1>4. Cardinality(Alerting(s, b)) \in Nat
  BY <1>3, FS_CardinalityType
<1>5. Len(s) + 1 \notin Alerting(s, b)
  BY DEF Alerting
<1>6. CASE x.kind = "alert"
  <2>1. Alerting(t, b) = Alerting(s, b) \cup {Len(s) + 1}
    BY <1>1, <1>6 DEF Alerting
  <2>2. Cardinality(Alerting(t, b)) = Cardinality(Alerting(s, b)) + 1
    BY <1>3, <1>5, <2>1, FS_AddElement
  <2>3. \A n \in Alerting(t, b) : (n \in Alerting(s, b) /\ t[n] = s[n]) \/ t[n] = x
    BY <1>1, <2>1 DEF Alerting
  <2> QED BY <1>1, <1>4, <1>6, <2>2, <2>3 DEF LineAdded
<1>7. CASE x.kind # "alert"
  <2>1. Alerting(t, b) = Alerting(s, b)
    BY <1>1, <1>7 DEF Alerting
  <2>2. \A n \in Alerting(t, b) : n \in Alerting(s, b) /\ t[n] = s[n]
    BY <1>1, <2>1 DEF Alerting
  <2>3. Cardinality(Alerting(t, b)) = Cardinality(Alerting(s, b))
    BY <2>1, Zenon
  <2>4. Cardinality(Alerting(t, b)) = Cardinality(Alerting(s, b)) + (IF x.kind = "alert" THEN 1 ELSE 0)
    <3> HIDE DEF t
    <3> QED BY <1>4, <1>7, <2>3
  <2> QED BY <1>1, <1>4, <2>2, <2>4 DEF LineAdded
<1> QED
  BY <1>6, <1>7

(* An alert is told: a line for it, and before it one for the repeats that *)
(* were withheld.                                                          *)
LEMMA TellTells ==
  ASSUME IInv, NEW a \in Alerts, NEW t \in Times, Tell(a, t)
  PROVE  LinesInv' /\ TellsOnlyEmitted'
<1> DEFINE note == [kind |-> "note"]
           line == [kind |-> "alert", alert |-> a, tags |-> TagsOf(intel, a)]
           noted0 == IF Withheld(a, t) > 0 THEN Append(text, note) ELSE text
<1>1. text \in Seq(Line) /\ base \in Nat /\ base <= Len(text) /\ note \in Line /\ line \in Line
  BY DEF IInv, LinesInv, Line
<1>2. /\ text' = Append(noted0, line) /\ base' = base /\ intel' = intel
      /\ emitted' = emitted + 1 /\ a \notin Allowed
  <2>1. text' = text \o (IF Withheld(a, t) > 0 THEN <<note>> ELSE <<>>) \o <<line>>
    BY DEF Tell
  <2>2. noted0 = text \o (IF Withheld(a, t) > 0 THEN <<note>> ELSE <<>>) /\ noted0 \in Seq(Line)
    BY <1>1
  <2>3. text' = Append(noted0, line)
    <3> HIDE DEF note, line, noted0
    <3> QED BY <1>1, <2>1, <2>2
  <2> QED
    BY <2>3 DEF Tell, Emit
<1>3. /\ noted0 \in Seq(Line) /\ base <= Len(noted0)
      /\ Cardinality(Alerting(noted0, base)) = emitted /\ emitted \in Nat
      /\ \A n \in Alerting(noted0, base) : noted0[n].alert \notin Allowed
  <2>0. /\ Cardinality(Alerting(text, base)) = emitted /\ emitted \in Nat
        /\ \A n \in Alerting(text, base) : text[n].alert \notin Allowed
    BY DEF IInv, TellsOnlyEmitted, Alerting, WriterInv, WriterSound, TypeOK
  <2>1. CASE Withheld(a, t) > 0
    <3>1. LineAdded(text, note, base)
      BY <1>1, AlertLineAdded
    <3>2. noted0 = Append(text, note) /\ note.kind # "alert"
      BY <2>1
    <3>3. noted0 \in Seq(Line)
      BY <1>1, <3>2
    <3> HIDE DEF note, noted0
    <3>4. Len(noted0) = Len(text) + 1 /\ base <= Len(noted0)
      BY <1>1, <3>1, <3>2 DEF LineAdded
    <3>5. Cardinality(Alerting(noted0, base)) = emitted
      BY <2>0, <3>1, <3>2 DEF LineAdded
    <3>6. \A n \in Alerting(noted0, base) : noted0[n].alert \notin Allowed
      BY <2>0, <3>1, <3>2 DEF LineAdded
    <3> QED BY <2>0, <3>3, <3>4, <3>5, <3>6
  <2>2. CASE ~(Withheld(a, t) > 0)
    BY <1>1, <2>0, <2>2
  <2> QED BY <2>1, <2>2
<1>4. LineAdded(noted0, line, base)
  <2> HIDE DEF note, line, noted0
  <2> QED BY <1>1, <1>3, AlertLineAdded
<1>5. line.kind = "alert" /\ line.alert = a
  OBVIOUS
<1> HIDE DEF note, line, noted0
<1>6. Line' = Line
  BY <1>2 DEF Line
<1>7. LinesInv'
  <2>1. text' \in Seq(Line) /\ Len(text') = Len(noted0) + 1
    BY <1>1, <1>2, <1>3
  <2> QED BY <1>1, <1>2, <1>3, <1>6, <2>1 DEF LinesInv
<1>8. Cardinality(Alerting(text', base')) = emitted'
  BY <1>2, <1>3, <1>4, <1>5 DEF LineAdded
<1>9. \A n \in Alerting(text', base') : text'[n].alert \notin Allowed
  BY <1>2, <1>3, <1>4, <1>5 DEF LineAdded
<1> QED
  BY <1>7, <1>8, <1>9 DEF TellsOnlyEmitted, Alerting

LEMMA LinesUnmoved ==
  ASSUME LinesInv, TellsOnlyEmitted, UNCHANGED <<text, base, intel, emitted>>,
         Len(text) = base => UNCHANGED <<memory, out, hidden>>
  PROVE  LinesInv' /\ TellsOnlyEmitted'
<1>1. Line' = Line
  BY DEF Line
<1> QED
  BY <1>1 DEF LinesInv, TellsOnlyEmitted

LEMMA WriterUnmoved == ASSUME WriterInv, UNCHANGED vars PROVE WriterInv'
BY DEF vars, table, stats, WriterInv, WriterSound, TypeOK, EveryAlertAccounted, Coherent, Bounded, Forgotten

LEMMA StepUnmoved ==
  ASSUME IInv, UNCHANGED <<vars, text, base, intel>>
  PROVE  IInv'
BY WriterUnmoved, LinesUnmoved DEF IInv, vars, stats

LEMMA QuietStep ==
  ASSUME IInv, NEW a \in Alerts, NEW t \in Times, Quiet(a, t)
  PROVE  IInv'
<1>1. WriterInv'
  BY AllowStep, SuppressStep DEF IInv, Quiet
<1>2. UNCHANGED <<text, base, intel, emitted>>
  BY DEF Quiet, Allow, Suppress
<1>3. Len(text) = base => UNCHANGED <<memory, out, hidden>>
  <2> SUFFICES ASSUME Len(text) = base PROVE UNCHANGED <<memory, out, hidden>>
    OBVIOUS
  <2>1. memory = <<>>
    BY DEF IInv, LinesInv
  <2>2. SuppressionKey(a) \notin DOMAIN Pruned(t)
    BY <2>1, PrunedIs DEF IInv, WriterInv, Kept, Coherent
  <2> QED
    BY <2>2 DEF Quiet, Allow, Suppress, Repeats
<1> QED
  BY <1>1, <1>2, <1>3, LinesUnmoved DEF IInv

(* A new process has a writer that knows nothing, and its own lines.       *)
LEMMA CrashStep ==
  ASSUME IInv, NEW a \in Alerts, NEW n \in 0 .. KeepLogs + 1, Crash(a, n)
  PROVE  IInv'
<1>1. /\ lastSeen' = <<>> /\ suppressed' = <<>> /\ newest' = None /\ lastPruned' = None
      /\ emitted' = 0 /\ hidden' = 0 /\ allowlisted' = 0 /\ resets' = 0 /\ noted' = 0 /\ asked' = 0
      /\ received' = 0 /\ memory' = <<>> /\ out' = <<>> /\ open' = open
  BY DEF Crash
<1>2. TypeOK'
  BY <1>1 DEF IInv, WriterInv, WriterSound, TypeOK
<1>3. WriterInv'
  BY <1>1, <1>2 DEF WriterInv, WriterSound, EveryAlertAccounted, Coherent, Bounded, Forgotten
<1> DEFINE line == [kind |-> "alert", alert |-> a, tags |-> TagsOf(intel, a)]
<1>4. text \in Seq(Line) /\ line \in Line
  BY DEF IInv, LinesInv, Line
<1>5. (text' = Append(text, line) \/ text' = text) /\ base' = Len(text') /\ intel' = intel
  BY DEF Crash
<1> HIDE DEF line
<1>6. text' \in Seq(Line) /\ base' \in Nat
  BY <1>4, <1>5
<1>7. Line' = Line
  BY <1>5 DEF Line
<1>8. LinesInv'
  BY <1>1, <1>5, <1>6, <1>7 DEF LinesInv
<1>9. TellsOnlyEmitted'
  <2>1. base' + 1 .. Len(text') = {}
    BY <1>5, <1>6
  <2> QED BY <1>1, <2>1, FS_EmptySet DEF TellsOnlyEmitted
<1> QED
  BY <1>3, <1>8, <1>9 DEF IInv

-----------------------------------------------------------------------------
(* The whole, a step at a time: only an alert and a crash touch the writer *)
(* or its lines.                                                           *)
Elsewhere ==
  \/ FlushTimeout \/ Stop \/ DiskTurns \/ CollectorTurns \/ LogMoved \/ LogSignal
  \/ \E d \in {"good", "readonly", "noopen"} : DirTurns(d)
  \/ \E pair \in Pairs, what \in Meets : Sight(pair, what)
  \/ \E len \in {1, RetainBytes + 1} : Frame(len)
  \/ EndCapture \/ Serve \/ Save \/ UNCHANGED dvars

LEMMA ElsewhereKeeps ==
  Elsewhere => UNCHANGED <<table, stats, received, memory, out, text, base, intel>> /\ (open' = open \/ open' = FALSE)
<1>1. Stop => UNCHANGED <<table, stats, received, memory, out, text, base, intel>> /\ open' = FALSE
  BY DEF Stop, Disconnected
<1>2. ASSUME NEW d, Dumping(d) PROVE UNCHANGED <<vars, text, base, intel>>
  BY <1>2 DEF Dumping
<1>3. ASSUME NEW pair, NEW what, Sight(pair, what) PROVE UNCHANGED <<vars, text, base, intel>>
  BY <1>3 DEF Sight, Sees
<1>4. FlushTimeout \/ DiskTurns \/ CollectorTurns \/ LogMoved \/ LogSignal \/ UNCHANGED dvars
        => UNCHANGED <<vars, text, base, intel>>
  BY DEF FlushTimeout, DiskTurns, CollectorTurns, LogMoved, LogSignal, dvars
<1>5. ASSUME NEW d, DirTurns(d) PROVE UNCHANGED <<vars, text, base, intel>>
  BY <1>5 DEF DirTurns
<1>6. (\E len \in {1, RetainBytes + 1} : Frame(len)) \/ EndCapture \/ Serve \/ Save
        => UNCHANGED <<vars, text, base, intel>>
  BY <1>2 DEF Frame, EndCapture, Serve, Save
<1>7. UNCHANGED <<vars, text, base, intel>>
        => UNCHANGED <<table, stats, received, memory, out, text, base, intel>> /\ open' = open
  BY DEF vars
<1> QED
  BY <1>1, <1>3, <1>4, <1>5, <1>6, <1>7 DEF Elsewhere

LEMMA ElsewhereStep == IInv /\ Elsewhere => IInv'
<1> SUFFICES ASSUME IInv, Elsewhere PROVE IInv'
  OBVIOUS
<1>1. UNCHANGED <<table, stats, received, memory, out, text, base, intel>> /\ open' \in BOOLEAN
  BY ElsewhereKeeps DEF IInv, WriterInv, WriterSound, TypeOK
<1>2. WriterInv'
  BY <1>1 DEF IInv, table, stats, WriterInv, WriterSound, TypeOK, EveryAlertAccounted, Coherent, Bounded, Forgotten
<1> QED
  BY <1>1, <1>2, LinesUnmoved DEF IInv, stats

LEMMA Steps ==
  [DeliveryNext]_dvars <=>
    \/ \E a \in Alerts, t \in Times : Quiet(a, t) \/ Tell(a, t)
    \/ \E a \in Alerts, n \in 0 .. KeepLogs + 1 : Crash(a, n)
    \/ Elsewhere
BY DEF DeliveryNext, Elsewhere

LEMMA InitIInv == DeliveryInit => IInv
<1> SUFFICES ASSUME DeliveryInit PROVE IInv
  OBVIOUS
<1>1. TypeOK
  BY DEF DeliveryInit, Init, TypeOK
<1>2. WriterInv
  BY <1>1 DEF DeliveryInit, Init, WriterInv, WriterSound, EveryAlertAccounted, Coherent, Bounded, Forgotten
<1>3. LinesInv
  BY DEF DeliveryInit, Init, LinesInv
<1>4. TellsOnlyEmitted
  <2>1. base + 1 .. Len(text) = {}
    BY DEF DeliveryInit
  <2> QED BY <2>1, FS_EmptySet DEF DeliveryInit, Init, TellsOnlyEmitted
<1> QED
  BY <1>2, <1>3, <1>4 DEF IInv

LEMMA NextIInv == IInv /\ [DeliveryNext]_dvars => IInv'
<1> SUFFICES ASSUME IInv, [DeliveryNext]_dvars PROVE IInv'
  OBVIOUS
<1>1. ASSUME NEW a \in Alerts, NEW t \in Times, Quiet(a, t) PROVE IInv'
  BY <1>1, QuietStep
<1>2. ASSUME NEW a \in Alerts, NEW t \in Times, Tell(a, t) PROVE IInv'
  BY <1>2, EmitStep, TellTells DEF IInv, Tell
<1>3. ASSUME NEW a \in Alerts, NEW n \in 0 .. KeepLogs + 1, Crash(a, n) PROVE IInv'
  BY <1>3, CrashStep
<1>4. CASE Elsewhere
  BY <1>4, ElsewhereStep
<1> QED
  BY <1>1, <1>2, <1>3, <1>4, Steps

LEMMA AlwaysIInv == DeliverySpec => []IInv
BY InitIInv, NextIInv, PTL DEF DeliverySpec

(* However alerts arrive and whenever the process is killed, each one      *)
(* taken is written, withheld or allowlisted, no count of repeats outlives *)
(* its key, and a line is told for each that is written and no other.      *)
THEOREM EachAlertAccounted == DeliverySpec => []DeliverySound
<1>1. IInv => DeliverySound
  BY DEF IInv, WriterInv, DeliverySound
<1> QED
  BY <1>1, AlwaysIInv, PTL

-----------------------------------------------------------------------------
LEMMA TooOld ==
  ASSUME NEW n \in Nat, NEW m \in Nat, NEW t \in Nat, NEW late \in Nat, NEW w \in Nat, NEW keep \in Nat,
         n - m >= keep, t >= n - late, late + w <= keep
  PROVE  t - m >= w
OBVIOUS

(* An alert is a repeat for the pruned table exactly if it is for one that *)
(* was never pruned.                                                       *)
LEMMA RepeatsAsRemembered ==
  ASSUME WriterInv, NEW t \in Times, Take(t), Housekeep(t), resets' = 0, NEW k
  PROVE  Repeats(Pruned(t), k, t) <=> Repeats(memory, k, t)
<1> USE DEF WriterInv
<1>1. CASE k \in DOMAIN Pruned(t)
  <2>1. k \in DOMAIN memory /\ Pruned(t)[k] = memory[k]
    BY <1>1, PrunedIs DEF Kept, Coherent
  <2> QED BY <1>1, <2>1 DEF Repeats
<1>2. CASE k \notin DOMAIN Pruned(t) /\ k \in DOMAIN memory
  <2>1. newest' - memory[k] >= Keep * Window
    BY <1>2, ForgetsTheOld
  <2>2. memory[k] \in Nat /\ newest \in Nat /\ newest # None /\ t \in Nat
    BY <1>2, WriterAssumption DEF Bounded, WriterSound, TypeOK
  <2>3. t >= newest' - MaxLate
    <3>1. t >= newest - MaxLate
      BY <2>2 DEF Take
    <3>2. newest' = newest \/ newest' = t
      BY DEF Housekeep, Newest
    <3> QED BY <2>2, <3>1, <3>2, WriterAssumption
  <2>4. Keep * Window \in Nat /\ MaxLate + Window <= Keep * Window /\ newest' \in Nat
    <3>1. newest' \in Nat
      BY HousekeepStep
    <3> QED BY <3>1, WriterAssumption, InFlightAssumption
  <2>5. t - memory[k] >= Window
    <3>1. MaxLate \in Nat /\ Window \in Nat
      BY WriterAssumption
    <3> QED BY <2>1, <2>2, <2>3, <2>4, <3>1, TooOld
  <2> QED BY <1>2, <2>2, <2>5, WriterAssumption DEF Repeats
<1>3. CASE k \notin DOMAIN Pruned(t) /\ k \notin DOMAIN memory
  BY <1>3 DEF Repeats
<1> QED
  BY <1>1, <1>2, <1>3

Mapped == UNCHANGED Remembered!vars \/ (resets' = 0 /\ base' = base => Remembered!Next)

LEMMA QuietMapped ==
  ASSUME IInv, NEW a \in Alerts, NEW t \in Times, Quiet(a, t)
  PROVE  Mapped
<1>1. CASE Allow(a, t)
  BY <1>1 DEF Allow, Mapped, Remembered!vars
<1>2. CASE Suppress(a, t)
  <2> DEFINE k == SuppressionKey(a)
  <2>1. /\ k \in Keys /\ Take(t) /\ Housekeep(t) /\ Repeats(Pruned(t), k, t)
        /\ hidden' = hidden + 1 /\ UNCHANGED <<memory, out>>
    BY <1>2, KeyIs DEF Suppress
  <2> HIDE DEF k
  <2>2. resets' = 0 => Repeats(memory, k, t)
    BY <2>1, RepeatsAsRemembered DEF IInv
  <2>3. resets' = 0 => Remembered!Hide(k, t)
    BY <2>1, <2>2 DEF Repeats, Remembered!Hide, Remembered!Repeats
  <2> QED
    BY <2>1, <2>3 DEF Mapped, Remembered!Next
<1> QED
  BY <1>1, <1>2 DEF Quiet

LEMMA TellMapped ==
  ASSUME IInv, NEW a \in Alerts, NEW t \in Times, Tell(a, t)
  PROVE  Mapped
<1> DEFINE k == SuppressionKey(a)
<1>1. /\ k \in Keys /\ Take(t) /\ Housekeep(t) /\ ~Repeats(Pruned(t), k, t) /\ hidden' = hidden
      /\ memory' = Noting(memory, k, t) /\ out' = Append(out, [key |-> k, ts |-> t])
  BY KeyIs DEF Tell, Emit
<1> HIDE DEF k
<1>2. resets' = 0 => ~Repeats(memory, k, t)
  BY <1>1, RepeatsAsRemembered DEF IInv
<1>3. resets' = 0 => Remembered!Write(k, t)
  BY <1>1, <1>2 DEF Repeats, Noting, Remembered!Write, Remembered!Repeats, Remembered!Note
<1> QED
  BY <1>1, <1>3 DEF Mapped, Remembered!Next

(* A process killed before its first line had nothing to forget. *)
LEMMA CrashMapped ==
  ASSUME IInv, NEW a \in Alerts, NEW n \in 0 .. KeepLogs + 1, Crash(a, n)
  PROVE  Mapped
<1> DEFINE line == [kind |-> "alert", alert |-> a, tags |-> TagsOf(intel, a)]
<1>1. text \in Seq(Line) /\ line \in Line /\ base <= Len(text) /\ base \in Nat
  BY DEF IInv, LinesInv, Line
<1>2. (text' = Append(text, line) \/ text' = text) /\ base' = Len(text')
  BY DEF Crash
<1> HIDE DEF line
<1>3. base' = base => Len(text) = base
  <2>1. text' = Append(text, line) => Len(text') = Len(text) + 1
    BY <1>1
  <2>2. Len(text) \in Nat
    BY <1>1
  <2>3. text' = text => Len(text') = Len(text)
    OBVIOUS
  <2> QED BY <1>1, <1>2, <2>1, <2>2, <2>3
<1>4. base' = base => memory = <<>> /\ out = <<>> /\ hidden = 0
  BY <1>3 DEF IInv, LinesInv
<1>5. memory' = <<>> /\ out' = <<>> /\ hidden' = 0
  BY DEF Crash
<1> QED
  BY <1>4, <1>5 DEF Mapped, Remembered!vars

LEMMA NextMapped ==
  IInv /\ [DeliveryNext]_dvars => [resets' = 0 /\ base' = base => Remembered!Next]_(Remembered!vars)
<1> SUFFICES ASSUME IInv, [DeliveryNext]_dvars PROVE Mapped
  BY DEF Mapped
<1>1. ASSUME Elsewhere PROVE Mapped
  BY <1>1, ElsewhereKeeps DEF Mapped, stats, Remembered!vars
<1> QED
  BY <1>1, QuietMapped, TellMapped, CrashMapped, Steps

(* The table that is pruned suppresses exactly what one that forgets       *)
(* nothing would: each step until the table is cleared, or its process     *)
(* killed, is one of Suppression.                                          *)
THEOREM PruningIsNotSeen == DeliverySpec => ImplementsSuppression
<1>1. DeliveryInit => Remembered!Init
  BY DEF DeliveryInit, Init, Remembered!Init
<1> QED
  BY <1>1, AlwaysIInv, NextMapped, PTL DEF DeliverySpec, ImplementsSuppression

-----------------------------------------------------------------------------
(* Counting up to n, and what a loop that counts has computed by then. *)
LEMMA Climbs ==
  ASSUME NEW n \in Nat, NEW T, 0 \in T, \A i \in 1 .. n : i - 1 \in T => i \in T
  PROVE  \A i \in 0 .. n : i \in T
<1> SUFFICES ASSUME {i \in 0 .. n : i \notin T} # {} PROVE FALSE
  OBVIOUS
<1> DEFINE S == {i \in 0 .. n : i \notin T}
<1>0. S \subseteq Nat /\ S # {}
  OBVIOUS
<1>1. PICK m \in S : \A y \in S : <<y, m>> \notin OpToRel(<, Nat)
  <2> HIDE DEF S
  <2> QED BY <1>0, NatLessThanWellFounded, WFMin
<1>2. m \in 1 .. n /\ m - 1 \in 0 .. n /\ m - 1 < m /\ m \in Nat /\ m - 1 \in Nat
  OBVIOUS
<1>3. m - 1 \notin S
  BY <1>1, <1>2 DEF OpToRel
<1> QED
  BY <1>2, <1>3

Turns(n, S) == [1 .. n -> [S -> S]]
Loop(f, n, S, x, g) ==
  f \in [0 .. n -> S] /\ f[0] = x /\ \A i \in 1 .. n : f[i] = g[i][f[i - 1]]

LEMMA LoopExists ==
  ASSUME NEW n \in Nat, NEW S, NEW x \in S, NEW g \in Turns(n, S)
  PROVE  \E f : Loop(f, n, S, x, g)
<1> USE DEF Turns
<1> DEFINE Ran(f, m) == f[0] = x /\ \A i \in 1 .. m : f[i] = g[i][f[i - 1]]
           T == {m \in 0 .. n : \E f \in [0 .. m -> S] : Ran(f, m)}
<1>1. 0 \in T
  <2> DEFINE f == [i \in 0 .. 0 |-> x]
  <2>1. f \in [0 .. 0 -> S] /\ Ran(f, 0)
    OBVIOUS
  <2>2. 0 \in 0 .. n
    OBVIOUS
  <2> HIDE DEF f, Ran
  <2> QED BY <2>1, <2>2
<1>2. ASSUME NEW m \in 1 .. n, m - 1 \in T PROVE m \in T
  <2>1. PICK f \in [0 .. m - 1 -> S] : Ran(f, m - 1)
    BY <1>2
  <2> DEFINE h == [i \in 0 .. m |-> IF i < m THEN f[i] ELSE g[m][f[m - 1]]]
  <2>2. h \in [0 .. m -> S]
    <3>1. f[m - 1] \in S /\ g[m] \in [S -> S]
      OBVIOUS
    <3>2. g[m][f[m - 1]] \in S
      BY <3>1
    <3> QED BY <3>2
  <2>3. h[0] = x
    BY <2>1
  <2>4. ASSUME NEW i \in 1 .. m PROVE h[i] = g[i][h[i - 1]]
    <3>1. h[i - 1] = f[i - 1]
      OBVIOUS
    <3>2. CASE i < m
      BY <2>1, <3>1, <3>2
    <3>3. CASE i = m
      BY <3>1, <3>3
    <3> QED BY <3>2, <3>3
  <2>5. Ran(h, m)
    BY <2>3, <2>4
  <2> HIDE DEF h, Ran
  <2> QED BY <2>2, <2>5
<1>3. n \in T
  <2> HIDE DEF T
  <2>1. \A i \in 0 .. n : i \in T
    BY <1>1, <1>2, Climbs
  <2> QED BY <2>1
<1> QED
  BY <1>3 DEF Loop

-----------------------------------------------------------------------------
(* The blocks of addresses. *)
Doubling(size, k) == size = [n \in 0 .. k |-> IF n = 0 THEN 1 ELSE 2 * size[n - 1]]

LEMMA BlockIs == ASSUME NEW k \in Nat PROVE Block(k) \in Nat \ {0}
<1> DEFINE P == Nat \ {0}
           g == [i \in 1 .. k |-> [x \in P |-> 2 * x]]
           s == CHOOSE size : Doubling(size, k)
<1>1. 1 \in P /\ g \in Turns(k, P)
  BY DEF Turns
<1>2. PICK f : Loop(f, k, P, 1, g)
  <2> HIDE DEF g, P
  <2> QED BY <1>1, LoopExists
<1>3. Doubling(f, k)
  <2>1. ASSUME NEW i \in 0 .. k PROVE f[i] = IF i = 0 THEN 1 ELSE 2 * f[i - 1]
    <3>1. CASE i = 0
      BY <1>2, <3>1 DEF Loop
    <3>2. CASE i \in 1 .. k
      <4>1. f[i] = g[i][f[i - 1]] /\ f[i - 1] \in P
        BY <1>2, <3>2 DEF Loop
      <4> QED BY <3>2, <4>1
    <3> QED BY <3>1, <3>2
  <2>2. f = [i \in 0 .. k |-> f[i]]
    BY <1>2 DEF Loop
  <2> QED BY <2>1, <2>2 DEF Doubling
<1>4. Doubling(s, k)
  BY <1>3
<1>5. Block(k) = s[k]
  BY DEF Block, Doubling
<1> HIDE DEF s
<1>6. \A i \in 0 .. k : s[i] = IF i = 0 THEN 1 ELSE 2 * s[i - 1]
  BY <1>4 DEF Doubling
<1> DEFINE T == {i \in 0 .. k : s[i] \in P}
<1>7. 0 \in T
  BY <1>6
<1>8. ASSUME NEW i \in 1 .. k, i - 1 \in T PROVE i \in T
  <2>1. s[i] = 2 * s[i - 1]
    BY <1>6
  <2> QED BY <1>8, <2>1
<1>9. \A i \in 0 .. k : i \in T
  <2> HIDE DEF T
  <2> QED BY <1>7, <1>8, Climbs
<1> QED
  BY <1>5, <1>9

(* A block has the addresses that divide as its own do. *)
LEMMA BlocksDivide ==
  ASSUME NEW size \in Nat \ {0}, NEW x \in Nat, NEW y \in Nat
  PROVE  (y \div size) * size <= x /\ x <= (y \div size) * size + size - 1 <=> y \div size = x \div size
<1> DEFINE k == x \div size
           l == y \div size
<1>1. k \in Int /\ l \in Int /\ x = size * k + (x % size) /\ 0 <= x % size /\ x % size < size
  OBVIOUS
<1>2. l * size = size * l /\ size * l \in Int /\ size * k \in Int
  BY <1>1
<1> HIDE DEF k, l
<1>3. CASE l = k
  BY <1>1, <1>2, <1>3
<1>4. CASE l <= k - 1
  <2>1. size * l <= size * k - size
    BY <1>1, <1>4
  <2> QED BY <1>1, <1>2, <1>4, <2>1
<1>5. CASE l >= k + 1
  <2>1. size * l >= size * k + size
    BY <1>1, <1>5
  <2> QED BY <1>1, <1>2, <1>5, <2>1
<1> QED
  BY <1>1, <1>3, <1>4, <1>5 DEF k, l

-----------------------------------------------------------------------------
(* The least and the greatest of some numbers. *)
LEMMA LeastIs ==
  ASSUME NEW S, S \subseteq Nat, S # {}
  PROVE  \E m \in S : \A y \in S : m <= y
<1>1. PICK m \in S : \A y \in S : <<y, m>> \notin OpToRel(<, Nat)
  BY NatLessThanWellFounded, WFMin
<1>2. ASSUME NEW y \in S PROVE m <= y
  <2>1. m \in Nat /\ y \in Nat /\ ~(y < m)
    BY <1>1 DEF OpToRel
  <2> QED BY <2>1
<1> QED
  BY <1>2

LEMMA GreatestIs ==
  ASSUME NEW n \in Nat, NEW S, S \subseteq 0 .. n, S # {}
  PROVE  \E m \in S : \A y \in S : y <= m
<1> DEFINE D == {n - y : y \in S}
<1>1. D \subseteq Nat /\ D # {}
  OBVIOUS
<1>2. PICK d \in D : \A y \in D : d <= y
  <2> HIDE DEF D
  <2> QED BY <1>1, LeastIs
<1>3. PICK m \in S : d = n - m
  OBVIOUS
<1>4. ASSUME NEW y \in S PROVE y <= m
  <2>1. n - y \in D
    OBVIOUS
  <2>2. d <= n - y
    BY <1>2, <2>1
  <2> QED BY <1>3, <2>2
<1> QED
  BY <1>4

-----------------------------------------------------------------------------
(* Sorting ranges by where they start keeps them all. *)
Ascending(s) == \A i, j \in DOMAIN s : i <= j => s[i].start <= s[j].start

Place(at, s, r) ==
  /\ \A j \in 1 .. at - 1 : s[j].start <= r.start
  /\ \A j \in at .. Len(s) : s[j].start > r.start

LEMMA PlaceIs ==
  ASSUME NEW R, \A r \in R : r.start \in Int, NEW s \in Seq(R), Ascending(s), NEW r \in R
  PROVE  \E at \in 1 .. Len(s) + 1 : Place(at, s, r)
<1> DEFINE S == {i \in 1 .. Len(s) + 1 : i = Len(s) + 1 \/ s[i].start > r.start}
<1>1. S \subseteq Nat /\ Len(s) + 1 \in S
  OBVIOUS
<1>2. PICK m \in S : \A y \in S : m <= y
  <2> HIDE DEF S
  <2> QED BY <1>1, LeastIs
<1>3. \A j \in DOMAIN s : s[j].start \in Int /\ r.start \in Int
  OBVIOUS
<1>4. ASSUME NEW j \in 1 .. m - 1 PROVE s[j].start <= r.start
  <2>1. j \in 1 .. Len(s) + 1 /\ j # Len(s) + 1 /\ j \in DOMAIN s /\ j \notin S
    BY <1>2
  <2> QED BY <1>3, <2>1
<1>5. ASSUME NEW j \in m .. Len(s) PROVE s[j].start > r.start
  <2>1. m \in DOMAIN s /\ j \in DOMAIN s /\ s[m].start > r.start /\ s[m].start <= s[j].start
    BY DEF Ascending
  <2> QED BY <1>3, <2>1
<1> QED
  BY <1>4, <1>5 DEF Place

LEMMA PlacedIs ==
  ASSUME NEW R, \A r \in R : r.start \in Int, NEW s \in Seq(R), Ascending(s), NEW r \in R
  PROVE  /\ Placed(s, r) \in Seq(R) /\ Ascending(Placed(s, r))
         /\ ToSet(Placed(s, r)) = ToSet(s) \cup {r}
<1> DEFINE n == Len(s)
           at == CHOOSE i \in 1 .. n + 1 : Place(i, s, r)
           p == Placed(s, r)
<1>1. at \in 1 .. n + 1 /\ Place(at, s, r) /\ n \in Nat
  BY PlaceIs
<1>2. p = [i \in 1 .. n + 1 |-> IF i < at THEN s[i] ELSE IF i = at THEN r ELSE s[i - 1]]
  BY DEF Placed, Place
<1> HIDE DEF at, p
<1>3. ASSUME NEW i \in 1 .. n + 1
      PROVE  /\ i < at => p[i] = s[i] /\ i \in DOMAIN s
             /\ i = at => p[i] = r
             /\ i > at => p[i] = s[i - 1] /\ i - 1 \in DOMAIN s
             /\ p[i] \in R
  BY <1>1, <1>2
<1>4. p \in Seq(R) /\ DOMAIN p = 1 .. n + 1
  <2>1. p \in [1 .. n + 1 -> R]
    BY <1>2, <1>3
  <2>2. n + 1 \in Nat
    BY <1>1
  <2> QED BY <2>1, <2>2
<1>5. ASSUME NEW i \in 1 .. n + 1, NEW j \in 1 .. n + 1, i < j PROVE p[i].start <= p[j].start
  <2>0. r.start \in Int /\ \A k \in DOMAIN s : s[k].start \in Int
    OBVIOUS
  <2>1. CASE j < at
    <3>1. i < at /\ i \in DOMAIN s /\ j \in DOMAIN s
      BY <1>1, <1>3, <1>5, <2>1
    <3>2. s[i].start <= s[j].start
      BY <1>5, <3>1 DEF Ascending
    <3>3. p[i] = s[i] /\ p[j] = s[j]
      BY <1>3, <2>1, <3>1
    <3> QED BY <3>2, <3>3
  <2>2. CASE j = at
    BY <1>1, <1>3, <1>5, <2>2 DEF Place
  <2>3. CASE j > at /\ i = at
    <3>1. j - 1 \in at .. n
      BY <1>1, <2>3
    <3>2. s[j - 1].start > r.start
      BY <1>1, <3>1 DEF Place
    <3> QED BY <1>3, <2>0, <2>3, <3>2
  <2>4. CASE j > at /\ i > at
    <3>1. i - 1 <= j - 1
      BY <1>5
    <3> QED BY <1>3, <2>4, <3>1 DEF Ascending
  <2>5. CASE j > at /\ i < at
    <3>1. i <= j - 1
      BY <1>1, <2>5
    <3> QED BY <1>3, <2>5, <3>1 DEF Ascending
  <2> QED BY <1>1, <2>1, <2>2, <2>3, <2>4, <2>5
<1>6. Ascending(p)
  <2>1. \A i \in 1 .. n + 1 : p[i].start \in Int
    BY <1>3
  <2>2. ASSUME NEW i \in 1 .. n + 1, NEW j \in 1 .. n + 1, i <= j PROVE p[i].start <= p[j].start
    BY <1>5, <2>1, <2>2
  <2> QED BY <1>4, <2>2 DEF Ascending
<1>7. ToSet(p) \subseteq ToSet(s) \cup {r}
  BY <1>1, <1>3, <1>4 DEF ToSet
<1>8. \A k \in DOMAIN s : s[k] \in ToSet(p)
  <2> SUFFICES ASSUME NEW k \in DOMAIN s PROVE s[k] \in ToSet(p)
    OBVIOUS
  <2>1. CASE k < at
    <3>1. k \in 1 .. n + 1
      OBVIOUS
    <3> QED BY <1>3, <1>4, <2>1, <3>1 DEF ToSet
  <2>2. CASE k >= at
    <3>1. k + 1 \in 1 .. n + 1 /\ k + 1 > at /\ (k + 1) - 1 = k
      BY <1>1, <2>2
    <3> QED BY <1>3, <1>4, <3>1 DEF ToSet
  <2> QED BY <1>1, <2>1, <2>2
<1>9. r \in ToSet(p)
  BY <1>1, <1>3, <1>4 DEF ToSet
<1> QED
  BY <1>4, <1>6, <1>7, <1>8, <1>9 DEF ToSet, p

Sorting(p, ranges, f) ==
  p = [i \in 0 .. Len(ranges) |->
         IF i = 0 THEN <<>>
         ELSE IF ranges[i].family = f THEN Placed(p[i - 1], ranges[i]) ELSE p[i - 1]]
OfFamily(ranges, f) == {r \in ToSet(ranges) : r.family = f}

LEMMA SortingExists ==
  ASSUME NEW R, \A r \in R : r.start \in Int, NEW ranges \in Seq(R), NEW f
  PROVE  \E p : Sorting(p, ranges, f)
<1> DEFINE n == Len(ranges)
           S == {s \in Seq(R) : Ascending(s)}
           g == [i \in 1 .. n |-> [s \in S |-> IF ranges[i].family = f THEN Placed(s, ranges[i]) ELSE s]]
<1>1. <<>> \in S /\ n \in Nat
  BY DEF Ascending
<1>2. ASSUME NEW i \in 1 .. n, NEW s \in S PROVE Placed(s, ranges[i]) \in S
  <2>1. ranges[i] \in R
    OBVIOUS
  <2> QED BY <2>1, PlacedIs
<1>3. g \in Turns(n, S)
  BY <1>2 DEF Turns
<1>4. PICK p : Loop(p, n, S, <<>>, g)
  <2> HIDE DEF g, S, n
  <2> QED BY <1>1, <1>3, LoopExists
<1>5. ASSUME NEW i \in 0 .. n
      PROVE  p[i] = IF i = 0 THEN <<>>
                    ELSE IF ranges[i].family = f THEN Placed(p[i - 1], ranges[i]) ELSE p[i - 1]
  <2>1. CASE i = 0
    BY <1>4, <2>1 DEF Loop
  <2>2. CASE i \in 1 .. n
    <3>1. p[i] = g[i][p[i - 1]] /\ p[i - 1] \in S
      <4> HIDE DEF g, S
      <4> QED BY <1>4, <2>2 DEF Loop
    <3> QED BY <2>2, <3>1
  <2> QED BY <2>1, <2>2
<1>6. p = [i \in 0 .. n |-> p[i]]
  BY <1>4 DEF Loop
<1> QED
  BY <1>5, <1>6 DEF Sorting

LEMMA SortedIs ==
  ASSUME NEW R, \A r \in R : r.start \in Int, NEW ranges \in Seq(R), NEW f
  PROVE  /\ Sorted(ranges, f) \in Seq(R) /\ Ascending(Sorted(ranges, f))
         /\ ToSet(Sorted(ranges, f)) = OfFamily(ranges, f)
<1> DEFINE n == Len(ranges)
           p == CHOOSE x : Sorting(x, ranges, f)
<1>1. Sorting(p, ranges, f) /\ n \in Nat
  BY SortingExists
<1>2. Sorted(ranges, f) = p[n]
  BY DEF Sorted, Sorting
<1> HIDE DEF p
<1>3. \A i \in 0 .. n :
        p[i] = IF i = 0 THEN <<>>
               ELSE IF ranges[i].family = f THEN Placed(p[i - 1], ranges[i]) ELSE p[i - 1]
  BY <1>1 DEF Sorting
<1> DEFINE Of(i) == {ranges[j] : j \in {k \in 1 .. i : ranges[k].family = f}}
           T == {i \in 0 .. n : p[i] \in Seq(R) /\ Ascending(p[i]) /\ ToSet(p[i]) = Of(i)}
<1>4. 0 \in T
  <2>1. p[0] = <<>>
    BY <1>1, <1>3
  <2>2. Of(0) = {}
    OBVIOUS
  <2>3. p[0] \in Seq(R) /\ Ascending(p[0]) /\ ToSet(p[0]) = {}
    BY <2>1 DEF Ascending, ToSet
  <2>4. 0 \in 0 .. n
    BY <1>1
  <2> HIDE DEF Of, n
  <2> QED BY <2>2, <2>3, <2>4
<1>5. ASSUME NEW i \in 1 .. n, i - 1 \in T PROVE i \in T
  <2>1. p[i] = IF ranges[i].family = f THEN Placed(p[i - 1], ranges[i]) ELSE p[i - 1]
    BY <1>3
  <2>2. ranges[i] \in R /\ p[i - 1] \in Seq(R) /\ Ascending(p[i - 1]) /\ ToSet(p[i - 1]) = Of(i - 1)
    BY <1>5
  <2>3. CASE ranges[i].family = f
    <3>1. Of(i) = Of(i - 1) \cup {ranges[i]}
      BY <2>3
    <3>2. p[i] \in Seq(R) /\ Ascending(p[i]) /\ ToSet(p[i]) = ToSet(p[i - 1]) \cup {ranges[i]}
      <4> HIDE DEF T, Of, n
      <4> DEFINE old == p[i - 1]
                 new == ranges[i]
      <4>1. p[i] = Placed(old, new)
        BY <2>1, <2>3
      <4>2. old \in Seq(R) /\ Ascending(old) /\ new \in R
        BY <2>2
      <4> HIDE DEF old, new
      <4>3. /\ Placed(old, new) \in Seq(R) /\ Ascending(Placed(old, new))
            /\ ToSet(Placed(old, new)) = ToSet(old) \cup {new}
        BY <4>2, PlacedIs
      <4>4. p[i] \in Seq(R) /\ Ascending(p[i]) /\ ToSet(p[i]) = ToSet(old) \cup {new}
        BY <4>1, <4>3
      <4> QED BY <4>4 DEF old, new
    <3>3. i \in 0 .. n
      OBVIOUS
    <3> HIDE DEF Of, n
    <3> QED BY <2>2, <3>1, <3>2, <3>3
  <2>4. CASE ranges[i].family # f
    <3>1. Of(i) = Of(i - 1)
      BY <2>4
    <3> HIDE DEF Of
    <3> QED BY <2>1, <2>2, <2>4, <3>1
  <2> QED BY <2>3, <2>4
<1>6. n \in T
  <2> HIDE DEF T, n
  <2>1. \A i \in 0 .. n : i \in T
    BY <1>1, <1>4, <1>5, Climbs
  <2> QED BY <1>1, <2>1
<1>7. Of(n) = OfFamily(ranges, f)
  BY DEF OfFamily, ToSet
<1> QED
  BY <1>2, <1>6, <1>7

-----------------------------------------------------------------------------
(* Joining sorted ranges: each goes into one entry, later ones into later  *)
(* entries, and an entry has no address but theirs.                        *)
RangesOf(F, T) == [family : F, start : Int, end : Int, tag : T]
Has(r, x) == r.start <= x /\ x <= r.end

Into(c, n, s, m) ==
  /\ \A j \in 1 .. n :
       /\ c[j] \in DOMAIN m /\ m[c[j]].tag = s[j].tag
       /\ \A x \in Int : Has(s[j], x) => Has(m[c[j]], x)
  /\ \A j, k \in 1 .. n : c[j] < c[k] => j < k
  /\ \A q \in DOMAIN m, x \in Int : Has(m[q], x) => \E j \in 1 .. n : c[j] = q /\ Has(s[j], x)

Joining(p, s) ==
  p = [i \in 0 .. Len(s) |-> IF i = 0 THEN <<>> ELSE Joined(p[i - 1], s[i])]

Joins(j, m, r) ==
  /\ Len(j) \in {Len(m), Len(m) + 1} /\ Len(j) > 0
  /\ \A q \in DOMAIN m : q # Len(j) => j[q] = m[q]
  /\ j[Len(j)].tag = r.tag
  /\ Len(j) = Len(m) =>
       /\ j[Len(j)].start = m[Len(m)].start /\ j[Len(j)].tag = m[Len(m)].tag
       /\ r.start <= m[Len(m)].end
       /\ j[Len(j)].end = IF m[Len(m)].end < r.end THEN r.end ELSE m[Len(m)].end
  /\ Len(j) # Len(m) => j[Len(j)] = r

LEMMA JoinedIs ==
  ASSUME NEW F, NEW T, NEW m \in Seq(RangesOf(F, T)), NEW r \in RangesOf(F, T)
  PROVE  Joined(m, r) \in Seq(RangesOf(F, T)) /\ Joins(Joined(m, r), m, r)
<1> USE DEF Joins
<1> DEFINE l == m[Len(m)]
<1>1. CASE m = <<>>
  BY <1>1 DEF Joined
<1>2. CASE m # <<>> /\ r.start <= Last(m).end /\ Last(m).tag = r.tag
  <2>1. Len(m) \in DOMAIN m /\ l \in RangesOf(F, T) /\ l = Last(m) /\ Len(m) > 0
    BY <1>2 DEF Last
  <2> DEFINE e == IF l.end < r.end THEN r.end ELSE l.end
             x == [l EXCEPT !.end = e]
  <2>2. Joined(m, r) = [m EXCEPT ![Len(m)] = x]
    BY <1>2, <2>1 DEF Joined, Last
  <2>3. x \in RangesOf(F, T) /\ x.start = l.start /\ x.tag = l.tag /\ x.end = e
    BY <2>1 DEF RangesOf
  <2> HIDE DEF x, l
  <2>4. [m EXCEPT ![Len(m)] = x] \in Seq(RangesOf(F, T)) /\ Len([m EXCEPT ![Len(m)] = x]) = Len(m)
        /\ [m EXCEPT ![Len(m)] = x][Len(m)] = x
        /\ \A q \in DOMAIN m : q # Len(m) => [m EXCEPT ![Len(m)] = x][q] = m[q]
    BY <2>1, <2>3
  <2> QED BY <1>2, <2>1, <2>2, <2>3, <2>4 DEF l
<1>3. CASE m # <<>> /\ ~(r.start <= Last(m).end /\ Last(m).tag = r.tag)
  <2>1. Joined(m, r) = Append(m, r)
    BY <1>3 DEF Joined
  <2> QED BY <2>1
<1> QED
  BY <1>1, <1>2, <1>3

LEMMA JoiningExists ==
  ASSUME NEW F, NEW T, NEW s \in Seq(RangesOf(F, T))
  PROVE  \E p : Joining(p, s) /\ \A i \in 0 .. Len(s) : p[i] \in Seq(RangesOf(F, T))
<1> DEFINE n == Len(s)
           S == Seq(RangesOf(F, T))
           g == [i \in 1 .. n |-> [m \in S |-> Joined(m, s[i])]]
<1>1. <<>> \in S /\ n \in Nat
  OBVIOUS
<1>2. ASSUME NEW i \in 1 .. n, NEW m \in S PROVE Joined(m, s[i]) \in S
  <2>1. s[i] \in RangesOf(F, T)
    OBVIOUS
  <2> QED BY <2>1, JoinedIs
<1>3. g \in Turns(n, S)
  <2> HIDE DEF S
  <2> QED BY <1>2 DEF Turns
<1>4. PICK p : Loop(p, n, S, <<>>, g)
  <2> HIDE DEF g, S, n
  <2> QED BY <1>1, <1>3, LoopExists
<1>5. ASSUME NEW i \in 0 .. n PROVE p[i] = IF i = 0 THEN <<>> ELSE Joined(p[i - 1], s[i])
  <2>1. CASE i = 0
    BY <1>4, <2>1 DEF Loop
  <2>2. CASE i \in 1 .. n
    <3>1. p[i] = g[i][p[i - 1]] /\ p[i - 1] \in S
      <4> HIDE DEF g, S
      <4> QED BY <1>4, <2>2 DEF Loop
    <3> QED BY <2>2, <3>1
  <2> QED BY <2>1, <2>2
<1>6. p = [i \in 0 .. n |-> p[i]] /\ \A i \in 0 .. n : p[i] \in S
  <2> HIDE DEF S, n
  <2> QED BY <1>4 DEF Loop
<1> QED
  BY <1>5, <1>6 DEF Joining

(* What the entries are when i ranges have been joined.                    *)
Joints(p) == [j \in DOMAIN p |-> Len(p[j])]
JoinedSoFar(p, i, s, F, T) ==
  /\ p[i] \in Seq(RangesOf(F, T)) /\ (i > 0 => Len(p[i]) > 0)
  /\ \A j \in 1 .. i : Len(p[j]) <= Len(p[i])
  /\ \A q \in DOMAIN p[i] : i > 0 /\ p[i][q].start <= s[i].start
  /\ Into(Joints(p), i, s, p[i])

LEMMA OneMoreJoined ==
  ASSUME NEW F, NEW T, NEW s \in Seq(RangesOf(F, T)), Ascending(s), NEW p, Joining(p, s),
         NEW i \in 1 .. Len(s), JoinedSoFar(p, i - 1, s, F, T)
  PROVE  JoinedSoFar(p, i, s, F, T)
<1> DEFINE m == p[i - 1]
           j == p[i]
           r == s[i]
           L == Len(m)
           K == Len(j)
<1>0. i \in Nat /\ i \in 0 .. Len(s) /\ i # 0 /\ Len(s) \in Nat
  OBVIOUS
<1>1. /\ m \in Seq(RangesOf(F, T)) /\ r \in RangesOf(F, T) /\ j = Joined(m, r)
      /\ r.start \in Int /\ r.end \in Int
      /\ DOMAIN p = 0 .. Len(s)
  <2>1. p = [k \in 0 .. Len(s) |-> IF k = 0 THEN <<>> ELSE Joined(p[k - 1], s[k])]
    BY DEF Joining
  <2>2. DOMAIN p = 0 .. Len(s) /\ j = Joined(m, r)
    BY <1>0, <2>1
  <2>3. r \in RangesOf(F, T)
    OBVIOUS
  <2>4. r.start \in Int /\ r.end \in Int
    BY <2>3 DEF RangesOf
  <2>5. m \in Seq(RangesOf(F, T))
    BY DEF JoinedSoFar
  <2> QED BY <2>2, <2>3, <2>4, <2>5
<1>2. /\ j \in Seq(RangesOf(F, T)) /\ K \in {L, L + 1} /\ K > 0 /\ L \in Nat /\ K \in Nat
      /\ \A q \in DOMAIN m : q # K => j[q] = m[q]
      /\ j[K].tag = r.tag
      /\ K = L => /\ j[K].start = m[L].start /\ j[K].tag = m[L].tag /\ r.start <= m[L].end
                  /\ j[K].end = IF m[L].end < r.end THEN r.end ELSE m[L].end
      /\ K # L => j[K] = r
  <2> HIDE DEF m, j, r
  <2>1. j \in Seq(RangesOf(F, T)) /\ Joins(j, m, r)
    BY <1>1, JoinedIs
  <2> QED BY <1>1, <2>1 DEF Joins
<1>3. /\ \A q \in DOMAIN m : m[q].start \in Int /\ m[q].end \in Int /\ q \in 1 .. L
      /\ \A q \in DOMAIN j : j[q].start \in Int /\ j[q].end \in Int /\ q \in 1 .. K
      /\ DOMAIN m = 1 .. L /\ DOMAIN j = 1 .. K
      /\ \A k \in 1 .. Len(s) : s[k].start \in Int /\ s[k].end \in Int
  <2>1. \A x \in RangesOf(F, T) : x.start \in Int /\ x.end \in Int
    BY DEF RangesOf
  <2> HIDE DEF m, j
  <2> QED BY <1>1, <1>2, <2>1, SMTT(30)
<1>4. \A q \in DOMAIN m : m[q].start <= r.start
  <2> SUFFICES ASSUME NEW q \in DOMAIN m PROVE m[q].start <= r.start
    OBVIOUS
  <2>1. i - 1 \in 1 .. Len(s) /\ m[q].start <= s[i - 1].start
    BY DEF JoinedSoFar
  <2>2. s[i - 1].start <= r.start
    BY <2>1 DEF Ascending
  <2> QED BY <1>1, <1>3, <2>1, <2>2
<1>5. /\ Joints(p)[i] = K
      /\ \A k \in 1 .. i - 1 : /\ Joints(p)[k] = Len(p[k]) /\ Joints(p)[k] \in 1 .. L
                               /\ m[Joints(p)[k]].tag = s[k].tag
                               /\ \A x \in Int : Has(s[k], x) => Has(m[Joints(p)[k]], x)
  <2>1. \A k \in 1 .. i : Joints(p)[k] = Len(p[k])
    <3>1. \A k \in 1 .. i : k \in DOMAIN p
      BY <1>0, <1>1
    <3> QED BY <3>1 DEF Joints
  <2>2. Into(Joints(p), i - 1, s, m)
    BY DEF JoinedSoFar
  <2>3. i \in 1 .. i /\ \A k \in 1 .. i - 1 : k \in 1 .. i
    BY <1>0
  <2>4. Joints(p)[i] = K
    BY <2>1, <2>3
  <2>5. \A k \in 1 .. i - 1 : Joints(p)[k] \in DOMAIN m
    BY <2>2 DEF Into
  <2> HIDE DEF m, L
  <2> QED BY <1>3, <2>1, <2>2, <2>3, <2>4, <2>5 DEF Into
<1>6. /\ \A k, h \in 1 .. i - 1 : Joints(p)[k] < Joints(p)[h] => k < h
      /\ \A q \in DOMAIN m, x \in Int :
           Has(m[q], x) => \E k \in 1 .. i - 1 : Joints(p)[k] = q /\ Has(s[k], x)
  BY DEF JoinedSoFar, Into
<1> DEFINE c == Joints(p)
<1> HIDE DEF m, j, r, L, K, c
<1>7. \A q \in 1 .. L : /\ q \in DOMAIN j /\ j[q].tag = m[q].tag
                        /\ \A x \in Int : Has(m[q], x) => Has(j[q], x)
  <2> SUFFICES ASSUME NEW q \in 1 .. L
               PROVE  /\ q \in DOMAIN j /\ j[q].tag = m[q].tag
                      /\ \A x \in Int : Has(m[q], x) => Has(j[q], x)
    OBVIOUS
  <2>1. q \in DOMAIN j /\ q \in DOMAIN m
    BY <1>2, <1>3
  <2>2. CASE q # K
    BY <1>2, <2>1, <2>2
  <2>3. CASE q = K
    <3>1. q = L /\ K = L
      BY <1>2, <2>3
    <3>2. j[q].start = m[q].start /\ j[q].tag = m[q].tag /\ m[q].end <= j[q].end
      BY <1>2, <1>3, <1>1, <2>1, <3>1
    <3> QED BY <1>3, <2>1, <3>2 DEF Has
  <2> QED BY <2>2, <2>3
<1>8. \A x \in Int : Has(r, x) => Has(j[K], x)
  <2>1. CASE K # L
    BY <1>2, <2>1
  <2>2. CASE K = L
    <3>1. L \in DOMAIN m /\ m[L].start <= r.start
      BY <1>2, <1>3, <1>4, <2>2
    <3> QED BY <1>1, <1>2, <1>3, <2>2, <3>1 DEF Has
  <2> QED BY <2>1, <2>2
<1>9. \A k \in 1 .. i :
        /\ c[k] \in DOMAIN j /\ j[c[k]].tag = s[k].tag
        /\ \A x \in Int : Has(s[k], x) => Has(j[c[k]], x)
  <2>1. c[i] = K /\ K \in DOMAIN j /\ s[i] = r
    BY <1>2, <1>3, <1>5 DEF c, r
  <2>2. ASSUME NEW k \in 1 .. i - 1
        PROVE  /\ c[k] \in DOMAIN j /\ j[c[k]].tag = s[k].tag
               /\ \A x \in Int : Has(s[k], x) => Has(j[c[k]], x)
    BY <1>5, <1>7 DEF c
  <2> QED BY <1>2, <1>8, <2>1, <2>2
<1>10. \A k, h \in 1 .. i : c[k] < c[h] => k < h
  <2> SUFFICES ASSUME NEW k \in 1 .. i, NEW h \in 1 .. i, c[k] < c[h], ~(k < h) PROVE FALSE
    OBVIOUS
  <2>1. k = i \/ (k \in 1 .. i - 1 /\ h \in 1 .. i - 1)
    BY <1>0
  <2>2. h = i \/ (h \in 1 .. i - 1 /\ c[h] \in 1 .. L)
    BY <1>5 DEF c
  <2> QED BY <1>2, <1>5, <1>6, <2>1, <2>2 DEF c
<1>11. ASSUME NEW q \in DOMAIN j, NEW x \in Int, Has(j[q], x)
       PROVE  \E k \in 1 .. i : c[k] = q /\ Has(s[k], x)
  <2>0. /\ c[i] = K /\ r = s[i] /\ i \in 1 .. i
        /\ \A k \in 1 .. i - 1 : k \in 1 .. i
    BY <1>5 DEF c, r
  <2>1. CASE q # K
    <3>1. q \in DOMAIN m /\ Has(m[q], x)
      BY <1>2, <1>3, <1>11, <2>1
    <3> QED BY <1>6, <2>0, <3>1 DEF c
  <2>2. CASE q = K /\ K # L
    BY <1>2, <1>11, <2>0, <2>2
  <2>3. CASE q = K /\ K = L /\ x <= m[L].end
    <3>1. L \in DOMAIN m /\ Has(m[L], x)
      BY <1>2, <1>3, <1>11, <2>3 DEF Has
    <3> QED BY <1>6, <2>0, <2>3, <3>1 DEF c
  <2>4. CASE q = K /\ K = L /\ ~(x <= m[L].end)
    <3>1. L \in DOMAIN m /\ x > m[L].end /\ x <= r.end /\ r.start <= x
      BY <1>1, <1>2, <1>3, <1>11, <2>4, SMTT(30) DEF Has
    <3> QED BY <2>0, <2>4, <3>1 DEF Has
  <2> QED BY <2>1, <2>2, <2>3, <2>4
<1>12. Into(c, i, s, j)
  BY <1>9, <1>10, <1>11 DEF Into
<1>13. \A q \in DOMAIN j : j[q].start <= r.start
  BY <1>1, <1>2, <1>3, <1>4
<1>14. \A k \in 1 .. i : Len(p[k]) <= K
  <2>1. ASSUME NEW k \in 1 .. i - 1 PROVE Len(p[k]) <= K
    BY <1>2, <1>5, <2>1
  <2>2. Len(p[i]) = K
    BY DEF K, j
  <2> QED BY <1>2, <2>1, <2>2
<1> QED
  BY <1>2, <1>12, <1>13, <1>14 DEF JoinedSoFar, c, j, K, r

LEMMA MergedIs ==
  ASSUME NEW F, NEW T, NEW s \in Seq(RangesOf(F, T)), Ascending(s)
  PROVE  Merged(s) \in Seq(RangesOf(F, T)) /\ \E c : Into(c, Len(s), s, Merged(s))
<1> DEFINE n == Len(s)
           p == CHOOSE x : Joining(x, s)
<1>1. Joining(p, s) /\ n \in Nat
  BY JoiningExists
<1>2. Merged(s) = p[n]
  BY DEF Merged, Joining
<1> HIDE DEF p
<1> DEFINE C == {i \in 0 .. n : JoinedSoFar(p, i, s, F, T)}
<1>3. 0 \in C
  <2>1. p[0] = <<>> /\ 0 \in 0 .. n
    BY <1>1 DEF Joining
  <2>2. p[0] \in Seq(RangesOf(F, T)) /\ DOMAIN p[0] = {} /\ 1 .. 0 = {}
    BY <2>1
  <2>3. JoinedSoFar(p, 0, s, F, T)
    BY <2>2 DEF JoinedSoFar, Into
  <2> QED BY <2>1, <2>3
<1>4. ASSUME NEW i \in 1 .. n, i - 1 \in C PROVE i \in C
  BY <1>1, <1>4, OneMoreJoined
<1>5. n \in C
  <2> HIDE DEF C, n
  <2>1. \A i \in 0 .. n : i \in C
    BY <1>1, <1>3, <1>4, Climbs
  <2> QED BY <1>1, <2>1
<1> QED
  BY <1>2, <1>5 DEF JoinedSoFar

-----------------------------------------------------------------------------
(* What a lookup says is the tag of a range that has the address, and none *)
(* that has it begins later.                                               *)
Over(ranges, a) == {r \in ToSet(ranges) : r.family = a.family /\ Has(r, a.addr)}
SaysOf(ranges, a, said) ==
  IF Over(ranges, a) = {} THEN said = Unlisted
  ELSE \E r \in Over(ranges, a) : r.tag = said /\ \A q \in Over(ranges, a) : q.start <= r.start

LEMMA LookupIs ==
  ASSUME NEW F, NEW T, NEW ranges \in Seq(RangesOf(F, T)), NEW a, a.addr \in Int,
         NEW set, set[a.family] = Merged(Sorted(ranges, a.family))
  PROVE  SaysOf(ranges, a, Lookup(set, a))
<1> DEFINE s == Sorted(ranges, a.family)
           m == Merged(s)
           n == Len(s)
           x == a.addr
           covering == {i \in DOMAIN m : Has(m[i], x)}
           here == {j \in 1 .. n : Has(s[j], x)}
<1>1. s \in Seq(RangesOf(F, T)) /\ Ascending(s) /\ ToSet(s) = OfFamily(ranges, a.family)
  <2>1. \A r \in RangesOf(F, T) : r.start \in Int
    BY DEF RangesOf
  <2> QED BY <2>1, SortedIs
<1>2. n \in Nat /\ DOMAIN s = 1 .. n /\ x \in Int /\ \A j \in 1 .. n : s[j].start \in Int
  <2> HIDE DEF s
  <2>1. \A r \in RangesOf(F, T) : r.start \in Int
    BY DEF RangesOf
  <2> QED BY <1>1, <2>1
<1>3. PICK c : m \in Seq(RangesOf(F, T)) /\ Into(c, n, s, m)
  BY <1>1, MergedIs
<1>4. Over(ranges, a) = {s[j] : j \in here}
  <2>1. Over(ranges, a) = {r \in ToSet(s) : Has(r, x)}
    BY <1>1 DEF Over, OfFamily
  <2> HIDE DEF s, x
  <2> QED BY <1>2, <2>1 DEF ToSet
<1>5. Lookup(set, a) = IF covering = {} THEN Unlisted
                       ELSE m[CHOOSE i \in covering : \A j \in covering : j <= i].tag
  BY DEF Lookup, Has
<1> HIDE DEF s, m, n, x
<1>6. \A j \in here : c[j] \in covering /\ m[c[j]].tag = s[j].tag
  BY <1>2, <1>3 DEF Into
<1>7. \A i \in covering : \E j \in here : c[j] = i
  BY <1>2, <1>3 DEF Into
<1>8. CASE here = {}
  <2>1. covering = {} /\ Over(ranges, a) = {}
    BY <1>4, <1>7, <1>8
  <2> HIDE DEF covering, here
  <2> QED BY <1>5, <2>1 DEF SaysOf
<1>9. CASE here # {}
  <2>1. PICK g \in here : \A j \in here : j <= g
    <3>1. here \subseteq 0 .. n
      BY <1>2
    <3> HIDE DEF here
    <3> QED BY <1>2, <1>9, <3>1, GreatestIs
  <2>2. covering \subseteq 0 .. Len(m) /\ Len(m) \in Nat /\ covering # {}
    BY <1>3, <1>6, <2>1
  <2>3. \E i \in covering : \A j \in covering : j <= i
    <3> HIDE DEF covering
    <3> QED BY <2>2, GreatestIs
  <2> DEFINE l == CHOOSE i \in covering : \A j \in covering : j <= i
  <2>4. l \in covering /\ \A j \in covering : j <= l
    <3> HIDE DEF covering
    <3> QED BY <2>3
  <2>5. Lookup(set, a) = m[l].tag
    BY <1>5, <2>2
  <2> HIDE DEF l
  <2>6. PICK k \in here : c[k] = l
    BY <1>7, <2>4
  <2>7. c[g] = l
    <3>1. c[g] \in covering /\ c[g] <= l /\ k <= g
      BY <1>6, <2>1, <2>4
    <3>2. c[g] < c[k] => g < k
      BY <1>3 DEF Into
    <3>3. c[g] \in Int /\ l \in Int /\ k \in Int /\ g \in Int
      <4>1. \A i \in covering : i \in Int
        BY <2>2
      <4>2. \A j \in here : j \in Int
        BY <1>2
      <4> QED BY <4>1, <4>2, <3>1, <2>4
    <3> HIDE DEF covering, here
    <3> QED BY <2>6, <3>1, <3>2, <3>3
  <2>8. m[l].tag = s[g].tag
    BY <1>6, <2>7
  <2>9. \A j \in here : s[j].start <= s[g].start
    BY <1>1, <1>2, <2>1 DEF Ascending
  <2>10. s[g] \in Over(ranges, a) /\ \A q \in Over(ranges, a) : q.start <= s[g].start
    BY <1>4, <2>9
  <2> QED BY <2>5, <2>8, <2>10 DEF SaysOf
<1> QED
  BY <1>8, <1>9

-----------------------------------------------------------------------------
(* Reading a feed.                                                         *)
Partly(D, T) == UNION {[S -> T] : S \in SUBSET D}

(* The network and the address begin with the same bits.                   *)
SameBlock(net, x) ==
  LET size == Block(AddrBits[net.family] - net.bits)
  IN  net.addr \div size = x \div size
CoversBlock(range, net) == \A x \in Nat : Has(range, x) <=> SameBlock(net, x)

(* The range of a line is of its family and covers its network, no more.   *)
LEMMA RangeOfIs ==
  ASSUME NEW T, NEW net, InFamily(net), net.bits <= AddrBits[net.family], NEW tag \in T
  PROVE  /\ RangeOf(net, tag) \in RangesOf(DOMAIN AddrBits, T)
         /\ RangeOf(net, tag).family = net.family /\ RangeOf(net, tag).tag = tag
         /\ CoversBlock(RangeOf(net, tag), net)
<1> DEFINE size == Block(AddrBits[net.family] - net.bits)
           start == (net.addr \div size) * size
<1>1. size \in Nat \ {0}
  <2>1. AddrBits[net.family] - net.bits \in Nat
    BY IntelAssumption DEF InFamily
  <2> QED BY <2>1, BlockIs
<1>2. net.addr \in Nat
  <2>1. Block(AddrBits[net.family]) \in Nat
    BY BlockIs, IntelAssumption DEF InFamily
  <2> QED BY <2>1 DEF InFamily
<1>3. RangeOf(net, tag) = [family |-> net.family, start |-> start, end |-> start + size - 1, tag |-> tag]
  BY DEF RangeOf
<1> HIDE DEF size
<1>4. start \in Int /\ start + size - 1 \in Int
  <2>1. net.addr \div size \in Int
    BY <1>1, <1>2
  <2> QED BY <1>1, <2>1
<1>5. \A x \in Nat : start <= x /\ x <= start + size - 1 <=> net.addr \div size = x \div size
  BY <1>1, <1>2, BlocksDivide
<1>7. \A x \in Nat : SameBlock(net, x) <=> net.addr \div size = x \div size
  BY DEF SameBlock, size
<1> HIDE DEF start
<1>6. RangeOf(net, tag) \in RangesOf(DOMAIN AddrBits, T)
  BY <1>3, <1>4 DEF RangesOf, InFamily
<1>8. CoversBlock(RangeOf(net, tag), net)
  BY <1>3, <1>5, <1>7 DEF CoversBlock, Has
<1> QED
  BY <1>3, <1>6, <1>8

Feed(lines) == lines \in Seq(ToSet(lines)) /\ \A l \in ToSet(lines) : WellTyped(l) /\ WellFormed(l)
TagsIn(lines) == {l.tag : l \in ToSet(lines)}
IntelOf(lines) ==
  [ranges : Seq(RangesOf(DOMAIN AddrBits, TagsIn(lines))),
   names : Partly({Plain(l.name) : l \in ToSet(lines)}, TagsIn(lines)),
   ja3 : Partly({l.hash : l \in ToSet(lines)}, TagsIn(lines))]

OfKind(L, k) == {l \in L : KindOf(l) = k}
Has3(x, L) ==
  /\ ToSet(x.ranges) = {RangeOf(l.net, l.tag) : l \in OfKind(L, "ip")}
  /\ DOMAIN x.names = {Plain(l.name) : l \in OfKind(L, "domain")}
  /\ DOMAIN x.ja3 = {l.hash : l \in OfKind(L, "ja3")}

LEMMA LoadedIs ==
  ASSUME NEW lines, Feed(lines), NEW x \in IntelOf(lines), NEW l \in ToSet(lines), NEW L, Has3(x, L)
  PROVE  Loaded(x, l) \in IntelOf(lines) /\ Has3(Loaded(x, l), L \cup {l})
<1> DEFINE T == TagsIn(lines)
           R == RangesOf(DOMAIN AddrBits, T)
           N == {Plain(k.name) : k \in ToSet(lines)}
           H == {k.hash : k \in ToSet(lines)}
           y == Loaded(x, l)
           M == L \cup {l}
<1>1. /\ x = [ranges |-> x.ranges, names |-> x.names, ja3 |-> x.ja3]
      /\ x.ranges \in Seq(R) /\ x.names \in Partly(N, T) /\ x.ja3 \in Partly(H, T)
  BY DEF IntelOf
<1>2. l.tag \in T /\ WellTyped(l) /\ WellFormed(l)
  BY DEF Feed, TagsIn
<1>3. IntelOf(lines) = [ranges : Seq(R), names : Partly(N, T), ja3 : Partly(H, T)]
  BY DEF IntelOf
<1> HIDE DEF T, R, N, H, M, y
<1>4. KindOf(l) \in {"ip", "ja3", "domain"}
  BY <1>2 DEF KindOf, WellTyped
<1>5. \A k : OfKind(M, k) = OfKind(L, k) \cup (IF KindOf(l) = k THEN {l} ELSE {})
  BY DEF OfKind, M
<1>6. CASE KindOf(l) = "ip"
  <2>1. l.is = "ip" /\ InFamily(l.net) /\ l.net.bits <= AddrBits[l.net.family]
    BY <1>2, <1>6 DEF WellTyped, WellFormed
  <2>2. RangeOf(l.net, l.tag) \in R
    BY <1>2, <2>1, RangeOfIs DEF R
  <2> DEFINE r == RangeOf(l.net, l.tag)
  <2>3. y = [x EXCEPT !.ranges = Append(x.ranges, r)]
    BY <1>6 DEF Loaded, y
  <2> HIDE DEF r
  <2>4. y.ranges = Append(x.ranges, r) /\ y.names = x.names /\ y.ja3 = x.ja3 /\ y \in IntelOf(lines)
    <3>1. Append(x.ranges, r) \in Seq(R)
      BY <1>1, <2>2 DEF r
    <3> QED BY <1>1, <1>3, <2>3, <3>1
  <2>5. ToSet(y.ranges) = ToSet(x.ranges) \cup {r}
    BY <1>1, <2>2, <2>4 DEF ToSet, r
  <2>6. OfKind(M, "ip") = OfKind(L, "ip") \cup {l} /\ OfKind(M, "domain") = OfKind(L, "domain")
        /\ OfKind(M, "ja3") = OfKind(L, "ja3")
    BY <1>5, <1>6
  <2> QED BY <2>4, <2>5, <2>6 DEF Has3, r, M, y
<1>7. CASE KindOf(l) = "ja3"
  <2>1. l.hash \in H
    BY DEF H
  <2>2. y = [x EXCEPT !.ja3 = Put(x.ja3, l.hash, l.tag)]
    BY <1>7 DEF Loaded, y
  <2>3. Put(x.ja3, l.hash, l.tag) \in Partly(H, T) /\ DOMAIN Put(x.ja3, l.hash, l.tag) = DOMAIN x.ja3 \cup {l.hash}
    <3>1. PICK S \in SUBSET H : x.ja3 \in [S -> T]
      BY <1>1 DEF Partly
    <3>2. Put(x.ja3, l.hash, l.tag) \in [S \cup {l.hash} -> T]
      BY <1>2, <3>1 DEF Put
    <3>3. S \cup {l.hash} \in SUBSET H
      BY <2>1, <3>1
    <3> QED BY <3>1, <3>2, <3>3 DEF Partly
  <2>4. y.ranges = x.ranges /\ y.names = x.names /\ DOMAIN y.ja3 = DOMAIN x.ja3 \cup {l.hash} /\ y \in IntelOf(lines)
    BY <1>1, <1>3, <2>2, <2>3
  <2>5. OfKind(M, "ja3") = OfKind(L, "ja3") \cup {l} /\ OfKind(M, "domain") = OfKind(L, "domain")
        /\ OfKind(M, "ip") = OfKind(L, "ip")
    BY <1>5, <1>7
  <2> QED BY <2>4, <2>5 DEF Has3, M, y
<1>8. CASE KindOf(l) = "domain"
  <2> DEFINE name == Lowered(Undotted(l.name))
  <2>1. name \in N
    BY DEF N, Plain
  <2>2. y = [x EXCEPT !.names = Put(x.names, name, l.tag)]
    BY <1>8 DEF Loaded, y
  <2>3. name = Plain(l.name)
    BY DEF Plain
  <2> HIDE DEF name
  <2>4. Put(x.names, name, l.tag) \in Partly(N, T) /\ DOMAIN Put(x.names, name, l.tag) = DOMAIN x.names \cup {name}
    <3>1. PICK S \in SUBSET N : x.names \in [S -> T]
      BY <1>1 DEF Partly
    <3>2. Put(x.names, name, l.tag) \in [S \cup {name} -> T]
      BY <1>2, <3>1 DEF Put
    <3>3. S \cup {name} \in SUBSET N
      BY <2>1, <3>1
    <3> QED BY <3>1, <3>2, <3>3 DEF Partly
  <2>5. y.ranges = x.ranges /\ y.ja3 = x.ja3 /\ DOMAIN y.names = DOMAIN x.names \cup {name} /\ y \in IntelOf(lines)
    BY <1>1, <1>3, <2>2, <2>4
  <2>6. OfKind(M, "domain") = OfKind(L, "domain") \cup {l} /\ OfKind(M, "ja3") = OfKind(L, "ja3")
        /\ OfKind(M, "ip") = OfKind(L, "ip")
    BY <1>5, <1>8
  <2> QED BY <2>3, <2>5, <2>6 DEF Has3, M, y
<1> QED
  BY <1>4, <1>6, <1>7, <1>8

Reading(p, lines) ==
  p = [i \in 0 .. Len(lines) |-> IF i = 0 THEN NewIntel ELSE Loaded(p[i - 1], lines[i])]

LEMMA NewIntelIs == ASSUME NEW lines PROVE NewIntel \in IntelOf(lines) /\ Has3(NewIntel, {})
<1>1. \A D, T : <<>> \in Partly(D, T)
  <2> SUFFICES ASSUME NEW D, NEW T PROVE <<>> \in Partly(D, T)
    OBVIOUS
  <2>1. <<>> \in [{} -> T]
    OBVIOUS
  <2> QED BY <2>1 DEF Partly
<1>2. NewIntel \in IntelOf(lines)
  BY <1>1 DEF NewIntel, IntelOf
<1>3. Has3(NewIntel, {})
  BY DEF NewIntel, Has3, OfKind, ToSet
<1> QED
  BY <1>2, <1>3

LEMMA ReadingExists ==
  ASSUME NEW lines, Feed(lines)
  PROVE  \E p : Reading(p, lines)
<1> DEFINE n == Len(lines)
           S == {x \in IntelOf(lines) : \E L : Has3(x, L)}
           g == [i \in 1 .. n |-> [x \in S |-> Loaded(x, lines[i])]]
<1>1. NewIntel \in S /\ n \in Nat /\ \A i \in 1 .. n : lines[i] \in ToSet(lines)
  BY NewIntelIs DEF Feed, ToSet
<1>2. ASSUME NEW i \in 1 .. n, NEW x \in S PROVE Loaded(x, lines[i]) \in S
  <2>1. PICK L : Has3(x, L)
    OBVIOUS
  <2>2. x \in IntelOf(lines) /\ lines[i] \in ToSet(lines)
    BY <1>1
  <2>3. Loaded(x, lines[i]) \in IntelOf(lines) /\ Has3(Loaded(x, lines[i]), L \cup {lines[i]})
    BY <2>1, <2>2, LoadedIs
  <2> QED BY <2>3
<1>3. g \in Turns(n, S)
  <2> HIDE DEF S
  <2> QED BY <1>2 DEF Turns
<1>4. PICK p : Loop(p, n, S, NewIntel, g)
  <2> HIDE DEF g, S, n
  <2> QED BY <1>1, <1>3, LoopExists
<1>5. ASSUME NEW i \in 0 .. n PROVE p[i] = IF i = 0 THEN NewIntel ELSE Loaded(p[i - 1], lines[i])
  <2>1. CASE i = 0
    BY <1>4, <2>1 DEF Loop
  <2>2. CASE i \in 1 .. n
    <3>1. p[i] = g[i][p[i - 1]] /\ p[i - 1] \in S
      <4> HIDE DEF g, S
      <4> QED BY <1>4, <2>2 DEF Loop
    <3> HIDE DEF S
    <3> QED BY <2>2, <3>1
  <2> QED BY <2>1, <2>2
<1>6. p = [i \in 0 .. n |-> p[i]]
  BY <1>4 DEF Loop
<1> QED
  BY <1>5, <1>6 DEF Reading

LEMMA ReadIs ==
  ASSUME NEW lines, Feed(lines)
  PROVE  Read(lines) \in IntelOf(lines) /\ Has3(Read(lines), ToSet(lines))
<1> DEFINE n == Len(lines)
           p == CHOOSE x : Reading(x, lines)
           Upto(i) == {lines[j] : j \in 1 .. i}
           C == {i \in 0 .. n : p[i] \in IntelOf(lines) /\ Has3(p[i], Upto(i))}
<1>1. Reading(p, lines) /\ n \in Nat /\ DOMAIN lines = 1 .. n
  BY ReadingExists DEF Feed
<1>2. Read(lines) = p[n]
  BY DEF Read, Reading
<1> HIDE DEF p
<1>3. \A i \in 0 .. n : p[i] = IF i = 0 THEN NewIntel ELSE Loaded(p[i - 1], lines[i])
  BY <1>1 DEF Reading
<1>4. 0 \in C
  <2>1. Upto(0) = {}
    OBVIOUS
  <2>2. p[0] = NewIntel /\ 0 \in 0 .. n
    BY <1>1, <1>3
  <2> HIDE DEF Upto
  <2> QED BY <2>1, <2>2, NewIntelIs
<1>5. ASSUME NEW i \in 1 .. n, i - 1 \in C PROVE i \in C
  <2>1. p[i] = Loaded(p[i - 1], lines[i]) /\ i \in 0 .. n
    BY <1>3
  <2>2. p[i - 1] \in IntelOf(lines) /\ Has3(p[i - 1], Upto(i - 1)) /\ lines[i] \in ToSet(lines)
    BY <1>1, <1>5 DEF ToSet
  <2>3. Upto(i) = Upto(i - 1) \cup {lines[i]}
    OBVIOUS
  <2>4. i \in 0 .. n
    BY <1>1
  <2> HIDE DEF Upto, n
  <2>5. \A L : \A x \in IntelOf(lines), l \in ToSet(lines) :
          Has3(x, L) => Loaded(x, l) \in IntelOf(lines) /\ Has3(Loaded(x, l), L \cup {l})
    BY LoadedIs
  <2>6. Loaded(p[i - 1], lines[i]) \in IntelOf(lines) /\ Has3(Loaded(p[i - 1], lines[i]), Upto(i - 1) \cup {lines[i]})
    BY <2>2, <2>5
  <2>7. p[i] \in IntelOf(lines) /\ Has3(p[i], Upto(i))
    BY <2>1, <2>3, <2>6, Zenon
  <2> QED BY <2>4, <2>7
<1>6. n \in C
  <2> HIDE DEF C, n
  <2>1. \A i \in 0 .. n : i \in C
    BY <1>1, <1>4, <1>5, Climbs
  <2> QED BY <1>1, <2>1
<1>7. Upto(n) = ToSet(lines)
  BY <1>1 DEF ToSet
<1> QED
  <2> HIDE DEF Upto
  <2> QED BY <1>2, <1>6, <1>7

-----------------------------------------------------------------------------
(* What is loaded of the feed, for good. *)
Known == setting \in Settings /\ intel = Load(setting.feed, Home)

LEMMA OkIs ==
  ASSUME Known
  PROVE  /\ intel.ok \in BOOLEAN
         /\ ~intel.ok => \/ \E l \in ToSet(setting.feed) : ~WellFormed(l)
                         \/ \E net \in ToSet(Home) : net.bits > AddrBits[net.family]
         /\ intel.ok =>
              /\ Feed(setting.feed)
              /\ intel.reputation = Finished(Read(setting.feed).ranges)
              /\ intel.names = Read(setting.feed).names /\ intel.ja3 = Read(setting.feed).ja3
<1>1. /\ setting.feed \in Seq(ToSet(setting.feed))
      /\ \A l \in ToSet(setting.feed) : WellTyped(l)
  BY DeliveryAssumption DEF Known
<1>2. CASE \/ \E l \in ToSet(setting.feed) : ~WellFormed(l)
           \/ \E net \in ToSet(Home) : net.bits > AddrBits[net.family]
  <2>1. intel = Failed
    BY <1>2 DEF Known, Load
  <2> QED BY <1>2, <2>1 DEF Failed
<1>3. CASE ~(\/ \E l \in ToSet(setting.feed) : ~WellFormed(l)
             \/ \E net \in ToSet(Home) : net.bits > AddrBits[net.family])
  <2> DEFINE read == Read(setting.feed)
             home == Finished([i \in DOMAIN Home |-> RangeOf(Home[i], "home")])
  <2>1. intel = [ok |-> TRUE, reputation |-> Finished(read.ranges), names |-> read.names, ja3 |-> read.ja3,
                 home |-> home, hasHome |-> Home # <<>>]
    BY <1>3 DEF Known, Load
  <2> HIDE DEF read, home
  <2>2. /\ intel.ok /\ intel.reputation = Finished(read.ranges)
        /\ intel.names = read.names /\ intel.ja3 = read.ja3
    BY <2>1
  <2> QED BY <1>1, <1>3, <2>2 DEF read, Feed
<1> QED
  BY <1>2, <1>3

LEMMA OverIs ==
  ASSUME Known, intel.ok, NEW a \in Addresses
  PROVE  Over(Read(setting.feed).ranges, a) = {RangeOf(l.net, l.tag) : l \in LinesOn(a)}
<1> DEFINE L == ToSet(setting.feed)
           ranges == Read(setting.feed).ranges
<1>1. Feed(setting.feed)
  BY OkIs
<1>2. ToSet(ranges) = {RangeOf(l.net, l.tag) : l \in OfKind(L, "ip")}
  BY <1>1, ReadIs DEF Has3
<1>3. a.addr \in Nat
  <2>1. PICK f \in DOMAIN AddrBits : a \in [family : {f}, addr : 0 .. Block(AddrBits[f]) - 1]
    BY DEF Addresses
  <2> QED BY <2>1
<1>4. ASSUME NEW l \in OfKind(L, "ip")
      PROVE  RangeOf(l.net, l.tag).family = a.family /\ Has(RangeOf(l.net, l.tag), a.addr) <=> NetHas(l.net, a)
  <2>1. l \in L /\ KindOf(l) = "ip"
    BY DEF OfKind
  <2>2. InFamily(l.net) /\ l.net.bits <= AddrBits[l.net.family]
    <3>1. WellTyped(l) /\ WellFormed(l)
      BY <1>1, <2>1 DEF Feed
    <3> QED BY <2>1, <3>1 DEF WellTyped, WellFormed
  <2>3. RangeOf(l.net, l.tag).family = l.net.family /\ CoversBlock(RangeOf(l.net, l.tag), l.net)
    <3> DEFINE net == l.net
               tag == l.tag
    <3>1. tag \in {tag} /\ InFamily(net) /\ net.bits <= AddrBits[net.family]
      BY <2>2
    <3> HIDE DEF net, tag
    <3>2. RangeOf(net, tag).family = net.family /\ CoversBlock(RangeOf(net, tag), net)
      BY <3>1, RangeOfIs
    <3> QED BY <3>2 DEF net, tag
  <2>4. Has(RangeOf(l.net, l.tag), a.addr) <=> SameBlock(l.net, a.addr)
    BY <1>3, <2>3 DEF CoversBlock
  <2>5. NetHas(l.net, a) <=> l.net.family = a.family /\ SameBlock(l.net, a.addr)
    BY DEF NetHas, SameBlock
  <2> QED BY <2>3, <2>4, <2>5
<1>5. LinesOn(a) = {l \in OfKind(L, "ip") : NetHas(l.net, a)}
  BY DEF LinesOn, OfKind
<1> HIDE DEF L, ranges
<1>6. Over(ranges, a) = {r \in ToSet(ranges) : r.family = a.family /\ Has(r, a.addr)}
  BY DEF Over
<1>7. ASSUME NEW r PROVE r \in Over(ranges, a) <=> r \in {RangeOf(l.net, l.tag) : l \in LinesOn(a)}
  <2>1. ASSUME r \in Over(ranges, a) PROVE \E l \in LinesOn(a) : r = RangeOf(l.net, l.tag)
    <3>1. PICK l \in OfKind(L, "ip") : r = RangeOf(l.net, l.tag)
      BY <1>2, <1>6, <2>1
    <3>2. NetHas(l.net, a)
      BY <1>4, <1>6, <2>1, <3>1
    <3> QED BY <1>5, <3>1, <3>2
  <2>2. ASSUME NEW l \in LinesOn(a), r = RangeOf(l.net, l.tag) PROVE r \in Over(ranges, a)
    <3>1. l \in OfKind(L, "ip") /\ NetHas(l.net, a)
      BY <1>5
    <3>2. r \in ToSet(ranges)
      BY <1>2, <2>2, <3>1
    <3> QED BY <1>4, <1>6, <2>2, <3>1, <3>2
  <2> QED BY <2>1, <2>2
<1> QED
  BY <1>7 DEF ranges

LEMMA TagIs ==
  ASSUME Known, intel.ok, NEW a \in Addresses
  PROVE  TagTrue(a)
<1> DEFINE lines == setting.feed
           ranges == Read(lines).ranges
           tag == Lookup(intel.reputation, a)
<1>1. Feed(lines) /\ intel.reputation = Finished(ranges)
  BY OkIs
<1>2. ranges \in Seq(RangesOf(DOMAIN AddrBits, TagsIn(lines)))
  BY <1>1, ReadIs DEF IntelOf
<1>3. a.addr \in Int /\ a.family \in DOMAIN AddrBits
  <2>1. PICK f \in DOMAIN AddrBits : a \in [family : {f}, addr : 0 .. Block(AddrBits[f]) - 1]
    BY DEF Addresses
  <2> QED BY <2>1
<1>4. intel.reputation[a.family] = Merged(Sorted(ranges, a.family))
  BY <1>1, <1>3 DEF Finished
<1> HIDE DEF ranges
<1>5. SaysOf(ranges, a, tag)
  BY <1>2, <1>3, <1>4, LookupIs
<1>6. Over(ranges, a) = {RangeOf(l.net, l.tag) : l \in LinesOn(a)}
  BY OverIs DEF ranges
<1>7. \A l \in LinesOn(a) : RangeOf(l.net, l.tag).tag = l.tag
  BY DEF RangeOf
<1> HIDE DEF tag, lines
<1>8. CASE LinesOn(a) = {}
  <2>1. Over(ranges, a) = {}
    BY <1>6, <1>8
  <2> QED BY <1>5, <1>8, <2>1 DEF SaysOf, TagTrue, tag
<1>9. CASE LinesOn(a) # {}
  <2>1. Over(ranges, a) # {}
    BY <1>6, <1>9
  <2>2. PICK r \in Over(ranges, a) : r.tag = tag /\ \A q \in Over(ranges, a) : q.start <= r.start
    BY <1>5, <2>1 DEF SaysOf
  <2>3. PICK l \in LinesOn(a) : r = RangeOf(l.net, l.tag)
    BY <1>6, <2>2
  <2>4. l.tag = tag
    BY <1>7, <2>2, <2>3
  <2>5. ASSUME NEW m \in LinesOn(a) PROVE RangeOf(m.net, m.tag).start <= RangeOf(l.net, l.tag).start
    BY <1>6, <2>2, <2>3
  <2> QED BY <1>9, <2>4, <2>5 DEF TagTrue, tag
<1> QED
  BY <1>8, <1>9

-----------------------------------------------------------------------------
(* A name without its dots and in lower case. *)
LEMMA PlainIs ==
  ASSUME NEW name \in Seq(Nat)
  PROVE  Undotted(name) \in Seq(Nat) /\ Plain(name) \in Seq(Int)
<1> DEFINE kept == {i \in DOMAIN name : name[i] # 0}
           first == CHOOSE i \in kept : \A j \in kept : i <= j
           last == CHOOSE i \in kept : \A j \in kept : i >= j
<1>1. Undotted(name) \in Seq(Nat)
  <2>1. CASE kept = {}
    <3>1. Undotted(name) = <<>>
      BY <2>1 DEF Undotted
    <3> QED BY <3>1
  <2>2. CASE kept # {}
    <3>1. kept \subseteq 0 .. Len(name) /\ kept \subseteq Nat /\ Len(name) \in Nat
      OBVIOUS
    <3>2. Undotted(name) = SubSeq(name, first, last)
      BY <2>2 DEF Undotted
    <3>3. kept \subseteq 1 .. Len(name)
      OBVIOUS
    <3> HIDE DEF kept
    <3>4. first \in kept
      BY <2>2, <3>1, LeastIs
    <3>5. \E i \in kept : \A j \in kept : j <= i
      BY <2>2, <3>1, GreatestIs
    <3>6. \E i \in kept : \A j \in kept : i >= j
      BY <3>1, <3>5
    <3>7. last \in kept
      BY <3>6
    <3> HIDE DEF first, last
    <3>8. first \in 1 .. Len(name) /\ last \in 1 .. Len(name)
      BY <3>3, <3>4, <3>7
    <3> QED BY <3>2, <3>8
  <2> QED BY <2>1, <2>2
<1> DEFINE u == Undotted(name)
<1>2. Plain(name) = [i \in DOMAIN u |-> Lower(u[i])]
  BY DEF Plain, Lowered
<1> HIDE DEF u
<1>3. u \in Seq(Nat)
  BY <1>1 DEF u
<1>4. \A i \in DOMAIN u : Lower(u[i]) \in Int
  BY <1>3, IntelAssumption DEF Lower
<1>5. Plain(name) \in [1 .. Len(u) -> Int]
  BY <1>2, <1>3, <1>4
<1>6. Len(u) \in Nat
  BY <1>3
<1>7. Plain(name) \in Seq(Int)
  BY <1>5, <1>6
<1> QED
  BY <1>1, <1>7

(* What a name and its parents are called. *)
Named(p, names) == {i \in Parents(p) : SubSeq(p, i, Len(p)) \in DOMAIN names}

LEMMA NamesOf ==
  ASSUME Known, intel.ok
  PROVE  /\ DOMAIN intel.names = {Plain(l.name) : l \in NameLines}
         /\ \A n \in DOMAIN intel.names : intel.names[n] # Unlisted
<1> DEFINE L == ToSet(setting.feed)
<1>1. Feed(setting.feed) /\ intel.names = Read(setting.feed).names
  BY OkIs
<1>2. Has3(Read(setting.feed), L) /\ Read(setting.feed) \in IntelOf(setting.feed)
  BY <1>1, ReadIs
<1>3. DOMAIN intel.names = {Plain(l.name) : l \in NameLines}
  BY <1>1, <1>2 DEF Has3, OfKind, NameLines
<1>4. intel.names \in Partly({Plain(l.name) : l \in L}, TagsIn(setting.feed))
  BY <1>1, <1>2 DEF IntelOf
<1>5. \A tag \in TagsIn(setting.feed) : tag # Unlisted
  BY <1>1 DEF TagsIn, Feed, WellTyped
<1> QED
  BY <1>3, <1>4, <1>5 DEF Partly

LEMMA LookupNameIs ==
  ASSUME Known, intel.ok, NEW name \in Seq(Nat), Len(Undotted(name)) <= MaxName
  PROVE  LookupName(intel.names, name) # Unlisted <=> Plain(name) # <<>> /\ Named(Plain(name), intel.names) # {}
<1> DEFINE p == Plain(name)
           found == Named(p, intel.names)
           first == CHOOSE i \in found : \A j \in found : i <= j
<1> SUFFICES LookupName(intel.names, name) # Unlisted <=> p # <<>> /\ found # {}
  OBVIOUS
<1>1. LookupName(intel.names, name) =
        IF p = <<>> \/ found = {} THEN Unlisted ELSE intel.names[SubSeq(p, first, Len(p))]
  BY DEF LookupName, Plain, Named
<1>2. CASE p = <<>> \/ found = {}
  BY <1>1, <1>2
<1>3. CASE p # <<>> /\ found # {}
  <2>1. p \in Seq(Int)
    BY PlainIs
  <2>2. found \subseteq Nat
    BY <2>1 DEF Named, Parents
  <2>3. first \in found
    <3> HIDE DEF found
    <3> QED BY <1>3, <2>2, LeastIs
  <2> HIDE DEF first
  <2>4. SubSeq(p, first, Len(p)) \in DOMAIN intel.names
    BY <2>3 DEF Named
  <2>5. intel.names[SubSeq(p, first, Len(p))] # Unlisted
    BY <2>4, NamesOf
  <2> HIDE DEF found, p
  <2> QED BY <1>1, <1>3, <2>5
<1> QED
  BY <1>2, <1>3

LEMMA NameIs ==
  ASSUME Known, intel.ok, NEW name \in setting.names
  PROVE  NameTrue(name)
<1> DEFINE p == Plain(name)
<1>1. name \in Seq(Nat) /\ Len(Undotted(name)) <= MaxName
  BY DeliveryAssumption DEF Known
<1>2. p \in Seq(Int)
  BY <1>1, PlainIs
<1>3. LookupName(intel.names, name) # Unlisted <=> p # <<>> /\ Named(p, intel.names) # {}
  BY <1>1, LookupNameIs
<1>4. DOMAIN intel.names = {Plain(l.name) : l \in NameLines}
  BY NamesOf
<1>5. \A n : Under(name, n) <=> \E i \in DOMAIN p : Plain(n) = SubSeq(p, i, Len(p))
  BY DEF Under
<1> HIDE DEF p
<1>6. ASSUME p # <<>>, NEW i \in Named(p, intel.names)
      PROVE  \E l \in NameLines : Under(name, l.name) /\ (Len(Plain(l.name)) > 1 \/ Plain(l.name) = p)
  <2>1. i \in DOMAIN p /\ (i = 1 \/ Len(p) - i >= 1) /\ SubSeq(p, i, Len(p)) \in DOMAIN intel.names
    BY DEF Named, Parents
  <2>2. PICK l \in NameLines : Plain(l.name) = SubSeq(p, i, Len(p))
    BY <1>4, <2>1
  <2>3. Under(name, l.name)
    BY <1>5, <2>1, <2>2
  <2>4. Len(Plain(l.name)) = Len(p) - i + 1 /\ (i = 1 => Plain(l.name) = p)
    <3>1. Len(SubSeq(p, i, Len(p))) = Len(p) - i + 1 /\ (i = 1 => SubSeq(p, i, Len(p)) = p)
      BY <1>2, <2>1
    <3> QED BY <2>2, <3>1
  <2>5. Len(p) \in Int /\ i \in Int
    BY <1>2, <2>1
  <2> QED BY <2>1, <2>3, <2>4, <2>5
<1>7. ASSUME NEW l \in NameLines, Under(name, l.name), Len(Plain(l.name)) > 1 \/ Plain(l.name) = p
      PROVE  p # <<>> /\ Named(p, intel.names) # {}
  <2>1. PICK i \in DOMAIN p : Plain(l.name) = SubSeq(p, i, Len(p))
    BY <1>5, <1>7
  <2>2. Len(Plain(l.name)) = Len(p) - i + 1
    <3>1. Len(SubSeq(p, i, Len(p))) = Len(p) - i + 1
      BY <1>2, <2>1
    <3> QED BY <2>1, <3>1
  <2>3. Len(p) \in Int /\ i \in 1 .. Len(p) /\ p # <<>>
    BY <1>2
  <2>4. i = 1 \/ Len(p) - i >= 1
    <3>1. CASE Len(Plain(l.name)) > 1
      BY <2>2, <2>3, <3>1
    <3>2. CASE Plain(l.name) = p
      BY <2>2, <2>3, <3>2
    <3> QED BY <1>7, <3>1, <3>2
  <2>5. i \in Named(p, intel.names)
    BY <1>4, <2>1, <2>4 DEF Named, Parents
  <2> QED BY <2>3, <2>5
<1>8. p # <<>> /\ Named(p, intel.names) # {} <=>
        \E l \in NameLines : Under(name, l.name) /\ (Len(Plain(l.name)) > 1 \/ Plain(l.name) = p)
  BY <1>6, <1>7
<1> QED
  BY <1>3, <1>8 DEF NameTrue, p

-----------------------------------------------------------------------------
(* What a worker says of what it met: a pair that was raised before is in  *)
(* the table, or the table was full once.                                  *)
UpTo(s, j) == {s[k] : k \in 1 .. j}
Repeated(s) ==
  \A i, j \in DOMAIN s : i < j /\ s[i] = s[j] => Cardinality(UpTo(s, j - 1)) >= SeenCap
Remembers(w) ==
  /\ w.raised \in Seq(Pairs) /\ IsFiniteSet(ToSet(w.raised))
  /\ w.seen \subseteq ToSet(w.raised)
  /\ w.seen = ToSet(w.raised) \/ Cardinality(ToSet(w.raised)) >= SeenCap
  /\ Repeated(w.raised)

LEMMA RaisedOnceMore ==
  ASSUME NEW s \in Seq(Pairs), Repeated(s), NEW pair \in Pairs,
         pair \in ToSet(s) => Cardinality(ToSet(s)) >= SeenCap
  PROVE  Repeated(Append(s, pair)) /\ ToSet(Append(s, pair)) = ToSet(s) \cup {pair}
<1> DEFINE t == Append(s, pair)
           n == Len(s)
<1>1. n \in Nat /\ DOMAIN s = 1 .. n /\ DOMAIN t = 1 .. n + 1 /\ t[n + 1] = pair /\ \A k \in 1 .. n : t[k] = s[k]
  OBVIOUS
<1> HIDE DEF t
<1>2. \A j \in 1 .. n + 1 : UpTo(t, j - 1) = UpTo(s, j - 1)
  BY <1>1 DEF UpTo
<1>3. UpTo(s, n) = ToSet(s) /\ UpTo(t, n + 1) = ToSet(t)
  BY <1>1 DEF UpTo, ToSet
<1>4. UpTo(t, n + 1) = UpTo(s, n) \cup {pair}
  BY <1>1 DEF UpTo
<1>5. ASSUME NEW i \in DOMAIN t, NEW j \in DOMAIN t, i < j, t[i] = t[j]
      PROVE  Cardinality(UpTo(t, j - 1)) >= SeenCap
  <2>1. UpTo(t, j - 1) = UpTo(s, j - 1)
    BY <1>1, <1>2
  <2>2. CASE j = n + 1
    <3>1. i \in 1 .. n /\ s[i] = pair /\ j - 1 = n
      BY <1>1, <1>5, <2>2
    <3>2. pair \in ToSet(s)
      BY <1>1, <3>1 DEF ToSet
    <3>3. Cardinality(UpTo(s, n)) >= SeenCap
      BY <1>3, <3>2
    <3> QED BY <2>1, <3>1, <3>3
  <2>3. CASE j # n + 1
    <3>1. i \in DOMAIN s /\ j \in DOMAIN s /\ s[i] = s[j]
      BY <1>1, <1>5, <2>3
    <3>2. Cardinality(UpTo(s, j - 1)) >= SeenCap
      BY <1>5, <3>1 DEF Repeated
    <3> QED BY <2>1, <3>2
  <2> QED BY <2>2, <2>3
<1> QED
  BY <1>3, <1>4, <1>5 DEF Repeated, t

LEMMA SightedIs ==
  ASSUME NEW w, Remembers(w), NEW pair \in Pairs, NEW tag
  PROVE  /\ Remembers(Sighted(w, tag, pair))
         /\ ToSet(Sighted(w, tag, pair).raised) = ToSet(w.raised) \cup (IF tag = Unlisted THEN {} ELSE {pair})
<1> DEFINE v == Sighted(w, tag, pair)
           full == Cardinality(w.seen) >= SeenCap
           seen == IF full THEN {} ELSE w.seen
           S == ToSet(w.raised)
           T == S \cup {pair}
<1>1. CASE tag = Unlisted
  BY <1>1 DEF Sighted
<1>2. CASE tag # Unlisted
  <2>1. v = [seen |-> seen \cup {pair},
             raised |-> IF pair \in seen THEN w.raised ELSE Append(w.raised, pair), hits |-> w.hits + 1]
    BY <1>2 DEF Sighted
  <2>2. v.seen = seen \cup {pair} /\ v.raised = IF pair \in seen THEN w.raised ELSE Append(w.raised, pair)
    <3> HIDE DEF v, seen
    <3> QED BY <2>1
  <2>3. IsFiniteSet(S) /\ Cardinality(S) \in Nat /\ w.seen \subseteq S
    BY FS_CardinalityType DEF Remembers
  <2>4. Cardinality(w.seen) \in Nat /\ Cardinality(w.seen) <= Cardinality(S)
    <3>1. w.seen \in SUBSET S
      BY <2>3
    <3>2. IsFiniteSet(w.seen) /\ Cardinality(w.seen) <= Cardinality(S)
      BY <2>3, <3>1, FS_Subset
    <3> QED BY <3>2, FS_CardinalityType
  <2>5. IsFiniteSet(T) /\ Cardinality(T) \in Nat /\ Cardinality(S) <= Cardinality(T)
    <3>1. IsFiniteSet(T) /\ Cardinality(T) = IF pair \in S THEN Cardinality(S) ELSE Cardinality(S) + 1
      <4> HIDE DEF S
      <4> QED BY <2>3, FS_AddElement
    <3> HIDE DEF S, T
    <3> QED BY <2>3, <3>1
  <2>6. SeenCap \in Nat
    BY IntelAssumption
  <2>7. seen = S \/ Cardinality(S) >= SeenCap
    <3>1. CASE full
      BY <2>3, <2>4, <2>6, <3>1
    <3>2. CASE ~full
      BY <3>2 DEF Remembers
    <3> QED BY <3>1, <3>2
  <2>8. w.raised \in Seq(Pairs) /\ Repeated(w.raised)
    BY DEF Remembers
  <2>9. seen \subseteq S
    BY <2>3
  <2> HIDE DEF seen, full
  <2>10. v.raised \in Seq(Pairs) /\ ToSet(v.raised) = T /\ Repeated(v.raised)
    <3>1. CASE pair \in seen
      BY <2>2, <2>8, <2>9, <3>1
    <3>2. CASE pair \notin seen
      <4>1. pair \in S => Cardinality(S) >= SeenCap
        BY <2>7, <3>2
      <4>2. Repeated(Append(w.raised, pair)) /\ ToSet(Append(w.raised, pair)) = T
        BY <2>8, <4>1, RaisedOnceMore
      <4>3. Append(w.raised, pair) \in Seq(Pairs)
        BY <2>8
      <4> QED BY <2>2, <3>2, <4>2, <4>3
    <3> QED BY <3>1, <3>2
  <2> HIDE DEF v
  <2>11. v.seen \subseteq T /\ (v.seen = T \/ Cardinality(T) >= SeenCap)
    <3>1. CASE seen = S
      BY <2>2, <3>1
    <3>2. CASE Cardinality(S) >= SeenCap
      <4>1. Cardinality(T) >= SeenCap
        <5> HIDE DEF S, T
        <5> QED BY <2>3, <2>5, <2>6, <3>2
      <4> QED BY <2>2, <2>9, <4>1
    <3> QED BY <2>7, <3>1, <3>2
  <2>12. ToSet(v.raised) = S \cup (IF tag = Unlisted THEN {} ELSE {pair})
    BY <1>2, <2>10
  <2> HIDE DEF S, T
  <2> QED BY <2>5, <2>10, <2>11, <2>12 DEF Remembers, v, S
<1> QED
  BY <1>1, <1>2

LEMMA NewWorkerRemembers == Remembers(NewWorker) /\ ToSet(NewWorker.raised) = {}
<1>1. NewWorker.raised = <<>> /\ NewWorker.seen = {}
  BY DEF NewWorker
<1>2. ToSet(<<>>) = {} /\ <<>> \in Seq(Pairs) /\ DOMAIN <<>> = {}
  BY DEF ToSet
<1> HIDE DEF NewWorker
<1> QED BY <1>1, <1>2, FS_EmptySet DEF Remembers, Repeated

-----------------------------------------------------------------------------
(* What a worker meets is listed exactly if the feed lists it. *)
LEMMA AddressListed ==
  ASSUME Known, intel.ok, NEW a \in Addresses
  PROVE  Lookup(intel.reputation, a) # Unlisted <=> LinesOn(a) # {}
<1>1. TagTrue(a)
  BY TagIs
<1>2. \A l \in LinesOn(a) : l.tag # Unlisted
  <2>1. Feed(setting.feed)
    BY OkIs
  <2> QED BY <2>1 DEF Feed, LinesOn, WellTyped
<1> QED
  BY <1>1, <1>2 DEF TagTrue

LEMMA ClientListed ==
  ASSUME Known, intel.ok, NEW hash
  PROVE  (IF hash \in DOMAIN intel.ja3 THEN intel.ja3[hash] ELSE Unlisted) # Unlisted <=>
           \E l \in ToSet(setting.feed) : KindOf(l) = "ja3" /\ l.hash = hash
<1> DEFINE L == ToSet(setting.feed)
<1>1. Feed(setting.feed) /\ intel.ja3 = Read(setting.feed).ja3
  BY OkIs
<1>2. Has3(Read(setting.feed), L) /\ Read(setting.feed) \in IntelOf(setting.feed)
  BY <1>1, ReadIs
<1>3. DOMAIN intel.ja3 = {l.hash : l \in OfKind(L, "ja3")}
  BY <1>1, <1>2 DEF Has3
<1>4. intel.ja3 \in Partly({l.hash : l \in L}, TagsIn(setting.feed))
  BY <1>1, <1>2 DEF IntelOf
<1>5. \A tag \in TagsIn(setting.feed) : tag # Unlisted
  BY <1>1 DEF TagsIn, Feed, WellTyped
<1>6. \A h \in DOMAIN intel.ja3 : intel.ja3[h] # Unlisted
  BY <1>4, <1>5 DEF Partly
<1> QED
  BY <1>3, <1>6 DEF OfKind

LEMMA SightSees ==
  ASSUME Known, NEW pair \in Pairs, NEW what \in Meets, Sight(pair, what)
  PROVE  \E tag : /\ tag # Unlisted <=> ListedSight([pair |-> pair, what |-> what])
                  /\ worker' = Sighted(worker, tag, pair)
<1>0. intel.ok /\ what.is \in {"flow", "name", "client"}
  BY DeliveryAssumption DEF Sight
<1>1. CASE what.is = "flow"
  <2> DEFINE dst == Lookup(intel.reputation, pair.dst)
             src == Lookup(intel.reputation, pair.src)
             tag == IF dst # Unlisted THEN dst ELSE src
  <2>1. worker' = Sighted(worker, tag, pair)
    BY <1>1 DEF Sight, Sees, NewFlow
  <2>2. pair.src \in Addresses /\ pair.dst \in Addresses
    BY DeliveryAssumption
  <2>3. (dst # Unlisted <=> LinesOn(pair.dst) # {}) /\ (src # Unlisted <=> LinesOn(pair.src) # {})
    BY <1>0, <2>2, AddressListed
  <2>4. ListedSight([pair |-> pair, what |-> what]) <=> LinesOn(pair.src) \cup LinesOn(pair.dst) # {}
    BY <1>1 DEF ListedSight
  <2> HIDE DEF dst, src
  <2> QED BY <2>1, <2>3, <2>4
<1>2. CASE what.is = "name"
  <2>1. worker' = Sighted(worker, LookupName(intel.names, what.name), pair)
    BY <1>2 DEF Sight, Sees, NamedIn
  <2>2. ListedSight([pair |-> pair, what |-> what]) <=> LookupName(intel.names, what.name) # Unlisted
    BY <1>2 DEF ListedSight
  <2> QED BY <2>1, <2>2
<1>3. CASE what.is = "client"
  <2> DEFINE tag == IF what.hash \in DOMAIN intel.ja3 THEN intel.ja3[what.hash] ELSE Unlisted
  <2>1. worker' = Sighted(worker, tag, pair)
    BY <1>3 DEF Sight, Sees, ClientOf
  <2>2. tag # Unlisted <=> \E l \in ToSet(setting.feed) : KindOf(l) = "ja3" /\ l.hash = what.hash
    BY <1>0, ClientListed
  <2>3. ListedSight([pair |-> pair, what |-> what]) <=>
          \E l \in ToSet(setting.feed) : KindOf(l) = "ja3" /\ l.hash = what.hash
    BY <1>3 DEF ListedSight
  <2> HIDE DEF tag
  <2> QED BY <2>1, <2>2, <2>3
<1> QED
  BY <1>0, <1>1, <1>2, <1>3

SeenInv ==
  /\ Known
  /\ Remembers(worker)
  /\ ToSet(worker.raised) = {s.pair : s \in {x \in sights : ListedSight(x)}}

LEMMA SightStep ==
  ASSUME SeenInv, NEW pair \in Pairs, NEW what \in Meets, Sight(pair, what)
  PROVE  SeenInv'
<1> DEFINE s == [pair |-> pair, what |-> what]
<1>1. PICK tag : (tag # Unlisted <=> ListedSight(s)) /\ worker' = Sighted(worker, tag, pair)
  BY SightSees DEF SeenInv
<1>2. sights' = sights \cup {s} /\ UNCHANGED <<setting, intel>>
  BY DEF Sight, Sees
<1>3. s.pair = pair
  OBVIOUS
<1> HIDE DEF s
<1>4. \A x : ListedSight(x)' <=> ListedSight(x)
  BY <1>2 DEF ListedSight, LinesOn
<1>5. Remembers(worker') /\ ToSet(worker'.raised) = ToSet(worker.raised) \cup (IF tag = Unlisted THEN {} ELSE {pair})
  BY <1>1, SightedIs DEF SeenInv
<1>6. ToSet(worker.raised) = {x.pair : x \in {y \in sights : ListedSight(y)}}
  BY DEF SeenInv
<1>7. {x.pair : x \in {y \in sights' : ListedSight(y)}} =
        {x.pair : x \in {y \in sights : ListedSight(y)}} \cup (IF tag = Unlisted THEN {} ELSE {pair})
  BY <1>1, <1>2, <1>3
<1>8. {x.pair : x \in {y \in sights' : ListedSight(y)'}} = {x.pair : x \in {y \in sights' : ListedSight(y)}}
  BY <1>4
<1>9. Known'
  BY <1>2 DEF SeenInv, Known
<1> QED
  BY <1>5, <1>6, <1>7, <1>8, <1>9 DEF SeenInv, Remembers

-----------------------------------------------------------------------------
(* The ring of frames. *)
KeptOf(len) == IF len < RetainBytes THEN len ELSE RetainBytes
FrameAt(lengths, n) ==
  IF n < 1 THEN NoFrame ELSE [n |-> n, len |-> lengths[n], caplen |-> KeptOf(lengths[n])]
FirstOf(n) == IF n < Retain THEN 0 ELSE n - Retain
FramesOf(lengths, n) == [i \in 1 .. n - FirstOf(n) |-> FrameAt(lengths, FirstOf(n) + i)]
Frames == [n : Nat, len : Nat, caplen : Nat]

LEMMA FrameIs ==
  ASSUME NEW lengths \in Seq(Nat), NEW n \in Int, n <= Len(lengths)
  PROVE  FrameAt(lengths, n) \in Frames /\ (FrameAt(lengths, n) = NoFrame <=> n < 1)
<1>1. CASE n < 1
  BY <1>1 DEF FrameAt, NoFrame, Frames
<1>2. CASE n >= 1
  <2>1. lengths[n] \in Nat /\ KeptOf(lengths[n]) \in Nat
    BY <1>2, DumpAssumption DEF KeptOf
  <2>2. FrameAt(lengths, n) = [n |-> n, len |-> lengths[n], caplen |-> KeptOf(lengths[n])]
    BY <1>2 DEF FrameAt
  <2>3. FrameAt(lengths, n) \in Frames /\ FrameAt(lengths, n).n = n
    BY <1>2, <2>1, <2>2 DEF Frames
  <2>4. NoFrame.n = 0
    BY DEF NoFrame
  <2>5. FrameAt(lengths, n) # NoFrame
    BY <1>2, <2>3, <2>4
  <2> QED BY <1>2, <2>3, <2>5
<1> QED
  BY <1>1, <1>2

(* How many frames were read before the one in place k. *)
NumberAt(d, k) ==
  Len(d.lengths) - d.writeIdx + k + 1 - (IF k < d.writeIdx THEN 0 ELSE Retain)
RingTrue(d) ==
  /\ d.lengths \in Seq(Nat) /\ d.writeIdx \in 0 .. Retain - 1 /\ d.writeIdx <= Len(d.lengths)
  /\ d.ring \in [0 .. Retain - 1 -> Frames]
  /\ \A k \in 0 .. Retain - 1 : d.ring[k] = FrameAt(d.lengths, NumberAt(d, k))

LEMMA NumberIs ==
  ASSUME NEW d, RingTrue(d), NEW k \in 0 .. Retain - 1
  PROVE  NumberAt(d, k) \in Int /\ NumberAt(d, k) <= Len(d.lengths)
<1> DEFINE n == Len(d.lengths)
           w == d.writeIdx
<1>1. n \in Nat /\ w \in 0 .. Retain - 1 /\ w <= n /\ Retain \in Nat
  BY DumpAssumption DEF RingTrue
<1>2. NumberAt(d, k) = n - w + k + 1 - (IF k < w THEN 0 ELSE Retain)
  BY DEF NumberAt
<1> HIDE DEF n, w
<1>3. n - w + k + 1 - (IF k < w THEN 0 ELSE Retain) <= n
  BY <1>1
<1>4. NumberAt(d, k) \in Int
  BY <1>1, <1>2
<1> QED
  BY <1>2, <1>3, <1>4 DEF n

LEMMA SameFrames ==
  ASSUME NEW lengths \in Seq(Nat), NEW len \in Nat
  PROVE  /\ \A n \in Int : n <= Len(lengths) => FrameAt(Append(lengths, len), n) = FrameAt(lengths, n)
         /\ \A n \in Nat : n <= Len(lengths) => FramesOf(Append(lengths, len), n) = FramesOf(lengths, n)
<1>1. ASSUME NEW n \in Int, n <= Len(lengths) PROVE FrameAt(Append(lengths, len), n) = FrameAt(lengths, n)
  <2>1. CASE n < 1
    BY <2>1 DEF FrameAt
  <2>2. CASE n >= 1
    <3>1. Append(lengths, len)[n] = lengths[n]
      BY <1>1, <2>2
    <3> QED BY <2>2, <3>1 DEF FrameAt
  <2> QED BY <2>1, <2>2
<1>2. ASSUME NEW n \in Nat, n <= Len(lengths) PROVE FramesOf(Append(lengths, len), n) = FramesOf(lengths, n)
  <2>1. FirstOf(n) \in Nat
    BY DumpAssumption DEF FirstOf
  <2>2. \A i \in 1 .. n - FirstOf(n) : FirstOf(n) + i \in Int /\ FirstOf(n) + i <= Len(lengths)
    BY <1>2, <2>1
  <2>3. \A i \in 1 .. n - FirstOf(n) :
          FrameAt(Append(lengths, len), FirstOf(n) + i) = FrameAt(lengths, FirstOf(n) + i)
    BY <1>1, <2>2
  <2> QED BY <2>3 DEF FramesOf
<1> QED
  BY <1>1, <1>2

LEMMA Around ==
  ASSUME NEW r \in Nat \ {0}, NEW x \in Nat, x < 2 * r
  PROVE  x % r = IF x < r THEN x ELSE x - r
<1> DEFINE q == x \div r
<1>1. q \in Int /\ x = r * q + (x % r) /\ 0 <= x % r /\ x % r < r /\ x % r \in Int
  OBVIOUS
<1> HIDE DEF q
<1>2. CASE q <= -1
  <2>1. r * q <= -r
    BY <1>1, <1>2
  <2> QED BY <1>1, <2>1
<1>3. CASE q >= 2
  <2>1. r * q >= 2 * r
    BY <1>1, <1>3
  <2> QED BY <1>1, <2>1
<1>4. CASE q = 0
  BY <1>1, <1>4
<1>5. CASE q = 1
  BY <1>1, <1>5
<1> QED
  BY <1>1, <1>2, <1>3, <1>4, <1>5

OneMore(d, len, e) ==
  /\ e.ring = [d.ring EXCEPT ![d.writeIdx] = FrameAt(Append(d.lengths, len), Len(d.lengths) + 1)]
  /\ e.writeIdx = (d.writeIdx + 1) % Retain
  /\ e.lengths = Append(d.lengths, len)

LEMMA NextNumber ==
  ASSUME NEW r \in Nat \ {0}, NEW n \in Nat, NEW w \in 0 .. r - 1, NEW v \in Nat,
         v = IF w + 1 < r THEN w + 1 ELSE 0, NEW k \in 0 .. r - 1
  PROVE  /\ k = w => n + 1 - v + k + 1 - (IF k < v THEN 0 ELSE r) = n + 1
         /\ k # w => n + 1 - v + k + 1 - (IF k < v THEN 0 ELSE r) = n - w + k + 1 - (IF k < w THEN 0 ELSE r)
OBVIOUS

LEMMA CapturedIs ==
  ASSUME NEW d, RingTrue(d), NEW len \in Nat, NEW e, OneMore(d, len, e)
  PROVE  RingTrue(e)
<1> DEFINE w == d.writeIdx
           v == e.writeIdx
           n == Len(d.lengths)
<1>1. /\ e.lengths = Append(d.lengths, len) /\ d.lengths \in Seq(Nat) /\ v = (w + 1) % Retain
      /\ e.ring = [d.ring EXCEPT ![w] = FrameAt(e.lengths, n + 1)]
  BY DEF RingTrue, OneMore
<1>2. /\ Retain \in Nat \ {0} /\ w \in 0 .. Retain - 1 /\ w <= n /\ n \in Nat
      /\ e.lengths \in Seq(Nat) /\ Len(e.lengths) = n + 1
  BY <1>1, DumpAssumption DEF RingTrue
<1> HIDE DEF w, v, n
<1>3. v = IF w + 1 < Retain THEN w + 1 ELSE 0
  <2> DEFINE x == w + 1
  <2>1. x \in Nat /\ x < 2 * Retain
    BY <1>2
  <2> HIDE DEF x
  <2>2. x % Retain = IF x < Retain THEN x ELSE x - Retain
    BY <1>2, <2>1, Around
  <2> QED BY <1>1, <1>2, <2>2 DEF x
<1>4. v \in 0 .. Retain - 1 /\ v \in Nat /\ v <= n + 1
  BY <1>2, <1>3
<1>5. FrameAt(e.lengths, n + 1) \in Frames
  <2>1. n + 1 \in Int /\ n + 1 <= Len(e.lengths)
    BY <1>2
  <2> QED BY <1>2, <2>1, FrameIs
<1>6. e.ring \in [0 .. Retain - 1 -> Frames]
  BY <1>1, <1>2, <1>5 DEF RingTrue
<1>7. ASSUME NEW k \in 0 .. Retain - 1 PROVE e.ring[k] = FrameAt(e.lengths, NumberAt(e, k))
  <2>1. /\ NumberAt(e, k) = n + 1 - v + k + 1 - (IF k < v THEN 0 ELSE Retain)
        /\ NumberAt(d, k) = n - w + k + 1 - (IF k < w THEN 0 ELSE Retain)
    <3>1. /\ NumberAt(e, k) = Len(e.lengths) - v + k + 1 - (IF k < v THEN 0 ELSE Retain)
          /\ NumberAt(d, k) = n - w + k + 1 - (IF k < w THEN 0 ELSE Retain)
      BY DEF NumberAt, n, v, w
    <3> QED BY <1>2, <1>4, <3>1
  <2>2. (k = w => NumberAt(e, k) = n + 1) /\ (k # w => NumberAt(e, k) = NumberAt(d, k))
    BY <1>2, <1>3, <1>4, <2>1, NextNumber
  <2>3. CASE k = w
    <3>1. e.ring[k] = FrameAt(e.lengths, n + 1)
      BY <1>1, <1>2, <2>3 DEF RingTrue
    <3> QED BY <2>2, <2>3, <3>1
  <2>4. CASE k # w
    <3>1. e.ring[k] = d.ring[k] /\ d.ring[k] = FrameAt(d.lengths, NumberAt(d, k))
      BY <1>1, <2>4 DEF RingTrue
    <3>2. NumberAt(d, k) \in Int /\ NumberAt(d, k) <= n
      BY NumberIs DEF n
    <3>3. FrameAt(e.lengths, NumberAt(d, k)) = FrameAt(d.lengths, NumberAt(d, k))
      BY <1>1, <3>2, SameFrames DEF n
    <3> QED BY <2>2, <2>4, <3>1, <3>3
  <2> QED BY <2>3, <2>4
<1> QED
  BY <1>2, <1>4, <1>6, <1>7 DEF RingTrue, v

-----------------------------------------------------------------------------
(* The frames of the ring in their order. *)
TurnOf(d, i) == d.ring[(d.writeIdx + i - 1) % Retain]
Keeping(p, d) ==
  p = [i \in 0 .. Retain |->
         IF i = 0 THEN <<>> ELSE IF TurnOf(d, i) = NoFrame THEN p[i - 1] ELSE Append(p[i - 1], TurnOf(d, i))]

LEMMA TurnIs ==
  ASSUME NEW d, RingTrue(d), NEW i \in 1 .. Retain
  PROVE  TurnOf(d, i) = FrameAt(d.lengths, Len(d.lengths) + i - Retain) /\ TurnOf(d, i) \in Frames
<1> DEFINE w == d.writeIdx
           n == Len(d.lengths)
           x == w + i - 1
           k == x % Retain
<1>1. Retain \in Nat \ {0} /\ w \in 0 .. Retain - 1 /\ n \in Nat
  BY DumpAssumption DEF RingTrue
<1>2. TurnOf(d, i) = d.ring[k]
  BY DEF TurnOf
<1>3. \A j : NumberAt(d, j) = n - w + j + 1 - (IF j < w THEN 0 ELSE Retain)
  BY DEF NumberAt
<1> HIDE DEF w, n
<1>4. x \in Nat /\ x < 2 * Retain
  BY <1>1
<1> HIDE DEF x
<1>5. k = IF x < Retain THEN x ELSE x - Retain
  BY <1>1, <1>4, Around
<1> HIDE DEF k
<1>6. k \in 0 .. Retain - 1 /\ NumberAt(d, k) = n + i - Retain
  BY <1>1, <1>3, <1>5 DEF x
<1> QED
  BY <1>2, <1>6 DEF RingTrue, n

LEMMA KeepingExists ==
  ASSUME NEW d, RingTrue(d)
  PROVE  \E p : Keeping(p, d)
<1> DEFINE S == Seq(Frames)
           g == [i \in 1 .. Retain |-> [s \in S |-> IF TurnOf(d, i) = NoFrame THEN s ELSE Append(s, TurnOf(d, i))]]
<1>1. <<>> \in S /\ Retain \in Nat
  BY DumpAssumption
<1>2. \A i \in 1 .. Retain : TurnOf(d, i) \in Frames
  BY TurnIs
<1>3. g \in Turns(Retain, S)
  BY <1>2 DEF Turns
<1>4. PICK p : Loop(p, Retain, S, <<>>, g)
  <2> HIDE DEF g, S
  <2> QED BY <1>1, <1>3, LoopExists
<1>5. ASSUME NEW i \in 0 .. Retain
      PROVE  p[i] = IF i = 0 THEN <<>>
                    ELSE IF TurnOf(d, i) = NoFrame THEN p[i - 1] ELSE Append(p[i - 1], TurnOf(d, i))
  <2>1. CASE i = 0
    BY <1>4, <2>1 DEF Loop
  <2>2. CASE i \in 1 .. Retain
    <3>1. p[i] = g[i][p[i - 1]] /\ p[i - 1] \in S
      <4> HIDE DEF g, S
      <4> QED BY <1>1, <1>4, <2>2 DEF Loop
    <3> QED BY <2>2, <3>1
  <2> QED BY <1>1, <2>1, <2>2
<1>6. p = [i \in 0 .. Retain |-> p[i]]
  BY <1>4 DEF Loop
<1> QED
  BY <1>5, <1>6 DEF Keeping

LEMMA OrderedIs ==
  ASSUME NEW d, RingTrue(d)
  PROVE  Ordered(d) = FramesOf(d.lengths, Len(d.lengths)) /\ Ordered(d) \in Seq(Frames)
<1> DEFINE n == Len(d.lengths)
           first == FirstOf(n)
           p == CHOOSE x : Keeping(x, d)
           Some(m) == [i \in 1 .. m |-> FrameAt(d.lengths, first + i)]
           held(i) == IF n + i - Retain < first THEN 0 ELSE n + i - Retain - first
           C == {i \in 0 .. Retain : p[i] = Some(held(i))}
<1>1. Keeping(p, d)
  BY KeepingExists
<1>2. Ordered(d) = p[Retain]
  BY DEF Ordered, Keeping, TurnOf
<1>3. Retain \in Nat \ {0} /\ n \in Nat /\ first \in Nat /\ first <= n /\ first >= n - Retain /\ d.lengths \in Seq(Nat)
      /\ (first = 0 \/ first = n - Retain)
  BY DumpAssumption DEF RingTrue, FirstOf
<1> HIDE DEF p, first, n
<1>4. \A i \in 0 .. Retain :
        p[i] = IF i = 0 THEN <<>> ELSE IF TurnOf(d, i) = NoFrame THEN p[i - 1] ELSE Append(p[i - 1], TurnOf(d, i))
  BY <1>1 DEF Keeping
<1>5. 0 \in C
  <2>1. p[0] = <<>> /\ held(0) = 0 /\ 0 \in 0 .. Retain
    BY <1>3, <1>4
  <2>2. Some(0) = <<>>
    OBVIOUS
  <2> HIDE DEF Some, held
  <2> QED BY <2>1, <2>2
<1>6. ASSUME NEW m \in Nat, NEW x, x = FrameAt(d.lengths, first + m + 1) PROVE Append(Some(m), x) = Some(m + 1)
  <2>1. DOMAIN Append(Some(m), x) = 1 .. m + 1 /\ DOMAIN Some(m + 1) = 1 .. m + 1
    OBVIOUS
  <2>2. ASSUME NEW i \in 1 .. m + 1 PROVE Append(Some(m), x)[i] = Some(m + 1)[i]
    <3>1. CASE i = m + 1
      BY <1>3, <1>6, <3>1
    <3>2. CASE i # m + 1
      BY <3>2
    <3> QED BY <3>1, <3>2
  <2>3. Append(Some(m), x) = [i \in 1 .. m + 1 |-> Append(Some(m), x)[i]]
    OBVIOUS
  <2>4. Some(m + 1) = [i \in 1 .. m + 1 |-> Some(m + 1)[i]]
    OBVIOUS
  <2> HIDE DEF Some
  <2> QED BY <2>2, <2>3, <2>4
<1>7. ASSUME NEW i \in 1 .. Retain, i - 1 \in C PROVE i \in C
  <2>1. p[i] = (IF TurnOf(d, i) = NoFrame THEN p[i - 1] ELSE Append(p[i - 1], TurnOf(d, i))) /\ i \in 0 .. Retain
    BY <1>3, <1>4
  <2>2. p[i - 1] = Some(held(i - 1))
    BY <1>7
  <2>3. TurnOf(d, i) = FrameAt(d.lengths, n + i - Retain)
    BY TurnIs DEF n
  <2>4. n + i - Retain \in Int /\ n + i - Retain <= n
    BY <1>3
  <2>5. TurnOf(d, i) = NoFrame <=> n + i - Retain < 1
    BY <1>3, <2>3, <2>4, FrameIs DEF n
  <2>6. CASE n + i - Retain < 1
    <3>1. held(i) = held(i - 1)
      BY <1>3, <2>6
    <3> HIDE DEF Some, held
    <3> QED BY <2>1, <2>2, <2>5, <2>6, <3>1
  <2>7. CASE n + i - Retain >= 1
    <3>1. held(i - 1) \in Nat /\ held(i) = held(i - 1) + 1 /\ first + held(i - 1) + 1 = n + i - Retain
      BY <1>3, <2>7
    <3> HIDE DEF Some, held
    <3>2. Append(Some(held(i - 1)), TurnOf(d, i)) = Some(held(i - 1) + 1)
      BY <1>6, <2>3, <3>1
    <3>3. ~(n + i - Retain < 1)
      BY <1>3, <2>7
    <3>4. p[i] = Append(p[i - 1], TurnOf(d, i))
      BY <2>1, <2>5, <3>3
    <3>5. p[i] = Some(held(i))
      BY <2>2, <3>1, <3>2, <3>4
    <3> QED BY <2>1, <3>5
  <2> QED BY <1>3, <2>6, <2>7
<1>8. Retain \in C
  <2> HIDE DEF C
  <2>1. \A i \in 0 .. Retain : i \in C
    BY <1>3, <1>5, <1>7, Climbs
  <2> QED BY <1>3, <2>1
<1>9. held(Retain) = n - first /\ n - first \in Nat
  BY <1>3
<1>10. Ordered(d) = Some(n - first)
  <2> HIDE DEF Some, held
  <2> QED BY <1>2, <1>8, <1>9
<1>11. Some(n - first) \in Seq(Frames)
  <2>1. \A i \in 1 .. n - first : FrameAt(d.lengths, first + i) \in Frames
    <3>1. ASSUME NEW i \in 1 .. n - first PROVE first + i \in Int /\ first + i <= n
      BY <1>3
    <3> QED BY <1>3, <3>1, FrameIs DEF n
  <2> QED BY <1>9, <2>1
<1>12. FramesOf(d.lengths, n) = Some(n - first)
  BY DEF FramesOf, first
<1> HIDE DEF Some
<1> QED
  BY <1>10, <1>11, <1>12 DEF n

-----------------------------------------------------------------------------
(* The files of the dumps. *)
Requests == {Request(a, t) : a \in Alerts, t \in Times}
Names == {FileName(r, s) : r \in Requests, s \in Nat}
Jobs == [name : Names, frames : Seq(Frames)]
Files == [frames : Seq(Frames), written : BOOLEAN, after : Nat, request : Requests]
DumpsType ==
  [ring : [0 .. Retain - 1 -> Frames], writeIdx : 0 .. Retain - 1, requests : Seq(Requests), seq : Nat,
   jobs : Seq(Jobs), files : Partly(Names, Files), failed : Nat, capturing : BOOLEAN, lengths : Seq(Nat)]

Said(o, ts) == \E i \in DOMAIN o : o[i].ts = ts
FileTrue(d, o, name) ==
  /\ name[2] <= d.seq /\ d.files[name].after <= Len(d.lengths)
  /\ d.files[name].written => d.files[name].frames = FramesOf(d.lengths, d.files[name].after)
  /\ Said(o, d.files[name].request.ts)
JobTrue(d, job) ==
  job.name \in DOMAIN d.files /\ job.frames = FramesOf(d.lengths, d.files[job.name].after)
Filed(d, o) ==
  /\ d \in DumpsType /\ RingTrue(d)
  /\ IsFiniteSet(DOMAIN d.files) /\ \A name \in DOMAIN d.files : FileTrue(d, o, name)
  /\ \A i \in DOMAIN d.jobs : JobTrue(d, d.jobs[i])
Asked(d, o) == \A i \in DOMAIN d.requests : Said(o, d.requests[i].ts)
Told(d) == Cardinality(DOMAIN d.files) + d.failed

LEMMA DumpsAre ==
  ASSUME NEW d \in DumpsType
  PROVE  /\ d.ring \in [0 .. Retain - 1 -> Frames] /\ d.writeIdx \in 0 .. Retain - 1
         /\ d.requests \in Seq(Requests) /\ d.seq \in Nat /\ d.jobs \in Seq(Jobs) /\ d.failed \in Nat
         /\ d.capturing \in BOOLEAN /\ d.lengths \in Seq(Nat)
         /\ d.files \in Partly(Names, Files) /\ \A name \in DOMAIN d.files : d.files[name] \in Files /\ name \in Names
<1>1. d.files \in Partly(Names, Files)
  BY DEF DumpsType
<1> QED BY <1>1 DEF DumpsType, Partly

(* A file is opened for each request or a failure is counted. *)
LEMMA StartIs ==
  ASSUME NEW d, NEW o, Filed(d, o), NEW r \in Requests, Said(o, r.ts), NEW canOpen
  PROVE  LET e == Start(d, r, canOpen)
         IN  /\ Filed(e, o) /\ Told(e) = Told(d) + 1 /\ e.requests = d.requests
<1> DEFINE e == Start(d, r, canOpen)
           s == d.seq + 1
           name == FileName(r, s)
           n == Len(d.lengths)
           file == [frames |-> <<>>, written |-> FALSE, after |-> n, request |-> r]
           job == [name |-> name, frames |-> Ordered(d)]
           files == [x \in DOMAIN d.files \cup {name} |-> IF x = name THEN file ELSE d.files[x]]
<1>1. /\ d \in DumpsType /\ RingTrue(d) /\ IsFiniteSet(DOMAIN d.files) /\ s \in Nat /\ s > d.seq /\ n \in Nat
      /\ Cardinality(DOMAIN d.files) \in Nat /\ d.failed \in Nat /\ d.seq \in Nat
  BY DumpsAre, FS_CardinalityType DEF Filed
<1>2. CASE ~canOpen
  <2>1. e = [d EXCEPT !.seq = s, !.failed = d.failed + 1]
    BY <1>2 DEF Start
  <2> HIDE DEF e, s
  <2>2. /\ e.seq = s /\ e.failed = d.failed + 1 /\ e.files = d.files /\ e.jobs = d.jobs /\ e.lengths = d.lengths
        /\ e.ring = d.ring /\ e.writeIdx = d.writeIdx /\ e.requests = d.requests
    BY <1>1, <2>1 DEF DumpsType
  <2>3. e \in DumpsType
    <3> DEFINE f == d.failed + 1
    <3>1. e = [d EXCEPT !.seq = s, !.failed = f] /\ f \in Nat
      BY <1>1, <2>1
    <3> HIDE DEF f
    <3> QED BY <1>1, <3>1 DEF DumpsType
  <2>4. RingTrue(e)
    BY <1>1, <2>2 DEF RingTrue, NumberAt
  <2>5. ASSUME NEW x \in DOMAIN e.files PROVE FileTrue(e, o, x)
    <3>1. FileTrue(d, o, x) /\ x \in Names
      BY <1>1, <2>2, DumpsAre DEF Filed
    <3>2. x[2] \in Nat
      BY <3>1 DEF Names, FileName
    <3> QED BY <1>1, <2>2, <3>1, <3>2 DEF FileTrue
  <2>6. \A i \in DOMAIN e.jobs : JobTrue(e, e.jobs[i])
    BY <2>2 DEF Filed, JobTrue
  <2>7. Filed(e, o)
    BY <1>1, <2>2, <2>3, <2>4, <2>5, <2>6 DEF Filed
  <2>8. Told(e) = Told(d) + 1
    BY <1>1, <2>2 DEF Told
  <2> QED BY <2>2, <2>7, <2>8 DEF e
<1>3. CASE canOpen
  <2>1. e = [d EXCEPT !.seq = s, !.jobs = Append(d.jobs, job), !.files = files]
    BY <1>3 DEF Start
  <2>2. name[2] = s /\ name \in Names
    BY <1>1 DEF FileName, Names
  <2>3. name \notin DOMAIN d.files
    BY <1>1, <2>2 DEF Filed, FileTrue
  <2>4. Ordered(d) = FramesOf(d.lengths, n) /\ Ordered(d) \in Seq(Frames)
    BY <1>1, OrderedIs
  <2>5. job \in Jobs /\ job.name = name /\ job.frames = FramesOf(d.lengths, n)
    BY <2>2, <2>4 DEF Jobs
  <2>6. file \in Files /\ file.after = n /\ file.written = FALSE /\ file.request = r
    BY <1>1 DEF Files
  <2>7. DOMAIN files = DOMAIN d.files \cup {name} /\ files[name] = file /\ \A x \in DOMAIN d.files : files[x] = d.files[x]
    BY <2>3
  <2>8. files \in Partly(Names, Files)
    <3>1. \A x \in DOMAIN d.files : d.files[x] \in Files /\ x \in Names
      BY <1>1, DumpsAre
    <3>2. DOMAIN files \subseteq Names
      BY <2>2, <2>7, <3>1
    <3>3. files \in [DOMAIN d.files \cup {name} -> Files]
      <4> HIDE DEF file, name
      <4> QED BY <2>6, <3>1
    <3> HIDE DEF files, name
    <3> QED BY <2>7, <3>2, <3>3 DEF Partly
  <2>9. Append(d.jobs, job) \in Seq(Jobs)
    <3> HIDE DEF job
    <3> QED BY <1>1, <2>5, DumpsAre
  <2> HIDE DEF e, s, name, file, job, files
  <2>10. /\ e.seq = s /\ e.failed = d.failed /\ e.files = files /\ e.jobs = Append(d.jobs, job)
         /\ e.lengths = d.lengths /\ e.ring = d.ring /\ e.writeIdx = d.writeIdx /\ e.requests = d.requests
    BY <1>1, <2>1 DEF DumpsType
  <2>11. e \in DumpsType
    BY <1>1, <2>1, <2>8, <2>9 DEF DumpsType
  <2>12. RingTrue(e)
    BY <1>1, <2>10 DEF RingTrue, NumberAt
  <2>13. ASSUME NEW x \in DOMAIN e.files PROVE FileTrue(e, o, x)
    <3>1. CASE x = name
      BY <1>1, <2>2, <2>6, <2>7, <2>10, <3>1 DEF FileTrue, n
    <3>2. CASE x \in DOMAIN d.files
      <4>1. FileTrue(d, o, x) /\ x \in Names /\ e.files[x] = d.files[x]
        BY <1>1, <2>7, <2>10, <3>2, DumpsAre DEF Filed
      <4>2. x[2] \in Nat
        BY <4>1 DEF Names, FileName
      <4> QED BY <1>1, <2>10, <4>1, <4>2 DEF FileTrue
    <3> QED BY <2>7, <2>10, <3>1, <3>2
  <2>14. ASSUME NEW i \in DOMAIN e.jobs PROVE JobTrue(e, e.jobs[i])
    <3>1. d.jobs \in Seq(Jobs)
      BY <1>1, DumpsAre
    <3>2. CASE i = Len(d.jobs) + 1
      <4>1. e.jobs[i] = job
        BY <2>10, <3>1, <3>2
      <4> QED BY <2>5, <2>6, <2>7, <2>10, <4>1 DEF JobTrue, n
    <3>3. CASE i # Len(d.jobs) + 1
      <4>1. i \in DOMAIN d.jobs /\ e.jobs[i] = d.jobs[i]
        BY <2>10, <3>1, <3>3
      <4>2. JobTrue(d, d.jobs[i])
        BY <4>1 DEF Filed
      <4> QED BY <2>7, <2>10, <4>1, <4>2 DEF JobTrue
    <3> QED BY <3>2, <3>3
  <2>15. IsFiniteSet(DOMAIN e.files) /\ Cardinality(DOMAIN e.files) = Cardinality(DOMAIN d.files) + 1
    BY <1>1, <2>3, <2>7, <2>10, FS_AddElement
  <2>16. Filed(e, o)
    BY <2>11, <2>12, <2>13, <2>14, <2>15 DEF Filed
  <2>17. Told(e) = Told(d) + 1
    BY <1>1, <2>10, <2>15 DEF Told
  <2> QED BY <2>10, <2>16, <2>17 DEF e
<1> QED
  BY <1>2, <1>3

-----------------------------------------------------------------------------
Serving(p, d, n, canOpen) ==
  p = [i \in 0 .. n |->
         IF i = 0 THEN [d EXCEPT !.requests = SubSeq(@, n + 1, Len(@))]
         ELSE Start(p[i - 1], d.requests[i], canOpen)]

LEMMA ServedIs ==
  ASSUME NEW d, NEW o, Filed(d, o), Asked(d, o), d.requests # <<>>, NEW canOpen
  PROVE  LET e == Served(d, canOpen)
         IN  Filed(e, o) /\ Asked(e, o) /\ Len(e.requests) + Told(e) = Len(d.requests) + Told(d)
<1> DEFINE n == IF d.capturing THEN Len(d.requests) ELSE 1
           q == d.requests
           rest == SubSeq(q, n + 1, Len(q))
           d0 == [d EXCEPT !.requests = rest]
           S == {x \in DumpsType : Filed(x, o)}
           g == [i \in 1 .. n |-> [x \in S |-> Start(x, q[i], canOpen)]]
           p == CHOOSE x : Serving(x, d, n, canOpen)
<1>1. d \in DumpsType /\ q \in Seq(Requests) /\ q # <<>> /\ Len(q) \in Nat /\ d.failed \in Nat
  BY DumpsAre DEF Filed
<1>2. n \in Nat /\ n >= 1 /\ n <= Len(q)
  BY <1>1
<1>3. Served(d, canOpen) = p[n]
  BY DEF Served, Serving
<1> HIDE DEF n, p
<1>4. rest \in Seq(Requests) /\ Len(rest) = Len(q) - n /\ \A i \in DOMAIN rest : rest[i] = q[n + i] /\ n + i \in DOMAIN q
  BY <1>1, <1>2
<1> HIDE DEF rest
<1>5. /\ d0.requests = rest /\ d0.files = d.files /\ d0.failed = d.failed /\ d0.jobs = d.jobs /\ d0.seq = d.seq
      /\ d0.lengths = d.lengths /\ d0.ring = d.ring /\ d0.writeIdx = d.writeIdx /\ d0 \in DumpsType
  BY <1>1, <1>4 DEF DumpsType
<1> HIDE DEF d0
<1>6. Filed(d0, o) /\ Told(d0) = Told(d)
  <2>1. RingTrue(d0)
    BY <1>5 DEF Filed, RingTrue, NumberAt
  <2> QED BY <1>5, <2>1 DEF Filed, FileTrue, JobTrue, Told
<1>7. \A i \in 1 .. n : q[i] \in Requests /\ Said(o, q[i].ts)
  BY <1>1, <1>2 DEF Asked
<1>8. ASSUME NEW i \in 1 .. n, NEW x \in S
      PROVE  LET e == Start(x, q[i], canOpen)
             IN  e \in S /\ Told(e) = Told(x) + 1 /\ e.requests = x.requests
  <2>1. Filed(x, o) /\ q[i] \in Requests /\ Said(o, q[i].ts)
    BY <1>7
  <2>2. LET e == Start(x, q[i], canOpen)
        IN  Filed(e, o) /\ Told(e) = Told(x) + 1 /\ e.requests = x.requests
    BY <2>1, StartIs
  <2> QED BY <2>2 DEF Filed
<1>9. d0 \in S
  BY <1>5, <1>6
<1> HIDE DEF S, q
<1>10. g \in Turns(n, S)
  BY <1>8 DEF Turns
<1>11. \E x : Serving(x, d, n, canOpen)
  <2>1. PICK f : Loop(f, n, S, d0, g)
    <3> HIDE DEF g
    <3> QED BY <1>2, <1>9, <1>10, LoopExists
  <2>2. ASSUME NEW i \in 0 .. n
        PROVE  f[i] = IF i = 0 THEN d0 ELSE Start(f[i - 1], q[i], canOpen)
    <3>1. CASE i = 0
      BY <2>1, <3>1 DEF Loop
    <3>2. CASE i \in 1 .. n
      <4>1. f[i] = g[i][f[i - 1]] /\ f[i - 1] \in S
        <5> HIDE DEF g
        <5> QED BY <1>2, <2>1, <3>2 DEF Loop
      <4> QED BY <3>2, <4>1
    <3> QED BY <1>2, <3>1, <3>2
  <2>3. f = [i \in 0 .. n |-> f[i]]
    BY <2>1 DEF Loop
  <2>4. Serving(f, d, n, canOpen)
    BY <2>2, <2>3 DEF Serving, d0, rest, q
  <2> QED BY <2>4
<1>12. \A i \in 0 .. n : p[i] = IF i = 0 THEN d0 ELSE Start(p[i - 1], q[i], canOpen)
  <2>1. Serving(p, d, n, canOpen)
    BY <1>11 DEF p
  <2> QED BY <2>1 DEF Serving, d0, rest, q
<1> DEFINE C == {i \in 0 .. n : p[i] \in S /\ Told(p[i]) = Told(d) + i /\ p[i].requests = rest}
<1>13. Told(d) \in Nat
  BY <1>1, FS_CardinalityType DEF Told, Filed
<1>14. 0 \in C
  <2>1. p[0] = d0 /\ 0 \in 0 .. n
    BY <1>2, <1>12
  <2> QED BY <1>5, <1>6, <1>9, <1>13, <2>1
<1>15. ASSUME NEW i \in 1 .. n, i - 1 \in C PROVE i \in C
  <2>1. p[i] = Start(p[i - 1], q[i], canOpen) /\ i \in 0 .. n
    BY <1>2, <1>12
  <2>2. p[i - 1] \in S /\ Told(p[i - 1]) = Told(d) + (i - 1) /\ p[i - 1].requests = rest
    BY <1>15
  <2>3. LET e == Start(p[i - 1], q[i], canOpen)
        IN  e \in S /\ Told(e) = Told(p[i - 1]) + 1 /\ e.requests = p[i - 1].requests
    BY <1>8, <2>2
  <2>4. p[i] \in S /\ Told(p[i]) = Told(d) + i /\ p[i].requests = rest
    BY <1>13, <2>1, <2>2, <2>3
  <2> QED BY <2>1, <2>4
<1>16. n \in C
  <2> HIDE DEF C
  <2>1. \A i \in 0 .. n : i \in C
    BY <1>2, <1>14, <1>15, Climbs
  <2> QED BY <1>2, <2>1
<1> DEFINE e == Served(d, canOpen)
<1>17. e \in S /\ Told(e) = Told(d) + n /\ e.requests = rest
  BY <1>3, <1>16
<1> HIDE DEF e
<1>18. Filed(e, o)
  BY <1>17 DEF S
<1>19. Asked(e, o)
  BY <1>4, <1>17 DEF Asked, q
<1>20. Len(e.requests) + Told(e) = Len(q) + Told(d)
  BY <1>1, <1>2, <1>4, <1>13, <1>17 DEF q
<1> QED
  BY <1>18, <1>19, <1>20 DEF e, q

-----------------------------------------------------------------------------
LEMMA NewDumpsIs == ASSUME NEW o PROVE Filed(NewDumps, o) /\ Asked(NewDumps, o) /\ Told(NewDumps) = 0 /\ Len(NewDumps.requests) = 0
<1> DEFINE d == NewDumps
<1>1. /\ d.ring = [i \in 0 .. Retain - 1 |-> NoFrame] /\ d.writeIdx = 0 /\ d.requests = <<>> /\ d.seq = 0
      /\ d.jobs = <<>> /\ d.files = <<>> /\ d.failed = 0 /\ d.capturing = TRUE /\ d.lengths = <<>>
  BY DEF NewDumps
<1>2. NoFrame \in Frames /\ Retain \in Nat \ {0} /\ 0 \in 0 .. Retain - 1
  BY DumpAssumption DEF NoFrame, Frames
<1>3. <<>> \in Partly(Names, Files)
  <2>1. <<>> \in [{} -> Files]
    OBVIOUS
  <2> QED BY <2>1 DEF Partly
<1>4. d \in DumpsType
  BY <1>2, <1>3 DEF NewDumps, DumpsType
<1> HIDE DEF d
<1>5. RingTrue(d)
  <2>1. ASSUME NEW k \in 0 .. Retain - 1 PROVE d.ring[k] = FrameAt(d.lengths, NumberAt(d, k))
    <3>1. NumberAt(d, k) < 1
      BY <1>1, <1>2 DEF NumberAt
    <3>2. d.ring[k] = NoFrame
      BY <1>1
    <3> QED BY <3>1, <3>2 DEF FrameAt
  <2>2. d.ring \in [0 .. Retain - 1 -> Frames]
    BY <1>1, <1>2
  <2> QED BY <1>1, <1>2, <2>1, <2>2 DEF RingTrue
<1>6. DOMAIN d.files = {} /\ DOMAIN d.jobs = {} /\ DOMAIN d.requests = {}
  BY <1>1
<1>7. IsFiniteSet(DOMAIN d.files) /\ Cardinality(DOMAIN d.files) = 0
  BY <1>6, FS_EmptySet
<1> QED
  BY <1>1, <1>4, <1>5, <1>6, <1>7 DEF Filed, Asked, Told, d

LEMMA CapturedKeeps ==
  ASSUME NEW d, NEW o, Filed(d, o), NEW len \in Nat
  PROVE  LET e == Captured(d, len)
         IN  Filed(e, o) /\ Told(e) = Told(d) /\ e.requests = d.requests
<1> DEFINE e == Captured(d, len)
           n == Len(d.lengths)
           v == (d.writeIdx + 1) % Retain
           lengths == Append(d.lengths, len)
           frame == [n |-> n + 1, len |-> len, caplen |-> IF len < RetainBytes THEN len ELSE RetainBytes]
           ring == [d.ring EXCEPT ![d.writeIdx] = frame]
<1>1. d \in DumpsType /\ RingTrue(d) /\ d.lengths \in Seq(Nat) /\ n \in Nat
  BY DumpsAre DEF Filed
<1>2. e = [d EXCEPT !.ring = ring, !.writeIdx = v, !.lengths = lengths]
  BY DEF Captured
<1>3. frame = FrameAt(lengths, n + 1)
  <2>1. lengths[n + 1] = len /\ ~(n + 1 < 1)
    BY <1>1
  <2> HIDE DEF lengths
  <2> QED BY <2>1 DEF FrameAt, KeptOf
<1> HIDE DEF e, v, lengths, frame
<1>4. /\ e.ring = ring /\ e.writeIdx = v /\ e.lengths = lengths /\ e.files = d.files /\ e.jobs = d.jobs
      /\ e.seq = d.seq /\ e.failed = d.failed /\ e.requests = d.requests
  <2> HIDE DEF ring
  <2> QED BY <1>1, <1>2 DEF DumpsType
<1>5. RingTrue(e)
  <2>1. OneMore(d, len, e)
    BY <1>3, <1>4 DEF OneMore, lengths, v
  <2> QED BY <1>1, <2>1, CapturedIs
<1>6. e \in DumpsType
  <2>1. ring \in [0 .. Retain - 1 -> Frames] /\ v \in 0 .. Retain - 1 /\ lengths \in Seq(Nat)
    BY <1>4, <1>5 DEF RingTrue
  <2> HIDE DEF ring
  <2> QED BY <1>1, <1>2, <2>1 DEF DumpsType
<1>7. ASSUME NEW x \in Nat, x <= n
      PROVE  x <= Len(lengths) /\ FramesOf(lengths, x) = FramesOf(d.lengths, x)
  <2>1. Len(lengths) = n + 1
    BY <1>1 DEF lengths
  <2>2. FramesOf(lengths, x) = FramesOf(d.lengths, x)
    BY <1>1, <1>7, SameFrames DEF lengths
  <2> QED BY <1>1, <1>7, <2>1, <2>2
<1>8. \A name \in DOMAIN d.files : d.files[name].after \in Nat /\ d.files[name].after <= n /\ FileTrue(d, o, name)
  BY <1>1, DumpsAre DEF Filed, FileTrue, Files
<1>9. ASSUME NEW name \in DOMAIN e.files PROVE FileTrue(e, o, name)
  BY <1>4, <1>7, <1>8 DEF FileTrue
<1>10. ASSUME NEW i \in DOMAIN e.jobs PROVE JobTrue(e, e.jobs[i])
  <2>1. JobTrue(d, d.jobs[i])
    BY <1>4 DEF Filed
  <2> QED BY <1>4, <1>7, <1>8, <2>1 DEF JobTrue
<1> QED
  BY <1>4, <1>5, <1>6, <1>9, <1>10 DEF Filed, Told, e

LEMMA SavedKeeps ==
  ASSUME NEW d, NEW o, Filed(d, o), d.jobs # <<>>, NEW disk
  PROVE  LET e == Saved(d, disk)
         IN  Filed(e, o) /\ Told(e) = Told(d) /\ e.requests = d.requests
<1> DEFINE e == Saved(d, disk)
           job == Head(d.jobs)
           old == d.files[job.name]
           file == IF disk THEN [old EXCEPT !.frames = job.frames, !.written = TRUE] ELSE old
           files == [d.files EXCEPT ![job.name] = file]
           jobs == Tail(d.jobs)
<1>1. d \in DumpsType /\ RingTrue(d) /\ d.jobs \in Seq(Jobs) /\ d.jobs # <<>> /\ d.files \in Partly(Names, Files)
  BY DumpsAre DEF Filed
<1>2. e = [d EXCEPT !.jobs = jobs, !.files = files]
  BY DEF Saved
<1>3. job \in Jobs /\ jobs \in Seq(Jobs) /\ \A i \in DOMAIN jobs : i + 1 \in DOMAIN d.jobs /\ jobs[i] = d.jobs[i + 1]
  BY <1>1
<1>4. JobTrue(d, job)
  BY <1>1 DEF Filed
<1> HIDE DEF job, jobs, e
<1>5. old \in Files /\ job.name \in DOMAIN d.files
  BY <1>1, <1>4, DumpsAre DEF JobTrue
<1> HIDE DEF old
<1>6. file \in Files /\ file.after = old.after /\ file.request = old.request
      /\ (file.written => file.frames = job.frames \/ (old.written /\ file.frames = old.frames))
  <2>1. CASE disk
    <3>1. file = [old EXCEPT !.frames = job.frames, !.written = TRUE]
      BY <2>1
    <3>2. job.frames \in Seq(Frames)
      BY <1>3 DEF Jobs
    <3> HIDE DEF file
    <3> QED BY <1>5, <3>1, <3>2 DEF Files
  <2>2. CASE ~disk
    BY <1>5, <2>2
  <2> QED BY <2>1, <2>2
<1> HIDE DEF file
<1>7. files \in Partly(Names, Files) /\ DOMAIN files = DOMAIN d.files /\ files[job.name] = file
      /\ \A x \in DOMAIN d.files : x # job.name => files[x] = d.files[x]
  BY <1>1, <1>5, <1>6 DEF Partly
<1> HIDE DEF files
<1>8. /\ e.jobs = jobs /\ e.files = files /\ e.lengths = d.lengths /\ e.ring = d.ring /\ e.writeIdx = d.writeIdx
      /\ e.seq = d.seq /\ e.failed = d.failed /\ e.requests = d.requests /\ e \in DumpsType
  BY <1>1, <1>2, <1>3, <1>7 DEF DumpsType
<1>9. RingTrue(e)
  BY <1>1, <1>8 DEF RingTrue, NumberAt
<1>10. ASSUME NEW x \in DOMAIN e.files PROVE FileTrue(e, o, x) /\ e.files[x].after = d.files[x].after
  <2>1. FileTrue(d, o, x) /\ x \in DOMAIN d.files
    BY <1>7, <1>8 DEF Filed
  <2>2. CASE x = job.name
    <3>1. e.files[x] = file /\ d.files[x] = old
      BY <1>7, <1>8, <2>2 DEF old
    <3>2. job.frames = FramesOf(d.lengths, old.after)
      BY <1>4 DEF JobTrue, old
    <3> QED BY <1>6, <1>8, <2>1, <3>1, <3>2 DEF FileTrue
  <2>3. CASE x # job.name
    BY <1>7, <1>8, <2>1, <2>3 DEF FileTrue
  <2> QED BY <2>2, <2>3
<1>11. ASSUME NEW i \in DOMAIN e.jobs PROVE JobTrue(e, e.jobs[i])
  <2>1. JobTrue(d, d.jobs[i + 1]) /\ e.jobs[i] = d.jobs[i + 1]
    BY <1>3, <1>8 DEF Filed
  <2> QED BY <1>7, <1>8, <1>10, <2>1 DEF JobTrue
<1>12. IsFiniteSet(DOMAIN e.files) /\ DOMAIN e.files = DOMAIN d.files
  BY <1>7, <1>8 DEF Filed
<1> QED
  BY <1>8, <1>9, <1>10, <1>11, <1>12 DEF Filed, Told, e

(* What is asked of the writer of dumps, and what it records, is of alerts *)
(* that were written.                                                      *)
LEMMA SaidStill ==
  ASSUME NEW d, NEW o, NEW p, Filed(d, o), \A ts : Said(o, ts) => Said(p, ts)
  PROVE  Filed(d, p) /\ (Asked(d, o) => Asked(d, p))
<1>1. \A name \in DOMAIN d.files : FileTrue(d, p, name)
  BY DEF Filed, FileTrue
<1> QED
  BY <1>1 DEF Filed, Asked

LEMMA RequestKeeps ==
  ASSUME NEW d, NEW o, Filed(d, o), Asked(d, o), NEW r \in Requests, Said(o, r.ts)
  PROVE  LET e == [d EXCEPT !.requests = Append(@, r)]
         IN  /\ Filed(e, o) /\ Asked(e, o) /\ Told(e) = Told(d)
             /\ Len(e.requests) = Len(d.requests) + 1
<1> DEFINE q == Append(d.requests, r)
           e == [d EXCEPT !.requests = q]
<1>1. d \in DumpsType /\ RingTrue(d) /\ d.requests \in Seq(Requests)
  BY DumpsAre DEF Filed
<1>2. q \in Seq(Requests) /\ Len(q) = Len(d.requests) + 1
      /\ \A i \in DOMAIN q : q[i] = r \/ (i \in DOMAIN d.requests /\ q[i] = d.requests[i])
  BY <1>1
<1> HIDE DEF q
<1>3. /\ e.jobs = d.jobs /\ e.files = d.files /\ e.lengths = d.lengths /\ e.ring = d.ring /\ e.writeIdx = d.writeIdx
      /\ e.seq = d.seq /\ e.failed = d.failed /\ e.requests = q /\ e \in DumpsType
  BY <1>1, <1>2 DEF DumpsType
<1> HIDE DEF e
<1>4. RingTrue(e)
  BY <1>1, <1>3 DEF RingTrue, NumberAt
<1>5. Filed(e, o)
  BY <1>3, <1>4 DEF Filed, FileTrue, JobTrue
<1>6. Asked(e, o)
  BY <1>2, <1>3 DEF Asked
<1>7. Told(e) = Told(d) /\ Len(e.requests) = Len(d.requests) + 1
  BY <1>2, <1>3 DEF Told
<1> QED
  BY <1>5, <1>6, <1>7 DEF e, q

-----------------------------------------------------------------------------
DumpsInv ==
  setting.dumps =>
    Filed(dumps, out) /\ Asked(dumps, out) /\ emitted = Len(dumps.requests) + Told(dumps)
RecordsInv == SeenInv /\ DumpsInv

LEMMA DumpingStep ==
  ASSUME DumpsInv, NEW d, Dumping(d),
         \/ \E len \in {1, RetainBytes + 1} : d = Captured(dumps, len)
         \/ d = [dumps EXCEPT !.capturing = FALSE]
         \/ \E canOpen \in BOOLEAN : dumps.requests # <<>> /\ d = Served(dumps, canOpen)
         \/ \E disk : dumps.jobs # <<>> /\ d = Saved(dumps, disk)
  PROVE  DumpsInv'
<1>1. setting.dumps /\ dumps' = d /\ setting' = setting /\ out' = out /\ emitted' = emitted
  BY DEF Dumping, vars, stats
<1>2. Filed(dumps, out) /\ Asked(dumps, out) /\ emitted = Len(dumps.requests) + Told(dumps)
  BY <1>1 DEF DumpsInv
<1> SUFFICES Filed(d, out) /\ Asked(d, out) /\ emitted = Len(d.requests) + Told(d)
  BY <1>1 DEF DumpsInv
<1>3. ASSUME NEW len \in {1, RetainBytes + 1}, d = Captured(dumps, len)
      PROVE  Filed(d, out) /\ Asked(d, out) /\ emitted = Len(d.requests) + Told(d)
  <2>1. len \in Nat
    BY DumpAssumption
  <2>2. Filed(d, out) /\ Told(d) = Told(dumps) /\ d.requests = dumps.requests
    BY <1>2, <1>3, <2>1, CapturedKeeps
  <2> QED BY <1>2, <2>2 DEF Asked
<1>4. CASE d = [dumps EXCEPT !.capturing = FALSE]
  <2>1. dumps \in DumpsType /\ RingTrue(dumps)
    BY <1>2 DEF Filed
  <2>2. /\ d.jobs = dumps.jobs /\ d.files = dumps.files /\ d.lengths = dumps.lengths /\ d.ring = dumps.ring
        /\ d.writeIdx = dumps.writeIdx /\ d.seq = dumps.seq /\ d.failed = dumps.failed
        /\ d.requests = dumps.requests /\ d \in DumpsType
    BY <1>4, <2>1 DEF DumpsType
  <2>3. RingTrue(d)
    BY <2>1, <2>2 DEF RingTrue, NumberAt
  <2>4. Filed(d, out)
    BY <1>2, <2>2, <2>3 DEF Filed, FileTrue, JobTrue
  <2> QED BY <1>2, <2>2, <2>4 DEF Asked, Told
<1>5. ASSUME NEW canOpen \in BOOLEAN, dumps.requests # <<>>, d = Served(dumps, canOpen)
      PROVE  Filed(d, out) /\ Asked(d, out) /\ emitted = Len(d.requests) + Told(d)
  BY <1>2, <1>5, ServedIs
<1>6. ASSUME NEW disk, dumps.jobs # <<>>, d = Saved(dumps, disk)
      PROVE  Filed(d, out) /\ Asked(d, out) /\ emitted = Len(d.requests) + Told(d)
  <2>1. Filed(d, out) /\ Told(d) = Told(dumps) /\ d.requests = dumps.requests
    BY <1>2, <1>6, SavedKeeps
  <2> QED BY <1>2, <2>1 DEF Asked
<1> QED
  BY <1>3, <1>4, <1>5, <1>6

LEMMA TellDumps ==
  ASSUME IInv, DumpsInv, NEW a \in Alerts, NEW t \in Times, Tell(a, t)
  PROVE  DumpsInv'
<1> SUFFICES ASSUME setting.dumps
             PROVE  /\ Filed(dumps', out') /\ Asked(dumps', out')
                    /\ emitted' = Len(dumps'.requests) + Told(dumps')
  BY DEF DumpsInv, Tell
<1> DEFINE r == Request(a, t)
           said == [key |-> SuppressionKey(a), ts |-> t]
<1>1. /\ dumps' = [dumps EXCEPT !.requests = Append(@, r)] /\ out' = Append(out, said)
      /\ emitted' = emitted + 1
  BY DEF Tell, Emit
<1>2. out \in Seq([key : Keys, ts : Times]) /\ emitted \in Nat
  BY DEF IInv, WriterInv, WriterSound, TypeOK
<1>3. r \in Requests /\ r.ts = t /\ said.ts = t
  BY DEF Requests, Request
<1>4. Filed(dumps, out) /\ Asked(dumps, out) /\ emitted = Len(dumps.requests) + Told(dumps)
  BY DEF DumpsInv
<1> HIDE DEF r, said
<1>5. (\A ts : Said(out, ts) => Said(out', ts)) /\ Said(out', t)
  <2>1. /\ DOMAIN out' = 1 .. Len(out) + 1 /\ Len(out) \in Nat /\ DOMAIN out = 1 .. Len(out)
        /\ out'[Len(out) + 1] = said /\ \A i \in DOMAIN out : out'[i] = out[i]
    BY <1>1, <1>2
  <2> QED BY <1>3, <2>1 DEF Said
<1>6. Filed(dumps, out') /\ Asked(dumps, out')
  BY <1>4, <1>5, SaidStill
<1>7. /\ Filed(dumps', out') /\ Asked(dumps', out') /\ Told(dumps') = Told(dumps)
      /\ Len(dumps'.requests) = Len(dumps.requests) + 1
  BY <1>1, <1>3, <1>5, <1>6, RequestKeeps
<1>8. Told(dumps) \in Nat /\ Len(dumps.requests) \in Nat
  BY <1>4, DumpsAre, FS_CardinalityType DEF Filed, Told
<1> QED
  BY <1>1, <1>4, <1>7, <1>8

LEMMA SeenUnmoved == SeenInv /\ UNCHANGED <<setting, intel, seeing>> => SeenInv'
<1> SUFFICES ASSUME SeenInv, UNCHANGED <<setting, intel, seeing>> PROVE SeenInv'
  OBVIOUS
<1>1. \A x : ListedSight(x)' <=> ListedSight(x)
  BY DEF ListedSight, LinesOn
<1>2. {s.pair : s \in {x \in sights : ListedSight(x)'}} = {s.pair : s \in {x \in sights : ListedSight(x)}}
  BY <1>1
<1>3. worker' = worker /\ sights' = sights
  BY DEF seeing
<1> QED
  BY <1>2, <1>3 DEF SeenInv, Known, Remembers

LEMMA CrashRecords ==
  ASSUME RecordsInv, NEW a, NEW n, Crash(a, n)
  PROVE  RecordsInv'
<1>1. /\ worker' = NewWorker /\ sights' = {} /\ dumps' = NewDumps /\ out' = <<>> /\ emitted' = 0
      /\ UNCHANGED <<setting, intel>>
  BY DEF Crash
<1>2. SeenInv'
  BY <1>1, NewWorkerRemembers DEF RecordsInv, SeenInv, Known
<1>3. DumpsInv'
  BY <1>1, NewDumpsIs DEF DumpsInv
<1> QED
  BY <1>2, <1>3 DEF RecordsInv

LEMMA NextRecords == IInv /\ RecordsInv /\ [DeliveryNext]_dvars => RecordsInv'
<1> SUFFICES ASSUME IInv, RecordsInv, [DeliveryNext]_dvars PROVE RecordsInv'
  OBVIOUS
<1>0. SeenInv /\ DumpsInv
  BY DEF RecordsInv
<1>1. ASSUME UNCHANGED <<setting, intel, seeing>>, DumpsInv' PROVE RecordsInv'
  BY <1>0, <1>1, SeenUnmoved DEF RecordsInv
<1>2. ASSUME UNCHANGED <<setting, intel, seeing, dumps, out, emitted>> PROVE RecordsInv'
  <2>1. DumpsInv'
    BY <1>0, <1>2 DEF DumpsInv
  <2> QED BY <1>1, <1>2, <2>1
<1>3. ASSUME NEW a \in Alerts, NEW t \in Times, Quiet(a, t) PROVE RecordsInv'
  <2>1. UNCHANGED <<setting, intel, seeing, dumps, out, emitted>>
    BY <1>3 DEF Quiet, Allow, Suppress
  <2> QED BY <1>2, <2>1
<1>4. ASSUME NEW a \in Alerts, NEW t \in Times, Tell(a, t) PROVE RecordsInv'
  <2>1. UNCHANGED <<setting, intel, seeing>>
    BY <1>4 DEF Tell
  <2>2. DumpsInv'
    BY <1>0, <1>4, TellDumps
  <2> QED BY <1>1, <2>1, <2>2
<1>5. ASSUME NEW a \in Alerts, NEW n \in 0 .. KeepLogs + 1, Crash(a, n) PROVE RecordsInv'
  BY <1>5, CrashRecords
<1>6. ASSUME NEW pair \in Pairs, NEW what \in Meets, Sight(pair, what) PROVE RecordsInv'
  <2>1. SeenInv'
    BY <1>0, <1>6, SightStep
  <2>2. UNCHANGED <<setting, dumps, out, emitted>>
    BY <1>6 DEF Sight, Sees, vars, stats
  <2>3. DumpsInv'
    BY <1>0, <2>2 DEF DumpsInv
  <2> QED BY <2>1, <2>3 DEF RecordsInv
<1>7. ASSUME NEW d, Dumping(d), DumpsInv' PROVE RecordsInv'
  <2>1. UNCHANGED <<setting, intel, seeing>>
    BY <1>7 DEF Dumping
  <2> QED BY <1>1, <1>7, <2>1
<1>8. ASSUME NEW len \in {1, RetainBytes + 1}, Frame(len) PROVE RecordsInv'
  <2>1. Dumping(Captured(dumps, len))
    BY <1>8 DEF Frame
  <2> QED BY <1>0, <1>7, <2>1, DumpingStep
<1>9. ASSUME EndCapture PROVE RecordsInv'
  <2>1. Dumping([dumps EXCEPT !.capturing = FALSE])
    BY <1>9 DEF EndCapture
  <2> QED BY <1>0, <1>7, <2>1, DumpingStep
<1>10. ASSUME Serve PROVE RecordsInv'
  <2>1. Dumping(Served(dumps, env.dir = "good")) /\ dumps.requests # <<>> /\ (env.dir = "good") \in BOOLEAN
    BY <1>10 DEF Serve
  <2> QED BY <1>0, <1>7, <2>1, DumpingStep
<1>11. ASSUME Save PROVE RecordsInv'
  <2>1. Dumping(Saved(dumps, env.disk)) /\ dumps.jobs # <<>>
    BY <1>11 DEF Save
  <2> QED BY <1>0, <1>7, <2>1, DumpingStep
<1>12. ASSUME FlushTimeout \/ Stop \/ DiskTurns \/ CollectorTurns \/ LogMoved \/ LogSignal \/ UNCHANGED dvars
              \/ \E d \in {"good", "readonly", "noopen"} : DirTurns(d)
       PROVE  RecordsInv'
  <2>1. UNCHANGED <<setting, intel, seeing, dumps, out, emitted>>
    BY <1>12 DEF FlushTimeout, Stop, Disconnected, DiskTurns, CollectorTurns, LogMoved, LogSignal, DirTurns, dvars, vars, stats
  <2> QED BY <1>2, <2>1
<1> QED
  BY <1>3, <1>4, <1>5, <1>6, <1>8, <1>9, <1>10, <1>11, <1>12, Steps DEF Elsewhere

LEMMA InitRecords == DeliveryInit => RecordsInv
<1> SUFFICES ASSUME DeliveryInit PROVE RecordsInv
  OBVIOUS
<1>1. /\ setting \in Settings /\ intel = Load(setting.feed, Home) /\ worker = NewWorker /\ sights = {}
      /\ dumps = NewDumps /\ emitted = 0
  BY DEF DeliveryInit, Init
<1>2. SeenInv
  BY <1>1, NewWorkerRemembers DEF SeenInv, Known
<1>3. DumpsInv
  BY <1>1, NewDumpsIs DEF DumpsInv
<1> QED
  BY <1>2, <1>3 DEF RecordsInv

LEMMA DumpsAreTrue == ASSUME DumpsInv PROVE DumpsTrue
<1> SUFFICES ASSUME setting.dumps
             PROVE  /\ emitted = Len(dumps.requests) + Cardinality(DOMAIN dumps.files) + dumps.failed
                    /\ \A name \in DOMAIN dumps.files :
                         LET file == dumps.files[name]
                         IN  /\ file.written => file.frames = LastFrames(file.after)
                             /\ \E i \in DOMAIN out : out[i].ts = file.request.ts
  BY DEF DumpsTrue
<1>1. Filed(dumps, out) /\ emitted = Len(dumps.requests) + Told(dumps)
  BY DEF DumpsInv
<1>2. dumps \in DumpsType /\ IsFiniteSet(DOMAIN dumps.files)
  BY <1>1 DEF Filed
<1>3. Cardinality(DOMAIN dumps.files) \in Nat /\ dumps.failed \in Nat /\ Len(dumps.requests) \in Nat
  BY <1>2, DumpsAre, FS_CardinalityType
<1>4. emitted = Len(dumps.requests) + Cardinality(DOMAIN dumps.files) + dumps.failed
  BY <1>1, <1>3 DEF Told
<1>5. ASSUME NEW n \in Nat PROVE LastFrames(n) = FramesOf(dumps.lengths, n)
  <2>1. FirstOf(n) \in Nat
    BY DumpAssumption DEF FirstOf
  <2>2. \A i \in 1 .. n - FirstOf(n) : ~(FirstOf(n) + i < 1)
    BY <2>1
  <2>3. \A i \in 1 .. n - FirstOf(n) :
          FrameAt(dumps.lengths, FirstOf(n) + i) =
            [n |-> FirstOf(n) + i, len |-> dumps.lengths[FirstOf(n) + i], caplen |-> KeptOf(dumps.lengths[FirstOf(n) + i])]
    BY <2>2 DEF FrameAt
  <2>4. LastFrames(n) =
          [i \in 1 .. n - FirstOf(n) |->
             [n |-> FirstOf(n) + i, len |-> dumps.lengths[FirstOf(n) + i], caplen |-> KeptOf(dumps.lengths[FirstOf(n) + i])]]
    BY DEF LastFrames, FirstOf, KeptOf
  <2> QED BY <2>3, <2>4 DEF FramesOf
<1>6. ASSUME NEW name \in DOMAIN dumps.files
      PROVE  LET file == dumps.files[name]
             IN  /\ file.written => file.frames = LastFrames(file.after)
                 /\ \E i \in DOMAIN out : out[i].ts = file.request.ts
  <2>1. FileTrue(dumps, out, name)
    BY <1>1 DEF Filed
  <2>2. dumps.files[name].after \in Nat
    BY <1>2, DumpsAre DEF Files
  <2> QED BY <1>5, <2>1, <2>2 DEF FileTrue, Said
<1> QED
  BY <1>4, <1>6

LEMMA TagsAreTrue == ASSUME IInv, SeenInv PROVE TagsTrue
<1>1. Known
  BY DEF SeenInv
<1>2. CASE ~intel.ok
  BY <1>1, <1>2, OkIs DEF TagsTrue
<1>3. CASE intel.ok
  <2>1. \A a \in Addresses : TagTrue(a)
    BY <1>1, <1>3, TagIs
  <2>2. \A name \in setting.names : NameTrue(name)
    BY <1>1, <1>3, NameIs
  <2>3. SightsSaid
    BY DEF SeenInv, SightsSaid, Remembers, Repeated, UpTo
  <2>4. ASSUME NEW n \in DOMAIN text, text[n].kind = "alert"
        PROVE  text[n].tags.src = Lookup(intel.reputation, text[n].alert.src)
    <3>1. text[n] \in Line
      BY DEF IInv, LinesInv
    <3>2. PICK a \in Alerts : text[n] = [kind |-> "alert", alert |-> a, tags |-> TagsOf(intel, a)]
      BY <2>4, <3>1 DEF Line
    <3> QED BY <3>2 DEF TagsOf
  <2> QED BY <1>3, <2>1, <2>2, <2>3, <2>4 DEF TagsTrue
<1> QED
  BY <1>2, <1>3

(* Whatever the feed lists and whenever the process is killed: an address, *)
(* a name and a client have the tag that a line of the feed gives them,    *)
(* however ranges were sorted and joined; a worker says what is listed of  *)
(* all it meets, again only once the table of pairs was full; and a dump   *)
(* holds the last frames before it was opened, one for each alert written. *)
THEOREM RecordsAlwaysTrue == DeliverySpec => []RecordsTrue
<1>1. IInv /\ RecordsInv => RecordsTrue
  BY DumpsAreTrue, TagsAreTrue DEF RecordsInv, RecordsTrue
<1> QED
  BY <1>1, InitRecords, NextRecords, AlwaysIInv, PTL DEF DeliverySpec

-----------------------------------------------------------------------------
(* The files of a sink: the one that is open is the newest of the log, or  *)
(* has been archived; what is older is in an older generation.             *)

Numbers == -1 .. KeepLogs
Formats == {"text", "json", "eve"}
FileMaps == UNION {[S -> Seq(Nat)] : S \in SUBSET Numbers}
LogFiles == [kind : {"file"}, format : Formats, files : FileMaps, at : Numbers, buf : Seq(Nat), written : Nat]

Lines(s, f) == ToSet(s.files[f])
Sorts(s) ==
  /\ Increasing(s.buf)
  /\ \A f \in DOMAIN s.files : Increasing(s.files[f]) /\ Ahead(Lines(s, f), ToSet(s.buf))
  /\ \A f, g \in DOMAIN s.files : f > g /\ g >= 0 => Ahead(Lines(s, f), Lines(s, g))
  /\ \A f \in DOMAIN s.files :
       f >= 0 /\ -1 \in DOMAIN s.files =>
         Lines(s, -1) \cap Lines(s, f) = {} /\ (f = 0 => Ahead(Lines(s, -1), Lines(s, f)))
FileOK(s) ==
  /\ s \in LogFiles
  /\ s.at \in DOMAIN s.files /\ \A f \in DOMAIN s.files : f >= 0 => s.at <= f
  /\ 0 \in DOMAIN s.files => s.at = 0
  /\ Sorts(s)

LEMMA FilesAre ==
  ASSUME NEW s \in LogFiles
  PROVE  /\ s.files \in [DOMAIN s.files -> Seq(Nat)] /\ DOMAIN s.files \subseteq Numbers
         /\ s.kind = "file" /\ s.at \in Numbers /\ s.buf \in Seq(Nat) /\ s.written \in Nat
         /\ s = [kind |-> "file", format |-> s.format, files |-> s.files, at |-> s.at, buf |-> s.buf,
                 written |-> s.written]
         /\ KeepLogs \in Nat /\ DOMAIN s.files \subseteq Int
<1>1. PICK S \in SUBSET Numbers : s.files \in [S -> Seq(Nat)]
  BY DEF LogFiles, FileMaps
<1>2. s.files \in [DOMAIN s.files -> Seq(Nat)] /\ DOMAIN s.files \subseteq Numbers
  BY <1>1
<1>3. KeepLogs \in Nat
  BY SinksAssumption
<1> QED BY <1>2, <1>3 DEF LogFiles, Numbers

LEMMA MapsAre ==
  ASSUME NEW F, DOMAIN F \subseteq Numbers, F = [f \in DOMAIN F |-> F[f]],
         \A f \in DOMAIN F : F[f] \in Seq(Nat)
  PROVE  F \in FileMaps
<1>1. F \in [DOMAIN F -> Seq(Nat)]
  OBVIOUS
<1> QED BY <1>1 DEF FileMaps

LEMMA InLog == ASSUME NEW s, FileOK(s) PROVE LogInOrder(s)
<1>1. DOMAIN s.files \subseteq Int /\ DOMAIN s.files \subseteq Numbers /\ KeepLogs \in Nat
  BY FilesAre DEF FileOK
<1>2. \A f \in DOMAIN s.files : Increasing(s.files[f]) /\ Ahead(ToSet(s.files[f]), ToSet(s.buf))
  BY DEF FileOK, Sorts, Lines
<1>3. ASSUME NEW f \in DOMAIN s.files \cap 0 .. KeepLogs, NEW g \in DOMAIN s.files \cap 0 .. f - 1
      PROVE  Ahead(ToSet(s.files[f]), ToSet(s.files[g]))
  BY <1>1 DEF FileOK, Sorts, Lines
<1>4. ASSUME Moved \in DOMAIN s.files, NEW x \in ToSet(s.files[Moved]), x \in Generations(s) PROVE FALSE
  <2>1. CASE x \in ToSet(s.buf)
    <3>1. x < x
      BY <1>2, <1>4, <2>1 DEF Ahead
    <3>2. x \in Nat
      <4>1. s.buf \in Seq(Nat)
        BY FilesAre DEF FileOK
      <4> QED BY <2>1, <4>1 DEF ToSet
    <3> QED BY <3>1, <3>2
  <2>2. CASE x \notin ToSet(s.buf)
    <3>1. PICK f \in DOMAIN s.files \cap 0 .. KeepLogs : x \in ToSet(s.files[f])
      <4> DEFINE All == {ToSet(s.files[f]) : f \in DOMAIN s.files \cap 0 .. KeepLogs}
      <4>1. Generations(s) = (UNION All) \cup ToSet(s.buf)
        BY Zenon DEF Generations
      <4> HIDE DEF All
      <4>2. PICK L \in All : x \in L
        BY <1>4, <2>2, <4>1
      <4> QED BY <4>2, Zenon DEF All
    <3>2. f >= 0
      BY <1>1, <3>1
    <3> QED BY <1>4, <3>1, <3>2 DEF FileOK, Sorts, Lines, Moved
  <2> QED BY <2>1, <2>2
<1> QED BY <1>2, <1>3, <1>4 DEF LogInOrder, FileOK, Sorts

(* Sequences of lines. *)
LEMMA JoinIs ==
  ASSUME NEW p \in Seq(Nat), NEW q \in Seq(Nat)
  PROVE  /\ p \o q \in Seq(Nat) /\ ToSet(p \o q) = ToSet(p) \cup ToSet(q)
         /\ Increasing(p) /\ Increasing(q) /\ Ahead(ToSet(p), ToSet(q)) => Increasing(p \o q)
<1> DEFINE r == p \o q
<1>1. /\ r \in Seq(Nat) /\ Len(r) = Len(p) + Len(q) /\ Len(p) \in Nat /\ Len(q) \in Nat
      /\ \A i \in 1 .. Len(r) : r[i] = IF i <= Len(p) THEN p[i] ELSE q[i - Len(p)]
      /\ DOMAIN r = 1 .. Len(r) /\ DOMAIN p = 1 .. Len(p) /\ DOMAIN q = 1 .. Len(q)
  OBVIOUS
<1> HIDE DEF r
<1>d. ASSUME NEW i \in DOMAIN r
      PROVE  i \in Nat /\ i >= 1 /\ i <= Len(p) + Len(q)
  BY <1>1
<1>a. ASSUME NEW i \in DOMAIN r, i <= Len(p)
      PROVE  i \in DOMAIN p /\ r[i] = p[i]
  <2>1. i \in 1 .. Len(r) /\ i \in 1 .. Len(p)
    BY <1>1, <1>a, <1>d
  <2>2. r[i] = IF i <= Len(p) THEN p[i] ELSE q[i - Len(p)]
    BY <1>1, <2>1
  <2> QED BY <1>1, <1>a, <2>1, <2>2
<1>b. ASSUME NEW i \in DOMAIN r, i > Len(p)
      PROVE  i - Len(p) \in DOMAIN q /\ r[i] = q[i - Len(p)]
  <2>1. i \in 1 .. Len(r) /\ i - Len(p) \in 1 .. Len(q) /\ ~(i <= Len(p))
    BY <1>1, <1>b, <1>d
  <2>2. r[i] = IF i <= Len(p) THEN p[i] ELSE q[i - Len(p)]
    BY <1>1, <2>1
  <2> QED BY <1>1, <2>1, <2>2
<1>n. Len(p) \in Nat /\ Len(q) \in Nat
  BY <1>1
<1>2. ToSet(r) = ToSet(p) \cup ToSet(q)
  <2>1. ASSUME NEW i \in DOMAIN r PROVE r[i] \in ToSet(p) \cup ToSet(q)
    <3>1. CASE i <= Len(p)
      BY <1>a, <3>1 DEF ToSet
    <3>2. CASE i > Len(p)
      <4>1. i - Len(p) \in DOMAIN q /\ r[i] = q[i - Len(p)]
        BY <1>b, <3>2
      <4> QED BY <4>1 DEF ToSet
    <3> QED BY <1>d, <1>n, <3>1, <3>2
  <2>2. ASSUME NEW i \in DOMAIN p PROVE p[i] \in ToSet(r)
    <3>1. i \in DOMAIN r /\ r[i] = p[i]
      BY <1>1
    <3> QED BY <3>1 DEF ToSet
  <2>3. ASSUME NEW i \in DOMAIN q PROVE q[i] \in ToSet(r)
    <3>1. i \in Nat /\ i >= 1 /\ i + Len(p) \in DOMAIN r
      BY <1>1
    <3>2. i + Len(p) > Len(p) /\ i + Len(p) - Len(p) = i
      BY <1>n, <3>1
    <3>3. r[i + Len(p)] = q[i + Len(p) - Len(p)]
      BY <1>b, <3>1, <3>2
    <3> QED BY <3>1, <3>2, <3>3 DEF ToSet
  <2> QED BY <2>1, <2>2, <2>3 DEF ToSet
<1>3. ASSUME Increasing(p), Increasing(q), Ahead(ToSet(p), ToSet(q)), NEW i \in DOMAIN r, NEW j \in DOMAIN r, i < j
      PROVE  r[i] < r[j]
  <2>0. i \in Nat /\ j \in Nat
    BY <1>d
  <2>1. CASE j <= Len(p)
    <3>1. i <= Len(p)
      BY <1>3, <1>n, <2>0, <2>1
    <3>2. i \in DOMAIN p /\ r[i] = p[i] /\ j \in DOMAIN p /\ r[j] = p[j]
      BY <1>a, <2>1, <3>1
    <3> QED BY <1>3, <3>2 DEF Increasing
  <2>2. CASE i > Len(p)
    <3>1. j > Len(p) /\ i - Len(p) < j - Len(p)
      BY <1>3, <1>n, <2>0, <2>2
    <3>2. /\ i - Len(p) \in DOMAIN q /\ r[i] = q[i - Len(p)]
          /\ j - Len(p) \in DOMAIN q /\ r[j] = q[j - Len(p)]
      BY <1>b, <2>2, <3>1
    <3> QED BY <1>3, <3>1, <3>2 DEF Increasing
  <2>3. CASE i <= Len(p) /\ j > Len(p)
    <3>1. i \in DOMAIN p /\ r[i] = p[i]
      BY <1>a, <2>3
    <3>2. j - Len(p) \in DOMAIN q /\ r[j] = q[j - Len(p)]
      BY <1>b, <2>3
    <3>3. p[i] \in ToSet(p) /\ q[j - Len(p)] \in ToSet(q)
      BY <3>1, <3>2 DEF ToSet
    <3> QED BY <1>3, <3>1, <3>2, <3>3 DEF Ahead
  <2> QED BY <1>n, <2>0, <2>1, <2>2, <2>3
<1>4. r \in Seq(Nat)
  BY <1>1
<1>5. Increasing(p) /\ Increasing(q) /\ Ahead(ToSet(p), ToSet(q)) => Increasing(r)
  BY <1>3 DEF Increasing
<1> QED BY <1>2, <1>4, <1>5 DEF r

LEMMA OneMoreIs ==
  ASSUME NEW p \in Seq(Nat), NEW n \in Nat
  PROVE  /\ Append(p, n) \in Seq(Nat) /\ ToSet(Append(p, n)) = ToSet(p) \cup {n}
         /\ Increasing(p) /\ (\A x \in ToSet(p) : x < n) => Increasing(Append(p, n))
<1> DEFINE r == Append(p, n)
<1>1. /\ r \in Seq(Nat) /\ Len(p) \in Nat /\ DOMAIN p = 1 .. Len(p) /\ DOMAIN r = 1 .. Len(p) + 1
      /\ r[Len(p) + 1] = n /\ \A i \in DOMAIN p : r[i] = p[i] /\ i \in DOMAIN r
  OBVIOUS
<1> HIDE DEF r
<1>2. \A i \in DOMAIN r : i \in DOMAIN p \/ i = Len(p) + 1
  BY <1>1
<1>3. Len(p) + 1 \in DOMAIN r
  BY <1>1
<1>4. ToSet(r) = ToSet(p) \cup {n}
  BY <1>1, <1>2, <1>3 DEF ToSet
<1>5. ASSUME Increasing(p), \A x \in ToSet(p) : x < n, NEW i \in DOMAIN r, NEW j \in DOMAIN r, i < j
      PROVE  r[i] < r[j]
  <2>1. CASE j \in DOMAIN p
    <3>1. i \in DOMAIN p
      BY <1>1, <1>5, <2>1
    <3> QED BY <1>1, <1>5, <2>1, <3>1 DEF Increasing
  <2>2. CASE j = Len(p) + 1
    <3>1. i \in DOMAIN p
      BY <1>1, <1>5, <2>2
    <3>2. p[i] \in ToSet(p)
      BY <3>1 DEF ToSet
    <3> QED BY <1>1, <1>5, <2>2, <3>1, <3>2
  <2> QED BY <1>2, <2>1, <2>2
<1> QED BY <1>1, <1>4, <1>5 DEF r, Increasing

LEMMA NoLines == Increasing(<<>>) /\ ToSet(<<>>) = {} /\ <<>> \in Seq(Nat)
BY DEF Increasing, ToSet

-----------------------------------------------------------------------------
(* Where a line is: in a generation up to the c-th; and in the buffer, or  *)
(* in a file that only those before the k-th are newer than.               *)
Within(s, x, c) == \E f \in DOMAIN s.files : f <= c /\ x \in Lines(s, f)
Newer(s, x, k) ==
  \/ x \in ToSet(s.buf)
  \/ \E f \in DOMAIN s.files : x \in Lines(s, f) /\ \A g \in DOMAIN s.files : g >= 0 /\ g < f => g < k

AtMost(s, n) == \A x \in Holds(s) : x <= n

(* From s to t no more than j generations were pushed, and b files begun. *)
Ages(s, t, j) ==
  /\ \A x : Within(s, x, -1) => Within(t, x, -1)
  /\ \A x : \A c \in Nat : c + j <= KeepLogs /\ Within(s, x, c) => Within(t, x, c + j)
Pushes(s, t, j, b) ==
  /\ Ages(s, t, j)
  /\ \A x : \A k \in Nat : k + b <= KeepLogs /\ Newer(s, x, k) => Newer(t, x, k + b)

(* Nothing was lost but what is older than all there is left. *)
Behind(s, t, n) ==
  /\ \A x : Within(s, x, -1) => Within(t, x, -1)
  /\ \A x : Newer(s, x, 0) => Newer(t, x, 0)
  /\ \A x \in OnDisk(s) : x \in OnDisk(t) \/ \A m \in Generations(t) : x < m
  /\ \A m \in Generations(t) : m \in Generations(s) \/ m > n

(* One turn of a sink, in a directory as dir says, with lines n + 1 .. m. *)
Turn(s, t, n, m, dir, j, b) ==
  /\ FileOK(t) /\ AtMost(t, m) /\ t.format = s.format
  /\ \A x \in ToSet(t.buf) : x \in ToSet(s.buf) \/ x > n
  /\ dir = "good" => Pushes(s, t, j, b)
  /\ dir = "noopen" => Behind(s, t, n)

LEMMA HeldIs ==
  ASSUME NEW s, FileOK(s)
  PROVE  /\ Holds(s) = OnDisk(s) \cup ToSet(s.buf)
         /\ \A x : x \in OnDisk(s) <=> \E f \in DOMAIN s.files : x \in Lines(s, f)
         /\ \A x : x \in Generations(s) <=>
              x \in ToSet(s.buf) \/ \E f \in DOMAIN s.files : f >= 0 /\ x \in Lines(s, f)
         /\ \A x \in Holds(s) : x \in Nat
<1>0. s.kind = "file" /\ DOMAIN s.files \subseteq Numbers /\ KeepLogs \in Nat
      /\ s.files \in [DOMAIN s.files -> Seq(Nat)] /\ s.buf \in Seq(Nat)
  BY FilesAre DEF FileOK
<1>1. Holds(s) = OnDisk(s) \cup ToSet(s.buf)
  BY <1>0 DEF Holds
<1>2. \A x : x \in OnDisk(s) <=> \E f \in DOMAIN s.files : x \in Lines(s, f)
  BY Zenon DEF OnDisk, Lines
<1>3. ASSUME NEW x
      PROVE  x \in Generations(s) <=>
               x \in ToSet(s.buf) \/ \E f \in DOMAIN s.files : f >= 0 /\ x \in Lines(s, f)
  <2>1. \A f \in DOMAIN s.files : f \in 0 .. KeepLogs <=> f >= 0
    BY <1>0 DEF Numbers
  <2>2. x \in Generations(s) <=>
          x \in ToSet(s.buf) \/ \E f \in DOMAIN s.files \cap 0 .. KeepLogs : x \in Lines(s, f)
    BY Zenon DEF Generations, Lines
  <2> QED BY <2>1, <2>2
<1>4. \A q \in Seq(Nat) : \A x \in ToSet(q) : x \in Nat
  BY DEF ToSet
<1>5. \A x \in Holds(s) : x \in Nat
  BY <1>0, <1>1, <1>2, <1>4 DEF Lines
<1> QED BY <1>1, <1>2, <1>3, <1>5

LEMMA TurnsCompose ==
  ASSUME NEW s, FileOK(s), NEW t, NEW u, NEW n \in Nat, NEW m \in Nat, NEW p \in Nat, n <= m, NEW dir,
         AtMost(s, n), NEW i \in Nat, NEW b \in Nat, NEW j \in Nat, NEW d \in Nat,
         Turn(s, t, n, m, dir, i, b), Turn(t, u, m, p, dir, j, d)
  PROVE  Turn(s, u, n, p, dir, i + j, b + d)
<1>1. \A x \in ToSet(t.buf) : x \in Nat
  <2>1. FileOK(t)
    BY DEF Turn
  <2> QED BY <2>1, HeldIs
<1>2. \A x \in ToSet(u.buf) : x \in Nat /\ (x \in ToSet(s.buf) \/ x > n)
  <2>1. FileOK(u) /\ \A x \in ToSet(u.buf) : x \in ToSet(t.buf) \/ x > m
    BY DEF Turn
  <2>2. \A x \in ToSet(u.buf) : x \in Nat
    BY <2>1, HeldIs
  <2>3. \A x \in ToSet(t.buf) : x \in ToSet(s.buf) \/ x > n
    BY DEF Turn
  <2> QED BY <2>1, <2>2, <2>3
<1>3. ASSUME dir = "good" PROVE Pushes(s, u, i + j, b + d)
  <2>1. Pushes(s, t, i, b) /\ Pushes(t, u, j, d) /\ KeepLogs \in Nat
    BY <1>3, SinksAssumption DEF Turn
  <2>2. ASSUME NEW x, NEW c \in Nat, c + (i + j) <= KeepLogs, Within(s, x, c) PROVE Within(u, x, c + (i + j))
    <3>1. c + i \in Nat /\ c + i <= KeepLogs /\ (c + i) + j <= KeepLogs /\ (c + i) + j = c + (i + j)
      BY <2>1, <2>2
    <3>2. Within(t, x, c + i)
      BY <2>1, <2>2, <3>1 DEF Pushes, Ages
    <3>3. Within(u, x, (c + i) + j)
      BY <2>1, <3>1, <3>2 DEF Pushes, Ages
    <3> QED BY <3>1, <3>3
  <2>3. ASSUME NEW x, NEW k \in Nat, k + (b + d) <= KeepLogs, Newer(s, x, k) PROVE Newer(u, x, k + (b + d))
    <3>1. k + b \in Nat /\ k + b <= KeepLogs /\ (k + b) + d <= KeepLogs /\ (k + b) + d = k + (b + d)
      BY <2>1, <2>3
    <3>2. Newer(t, x, k + b)
      BY <2>1, <2>3, <3>1 DEF Pushes, Ages
    <3>3. Newer(u, x, (k + b) + d)
      BY <2>1, <3>1, <3>2 DEF Pushes, Ages
    <3> QED BY <3>1, <3>3
  <2>4. \A x : Within(s, x, -1) => Within(u, x, -1)
    BY <2>1 DEF Pushes, Ages
  <2> QED BY <2>2, <2>3, <2>4 DEF Pushes, Ages
<1>4. ASSUME dir = "noopen" PROVE Behind(s, u, n)
  <2>1. Behind(s, t, n) /\ Behind(t, u, m) /\ FileOK(t) /\ FileOK(u)
    BY <1>4 DEF Turn
  <2>2. /\ \A x \in OnDisk(s) : x \in Nat /\ x <= n
        /\ \A x \in Generations(u) \cup Generations(t) : x \in Nat
    <3>1. \A x \in Generations(u) \cup Generations(t) : x \in Holds(u) \cup Holds(t)
      BY <2>1, HeldIs
    <3>2. \A x \in Holds(u) \cup Holds(t) : x \in Nat
      BY <2>1, HeldIs
    <3>3. \A x \in OnDisk(s) : x \in Holds(s) /\ x \in Nat
      BY HeldIs
    <3> QED BY <3>1, <3>2, <3>3 DEF AtMost
  <2>3. ASSUME NEW x \in OnDisk(s) PROVE x \in OnDisk(u) \/ \A k \in Generations(u) : x < k
    <3>1. CASE x \in OnDisk(t)
      BY <2>1, <3>1 DEF Behind
    <3>2. CASE \A k \in Generations(t) : x < k
      <4>1. ASSUME NEW k \in Generations(u) PROVE x < k
        <5>1. k \in Generations(t) \/ k > m
          BY <2>1 DEF Behind
        <5> QED BY <2>2, <3>2, <5>1
      <4> QED BY <4>1
    <3> QED BY <2>1, <3>1, <3>2 DEF Behind
  <2>4. ASSUME NEW k \in Generations(u) PROVE k \in Generations(s) \/ k > n
    <3>1. k \in Generations(t) \/ k > m
      BY <2>1 DEF Behind
    <3>2. k \in Generations(t) => k \in Generations(s) \/ k > n
      BY <2>1 DEF Behind
    <3> QED BY <2>2, <3>1, <3>2
  <2>5. (\A x : Within(s, x, -1) => Within(u, x, -1)) /\ (\A x : Newer(s, x, 0) => Newer(u, x, 0))
    BY <2>1 DEF Behind
  <2> QED BY <2>3, <2>4, <2>5 DEF Behind
<1> QED BY <1>2, <1>3, <1>4 DEF Turn

LEMMA StandsStill ==
  ASSUME NEW s, FileOK(s), NEW n \in Nat, AtMost(s, n), NEW dir
  PROVE  Turn(s, s, n, n, dir, 0, 0)
<1>1. KeepLogs \in Nat
  BY SinksAssumption
<1>2. Pushes(s, s, 0, 0)
  BY <1>1 DEF Pushes, Ages
<1>3. Behind(s, s, n)
  BY DEF Behind
<1> QED BY <1>2, <1>3 DEF Turn

LEMMA NoMore ==
  ASSUME NEW s, FileOK(s), NEW t, NEW n \in Nat, NEW m \in Nat, NEW dir, NEW j \in Nat, NEW b \in Nat,
         Turn(s, t, n, m, dir, j, b), NEW p \in Nat, m <= p, NEW i \in Nat, j <= i, NEW d \in Nat, b <= d
  PROVE  Turn(s, t, n, p, dir, i, d)
<1>1. FileOK(t) /\ DOMAIN t.files \subseteq Int /\ KeepLogs \in Nat
  BY FilesAre DEF Turn, FileOK
<1>2. AtMost(t, p)
  BY <1>1, HeldIs DEF Turn, AtMost
<1>3. ASSUME dir = "good" PROVE Pushes(s, t, i, d)
  <2>1. Pushes(s, t, j, b)
    BY <1>3 DEF Turn
  <2>2. ASSUME NEW x, NEW c \in Nat, c + i <= KeepLogs, Within(s, x, c) PROVE Within(t, x, c + i)
    <3>1. c + j <= KeepLogs /\ c + j <= c + i /\ c + j \in Int /\ c + i \in Int
      BY <1>1, <2>2
    <3>2. Within(t, x, c + j)
      BY <2>1, <2>2, <3>1 DEF Pushes, Ages
    <3> QED BY <1>1, <3>1, <3>2 DEF Within
  <2>3. ASSUME NEW x, NEW k \in Nat, k + d <= KeepLogs, Newer(s, x, k) PROVE Newer(t, x, k + d)
    <3>1. k + b <= KeepLogs /\ k + b <= k + d /\ k + b \in Int /\ k + d \in Int
      BY <1>1, <2>3
    <3>2. Newer(t, x, k + b)
      BY <2>1, <2>3, <3>1 DEF Pushes, Ages
    <3> QED BY <1>1, <3>1, <3>2 DEF Newer
  <2> QED BY <2>1, <2>2, <2>3 DEF Pushes, Ages
<1> QED BY <1>1, <1>2, <1>3 DEF Turn

LEMMA WithFileIs ==
  ASSUME NEW F, NEW k, NEW v
  PROVE  /\ DOMAIN WithFile(F, k, v) = DOMAIN F \cup {k} /\ WithFile(F, k, v)[k] = v
         /\ \A f \in DOMAIN F : f # k => WithFile(F, k, v)[f] = F[f]
         /\ WithFile(F, k, v) = [f \in DOMAIN WithFile(F, k, v) |-> WithFile(F, k, v)[f]]
BY DEF WithFile

(* Sets of lines decide; a line that stays where it was is where it was.   *)
LEMMA SameFilesOK ==
  ASSUME NEW s, FileOK(s), NEW t \in LogFiles, DOMAIN t.files = DOMAIN s.files, t.at = s.at, Sorts(t)
  PROVE  FileOK(t)
BY DEF FileOK

LEMMA FlushedIs ==
  ASSUME NEW s, FileOK(s), NEW n \in Nat, AtMost(s, n), NEW e, NEW dir
  PROVE  LET t == Flushed(s, e)
         IN  /\ Turn(s, t, n, n, dir, 0, 0) /\ t.at = s.at /\ DOMAIN t.files = DOMAIN s.files
             /\ t.written = s.written /\ t.buf = IF e.disk THEN <<>> ELSE s.buf
<1>1. CASE ~e.disk
  BY <1>1, StandsStill DEF Flushed
<1>2. CASE e.disk
  <2> DEFINE t == Flushed(s, e)
             G == WithFile(s.files, s.at, s.files[s.at] \o s.buf)
  <2>1. /\ s.files \in [DOMAIN s.files -> Seq(Nat)] /\ DOMAIN s.files \subseteq Numbers
        /\ s.kind = "file" /\ s.at \in Numbers /\ s.buf \in Seq(Nat) /\ s.written \in Nat /\ s.at # Nowhere
        /\ DOMAIN s.files \subseteq Int /\ s.at \in DOMAIN s.files /\ s \in LogFiles
    BY FilesAre, SinksAssumption DEF FileOK, Numbers, Nowhere
  <2>2. t = [s EXCEPT !.buf = <<>>, !.files = G]
    BY <1>2, <2>1 DEF Flushed
  <2> HIDE DEF t
  <2>3. /\ DOMAIN G = DOMAIN s.files /\ G[s.at] = s.files[s.at] \o s.buf
        /\ \A f \in DOMAIN s.files : f # s.at => G[f] = s.files[f]
        /\ G = [f \in DOMAIN G |-> G[f]]
    BY <2>1 DEF WithFile
  <2> HIDE DEF G
  <2>4. /\ s.files[s.at] \o s.buf \in Seq(Nat) /\ Increasing(s.files[s.at] \o s.buf)
        /\ ToSet(s.files[s.at] \o s.buf) = Lines(s, s.at) \cup ToSet(s.buf)
    <3>1. s.files[s.at] \in Seq(Nat) /\ s.buf \in Seq(Nat) /\ Increasing(s.files[s.at]) /\ Increasing(s.buf)
          /\ Ahead(ToSet(s.files[s.at]), ToSet(s.buf))
      BY <2>1 DEF FileOK, Sorts, Lines
    <3> QED BY <3>1, JoinIs DEF Lines
  <2>5. G \in FileMaps
    <3>1. \A f \in DOMAIN G : G[f] \in Seq(Nat)
      BY <2>1, <2>3, <2>4
    <3> QED BY <2>1, <2>3, <3>1, MapsAre
  <2>6. /\ t \in LogFiles /\ t.files = G /\ t.buf = <<>> /\ t.at = s.at /\ t.written = s.written /\ t.format = s.format
        /\ DOMAIN t.files = DOMAIN s.files
    BY <2>1, <2>2, <2>3, <2>5, NoLines DEF LogFiles
  <2>7. /\ Lines(t, s.at) = Lines(s, s.at) \cup ToSet(s.buf)
        /\ \A f \in DOMAIN s.files : f # s.at => Lines(t, f) = Lines(s, f)
    BY <2>3, <2>4, <2>6 DEF Lines
  <2>8. Sorts(t)
    <3>1. \A f \in DOMAIN t.files : Increasing(t.files[f]) /\ Ahead(Lines(t, f), ToSet(t.buf))
      BY <2>3, <2>4, <2>6, NoLines DEF FileOK, Sorts, Ahead
    <3>2. ASSUME NEW f \in DOMAIN t.files, NEW g \in DOMAIN t.files, f > g, g >= 0
          PROVE  Ahead(Lines(t, f), Lines(t, g))
      <4>1. Ahead(Lines(s, f), Lines(s, g)) /\ Ahead(Lines(s, f), ToSet(s.buf)) /\ s.at <= g /\ f # s.at
        BY <2>1, <2>6, <3>2 DEF FileOK, Sorts
      <4>2. Lines(t, f) = Lines(s, f) /\ (Lines(t, g) = Lines(s, g) \/ Lines(t, g) = Lines(s, g) \cup ToSet(s.buf))
        BY <2>6, <2>7, <3>2, <4>1
      <4> QED BY <4>1, <4>2 DEF Ahead
    <3>3. ASSUME NEW f \in DOMAIN t.files, f >= 0, -1 \in DOMAIN t.files
          PROVE  Lines(t, -1) \cap Lines(t, f) = {} /\ (f = 0 => Ahead(Lines(t, -1), Lines(t, f)))
      <4>1. /\ Lines(s, -1) \cap Lines(s, f) = {} /\ (f = 0 => Ahead(Lines(s, -1), Lines(s, f)))
            /\ Ahead(Lines(s, -1), ToSet(s.buf)) /\ Ahead(Lines(s, f), ToSet(s.buf))
            /\ (f = 0 => s.at = 0)
        BY <2>6, <3>3 DEF FileOK, Sorts
      <4>2. CASE s.at = -1
        <5>1. Lines(t, f) = Lines(s, f) /\ Lines(t, -1) = Lines(s, -1) \cup ToSet(s.buf) /\ f # 0
          BY <2>6, <2>7, <3>3, <4>1, <4>2
        <5>2. ASSUME NEW x \in Lines(s, f), x \in ToSet(s.buf) PROVE FALSE
          <6>1. x < x /\ x \in Nat
            <7>1. x \in Holds(s)
              BY <5>2, HeldIs
            <7> QED BY <4>1, <5>2, <7>1, HeldIs DEF Ahead
          <6> QED BY <6>1
        <5> QED BY <4>1, <5>1, <5>2
      <4>3. CASE s.at # -1
        <5>1. Lines(t, -1) = Lines(s, -1) /\ (Lines(t, f) = Lines(s, f) \/ Lines(t, f) = Lines(s, f) \cup ToSet(s.buf))
          BY <2>6, <2>7, <3>3, <4>3
        <5>2. ASSUME NEW x \in Lines(s, -1), x \in ToSet(s.buf) PROVE FALSE
          <6>1. x < x /\ x \in Nat
            <7>1. x \in Holds(s)
              BY <5>2, HeldIs
            <7> QED BY <4>1, <5>2, <7>1, HeldIs DEF Ahead
          <6> QED BY <6>1
        <5> QED BY <4>1, <5>1, <5>2 DEF Ahead
      <4> QED BY <4>2, <4>3
    <3> QED BY <2>6, <3>1, <3>2, <3>3, NoLines DEF Sorts
  <2>9. FileOK(t)
    BY <2>6, <2>8, SameFilesOK
  <2>10. /\ \A x : x \in ToSet(s.buf) => x \in Lines(t, s.at)
         /\ \A x : \A f \in DOMAIN s.files : x \in Lines(s, f) => x \in Lines(t, f)
         /\ \A x : \A f \in DOMAIN s.files : x \in Lines(t, f) => x \in Lines(s, f) \/ (f = s.at /\ x \in ToSet(s.buf))
    <3>1. ASSUME NEW f \in DOMAIN s.files, NEW x
          PROVE  /\ x \in Lines(s, f) => x \in Lines(t, f)
                 /\ x \in Lines(t, f) => x \in Lines(s, f) \/ (f = s.at /\ x \in ToSet(s.buf))
      <4>1. CASE f = s.at
        <5>1. Lines(t, f) = Lines(s, f) \cup ToSet(s.buf)
          BY <2>7, <4>1
        <5> QED BY <4>1, <5>1
      <4>2. CASE f # s.at
        <5>1. Lines(t, f) = Lines(s, f)
          BY <2>7, <4>2
        <5> QED BY <5>1
      <4> QED BY <4>1, <4>2
    <3> QED BY <2>7, <3>1
  <2>11. \A x : \A c : Within(s, x, c) => Within(t, x, c)
    BY <2>6, <2>10 DEF Within
  <2>12. ASSUME NEW x, NEW k \in Nat, Newer(s, x, k) PROVE Newer(t, x, k)
    <3>1. CASE x \in ToSet(s.buf)
      <4>1. s.at \in DOMAIN t.files /\ x \in Lines(t, s.at)
        BY <2>1, <2>6, <2>10, <3>1
      <4>2. \A g \in DOMAIN t.files : g >= 0 => ~(g < s.at)
        BY <2>1, <2>6 DEF FileOK
      <4> QED BY <4>1, <4>2 DEF Newer
    <3>2. CASE x \notin ToSet(s.buf)
      BY <2>6, <2>10, <2>12, <3>2 DEF Newer
    <3> QED BY <3>1, <3>2
  <2>13. \A x : x \in Holds(s) <=> x \in Holds(t)
    BY <2>1, <2>6, <2>9, <2>10, HeldIs, NoLines
  <2>14. Pushes(s, t, 0, 0)
    <3>1. KeepLogs \in Nat
      BY SinksAssumption
    <3>2. \A c \in Nat : c + 0 = c
      OBVIOUS
    <3> QED BY <2>11, <2>12, <3>1, <3>2 DEF Pushes, Ages
  <2>15. Behind(s, t, n)
    <3>1. \A x \in OnDisk(s) : x \in OnDisk(t)
      BY <2>6, <2>9, <2>10, HeldIs
    <3>2. \A x \in Generations(t) : x \in Generations(s)
      BY <2>6, <2>9, <2>10, HeldIs, NoLines
    <3> QED BY <2>11, <2>12, <3>1, <3>2 DEF Behind
  <2>16. AtMost(t, n)
    BY <2>13 DEF AtMost
  <2>17. Turn(s, t, n, n, dir, 0, 0)
    BY <2>6, <2>9, <2>14, <2>15, <2>16, NoLines DEF Turn
  <2> QED BY <1>2, <2>6, <2>17 DEF t
<1> QED BY <1>1, <1>2

(* A line is put in the buffer. *)
LEMMA BufferedIs ==
  ASSUME NEW s, FileOK(s), NEW n \in Nat, AtMost(s, n), NEW e, NEW dir
  PROVE  LET t == Buffered(s, n + 1, e)
         IN  /\ Turn(s, t, n, n + 1, dir, 0, 0) /\ t.at = s.at /\ DOMAIN t.files = DOMAIN s.files
             /\ t.written = s.written + 1 /\ n + 1 \in ToSet(t.buf) /\ t.buf # <<>>
<1> DEFINE r == IF Len(s.buf) < BufLines THEN s ELSE Flushed(s, e)
           t == Buffered(s, n + 1, e)
<1>1. /\ Turn(s, r, n, n, dir, 0, 0) /\ r.at = s.at /\ DOMAIN r.files = DOMAIN s.files
      /\ r.written = s.written
  BY StandsStill, FlushedIs
<1>2. t = [r EXCEPT !.buf = Append(r.buf, n + 1), !.written = r.written + 1]
  BY DEF Buffered
<1> HIDE DEF r, t
<1>3. FileOK(r) /\ AtMost(r, n) /\ r \in LogFiles /\ r.buf \in Seq(Nat) /\ r.written \in Nat /\ n + 1 \in Nat
  BY <1>1, FilesAre DEF Turn, FileOK
<1>4. \A x \in Holds(r) : x \in Nat /\ x < n + 1
  BY <1>3, HeldIs DEF AtMost
<1>5. \A x \in ToSet(r.buf) : x < n + 1
  BY <1>3, <1>4, HeldIs
<1>6. /\ Append(r.buf, n + 1) \in Seq(Nat) /\ Increasing(Append(r.buf, n + 1))
      /\ ToSet(Append(r.buf, n + 1)) = ToSet(r.buf) \cup {n + 1}
  <2>1. Increasing(r.buf)
    BY <1>3 DEF FileOK, Sorts
  <2> QED BY <1>3, <1>5, <2>1, OneMoreIs
<1>7. /\ t \in LogFiles /\ t.files = r.files /\ t.at = r.at /\ t.written = r.written + 1 /\ t.format = r.format
      /\ t.buf = Append(r.buf, n + 1) /\ ToSet(t.buf) = ToSet(r.buf) \cup {n + 1}
  <2> DEFINE q == Append(r.buf, n + 1)
             w == r.written + 1
  <2>1. t = [r EXCEPT !.buf = q, !.written = w] /\ q \in Seq(Nat) /\ ToSet(q) = ToSet(r.buf) \cup {n + 1}
    BY <1>2, <1>6
  <2>2. w \in Nat
    BY <1>3
  <2> HIDE DEF q, w
  <2>3. /\ t \in LogFiles /\ t.files = r.files /\ t.at = r.at /\ t.written = w /\ t.format = r.format
        /\ t.buf = q
    BY <1>3, <2>1, <2>2 DEF LogFiles
  <2> QED BY <2>1, <2>3 DEF q, w
<1>8. \A f : Lines(t, f) = Lines(r, f)
  BY <1>7 DEF Lines
<1>9. FileOK(t)
  <2>1. \A f \in DOMAIN t.files : Increasing(t.files[f]) /\ Ahead(Lines(t, f), ToSet(t.buf))
    <3>1. ASSUME NEW f \in DOMAIN r.files, NEW x \in Lines(r, f), NEW y \in ToSet(r.buf) \cup {n + 1} PROVE x < y
      <4>1. x \in Holds(r) /\ (y \in ToSet(r.buf) => x < y)
        BY <1>3, <3>1, HeldIs DEF FileOK, Sorts, Ahead
      <4> QED BY <1>4, <4>1
    <3>2. \A f \in DOMAIN r.files : Increasing(r.files[f])
      BY <1>3 DEF FileOK, Sorts
    <3> QED BY <1>7, <1>8, <3>1, <3>2 DEF Ahead
  <2>2. Sorts(t)
    BY <1>3, <1>6, <1>7, <1>8, <2>1 DEF FileOK, Sorts
  <2> QED BY <1>3, <1>7, <2>2, SameFilesOK
<1>10. AtMost(t, n + 1)
  <2>1. ASSUME NEW x \in Holds(t) PROVE x \in Holds(r) \/ x = n + 1
    <3>1. x \in OnDisk(t) \/ x \in ToSet(t.buf)
      BY <1>9, HeldIs
    <3>2. CASE x \in OnDisk(t)
      <4>1. PICK f \in DOMAIN t.files : x \in Lines(t, f)
        BY <1>9, <3>2, HeldIs
      <4>2. f \in DOMAIN r.files /\ x \in Lines(r, f)
        BY <1>7, <1>8, <4>1
      <4>3. x \in OnDisk(r)
        BY <1>3, <4>2, HeldIs
      <4> QED BY <1>3, <4>3, HeldIs
    <3>3. CASE x \in ToSet(t.buf)
      <4>1. x \in ToSet(r.buf) \/ x = n + 1
        BY <1>7, <3>3
      <4> QED BY <1>3, <4>1, HeldIs
    <3> QED BY <3>1, <3>2, <3>3
  <2> QED BY <1>3, <1>4, <2>1 DEF AtMost
<1>11. Pushes(r, t, 0, 0)
  <2>1. KeepLogs \in Nat /\ \A c \in Nat : c + 0 = c
    BY SinksAssumption
  <2>2. (\A x : \A c : Within(r, x, c) => Within(t, x, c)) /\ (\A x : \A k : Newer(r, x, k) => Newer(t, x, k))
    BY <1>7, <1>8 DEF Within, Newer
  <2> QED BY <2>1, <2>2 DEF Pushes, Ages
<1>12. Behind(r, t, n)
  <2>1. (\A x : \A c : Within(r, x, c) => Within(t, x, c)) /\ (\A x : \A k : Newer(r, x, k) => Newer(t, x, k))
    BY <1>7, <1>8 DEF Within, Newer
  <2>2. \A x \in OnDisk(r) : x \in OnDisk(t)
    BY <1>3, <1>7, <1>8, <1>9, HeldIs
  <2>3. \A x \in Generations(t) : x \in Generations(r) \/ x = n + 1
    BY <1>3, <1>7, <1>8, <1>9, HeldIs
  <2> QED BY <2>1, <2>2, <2>3 DEF Behind
<1>13. Turn(r, t, n, n + 1, dir, 0, 0)
  BY <1>7, <1>9, <1>10, <1>11, <1>12 DEF Turn
<1>14. Turn(s, t, n, n + 1, dir, 0, 0)
  <2>1. n <= n /\ 0 \in Nat /\ n \in Nat /\ n + 1 \in Nat /\ 0 + 0 = 0
    OBVIOUS
  <2>2. Turn(s, r, n, n, dir, 0, 0) /\ Turn(r, t, n, n + 1, dir, 0, 0)
    BY <1>1, <1>13
  <2>3. Turn(s, t, n, n + 1, dir, 0 + 0, 0 + 0)
    BY Zenon, <2>1, <2>2, <1>3, TurnsCompose
  <2> QED BY Zenon, <2>1, <2>3
<1>15. t.buf # <<>>
  BY <1>7, NoLines
<1> QED BY <1>1, <1>7, <1>14, <1>15 DEF t

-----------------------------------------------------------------------------
(* The generations from the m-th on pushed by one, the oldest but if there *)
(* is no older.                                                            *)
PushedFiles(F, m) ==
  [g \in {f \in DOMAIN F : f < m \/ f = KeepLogs} \cup {f + 1 : f \in DOMAIN F \cap m .. KeepLogs - 1} |->
     IF g - 1 \in DOMAIN F \cap m .. KeepLogs - 1 THEN F[g - 1] ELSE F[g]]
PushedAt(a, m) == IF a < m \/ a = KeepLogs THEN a ELSE a + 1
Pushed(s, m) == [s EXCEPT !.files = PushedFiles(s.files, m), !.at = PushedAt(s.at, m)]

(* Where the file that is now the g-th was. *)
Source(s, m, g) == IF g - 1 \in DOMAIN s.files \cap m .. KeepLogs - 1 THEN g - 1 ELSE g

LEMMA PushedIs ==
  ASSUME NEW s \in LogFiles, NEW m \in 0 .. KeepLogs
  PROVE  LET t == Pushed(s, m)
         IN  /\ t.files = PushedFiles(s.files, m) /\ t.at = PushedAt(s.at, m)
             /\ t.kind = s.kind /\ t.format = s.format /\ t.buf = s.buf /\ t.written = s.written
             /\ t = [kind |-> "file", format |-> s.format, files |-> PushedFiles(s.files, m),
                     at |-> PushedAt(s.at, m), buf |-> s.buf, written |-> s.written]
             /\ DOMAIN t.files \subseteq Numbers /\ t.files \in FileMaps
             /\ \A g : g \in DOMAIN t.files <=>
                  \/ g \in DOMAIN s.files /\ (g < m \/ g = KeepLogs)
                  \/ g \in Int /\ g - 1 \in DOMAIN s.files /\ m <= g - 1 /\ g <= KeepLogs
             /\ \A g \in DOMAIN t.files :
                  Source(s, m, g) \in DOMAIN s.files /\ t.files[g] = s.files[Source(s, m, g)]
<1>1. /\ s.files \in [DOMAIN s.files -> Seq(Nat)] /\ DOMAIN s.files \subseteq Numbers
      /\ s = [kind |-> "file", format |-> s.format, files |-> s.files, at |-> s.at, buf |-> s.buf,
              written |-> s.written]
      /\ KeepLogs \in Nat /\ DOMAIN s.files \subseteq Int /\ m \in Nat /\ m <= KeepLogs
  BY FilesAre
<1> DEFINE F == s.files
           G == PushedFiles(F, m)
           t == Pushed(s, m)
<1>2. /\ DOMAIN G = {f \in DOMAIN F : f < m \/ f = KeepLogs} \cup {f + 1 : f \in DOMAIN F \cap m .. KeepLogs - 1}
      /\ \A g \in DOMAIN G : G[g] = IF g - 1 \in DOMAIN F \cap m .. KeepLogs - 1 THEN F[g - 1] ELSE F[g]
      /\ G = [g \in DOMAIN G |-> G[g]]
  BY DEF PushedFiles
<1>3. t = [s EXCEPT !.files = G, !.at = PushedAt(s.at, m)]
  BY DEF Pushed
<1> HIDE DEF G, t
<1>4. \A g : g \in DOMAIN G <=>
        \/ g \in DOMAIN F /\ (g < m \/ g = KeepLogs)
        \/ g \in Int /\ g - 1 \in DOMAIN F /\ m <= g - 1 /\ g <= KeepLogs
  <2>1. ASSUME NEW g \in Int, g - 1 \in DOMAIN F, m <= g - 1, g <= KeepLogs PROVE g \in DOMAIN G
    <3>1. g - 1 \in DOMAIN F \cap m .. KeepLogs - 1 /\ g = (g - 1) + 1
      BY <1>1, <2>1
    <3>2. g \in {f + 1 : f \in DOMAIN F \cap m .. KeepLogs - 1}
      BY <3>1
    <3> QED BY <1>2, <3>2
  <2>2. ASSUME NEW g \in {f + 1 : f \in DOMAIN F \cap m .. KeepLogs - 1}
        PROVE  g \in Int /\ g - 1 \in DOMAIN F /\ m <= g - 1 /\ g <= KeepLogs
    <3>1. PICK f \in DOMAIN F \cap m .. KeepLogs - 1 : g = f + 1
      BY <2>2
    <3>2. f \in Int /\ m <= f /\ f <= KeepLogs - 1 /\ g - 1 = f
      BY <1>1, <3>1
    <3> QED BY <1>1, <3>1, <3>2
  <2> QED BY <1>2, <2>1, <2>2
<1>5. ASSUME NEW g \in DOMAIN G
      PROVE  /\ Source(s, m, g) \in DOMAIN F /\ G[g] = F[Source(s, m, g)] /\ g \in Numbers
  <2>1. g \in Int /\ g \in Numbers
    BY <1>1, <1>4, <1>5 DEF Numbers
  <2>2. CASE g - 1 \in DOMAIN F \cap m .. KeepLogs - 1
    BY <1>2, <2>2, <2>1 DEF Source
  <2>3. CASE g - 1 \notin DOMAIN F \cap m .. KeepLogs - 1
    <3>1. g \in DOMAIN F
      BY <1>1, <1>4, <2>1, <2>3
    <3> QED BY <1>2, <2>1, <2>3, <3>1 DEF Source
  <2> QED BY <2>2, <2>3
<1>6. G \in FileMaps
  <2>1. \A g \in DOMAIN G : G[g] \in Seq(Nat)
    BY <1>1, <1>5
  <2> QED BY <1>2, <1>5, <2>1, MapsAre
<1>7. t = [kind |-> "file", format |-> s.format, files |-> G, at |-> PushedAt(s.at, m), buf |-> s.buf,
           written |-> s.written]
  <2> DEFINE a == PushedAt(s.at, m)
  <2>1. t = [s EXCEPT !.files = G, !.at = a]
    BY <1>3
  <2> HIDE DEF a
  <2>2. t = [kind |-> "file", format |-> s.format, files |-> G, at |-> a, buf |-> s.buf, written |-> s.written]
    BY <1>1, <2>1 DEF LogFiles
  <2> QED BY <2>2 DEF a
<1>8. s.kind = "file"
  BY <1>1
<1> QED
  BY <1>4, <1>5, <1>6, <1>7, <1>8 DEF t, G

LEMMA SourcesAre ==
  ASSUME NEW s \in LogFiles, NEW m \in 0 .. KeepLogs
  PROVE  LET t == Pushed(s, m)
         IN  \A g \in DOMAIN t.files :
               /\ g \in Int /\ Source(s, m, g) \in Int
               /\ Source(s, m, g) = g \/ (Source(s, m, g) = g - 1 /\ m <= g - 1)
               /\ \A h \in DOMAIN t.files : g < h => Source(s, m, g) < Source(s, m, h)
<1> DEFINE t == Pushed(s, m)
<1>1. /\ DOMAIN s.files \subseteq Int /\ KeepLogs \in Nat /\ m \in Nat /\ m <= KeepLogs
      /\ \A f \in DOMAIN s.files : f <= KeepLogs
  BY FilesAre DEF Numbers
<1>2. \A g : g \in DOMAIN t.files <=>
        \/ g \in DOMAIN s.files /\ (g < m \/ g = KeepLogs)
        \/ g \in Int /\ g - 1 \in DOMAIN s.files /\ m <= g - 1 /\ g <= KeepLogs
  BY PushedIs
<1> HIDE DEF t
<1>3. ASSUME NEW g \in DOMAIN t.files
      PROVE  /\ g \in Int /\ Source(s, m, g) \in Int
             /\ Source(s, m, g) = g \/ (Source(s, m, g) = g - 1 /\ m <= g - 1)
             /\ Source(s, m, g) = g <=> ~(g - 1 \in DOMAIN s.files /\ m <= g - 1 /\ g <= KeepLogs)
  <2>1. g \in Int /\ g - 1 # g
    BY <1>1, <1>2, <1>3
  <2> QED BY <1>1, <2>1 DEF Source
<1>4. ASSUME NEW g \in DOMAIN t.files, NEW h \in DOMAIN t.files, g < h PROVE Source(s, m, g) < Source(s, m, h)
  <2>1. g \in Int /\ h \in Int
    BY <1>3
  <2>2. CASE Source(s, m, h) = h - 1 /\ g = h - 1
    <3>1. g \in DOMAIN s.files /\ m <= g /\ g < KeepLogs
      BY <1>1, <1>3, <2>1, <2>2
    <3>2. Source(s, m, g) = g - 1
      BY <1>1, <1>2, <1>3, <2>1, <3>1
    <3> QED BY <2>1, <2>2, <3>2
  <2>3. CASE ~(Source(s, m, h) = h - 1 /\ g = h - 1)
    <3>1. Source(s, m, g) <= g
      BY <1>3, <2>1
    <3>2. Source(s, m, h) > g
      BY <1>3, <1>4, <2>1, <2>3
    <3> QED BY <1>3, <2>1, <3>1, <3>2
  <2> QED BY <2>2, <2>3
<1> QED BY <1>3, <1>4 DEF t

(* Pushing keeps the files in order. *)
LEMMA PushedOK ==
  ASSUME NEW s, FileOK(s), NEW m \in 0 .. KeepLogs
  PROVE  LET t == Pushed(s, m)
         IN  /\ FileOK(t) /\ t.format = s.format /\ t.buf = s.buf /\ t.written = s.written
             /\ \A g \in DOMAIN t.files : Lines(t, g) = Lines(s, Source(s, m, g))
<1> DEFINE t == Pushed(s, m)
<1>1. /\ s \in LogFiles /\ DOMAIN s.files \subseteq Int /\ KeepLogs \in Nat /\ m \in Nat /\ m <= KeepLogs
      /\ s.at \in DOMAIN s.files /\ s.at \in Int /\ s.at \in Numbers
      /\ \A f \in DOMAIN s.files : f <= KeepLogs /\ f >= -1
      /\ \A f \in DOMAIN s.files : f >= 0 => s.at <= f
      /\ 0 \in DOMAIN s.files => s.at = 0
      /\ s.buf \in Seq(Nat) /\ s.written \in Nat /\ s.format \in Formats
  BY FilesAre DEF FileOK, Numbers, LogFiles
<1>2. /\ t.format = s.format /\ t.buf = s.buf /\ t.written = s.written /\ t.at = PushedAt(s.at, m)
      /\ DOMAIN t.files \subseteq Numbers /\ t.files \in FileMaps
      /\ t = [kind |-> "file", format |-> s.format, files |-> PushedFiles(s.files, m),
              at |-> PushedAt(s.at, m), buf |-> s.buf, written |-> s.written]
      /\ t.files = PushedFiles(s.files, m)
  BY <1>1, PushedIs
<1>3. \A g : g \in DOMAIN t.files <=>
        \/ g \in DOMAIN s.files /\ (g < m \/ g = KeepLogs)
        \/ g \in Int /\ g - 1 \in DOMAIN s.files /\ m <= g - 1 /\ g <= KeepLogs
  BY <1>1, PushedIs
<1>4. \A g \in DOMAIN t.files : Source(s, m, g) \in DOMAIN s.files /\ t.files[g] = s.files[Source(s, m, g)]
  BY <1>1, PushedIs
<1>5. \A g \in DOMAIN t.files :
        /\ g \in Int /\ Source(s, m, g) \in Int
        /\ Source(s, m, g) = g \/ (Source(s, m, g) = g - 1 /\ m <= g - 1)
        /\ \A h \in DOMAIN t.files : g < h => Source(s, m, g) < Source(s, m, h)
  BY <1>1, SourcesAre
<1> HIDE DEF t
<1>6. \A g \in DOMAIN t.files : Lines(t, g) = Lines(s, Source(s, m, g))
  BY <1>4 DEF Lines
<1>7. t.at \in DOMAIN t.files /\ t.at \in Numbers
  <2>1. CASE s.at < m \/ s.at = KeepLogs
    BY <1>1, <1>2, <1>3, <2>1 DEF PushedAt
  <2>2. CASE ~(s.at < m \/ s.at = KeepLogs)
    <3>1. t.at = s.at + 1 /\ s.at >= m /\ s.at < KeepLogs
      BY <1>1, <1>2, <2>2 DEF PushedAt
    <3>2. t.at \in Int /\ t.at - 1 = s.at /\ t.at <= KeepLogs
      BY <1>1, <3>1
    <3> QED BY <1>1, <1>2, <1>3, <3>1, <3>2
  <2> QED BY <2>1, <2>2
<1>8. t \in LogFiles
  <2> DEFINE a == t.at
  <2>1. t = [kind |-> "file", format |-> s.format, files |-> t.files, at |-> a, buf |-> s.buf, written |-> s.written]
    BY <1>2
  <2>2. a \in Numbers
    BY <1>7
  <2> HIDE DEF a
  <2> QED BY <1>1, <1>2, <2>1, <2>2 DEF LogFiles
<1>9. ASSUME NEW g \in DOMAIN t.files, g >= 0 PROVE t.at <= g
  <2>1. g \in Int /\ t.at \in Int
    BY <1>5, <1>7
  <2>2. CASE g \in DOMAIN s.files /\ (g < m \/ g = KeepLogs)
    <3>1. s.at <= g
      BY <1>1, <1>9, <2>2
    <3> QED BY <1>1, <1>2, <2>1, <2>2, <3>1 DEF PushedAt
  <2>3. CASE g - 1 \in DOMAIN s.files /\ m <= g - 1 /\ g <= KeepLogs
    <3>1. s.at <= g - 1
      BY <1>1, <2>1, <2>3
    <3> QED BY <1>1, <1>2, <2>1, <2>3, <3>1 DEF PushedAt
  <2> QED BY <1>3, <2>2, <2>3
<1>10. ASSUME 0 \in DOMAIN t.files PROVE t.at = 0
  <2>1. 0 \in DOMAIN s.files /\ (0 < m \/ 0 = KeepLogs)
    BY <1>1, <1>3, <1>10
  <2> QED BY <1>1, <1>2, <2>1 DEF PushedAt
<1>11. Sorts(t)
  <2>1. ASSUME NEW g \in DOMAIN t.files PROVE Increasing(t.files[g]) /\ Ahead(Lines(t, g), ToSet(t.buf))
    BY <1>2, <1>4, <1>6 DEF FileOK, Sorts
  <2>2. ASSUME NEW f \in DOMAIN t.files, NEW g \in DOMAIN t.files, f > g, g >= 0
        PROVE  Ahead(Lines(t, f), Lines(t, g))
    <3> DEFINE from(h) == Source(s, m, h)
    <3>0. /\ f \in Int /\ g \in Int /\ m \in Nat /\ from(f) \in Int /\ from(g) \in Int
          /\ from(g) = g \/ (from(g) = g - 1 /\ m <= g - 1)
      BY <1>1, <1>5
    <3>a. from(g) < from(f)
      BY <1>5, <2>2, <3>0
    <3> HIDE DEF from
    <3>b. from(f) > from(g) /\ from(g) >= 0
      BY <2>2, <3>0, <3>a
    <3>1. Source(s, m, f) > Source(s, m, g) /\ Source(s, m, g) >= 0
      BY <3>b DEF from
    <3>2. Ahead(Lines(s, Source(s, m, f)), Lines(s, Source(s, m, g)))
      BY <1>4, <3>1 DEF FileOK, Sorts
    <3> QED BY <1>6, <3>2
  <2>3. ASSUME NEW f \in DOMAIN t.files, f >= 0, -1 \in DOMAIN t.files
        PROVE  Lines(t, -1) \cap Lines(t, f) = {} /\ (f = 0 => Ahead(Lines(t, -1), Lines(t, f)))
    <3>1. Source(s, m, -1) = -1 /\ Source(s, m, f) >= 0 /\ (f = 0 => Source(s, m, f) = 0)
      BY <1>1, <1>5, <2>3
    <3>2. -1 \in DOMAIN s.files /\ Source(s, m, f) \in DOMAIN s.files
      BY <1>4, <2>3, <3>1
    <3>3. Lines(t, -1) = Lines(s, -1) /\ Lines(t, f) = Lines(s, Source(s, m, f))
      BY <1>6, <2>3, <3>1
    <3> QED BY <3>1, <3>2, <3>3 DEF FileOK, Sorts
  <2>4. Increasing(t.buf)
    BY <1>2 DEF FileOK, Sorts
  <2> QED BY <2>1, <2>2, <2>3, <2>4 DEF Sorts
<1>12. FileOK(t)
  BY <1>7, <1>8, <1>9, <1>10, <1>11 DEF FileOK
<1> QED BY <1>2, <1>6, <1>12 DEF t

LEMMA RenamedIs ==
  ASSUME NEW s, FileOK(s), NEW m \in 1 .. KeepLogs
  PROVE  Renamed(Pushed(s, m), m) = Pushed(s, m - 1)
<1> DEFINE t == Pushed(s, m)
           u == Pushed(s, m - 1)
           F == s.files
<1>1. /\ s \in LogFiles /\ DOMAIN F \subseteq Int /\ KeepLogs \in Nat /\ m \in Nat /\ m <= KeepLogs /\ m >= 1
      /\ m \in 0 .. KeepLogs /\ m - 1 \in 0 .. KeepLogs /\ m - 1 \in Int
      /\ s.at \in DOMAIN F /\ s.at \in Int /\ s.at <= KeepLogs /\ \A f \in DOMAIN F : f >= 0 => s.at <= f
  BY FilesAre DEF FileOK, Numbers
<1>2. /\ t.files = PushedFiles(F, m) /\ t.at = PushedAt(s.at, m)
      /\ t = [kind |-> "file", format |-> s.format, files |-> t.files, at |-> t.at, buf |-> s.buf,
              written |-> s.written]
      /\ u = [kind |-> "file", format |-> s.format, files |-> u.files, at |-> u.at, buf |-> s.buf,
              written |-> s.written]
      /\ u.files = PushedFiles(F, m - 1) /\ u.at = PushedAt(s.at, m - 1)
  BY <1>1, PushedIs
<1>3. \A k \in {m, m - 1} :
        /\ \A g : g \in DOMAIN PushedFiles(F, k) <=>
             \/ g \in DOMAIN F /\ (g < k \/ g = KeepLogs)
             \/ g \in Int /\ g - 1 \in DOMAIN F /\ k <= g - 1 /\ g <= KeepLogs
        /\ \A g \in DOMAIN PushedFiles(F, k) : PushedFiles(F, k)[g] = F[Source(s, k, g)]
        /\ PushedFiles(F, k) = [g \in DOMAIN PushedFiles(F, k) |-> PushedFiles(F, k)[g]]
  <2>1. \A k \in {m, m - 1} : k \in 0 .. KeepLogs
    BY <1>1
  <2>2. \A k : PushedFiles(F, k) = [g \in DOMAIN PushedFiles(F, k) |-> PushedFiles(F, k)[g]]
    BY DEF PushedFiles
  <2> QED BY <1>1, <2>1, <2>2, PushedIs
<1> DEFINE A == PushedFiles(F, m)
           B == PushedFiles(F, m - 1)
<1>4. /\ \A g : g \in DOMAIN A <=>
           \/ g \in DOMAIN F /\ (g < m \/ g = KeepLogs)
           \/ g \in Int /\ g - 1 \in DOMAIN F /\ m <= g - 1 /\ g <= KeepLogs
      /\ \A g : g \in DOMAIN B <=>
           \/ g \in DOMAIN F /\ (g < m - 1 \/ g = KeepLogs)
           \/ g \in Int /\ g - 1 \in DOMAIN F /\ m - 1 <= g - 1 /\ g <= KeepLogs
      /\ \A g \in DOMAIN A : g \in Int /\ A[g] = F[Source(s, m, g)]
      /\ \A g \in DOMAIN B : g \in Int /\ B[g] = F[Source(s, m - 1, g)]
      /\ A = [g \in DOMAIN A |-> A[g]] /\ B = [g \in DOMAIN B |-> B[g]]
  BY <1>1, <1>3
<1> HIDE DEF t, u, A, B
<1>5. \A g \in Int : \A k \in {m, m - 1} :
        Source(s, k, g) = IF g - 1 \in DOMAIN F /\ k <= g - 1 /\ g <= KeepLogs THEN g - 1 ELSE g
  BY <1>1 DEF Source
<1>6. m - 1 \in DOMAIN A <=> m - 1 \in DOMAIN F
  BY <1>1, <1>4
<1>7. CASE m - 1 \notin DOMAIN F
  <2>1. DOMAIN A = DOMAIN B
    <3>1. ASSUME NEW g \in DOMAIN A PROVE g \in DOMAIN B
      BY <1>1, <1>4, <1>7, <3>1
    <3>2. ASSUME NEW g \in DOMAIN B PROVE g \in DOMAIN A
      BY <1>1, <1>4, <1>7, <3>2
    <3> QED BY <3>1, <3>2
  <2>2. ASSUME NEW g \in DOMAIN A PROVE A[g] = B[g]
    <3>1. Source(s, m, g) = Source(s, m - 1, g)
      BY <1>1, <1>4, <1>5, <1>7, <2>2
    <3> QED BY <1>4, <2>1, <3>1
  <2>3. A = B
    BY <1>4, <2>1, <2>2
  <2>4. PushedAt(s.at, m) = PushedAt(s.at, m - 1)
    BY <1>1, <1>7 DEF PushedAt
  <2>5. t = u
    BY <1>2, <2>3, <2>4 DEF A, B
  <2>6. Renamed(t, m) = t
    BY <1>2, <1>6, <1>7 DEF Renamed, A
  <2> QED BY <2>5, <2>6 DEF t, u
<1>8. CASE m - 1 \in DOMAIN F
  <2> DEFINE C == [j \in (DOMAIN A \ {m - 1}) \cup {m} |-> A[IF j = m THEN m - 1 ELSE j]]
             a == IF t.at = m - 1 THEN m ELSE IF t.at = m THEN Nowhere ELSE t.at
  <2>1. Renamed(t, m) = [t EXCEPT !.files = C, !.at = a]
    BY <1>2, <1>6, <1>8 DEF Renamed, A
  <2>2. DOMAIN C = DOMAIN B
    <3>1. ASSUME NEW g \in DOMAIN A, g # m - 1 PROVE g \in DOMAIN B
      BY <1>1, <1>4, <1>8, <3>1
    <3>2. m \in DOMAIN B
      BY <1>1, <1>4, <1>8
    <3>3. ASSUME NEW g \in DOMAIN B PROVE g = m \/ (g \in DOMAIN A /\ g # m - 1)
      BY <1>1, <1>4, <1>8, <3>3
    <3> QED BY <3>1, <3>2, <3>3
  <2>3. ASSUME NEW g \in DOMAIN C PROVE C[g] = B[g]
    <3>1. CASE g = m
      <4>1. C[g] = A[m - 1] /\ m - 1 \in DOMAIN A /\ m \in DOMAIN B
        BY <1>6, <1>8, <2>2, <3>1
      <4>2. Source(s, m, m - 1) = m - 1 /\ Source(s, m - 1, m) = m - 1
        BY <1>1, <1>5, <1>8
      <4> QED BY <1>4, <3>1, <4>1, <4>2
    <3>2. CASE g # m
      <4>1. C[g] = A[g] /\ g \in DOMAIN A /\ g \in DOMAIN B /\ g # m - 1
        BY <2>2, <3>2
      <4>2. Source(s, m, g) = Source(s, m - 1, g)
        BY <1>1, <1>4, <1>5, <1>8, <3>2, <4>1
      <4> QED BY <1>4, <4>1, <4>2
    <3> QED BY <3>1, <3>2
  <2>4. C = B
    <3>1. C = [g \in DOMAIN C |-> C[g]]
      OBVIOUS
    <3> HIDE DEF C
    <3> QED BY <1>4, <2>2, <2>3, <3>1
  <2>5. a = u.at
    BY <1>1, <1>2, <1>8 DEF PushedAt
  <2> HIDE DEF a, C
  <2>6. u.files = C
    BY <1>2, <2>4 DEF B
  <2>7. [t EXCEPT !.files = C, !.at = a] =
        [kind |-> "file", format |-> s.format, files |-> C, at |-> a, buf |-> s.buf, written |-> s.written]
    <3> DEFINE b == t.at
    <3>1. t = [kind |-> "file", format |-> s.format, files |-> A, at |-> b, buf |-> s.buf, written |-> s.written]
      BY <1>2 DEF A
    <3>2. t \in LogFiles
      BY <1>1, PushedOK DEF FileOK, t
    <3> DEFINE v == [t EXCEPT !.files = C, !.at = a]
    <3>3. v = [t EXCEPT !.files = C, !.at = a]
      OBVIOUS
    <3> HIDE DEF b, v
    <3>4. v = [kind |-> "file", format |-> s.format, files |-> C, at |-> a, buf |-> s.buf, written |-> s.written]
      BY <3>1, <3>2, <3>3 DEF LogFiles
    <3> QED BY <3>4 DEF v
  <2> QED BY <1>2, <2>1, <2>5, <2>6, <2>7 DEF t, u
<1> QED BY <1>7, <1>8

LEMMA ShiftedIs ==
  ASSUME NEW s, FileOK(s), NEW n \in 0 .. KeepLogs
  PROVE  Shifted(s, n) = Pushed(s, KeepLogs - n)
<1> DEFINE Is(x) == x = [j \in 0 .. n |-> IF j = 0 THEN s ELSE Renamed(x[j - 1], KeepLogs + 1 - j)]
           p == CHOOSE x : Is(x)
           q == [j \in 0 .. n |-> Pushed(s, KeepLogs - j)]
<1>1. KeepLogs \in Nat /\ n \in Nat /\ n <= KeepLogs
  BY SinksAssumption
<1>2. Shifted(s, n) = p[n]
  BY DEF Shifted
<1>3. Pushed(s, KeepLogs) = s
  <2>1. /\ s \in LogFiles /\ DOMAIN s.files \subseteq Int /\ s.at \in Int /\ s.at <= KeepLogs
        /\ \A f \in DOMAIN s.files : f <= KeepLogs
        /\ s.files = [f \in DOMAIN s.files |-> s.files[f]]
        /\ s = [kind |-> "file", format |-> s.format, files |-> s.files, at |-> s.at, buf |-> s.buf,
                written |-> s.written]
    BY FilesAre DEF FileOK, Numbers
  <2>2. KeepLogs .. KeepLogs - 1 = {}
    BY <1>1
  <2>3. {f \in DOMAIN s.files : f < KeepLogs \/ f = KeepLogs} = DOMAIN s.files
    BY <1>1, <2>1
  <2>4. PushedFiles(s.files, KeepLogs) = s.files
    BY <2>1, <2>2, <2>3 DEF PushedFiles
  <2>5. PushedAt(s.at, KeepLogs) = s.at
    BY <1>1, <2>1 DEF PushedAt
  <2> QED BY <2>1, <2>4, <2>5 DEF Pushed
<1>4. \A j \in 1 .. n : q[j] = Renamed(q[j - 1], KeepLogs + 1 - j)
  <2>1. ASSUME NEW j \in 1 .. n PROVE q[j] = Renamed(q[j - 1], KeepLogs + 1 - j)
    <3>1. /\ KeepLogs + 1 - j \in 1 .. KeepLogs /\ KeepLogs - (j - 1) = KeepLogs + 1 - j
          /\ (KeepLogs + 1 - j) - 1 = KeepLogs - j /\ j - 1 \in 0 .. n /\ j \in 0 .. n
      BY <1>1
    <3>2. Renamed(Pushed(s, KeepLogs + 1 - j), KeepLogs + 1 - j) = Pushed(s, (KeepLogs + 1 - j) - 1)
      BY <3>1, RenamedIs
    <3> QED BY <3>1, <3>2
  <2> QED BY <2>1
<1>5. q[0] = s
  BY <1>1, <1>3
<1>6. Is(q)
  <2>1. \A j \in 0 .. n : q[j] = IF j = 0 THEN s ELSE Renamed(q[j - 1], KeepLogs + 1 - j)
    <3> HIDE DEF q
    <3>1. \A j \in 0 .. n : j = 0 \/ j \in 1 .. n
      BY <1>1
    <3> QED BY <1>4, <1>5, <3>1
  <2>2. q = [j \in 0 .. n |-> q[j]]
    OBVIOUS
  <2> HIDE DEF q
  <2> QED BY <2>1, <2>2
<1>7. Is(p)
  <2>1. \E x : Is(x)
    BY <1>6
  <2> HIDE DEF Is
  <2> QED BY <2>1
<1>8. \A j \in 0 .. n : p[j] = IF j = 0 THEN s ELSE Renamed(p[j - 1], KeepLogs + 1 - j)
  <2> HIDE DEF p
  <2> QED BY <1>7
<1> HIDE DEF p, q
<1> DEFINE T == {j \in 0 .. n : p[j] = q[j]}
<1>9. 0 \in T
  BY <1>1, <1>5, <1>8
<1>10. ASSUME NEW j \in 1 .. n, j - 1 \in T PROVE j \in T
  <2>1. p[j] = Renamed(p[j - 1], KeepLogs + 1 - j) /\ j \in 0 .. n
    BY <1>1, <1>8
  <2> QED BY <1>4, <1>10, <2>1
<1>11. n \in T
  <2> HIDE DEF T
  <2>1. \A j \in 0 .. n : j \in T
    BY <1>1, <1>9, <1>10, Climbs
  <2> QED BY <1>1, <2>1
<1> QED BY <1>1, <1>2, <1>11 DEF q

(* What is pushed is lost only if it was the oldest, and pushed upon. *)
LEMMA Survives ==
  ASSUME NEW s, FileOK(s), NEW m \in 0 .. KeepLogs, NEW f \in DOMAIN s.files,
         ~(f = KeepLogs /\ KeepLogs - 1 \in DOMAIN s.files /\ m <= KeepLogs - 1)
  PROVE  \E g \in DOMAIN Pushed(s, m).files :
           /\ Source(s, m, g) = f /\ f <= g /\ g <= f + 1 /\ (f = -1 => g = -1)
<1> DEFINE t == Pushed(s, m)
<1>1. /\ s \in LogFiles /\ DOMAIN s.files \subseteq Int /\ KeepLogs \in Nat /\ m \in Nat /\ m <= KeepLogs
      /\ f \in Int /\ f <= KeepLogs
  BY FilesAre DEF FileOK, Numbers
<1>2. \A g : g \in DOMAIN t.files <=>
        \/ g \in DOMAIN s.files /\ (g < m \/ g = KeepLogs)
        \/ g \in Int /\ g - 1 \in DOMAIN s.files /\ m <= g - 1 /\ g <= KeepLogs
  BY <1>1, PushedIs
<1> HIDE DEF t
<1>3. \A g \in Int : Source(s, m, g) = IF g - 1 \in DOMAIN s.files /\ m <= g - 1 /\ g <= KeepLogs THEN g - 1 ELSE g
  BY <1>1 DEF Source
<1>4. CASE f < m \/ f = KeepLogs
  <2>1. f \in DOMAIN t.files
    BY <1>2, <1>4
  <2>2. Source(s, m, f) = f
    BY <1>1, <1>3, <1>4
  <2> QED BY <1>1, <2>1, <2>2 DEF t
<1>5. CASE ~(f < m \/ f = KeepLogs)
  <2>1. f + 1 \in Int /\ (f + 1) - 1 = f /\ m <= f /\ f + 1 <= KeepLogs /\ f >= 0
    BY <1>1, <1>5
  <2>2. f + 1 \in DOMAIN t.files /\ Source(s, m, f + 1) = f
    BY <1>2, <1>3, <2>1
  <2> QED BY <1>1, <2>1, <2>2 DEF t
<1> QED BY <1>4, <1>5

LEMMA PushedTurns ==
  ASSUME NEW s, FileOK(s), NEW n \in Nat, AtMost(s, n), NEW m \in 0 .. KeepLogs, NEW dir
  PROVE  LET t == Pushed(s, m) IN Turn(s, t, n, n, dir, 1, 1) /\ Pushes(s, t, 1, 1)
<1> DEFINE t == Pushed(s, m)
<1>1. /\ s \in LogFiles /\ DOMAIN s.files \subseteq Int /\ KeepLogs \in Nat /\ m \in Nat /\ m <= KeepLogs
      /\ \A f \in DOMAIN s.files : f <= KeepLogs
  BY FilesAre DEF FileOK, Numbers
<1>2. /\ FileOK(t) /\ t.format = s.format /\ t.buf = s.buf
      /\ \A g \in DOMAIN t.files : Lines(t, g) = Lines(s, Source(s, m, g)) /\ Source(s, m, g) \in DOMAIN s.files
  BY <1>1, PushedOK, PushedIs
<1>3. \A g \in DOMAIN t.files :
        /\ g \in Int /\ Source(s, m, g) \in Int /\ (Source(s, m, g) = g \/ (Source(s, m, g) = g - 1 /\ m <= g - 1))
        /\ \A h \in DOMAIN t.files : g < h => Source(s, m, g) < Source(s, m, h)
  BY <1>1, SourcesAre
<1>4. \A f \in DOMAIN s.files :
        \/ f = KeepLogs /\ KeepLogs - 1 \in DOMAIN s.files
        \/ \E g \in DOMAIN t.files : Source(s, m, g) = f /\ f <= g /\ g <= f + 1 /\ (f = -1 => g = -1)
  BY Survives
<1> HIDE DEF t
<1>5. \A x \in Holds(t) : x \in Holds(s)
  <2>1. ASSUME NEW x, x \in OnDisk(t) PROVE x \in OnDisk(s)
    BY <1>2, <2>1, HeldIs
  <2> QED BY <1>2, <2>1, HeldIs
<1>6. AtMost(t, n)
  BY <1>5 DEF AtMost
<1>7. ASSUME NEW x, Within(s, x, -1) PROVE Within(t, x, -1)
  <2>1. PICK f \in DOMAIN s.files : f <= -1 /\ x \in Lines(s, f)
    BY <1>7 DEF Within
  <2>2. f = -1
    BY <1>1, <2>1, FilesAre DEF FileOK, Numbers
  <2>3. PICK g \in DOMAIN t.files : Source(s, m, g) = f /\ g = -1
    BY <1>1, <1>4, <2>2
  <2> QED BY <1>2, <1>3, <2>1, <2>3 DEF Within
<1>8. ASSUME NEW x, NEW c \in Nat, c + 1 <= KeepLogs, Within(s, x, c) PROVE Within(t, x, c + 1)
  <2>1. PICK f \in DOMAIN s.files : f <= c /\ x \in Lines(s, f)
    BY <1>8 DEF Within
  <2>2. f # KeepLogs
    BY <1>1, <1>8, <2>1
  <2>3. PICK g \in DOMAIN t.files : Source(s, m, g) = f /\ g <= f + 1
    BY <1>4, <2>2
  <2>4. g <= c + 1
    BY <1>1, <1>3, <2>1, <2>3
  <2> QED BY <1>2, <2>1, <2>3, <2>4 DEF Within
<1>9. ASSUME NEW x, NEW k \in Nat, k + 1 <= KeepLogs, Newer(s, x, k) PROVE Newer(t, x, k + 1)
  <2>1. CASE x \in ToSet(s.buf)
    BY <1>2, <2>1 DEF Newer
  <2>2. CASE x \notin ToSet(s.buf)
    <3>1. PICK f \in DOMAIN s.files : x \in Lines(s, f) /\ \A g \in DOMAIN s.files : g >= 0 /\ g < f => g < k
      BY <1>9, <2>2 DEF Newer
    <3>2. ~(f = KeepLogs /\ KeepLogs - 1 \in DOMAIN s.files)
      BY <1>1, <1>9, <3>1
    <3>3. PICK h \in DOMAIN t.files : Source(s, m, h) = f
      BY <1>4, <3>2
    <3>4. ASSUME NEW g \in DOMAIN t.files, g >= 0, g < h PROVE g < k + 1
      <4>1. Source(s, m, g) < f /\ Source(s, m, g) >= 0 /\ Source(s, m, g) >= g - 1
        BY <1>1, <1>3, <3>3, <3>4
      <4>2. Source(s, m, g) < k
        BY <1>2, <3>1, <4>1
      <4> QED BY <1>3, <4>1, <4>2
    <3> QED BY <1>2, <3>1, <3>3, <3>4 DEF Newer
  <2> QED BY <2>1, <2>2
<1>10. Pushes(s, t, 1, 1)
  BY <1>7, <1>8, <1>9 DEF Pushes, Ages
<1>11. ASSUME NEW x, Newer(s, x, 0) PROVE Newer(t, x, 0)
  <2>1. CASE x \in ToSet(s.buf)
    BY <1>2, <2>1 DEF Newer
  <2>2. CASE x \notin ToSet(s.buf)
    <3>1. PICK f \in DOMAIN s.files : x \in Lines(s, f) /\ \A g \in DOMAIN s.files : g >= 0 /\ g < f => g < 0
      BY <1>11, <2>2 DEF Newer
    <3>2. CASE f = KeepLogs /\ KeepLogs - 1 \in DOMAIN s.files
      <4>1. KeepLogs = 0
        BY <1>1, <3>1, <3>2
      <4>2. m = 0 /\ ~(m <= KeepLogs - 1)
        BY <1>1, <4>1
      <4>3. PICK h \in DOMAIN t.files : Source(s, m, h) = f /\ f <= h /\ h <= f + 1
        BY <3>2, <4>2, Survives DEF t
      <4>4. \A g \in DOMAIN t.files : g >= 0 /\ g < h => g < 0
        <5>1. ASSUME NEW g \in DOMAIN t.files, g >= 0, g < h PROVE FALSE
          <6>1. Source(s, m, g) < f
            BY <1>3, <4>3, <5>1
          <6>2. Source(s, m, g) >= 0
            BY <1>1, <1>3, <5>1
          <6> QED BY <1>2, <3>1, <6>1, <6>2, <1>3
        <5> QED BY <5>1
      <4> QED BY <1>2, <3>1, <4>3, <4>4 DEF Newer
    <3>3. CASE ~(f = KeepLogs /\ KeepLogs - 1 \in DOMAIN s.files)
      <4>1. PICK h \in DOMAIN t.files : Source(s, m, h) = f
        BY <1>4, <3>3
      <4>2. ASSUME NEW g \in DOMAIN t.files, g >= 0, g < h PROVE g < 0
        <5>1. Source(s, m, g) < f /\ Source(s, m, g) >= 0
          BY <1>1, <1>3, <4>1, <4>2
        <5>2. Source(s, m, g) < 0
          BY <1>2, <3>1, <5>1
        <5> QED BY <1>3, <5>1, <5>2
      <4> QED BY <1>2, <3>1, <4>1, <4>2 DEF Newer
    <3> QED BY <3>2, <3>3
  <2> QED BY <2>1, <2>2
<1>12. ASSUME NEW k \in Generations(t) PROVE k \in Generations(s)
  <2>1. CASE k \in ToSet(t.buf)
    BY <1>2, <2>1, HeldIs
  <2>2. CASE k \notin ToSet(t.buf)
    <3>1. PICK g \in DOMAIN t.files : g >= 0 /\ k \in Lines(t, g)
      BY <1>2, <1>12, <2>2, HeldIs
    <3>2. Source(s, m, g) >= 0
      BY <1>1, <1>3, <3>1
    <3> QED BY <1>2, <3>1, <3>2, HeldIs
  <2> QED BY <2>1, <2>2
<1>13. ASSUME NEW x \in OnDisk(s), x \notin OnDisk(t), NEW y \in Generations(t) PROVE x < y
  <2>1. PICK f \in DOMAIN s.files : x \in Lines(s, f)
    BY <1>13, HeldIs
  <2>2. ~ \E g \in DOMAIN t.files : Source(s, m, g) = f
    BY <1>2, <1>13, <2>1, HeldIs
  <2>3. f = KeepLogs /\ KeepLogs - 1 \in DOMAIN s.files /\ m <= KeepLogs - 1
    BY <2>2, Survives DEF t
  <2>4. CASE y \in ToSet(t.buf)
    BY <1>2, <2>1, <2>4 DEF FileOK, Sorts, Ahead
  <2>5. CASE y \notin ToSet(t.buf)
    <3>1. PICK g \in DOMAIN t.files : g >= 0 /\ y \in Lines(t, g)
      BY <1>2, <1>13, <2>5, HeldIs
    <3>2. Source(s, m, g) >= 0 /\ Source(s, m, g) # f /\ Source(s, m, g) \in DOMAIN s.files
      BY <1>1, <1>2, <1>3, <2>2, <3>1
    <3>3. Source(s, m, g) < f
      BY <1>1, <1>3, <2>3, <3>2
    <3>4. Ahead(Lines(s, f), Lines(s, Source(s, m, g)))
      BY <3>2, <3>3 DEF FileOK, Sorts
    <3> QED BY <1>2, <2>1, <3>1, <3>4 DEF Ahead
  <2> QED BY <2>4, <2>5
<1>14. Behind(s, t, n)
  BY <1>7, <1>11, <1>12, <1>13 DEF Behind
<1> QED BY <1>2, <1>6, <1>10, <1>14 DEF Turn, t

(* A new file is opened, or the one there emptied. *)
Opened(s) == [s EXCEPT !.files = WithFile(@, 0, <<>>), !.at = 0, !.written = 0]

LEMMA OpenedOK ==
  ASSUME NEW s, FileOK(s), NEW t, t = Opened(s)
  PROVE  /\ FileOK(t) /\ t.format = s.format /\ t.buf = s.buf /\ t.written = 0 /\ t.at = 0
         /\ DOMAIN t.files = DOMAIN s.files \cup {0} /\ Lines(t, 0) = {}
         /\ \A f \in DOMAIN s.files : f # 0 => Lines(t, f) = Lines(s, f)
<1> DEFINE G == WithFile(s.files, 0, <<>>)
<1>1. /\ s \in LogFiles /\ s.files \in [DOMAIN s.files -> Seq(Nat)] /\ DOMAIN s.files \subseteq Numbers
      /\ KeepLogs \in Nat /\ 0 \in Numbers /\ DOMAIN s.files \subseteq Int
  BY FilesAre DEF FileOK, Numbers
<1>2. /\ DOMAIN G = DOMAIN s.files \cup {0} /\ G[0] = <<>> /\ \A f \in DOMAIN s.files : f # 0 => G[f] = s.files[f]
      /\ G = [f \in DOMAIN G |-> G[f]]
  BY DEF WithFile
<1> HIDE DEF G
<1>3. G \in FileMaps
  <2>1. \A f \in DOMAIN G : G[f] \in Seq(Nat)
    BY <1>1, <1>2, NoLines
  <2> QED BY <1>1, <1>2, <2>1, MapsAre
<1> DEFINE w == 0
<1>4. t = [s EXCEPT !.files = G, !.at = 0, !.written = w] /\ w \in Nat
  BY DEF G, Opened
<1> HIDE DEF w
<1>5. t \in LogFiles /\ t.files = G /\ t.at = 0 /\ t.written = w /\ t.buf = s.buf /\ t.format = s.format
  BY <1>1, <1>3, <1>4 DEF LogFiles
<1>6. Lines(t, 0) = {} /\ \A f \in DOMAIN s.files : f # 0 => Lines(t, f) = Lines(s, f)
  BY <1>2, <1>5, NoLines DEF Lines
<1>7. \A f \in DOMAIN t.files : f = 0 \/ (f \in DOMAIN s.files /\ f # 0)
  BY <1>2, <1>5
<1>8. Sorts(t)
  <2>1. ASSUME NEW f \in DOMAIN t.files PROVE Increasing(t.files[f]) /\ Ahead(Lines(t, f), ToSet(t.buf))
    <3>1. CASE f = 0
      BY <1>2, <1>5, <1>6, <3>1, NoLines DEF Ahead
    <3>2. CASE f # 0
      BY <1>2, <1>5, <1>6, <1>7, <3>2 DEF FileOK, Sorts
    <3> QED BY <3>1, <3>2
  <2>2. ASSUME NEW f \in DOMAIN t.files, NEW g \in DOMAIN t.files, f > g, g >= 0
        PROVE  Ahead(Lines(t, f), Lines(t, g))
    <3>1. CASE g = 0
      BY <1>6, <3>1 DEF Ahead
    <3>2. CASE g # 0
      <4>1. f # 0 /\ f \in DOMAIN s.files /\ g \in DOMAIN s.files
        BY <1>1, <1>7, <2>2, <3>2
      <4> QED BY <1>6, <2>2, <3>2, <4>1 DEF FileOK, Sorts
    <3> QED BY <3>1, <3>2
  <2>3. ASSUME NEW f \in DOMAIN t.files, f >= 0, -1 \in DOMAIN t.files
        PROVE  Lines(t, -1) \cap Lines(t, f) = {} /\ (f = 0 => Ahead(Lines(t, -1), Lines(t, f)))
    <3>1. CASE f = 0
      BY <1>6, <3>1 DEF Ahead
    <3>2. CASE f # 0
      <4>1. f \in DOMAIN s.files /\ -1 \in DOMAIN s.files /\ Lines(t, -1) = Lines(s, -1) /\ Lines(t, f) = Lines(s, f)
        BY <1>6, <1>7, <2>3, <3>2
      <4> QED BY <2>3, <3>2, <4>1 DEF FileOK, Sorts
    <3> QED BY <3>1, <3>2
  <2> QED BY <1>5, <2>1, <2>2, <2>3 DEF FileOK, Sorts
<1>9. FileOK(t)
  BY <1>1, <1>2, <1>5, <1>8 DEF FileOK
<1> QED BY <1>2, <1>5, <1>6, <1>9 DEF w

Dirs == {"good", "readonly", "noopen"}

(* A file begun beside those there are is newer than they. *)
LEMMA BegunTurns ==
  ASSUME NEW s, FileOK(s), NEW n \in Nat, AtMost(s, n), NEW t, t = Opened(s),
         NEW dir \in {"good", "readonly"}, dir = "good" => 0 \notin DOMAIN s.files
  PROVE  Turn(s, t, n, n, dir, 0, 1)
<1>1. /\ FileOK(t) /\ t.format = s.format /\ t.buf = s.buf /\ t.at = 0
      /\ DOMAIN t.files = DOMAIN s.files \cup {0} /\ Lines(t, 0) = {}
      /\ \A f \in DOMAIN s.files : f # 0 => Lines(t, f) = Lines(s, f)
  BY OpenedOK
<1>2. ASSUME NEW x \in Holds(t) PROVE x \in Holds(s)
  <2>1. CASE x \in ToSet(t.buf)
    BY <1>1, <2>1, HeldIs
  <2>2. CASE x \notin ToSet(t.buf)
    <3>1. PICK f \in DOMAIN t.files : x \in Lines(t, f)
      BY <1>1, <1>2, <2>2, HeldIs
    <3>2. f # 0 /\ f \in DOMAIN s.files
      BY <1>1, <3>1
    <3> QED BY <1>1, <3>1, <3>2, HeldIs
  <2> QED BY <2>1, <2>2
<1>3. AtMost(t, n)
  BY <1>2 DEF AtMost
<1>4. ASSUME 0 \notin DOMAIN s.files PROVE Pushes(s, t, 0, 1)
  <2>1. KeepLogs \in Nat /\ DOMAIN s.files \subseteq Int
    BY FilesAre DEF FileOK
  <2>2. \A f \in DOMAIN s.files : f # 0 /\ f \in DOMAIN t.files /\ Lines(t, f) = Lines(s, f)
    BY <1>1, <1>4
  <2>3. \A x : \A c : Within(s, x, c) => Within(t, x, c)
    BY <2>2 DEF Within
  <2>4. ASSUME NEW x, NEW k \in Nat, Newer(s, x, k) PROVE Newer(t, x, k + 1)
    <3>1. CASE x \in ToSet(s.buf)
      BY <1>1, <3>1 DEF Newer
    <3>2. CASE x \notin ToSet(s.buf)
      <4>1. PICK f \in DOMAIN s.files : x \in Lines(s, f) /\ \A g \in DOMAIN s.files : g >= 0 /\ g < f => g < k
        BY <2>4, <3>2 DEF Newer
      <4>2. ASSUME NEW g \in DOMAIN t.files, g >= 0, g < f PROVE g < k + 1
        BY <1>1, <2>1, <4>1, <4>2
      <4> QED BY <2>2, <4>1, <4>2 DEF Newer
    <3> QED BY <3>1, <3>2
  <2>5. \A c \in Nat : c + 0 = c
    OBVIOUS
  <2> QED BY <2>3, <2>4, <2>5 DEF Pushes, Ages
<1>5. dir # "noopen"
  OBVIOUS
<1> QED BY <1>1, <1>3, <1>4, <1>5 DEF Turn

LEMMA RotatedIs ==
  ASSUME NEW s, FileOK(s), NEW n \in Nat, AtMost(s, n), NEW e, e.dir \in Dirs
  PROVE  Turn(s, Rotated(s, e).sink, n, n, e.dir, 1, 1)
<1> DEFINE f == Flushed(s, e)
           r == IF e.dir = "readonly" THEN f ELSE Shifted(f, KeepLogs)
           t == Opened(r)
           u == Rotated(s, e).sink
<1>1. u = IF FlushFails(s, e) THEN s ELSE IF CanOpen(r, e) THEN t ELSE r
  BY DEF Rotated, Result, Opened
<1>2. KeepLogs \in Nat /\ 0 \in 0 .. KeepLogs /\ KeepLogs - KeepLogs = 0 /\ KeepLogs \in 0 .. KeepLogs
  BY SinksAssumption
<1>3. Turn(s, f, n, n, e.dir, 0, 0)
  BY FlushedIs
<1>4. FileOK(f) /\ AtMost(f, n)
  BY <1>3 DEF Turn
<1> HIDE DEF f, u
<1>5. 0 \in Nat /\ 1 \in Nat /\ 0 <= 1 /\ n <= n /\ 0 + 1 = 1 /\ 0 + 0 = 0
  OBVIOUS
<1>6. CASE FlushFails(s, e)
  <2>1. Turn(s, s, n, n, e.dir, 0, 0)
    BY StandsStill
  <2> QED BY <1>1, <1>5, <1>6, <2>1, NoMore DEF u
<1>7. CASE ~FlushFails(s, e) /\ e.dir = "readonly"
  <2>1. r = f
    BY <1>7
  <2>2. CASE CanOpen(r, e)
    <3>1. u = Opened(f)
      BY <1>1, <1>7, <2>1, <2>2
    <3>2. Turn(f, u, n, n, e.dir, 0, 1)
      BY <1>4, <1>5, <1>7, <3>1, BegunTurns
    <3>3. Turn(s, u, n, n, e.dir, 0 + 0, 0 + 1)
      BY <1>3, <1>5, <3>2, TurnsCompose
    <3>4. Turn(s, u, n, n, e.dir, 0, 1)
      BY <1>5, <3>3
    <3> QED BY <1>5, <3>4, NoMore DEF u
  <2>3. CASE ~CanOpen(r, e)
    <3>1. u = f
      BY <1>1, <1>7, <2>1, <2>3
    <3> QED BY <1>3, <1>5, <3>1, NoMore DEF u
  <2> QED BY <2>2, <2>3
<1>8. CASE ~FlushFails(s, e) /\ e.dir # "readonly"
  <2>1. r = Pushed(f, 0)
    BY <1>2, <1>4, <1>8, ShiftedIs
  <2>2. Turn(f, r, n, n, e.dir, 1, 1) /\ Pushes(f, r, 1, 1)
    BY <1>2, <1>4, <2>1, PushedTurns
  <2>3. CASE ~CanOpen(r, e)
    <3>1. u = r
      BY <1>1, <1>8, <2>3
    <3>2. Turn(s, u, n, n, e.dir, 0 + 1, 0 + 1)
      BY <1>3, <1>5, <2>2, <3>1, TurnsCompose
    <3> QED BY <1>5, <3>2 DEF u
  <2>4. CASE CanOpen(r, e)
    <3>1. u = t /\ e.dir = "good"
      BY <1>1, <1>8, <2>4 DEF CanOpen
    <3>2. FileOK(r) /\ AtMost(r, n) /\ r.format = f.format /\ r.buf = f.buf
      BY <1>2, <1>4, <2>1, <2>2, PushedOK DEF Turn
    <3> HIDE DEF r, t
    <3>3. /\ FileOK(u) /\ u.format = r.format /\ u.buf = r.buf /\ u.at = 0
          /\ DOMAIN u.files = DOMAIN r.files \cup {0} /\ Lines(u, 0) = {}
          /\ \A i \in DOMAIN r.files : i # 0 => Lines(u, i) = Lines(r, i)
      BY <1>5, <3>1, <3>2, OpenedOK DEF t
    <3>4. DOMAIN f.files \subseteq Int /\ f \in LogFiles
      BY <1>4, FilesAre DEF FileOK
    <3>5. KeepLogs > 0 => 0 \notin DOMAIN r.files
      BY <1>2, <2>1, <3>4, PushedIs
    <3>6. ASSUME NEW x \in Holds(u) PROVE x \in Holds(r)
      <4>1. CASE x \in ToSet(u.buf)
        BY <3>2, <3>3, <4>1, HeldIs
      <4>2. CASE x \notin ToSet(u.buf)
        <5>1. PICK i \in DOMAIN u.files : x \in Lines(u, i)
          BY <3>3, <3>6, <4>2, HeldIs
        <5>2. i # 0 /\ i \in DOMAIN r.files
          BY <3>3, <5>1
        <5> QED BY <3>2, <3>3, <5>1, <5>2, HeldIs
      <4> QED BY <4>1, <4>2
    <3>7. AtMost(u, n)
      BY <3>2, <3>6 DEF AtMost
    <3>8. \A x : Within(f, x, -1) => Within(u, x, -1)
      <4>1. \A x : Within(f, x, -1) => Within(r, x, -1)
        BY <2>2 DEF Pushes, Ages
      <4>2. ASSUME NEW x, Within(r, x, -1) PROVE Within(u, x, -1)
        <5>1. PICK i \in DOMAIN r.files : i <= -1 /\ x \in Lines(r, i)
          BY <4>2 DEF Within
        <5>2. i # 0
          BY <5>1
        <5> QED BY <3>3, <5>1, <5>2 DEF Within
      <4> QED BY <4>1, <4>2
    <3>9. ASSUME NEW x, NEW c \in Nat, c + 1 <= KeepLogs, Within(f, x, c) PROVE Within(u, x, c + 1)
      <4>1. Within(r, x, c + 1) /\ KeepLogs > 0
        BY <1>2, <2>2, <3>9 DEF Pushes, Ages
      <4>2. PICK i \in DOMAIN r.files : i <= c + 1 /\ x \in Lines(r, i)
        BY <4>1 DEF Within
      <4> QED BY <3>3, <3>5, <4>1, <4>2 DEF Within
    <3>10. ASSUME NEW x, NEW k \in Nat, k + 1 <= KeepLogs, Newer(f, x, k) PROVE Newer(u, x, k + 1)
      <4>1. Newer(r, x, k + 1) /\ KeepLogs > 0
        BY <1>2, <2>2, <3>10 DEF Pushes
      <4>2. CASE x \in ToSet(r.buf)
        BY <3>3, <4>2 DEF Newer
      <4>3. CASE x \notin ToSet(r.buf)
        <5>1. PICK i \in DOMAIN r.files : x \in Lines(r, i) /\ \A g \in DOMAIN r.files : g >= 0 /\ g < i => g < k + 1
          BY <4>1, <4>3 DEF Newer
        <5>2. \A g \in DOMAIN u.files : g >= 0 /\ g < i => g < k + 1
          BY <3>3, <5>1
        <5> QED BY <3>3, <3>5, <4>1, <5>1, <5>2 DEF Newer
      <4> QED BY <4>2, <4>3
    <3>11. Pushes(f, u, 1, 1)
      BY <3>8, <3>9, <3>10 DEF Pushes, Ages
    <3>12. Turn(f, u, n, n, e.dir, 1, 1)
      <4>1. e.dir # "noopen"
        BY <3>1
      <4> QED BY <3>2, <3>3, <3>7, <3>11, <4>1 DEF Turn
    <3>13. Turn(s, u, n, n, e.dir, 0 + 1, 0 + 1)
      BY <1>3, <1>5, <3>12, TurnsCompose
    <3> QED BY <1>5, <3>13 DEF u
  <2> QED BY <2>3, <2>4
<1> QED BY <1>6, <1>7, <1>8 DEF u

(* What is in a buffer is written, or kept, if there are generations       *)
(* enough for the files begun.                                             *)
LEMMA BufferSurvives ==
  ASSUME NEW s, NEW t, NEW n, NEW m, NEW dir \in {"good", "noopen"}, NEW j, NEW b \in Nat, b <= KeepLogs,
         Turn(s, t, n, m, dir, j, b), NEW x \in ToSet(s.buf)
  PROVE  x \in Holds(t)
<1>1. Newer(s, x, 0) /\ KeepLogs \in Nat /\ 0 + b = b
  BY SinksAssumption DEF Newer
<1>2. \E k : Newer(t, x, k)
  <2>1. CASE dir = "good"
    BY <1>1, <2>1 DEF Turn, Pushes
  <2>2. CASE dir = "noopen"
    BY <1>1, <2>2 DEF Turn, Behind
  <2> QED BY <2>1, <2>2
<1>3. FileOK(t)
  BY DEF Turn
<1> QED BY <1>2, <1>3, HeldIs DEF Newer

LEMMA EmitFileIs ==
  ASSUME NEW s, FileOK(s), NEW n \in Nat, AtMost(s, n), NEW e, e.dir \in Dirs
  PROVE  LET r == EmitFile(s, n + 1, e)
         IN  /\ Turn(s, r.sink, n, n + 1, e.dir, 1, 1)
             /\ r.ok => n + 1 \in Holds(r.sink) \/ e.dir = "readonly" \/ KeepLogs = 0
<1> DEFINE r == EmitFile(s, n + 1, e)
           b == Buffered(s, n + 1, e)
<1>1. 0 \in Nat /\ 1 \in Nat /\ 0 <= 1 /\ n <= n /\ n <= n + 1 /\ n + 1 \in Nat /\ n + 1 <= n + 1 /\ 0 + 1 = 1
      /\ KeepLogs \in Nat
  BY SinksAssumption
<1>2. CASE Len(s.buf) >= BufLines /\ FlushFails(s, e)
  <2>1. r.sink = s /\ r.ok = FALSE
    BY <1>2 DEF EmitFile, Result
  <2>2. Turn(s, s, n, n, e.dir, 0, 0)
    BY StandsStill
  <2>3. Turn(s, s, n, n + 1, e.dir, 1, 1)
    BY <1>1, <2>2, NoMore
  <2> QED BY <2>1, <2>3
<1>3. CASE ~(Len(s.buf) >= BufLines /\ FlushFails(s, e))
  <2>1. Turn(s, b, n, n + 1, e.dir, 0, 0) /\ n + 1 \in ToSet(b.buf)
    BY BufferedIs
  <2>2. FileOK(b) /\ AtMost(b, n + 1)
    BY <2>1 DEF Turn
  <2>3. CASE ~Full(b)
    <3>1. r.sink = b
      BY <1>3, <2>3 DEF EmitFile, Result
    <3>2. n + 1 \in Holds(b)
      BY <2>1, <2>2, HeldIs
    <3>3. Turn(s, b, n, n + 1, e.dir, 1, 1)
      BY <1>1, <2>1, NoMore
    <3> QED BY <3>1, <3>2, <3>3
  <2>4. CASE Full(b)
    <3>1. r = Rotated(b, e)
      BY <1>3, <2>4 DEF EmitFile
    <3> HIDE DEF r, b
    <3>2. Turn(b, r.sink, n + 1, n + 1, e.dir, 1, 1)
      BY <1>1, <2>2, <3>1, RotatedIs
    <3>3. Turn(s, r.sink, n, n + 1, e.dir, 0 + 1, 0 + 1)
      BY <1>1, <2>1, <3>2, TurnsCompose
    <3>4. CASE e.dir # "readonly" /\ KeepLogs # 0
      <4>1. e.dir \in {"good", "noopen"} /\ 1 <= KeepLogs
        BY <1>1, <3>4 DEF Dirs
      <4>2. n + 1 \in Holds(r.sink)
        BY <1>1, <2>1, <3>2, <4>1, BufferSurvives
      <4> QED BY <1>1, <3>3, <4>2 DEF r
    <3> QED BY <1>1, <3>3, <3>4 DEF r
  <2> QED BY <2>3, <2>4
<1> QED BY <1>2, <1>3

LEMMA ReopenedIs ==
  ASSUME NEW s, FileOK(s), NEW n \in Nat, AtMost(s, n), NEW e, e.dir \in Dirs
  PROVE  LET t == ReopenFile(s, e).sink
         IN  /\ Turn(s, t, n, n, e.dir, 0, 1) /\ Ages(s, t, 0)
             /\ s.buf = <<>> => t.buf = <<>>
<1> DEFINE f == Flushed(s, e)
           t == ReopenFile(s, e).sink
<1>1. 0 \in Nat /\ 1 \in Nat /\ 0 <= 1 /\ n <= n /\ 0 + 0 = 0 /\ 0 + 1 = 1 /\ 0 <= 0
  OBVIOUS
<1>2. /\ Turn(s, f, n, n, e.dir, 0, 0) /\ Turn(s, f, n, n, "good", 0, 0) /\ f.written = s.written
      /\ s.buf = <<>> => f.buf = <<>>
  BY FlushedIs
<1>3. FileOK(f) /\ AtMost(f, n) /\ Ages(s, f, 0)
  BY <1>2 DEF Turn, Pushes
<1>4. Turn(s, s, n, n, e.dir, 0, 0) /\ Turn(s, s, n, n, "good", 0, 0)
  BY StandsStill
<1>5. Ages(s, s, 0)
  BY <1>4 DEF Turn, Pushes
<1> DEFINE F == IF 0 \in DOMAIN f.files THEN f.files ELSE WithFile(f.files, 0, <<>>)
           u == [f EXCEPT !.files = F, !.at = 0, !.written = Len(F[0])]
<1>6. t = IF FlushFails(s, e) THEN s ELSE IF ~CanOpen(f, e) THEN f ELSE u
  BY DEF ReopenFile, Result
<1> HIDE DEF t, f
<1>7. CASE FlushFails(s, e)
  <2>1. Turn(s, s, n, n, e.dir, 0, 1)
    BY <1>1, <1>4, NoMore
  <2> QED BY <1>5, <1>6, <1>7, <2>1 DEF t
<1>8. CASE ~FlushFails(s, e) /\ ~CanOpen(f, e)
  <2>1. Turn(s, f, n, n, e.dir, 0, 1)
    BY <1>1, <1>2, NoMore
  <2> QED BY <1>2, <1>3, <1>6, <1>8, <2>1 DEF t
<1>9. CASE ~FlushFails(s, e) /\ CanOpen(f, e) /\ 0 \in DOMAIN f.files
  <2>1. /\ f \in LogFiles /\ f.at = 0 /\ f.files \in [DOMAIN f.files -> Seq(Nat)]
    BY <1>3, <1>9, FilesAre DEF FileOK
  <2> DEFINE w == Len(f.files[0])
             v == [f EXCEPT !.files = f.files, !.at = 0, !.written = w]
  <2>2. w \in Nat
    BY <1>9, <2>1
  <2>3. t = v
    BY <1>6, <1>9
  <2> HIDE DEF w, F
  <2>4. v = [f EXCEPT !.files = f.files, !.at = 0, !.written = w]
    OBVIOUS
  <2> HIDE DEF v
  <2>5. v \in LogFiles /\ v.files = f.files /\ v.at = f.at /\ v.buf = f.buf /\ v.format = f.format /\ v.kind = f.kind
    BY <2>1, <2>2, <2>4 DEF LogFiles
  <2>6. \A g : Lines(v, g) = Lines(f, g)
    BY <2>5 DEF Lines
  <2>7. FileOK(v)
    BY <1>3, <2>5, <2>6 DEF FileOK, Sorts
  <2>8. \A x : /\ x \in Holds(v) <=> x \in Holds(f)
               /\ x \in OnDisk(v) <=> x \in OnDisk(f)
               /\ x \in Generations(v) <=> x \in Generations(f)
    <3>1. \A x : /\ x \in OnDisk(v) <=> x \in OnDisk(f)
                 /\ x \in Generations(v) <=> x \in Generations(f)
      BY <1>3, <2>5, <2>6, <2>7, HeldIs
    <3> QED BY <1>3, <2>5, <2>7, <3>1, HeldIs
  <2>9. (\A x : \A c : Within(v, x, c) <=> Within(f, x, c)) /\ (\A x : \A k : Newer(v, x, k) <=> Newer(f, x, k))
    BY <2>5, <2>6 DEF Within, Newer
  <2>10. Pushes(s, v, 0, 0) /\ Ages(s, v, 0)
    <3>1. Pushes(s, f, 0, 0)
      BY <1>2 DEF Turn
    <3> QED BY <2>9, <3>1 DEF Pushes, Ages
  <2>11. Turn(s, v, n, n, e.dir, 0, 0)
    BY <1>2, <2>5, <2>7, <2>8, <2>9, <2>10 DEF Turn, AtMost, Behind
  <2>12. Turn(s, v, n, n, e.dir, 0, 1)
    BY <1>1, <2>11, NoMore
  <2> QED BY <1>2, <2>3, <2>5, <2>10, <2>12 DEF t
<1>10. CASE ~FlushFails(s, e) /\ CanOpen(f, e) /\ 0 \notin DOMAIN f.files
  <2>1. e.dir = "good"
    BY <1>10 DEF CanOpen
  <2>2. F = WithFile(f.files, 0, <<>>)
    BY <1>10
  <2>3. t = Opened(f)
    <3>1. Len(F[0]) = 0
      <4>1. F[0] = <<>>
        BY <2>2 DEF WithFile
      <4> QED BY <4>1
    <3>2. t = [f EXCEPT !.files = F, !.at = 0, !.written = Len(F[0])]
      BY <1>6, <1>10
    <3> QED BY <2>2, <3>1, <3>2 DEF Opened
  <2>4. Turn(f, t, n, n, e.dir, 0, 1)
    BY <1>1, <1>3, <1>10, <2>1, <2>3, BegunTurns
  <2>5. t.buf = f.buf
    BY <1>1, <1>3, <2>3, OpenedOK
  <2>6. Turn(s, t, n, n, e.dir, 0 + 0, 0 + 1)
    BY <1>1, <1>2, <2>4, TurnsCompose
  <2>7. Ages(s, t, 0)
    BY <1>1, <2>1, <2>6 DEF Turn, Pushes
  <2> QED BY <1>1, <1>2, <2>5, <2>6, <2>7 DEF t
<1> QED BY <1>7, <1>8, <1>9, <1>10

(* Logrotate takes the file away. *)
LEMMA ArchivedIs ==
  ASSUME NEW s, FileOK(s), NEW n, AtMost(s, n)
  PROVE  LET t == Archived(s)
         IN  /\ FileOK(t) /\ AtMost(t, n) /\ t.format = s.format /\ t.buf = s.buf
             /\ Pushes(s, t, 0, 0)
<1>1. /\ s \in LogFiles /\ s.files \in [DOMAIN s.files -> Seq(Nat)] /\ DOMAIN s.files \subseteq Numbers
      /\ KeepLogs \in Nat /\ -1 \in Numbers /\ DOMAIN s.files \subseteq Int /\ s.kind = "file"
  BY FilesAre DEF FileOK, Numbers
<1>2. CASE 0 \notin DOMAIN s.files
  <2>1. Archived(s) = s
    BY <1>2 DEF Archived
  <2>2. \A c \in Nat : c + 0 = c
    OBVIOUS
  <2>3. Pushes(s, s, 0, 0)
    BY <2>2 DEF Pushes, Ages
  <2> QED BY <2>1, <2>3
<1>3. CASE 0 \in DOMAIN s.files
  <2> DEFINE F == s.files
             old == IF -1 \in DOMAIN F THEN F[-1] \o F[0] ELSE F[0]
             G == [f \in (DOMAIN F \ {0}) \cup {-1} |-> IF f # -1 THEN F[f] ELSE old]
             t == Archived(s)
  <2>1. s.at = 0
    BY <1>3 DEF FileOK
  <2>2. t = [s EXCEPT !.files = G, !.at = -1]
    BY <1>1, <1>3, <2>1 DEF Archived, Moved
  <2>3. /\ old \in Seq(Nat) /\ Increasing(old)
        /\ ToSet(old) = Lines(s, 0) \cup (IF -1 \in DOMAIN F THEN Lines(s, -1) ELSE {})
    <3>1. F[0] \in Seq(Nat) /\ Increasing(F[0]) /\ Lines(s, 0) = ToSet(F[0])
      BY <1>1, <1>3 DEF FileOK, Sorts, Lines
    <3>2. CASE -1 \in DOMAIN F
      <4>1. F[-1] \in Seq(Nat) /\ Increasing(F[-1]) /\ Lines(s, -1) = ToSet(F[-1]) /\ Ahead(ToSet(F[-1]), ToSet(F[0]))
        BY <1>1, <1>3, <3>2 DEF FileOK, Sorts, Lines
      <4>2. old = F[-1] \o F[0]
        BY <3>2
      <4>3. old \in Seq(Nat) /\ ToSet(old) = ToSet(F[-1]) \cup ToSet(F[0]) /\ Increasing(old)
        BY <3>1, <4>1, <4>2, JoinIs
      <4> QED BY <3>1, <3>2, <4>1, <4>3
    <3>3. CASE -1 \notin DOMAIN F
      BY <3>1, <3>3
    <3> QED BY <3>2, <3>3
  <2>4. /\ DOMAIN G = (DOMAIN F \ {0}) \cup {-1} /\ G[-1] = old /\ \A f \in DOMAIN G : f # -1 => G[f] = F[f]
        /\ G = [f \in DOMAIN G |-> G[f]]
    OBVIOUS
  <2> HIDE DEF G, old, t
  <2>5. G \in FileMaps
    <3>1. \A f \in DOMAIN G : G[f] \in Seq(Nat)
      BY <1>1, <2>3, <2>4
    <3>2. DOMAIN G \subseteq Numbers
      BY <1>1, <2>4
    <3> QED BY <2>4, <3>1, <3>2, MapsAre
  <2>6. t \in LogFiles /\ t.files = G /\ t.at = -1 /\ t.buf = s.buf /\ t.format = s.format
    BY <1>1, <2>2, <2>5 DEF LogFiles
  <2>7. /\ Lines(t, -1) = Lines(s, 0) \cup (IF -1 \in DOMAIN F THEN Lines(s, -1) ELSE {})
        /\ \A f \in DOMAIN G : f # -1 => Lines(t, f) = Lines(s, f)
    BY <2>3, <2>4, <2>6 DEF Lines
  <2>8. Sorts(t)
    <3>1. ASSUME NEW f \in DOMAIN t.files PROVE Increasing(t.files[f]) /\ Ahead(Lines(t, f), ToSet(t.buf))
      <4>1. CASE f = -1
        <5>1. Increasing(t.files[f])
          BY <2>3, <2>4, <2>6, <4>1
        <5>2. Ahead(Lines(s, 0), ToSet(s.buf)) /\ (-1 \in DOMAIN F => Ahead(Lines(s, -1), ToSet(s.buf)))
          BY <1>3 DEF FileOK, Sorts
        <5> QED BY <2>6, <2>7, <4>1, <5>1, <5>2 DEF Ahead
      <4>2. CASE f # -1
        BY <2>4, <2>6, <2>7, <3>1, <4>2 DEF FileOK, Sorts
      <4> QED BY <4>1, <4>2
    <3>2. ASSUME NEW f \in DOMAIN t.files, NEW g \in DOMAIN t.files, f > g, g >= 0
          PROVE  Ahead(Lines(t, f), Lines(t, g))
      <4>1. f # -1 /\ g # -1 /\ f \in DOMAIN F /\ g \in DOMAIN F
        BY <1>1, <2>4, <2>6, <3>2
      <4> QED BY <2>6, <2>7, <3>2, <4>1 DEF FileOK, Sorts
    <3>3. ASSUME NEW f \in DOMAIN t.files, f >= 0, -1 \in DOMAIN t.files
          PROVE  Lines(t, -1) \cap Lines(t, f) = {} /\ (f = 0 => Ahead(Lines(t, -1), Lines(t, f)))
      <4>1. f # -1 /\ f # 0 /\ f \in DOMAIN F /\ f > 0
        BY <1>1, <2>4, <2>6, <3>3
      <4>2. Ahead(Lines(s, f), Lines(s, 0)) /\ (-1 \in DOMAIN F => Lines(s, -1) \cap Lines(s, f) = {})
        <5>1. Ahead(Lines(s, f), Lines(s, 0))
          BY <1>3, <3>3, <4>1 DEF FileOK, Sorts
        <5>2. -1 \in DOMAIN F => Lines(s, -1) \cap Lines(s, f) = {}
          BY <3>3, <4>1 DEF FileOK, Sorts
        <5> QED BY <5>1, <5>2
      <4>3. ASSUME NEW x \in Lines(s, f), x \in Lines(s, 0) PROVE FALSE
        <5>1. x < x /\ x \in Holds(s)
          BY <4>1, <4>2, <4>3, HeldIs DEF Ahead
        <5> QED BY <5>1, HeldIs
      <4>4. Lines(t, f) = Lines(s, f)
        BY <2>6, <2>7, <4>1
      <4> QED BY <2>7, <4>1, <4>2, <4>3, <4>4
    <3> QED BY <2>6, <3>1, <3>2, <3>3 DEF FileOK, Sorts
  <2>9. FileOK(t)
    <3>1. \A f \in DOMAIN t.files : f >= 0 => t.at <= f
      BY <1>1, <2>4, <2>6
    <3> QED BY <2>4, <2>6, <2>8, <3>1 DEF FileOK
  <2>10. Pushes(s, t, 0, 0)
    <3>1. ASSUME NEW f \in DOMAIN F, NEW x \in Lines(s, f)
          PROVE  \E h \in DOMAIN t.files : x \in Lines(t, h) /\ h <= f /\ (h = f \/ h = -1)
      <4>1. CASE f = 0 \/ f = -1
        <5>1. x \in Lines(t, -1) /\ -1 \in DOMAIN t.files /\ -1 <= f
          BY <2>4, <2>6, <2>7, <3>1, <4>1
        <5> QED BY <5>1
      <4>2. CASE f # 0 /\ f # -1
        <5>1. f \in DOMAIN t.files /\ x \in Lines(t, f) /\ f <= f
          BY <1>1, <2>4, <2>6, <2>7, <3>1, <4>2
        <5> QED BY <5>1
      <4> QED BY <4>1, <4>2
    <3>2. \A h \in DOMAIN t.files : h \in Int
      BY <1>1, <2>4, <2>6
    <3>3. ASSUME NEW x, NEW c \in Int, Within(s, x, c) PROVE Within(t, x, c)
      <4>1. PICK f \in DOMAIN F : f <= c /\ x \in Lines(s, f)
        BY <3>3 DEF Within
      <4>2. PICK h \in DOMAIN t.files : x \in Lines(t, h) /\ h <= f
        BY <3>1, <4>1
      <4>3. h <= c
        BY <1>1, <3>2, <4>1, <4>2
      <4> QED BY <4>2, <4>3 DEF Within
    <3>4. ASSUME NEW x, NEW k \in Nat, Newer(s, x, k) PROVE Newer(t, x, k)
      <4>1. CASE x \in ToSet(s.buf)
        BY <2>6, <4>1 DEF Newer
      <4>2. CASE x \notin ToSet(s.buf)
        <5>1. PICK f \in DOMAIN F : x \in Lines(s, f) /\ \A g \in DOMAIN F : g >= 0 /\ g < f => g < k
          BY <3>4, <4>2 DEF Newer
        <5>2. PICK h \in DOMAIN t.files : x \in Lines(t, h) /\ (h = f \/ h = -1)
          BY <3>1, <5>1
        <5>3. ASSUME NEW g \in DOMAIN t.files, g >= 0, g < h PROVE g < k
          <6>1. h = f /\ g \in DOMAIN F
            BY <1>1, <2>4, <2>6, <5>2, <5>3
          <6> QED BY <5>1, <5>3, <6>1
        <5> QED BY <5>2, <5>3 DEF Newer
      <4> QED BY <4>1, <4>2
    <3>5. -1 \in Int /\ \A c \in Nat : c \in Int /\ c + 0 = c
      OBVIOUS
    <3> QED BY <3>3, <3>4, <3>5 DEF Pushes, Ages
  <2>11. ASSUME NEW x \in Holds(t) PROVE x \in Holds(s)
    <3>1. CASE x \in ToSet(t.buf)
      BY <2>6, <3>1, HeldIs
    <3>2. CASE x \notin ToSet(t.buf)
      <4>1. PICK f \in DOMAIN t.files : x \in Lines(t, f)
        BY <2>9, <2>11, <3>2, HeldIs
      <4>2. \E g \in DOMAIN F : x \in Lines(s, g)
        BY <1>3, <2>4, <2>6, <2>7, <4>1
      <4> QED BY <4>2, HeldIs
    <3> QED BY <3>1, <3>2
  <2> QED BY <2>6, <2>9, <2>10, <2>11 DEF AtMost, t
<1> QED BY <1>2, <1>3

(* A process is killed: what was in its buffer is gone. *)
Emptied(s) == [s EXCEPT !.buf = <<>>]

LEMMA EmptiedIs ==
  ASSUME NEW s, FileOK(s), NEW n, AtMost(s, n)
  PROVE  LET t == Emptied(s)
         IN  FileOK(t) /\ AtMost(t, n) /\ t.format = s.format /\ t.buf = <<>> /\ Ages(s, t, 0)
<1> DEFINE t == Emptied(s)
<1>1. t = [s EXCEPT !.buf = <<>>] /\ s \in LogFiles
  BY DEF Emptied, FileOK
<1> HIDE DEF t
<1>2. t \in LogFiles /\ t.files = s.files /\ t.at = s.at /\ t.buf = <<>> /\ t.format = s.format
  BY <1>1, NoLines DEF LogFiles
<1>3. \A f : Lines(t, f) = Lines(s, f)
  BY <1>2 DEF Lines
<1>4. Sorts(t)
  <2>1. \A f \in DOMAIN t.files : Ahead(Lines(t, f), ToSet(t.buf))
    BY <1>2, NoLines DEF Ahead
  <2>2. Increasing(t.buf)
    BY <1>2, NoLines
  <2> QED BY <1>2, <1>3, <2>1, <2>2 DEF FileOK, Sorts
<1>5. FileOK(t)
  BY <1>2, <1>4, SameFilesOK
<1>6. \A x \in Holds(t) : x \in Holds(s)
  BY <1>2, <1>3, <1>5, HeldIs, NoLines
<1>7. Ages(s, t, 0)
  <2>1. \A x : \A c : Within(s, x, c) => Within(t, x, c)
    BY <1>2, <1>3 DEF Within
  <2>2. \A c \in Nat : c + 0 = c
    OBVIOUS
  <2> QED BY <2>1, <2>2 DEF Ages
<1> QED BY <1>2, <1>5, <1>6, <1>7 DEF AtMost, t

LEMMA AgesCompose ==
  ASSUME NEW s, NEW t, NEW u, NEW i \in Nat, NEW j \in Nat, Ages(s, t, i), Ages(t, u, j)
  PROVE  Ages(s, u, i + j)
<1>1. ASSUME NEW x, NEW c \in Nat, c + (i + j) <= KeepLogs, Within(s, x, c) PROVE Within(u, x, c + (i + j))
  <2>1. c + i \in Nat /\ c + i <= KeepLogs /\ (c + i) + j <= KeepLogs /\ (c + i) + j = c + (i + j)
    BY <1>1, SinksAssumption
  <2>2. Within(t, x, c + i)
    BY <1>1, <2>1 DEF Ages
  <2>3. Within(u, x, (c + i) + j)
    BY <2>1, <2>2 DEF Ages
  <2> QED BY <2>1, <2>3
<1>2. \A x : Within(s, x, -1) => Within(u, x, -1)
  BY DEF Ages
<1> QED BY <1>1, <1>2 DEF Ages

(* A rotation that is interrupted has pushed some generations by one. *)
LEMMA InterruptedIs ==
  ASSUME NEW s, FileOK(s), Len(text) \in Nat, AtMost(s, Len(text)), NEW n \in 0 .. KeepLogs + 1
  PROVE  LET t == Interrupted(s, n)
             told == IF n > 0 THEN 1 ELSE 0
         IN  FileOK(t) /\ AtMost(t, Len(text) + told) /\ t.format = s.format /\ Ages(s, t, told)
<1> DEFINE t == Interrupted(s, n)
           told == IF n > 0 THEN 1 ELSE 0
           L == Len(text)
           b == Buffered(s, L + 1, env)
           f == Flushed(b, env)
<1>1. KeepLogs \in Nat /\ n \in Nat /\ told \in Nat /\ L + told \in Nat /\ L <= L + told /\ 0 \in Nat
      /\ 0 <= told /\ L <= L /\ 0 + 0 = 0 /\ 0 + 1 = 1 /\ 1 \in Nat
  BY SinksAssumption
<1>2. CASE n = 0 \/ ~Interruptible(s)
  <2>1. t = s
    BY <1>2 DEF Interrupted
  <2>2. Turn(s, s, L, L, "good", 0, 0)
    BY StandsStill
  <2> DEFINE p == L + told
  <2>3. Turn(s, s, L, p, "good", told, told)
    <3>1. p \in Nat /\ L <= p /\ L \in Nat
      BY <1>1
    <3> HIDE DEF L, told, p
    <3> QED BY <1>1, <2>2, <3>1, NoMore
  <2> QED BY <2>1, <2>3 DEF Turn, Pushes
<1>3. CASE ~(n = 0 \/ ~Interruptible(s))
  <2> DEFINE m == KeepLogs - (n - 1)
  <2>1. told = 1 /\ n - 1 \in 0 .. KeepLogs /\ m \in 0 .. KeepLogs
    BY <1>1, <1>3
  <2>2. t = Shifted(f, n - 1)
    BY <1>3 DEF Interrupted
  <2>3. Turn(s, b, L, L + 1, "good", 0, 0)
    BY BufferedIs
  <2>4. FileOK(b) /\ AtMost(b, L + 1) /\ L + 1 \in Nat
    BY <2>3 DEF Turn
  <2> HIDE DEF b
  <2>5. Turn(b, f, L + 1, L + 1, "good", 0, 0)
    BY <2>4, FlushedIs
  <2>6. FileOK(f) /\ AtMost(f, L + 1)
    BY <2>5 DEF Turn
  <2> HIDE DEF f
  <2>7. t = Pushed(f, m)
    BY <2>1, <2>2, <2>6, ShiftedIs
  <2> HIDE DEF m
  <2>8. Turn(f, t, L + 1, L + 1, "good", 1, 1)
    BY <2>1, <2>4, <2>6, <2>7, PushedTurns
  <2> HIDE DEF t, told
  <2>9. Ages(s, b, 0) /\ Ages(b, f, 0) /\ Ages(f, t, 1)
    BY <2>3, <2>5, <2>8 DEF Turn, Pushes
  <2>10. Ages(s, f, 0 + 0)
    BY <1>1, <2>9, AgesCompose
  <2>11. Ages(s, f, 0)
    BY <1>1, <2>10
  <2>12. Ages(s, t, 0 + 1)
    BY <1>1, <2>9, <2>11, AgesCompose
  <2> QED BY <1>1, <2>1, <2>3, <2>5, <2>8, <2>12 DEF Turn, t
<1> QED BY <1>2, <1>3

(* The process that is started finds what the disk has. *)
LEMMA RestartedIs ==
  ASSUME NEW s, FileOK(s), Len(text) \in Nat, AtMost(s, Len(text)), NEW n \in 0 .. KeepLogs + 1, env.dir \in Dirs
  PROVE  LET t == ReopenFile(Emptied(Interrupted(s, n)), env).sink
             told == IF n > 0 THEN 1 ELSE 0
         IN  FileOK(t) /\ AtMost(t, Len(text) + told) /\ t.format = s.format /\ Ages(s, t, told) /\ t.buf = <<>>
<1> DEFINE u == Interrupted(s, n)
           v == Emptied(u)
           t == ReopenFile(v, env).sink
           told == IF n > 0 THEN 1 ELSE 0
           m == Len(text) + told
<1>1. told \in Nat /\ m \in Nat /\ told + 0 = told /\ 0 \in Nat
  BY SinksAssumption
<1>2. FileOK(u) /\ AtMost(u, m) /\ u.format = s.format /\ Ages(s, u, told)
  BY InterruptedIs
<1> HIDE DEF u, m, told
<1>3. FileOK(v) /\ AtMost(v, m) /\ v.format = u.format /\ v.buf = <<>> /\ Ages(u, v, 0)
  BY <1>2, EmptiedIs
<1> HIDE DEF v
<1>4. Turn(v, t, m, m, env.dir, 0, 1) /\ Ages(v, t, 0) /\ t.buf = <<>>
  BY <1>1, <1>3, ReopenedIs
<1> HIDE DEF t
<1>5. Ages(s, v, told + 0)
  BY <1>1, <1>2, <1>3, AgesCompose
<1>6. Ages(s, t, told + 0)
  BY <1>1, <1>4, <1>5, AgesCompose
<1> QED BY <1>1, <1>2, <1>3, <1>4, <1>6 DEF Turn, t, v, u, m, told

-----------------------------------------------------------------------------
(* The other sinks have the lines they were given in order. *)
Conns == {"live", "stale", "none"}
Streams == [kind : {"stdout", "tcp", "udp"}, format : Formats, got : Seq(Nat), conn : Conns]
StreamOK(s, n) == s \in Streams /\ Increasing(s.got) /\ \A x \in ToSet(s.got) : x <= n

SinkOK(s, n) == IF s.kind = "file" THEN FileOK(s) /\ AtMost(s, n) ELSE StreamOK(s, n)

(* What a sink may do in a turn, of whatever kind it is. *)
Moves(s, t, n, m, dir, j, b) ==
  /\ t.kind = s.kind /\ t.format = s.format
  /\ s.kind = "file" => Turn(s, t, n, m, dir, j, b)
  /\ s.kind # "file" => StreamOK(t, m) /\ ToSet(s.got) \subseteq ToSet(t.got)

LEMMA MovesOK ==
  ASSUME NEW s, NEW t, NEW n, NEW m, NEW dir, NEW j, NEW b, Moves(s, t, n, m, dir, j, b)
  PROVE  SinkOK(t, m)
BY DEF Moves, SinkOK, Turn

LEMMA MovesCompose ==
  ASSUME NEW s, NEW t, NEW u, NEW n \in Nat, NEW m \in Nat, NEW p \in Nat, n <= m, NEW dir,
         SinkOK(s, n), NEW i \in Nat, NEW b \in Nat, NEW j \in Nat, NEW d \in Nat,
         Moves(s, t, n, m, dir, i, b), Moves(t, u, m, p, dir, j, d)
  PROVE  Moves(s, u, n, p, dir, i + j, b + d)
<1>1. CASE s.kind = "file"
  <2>1. FileOK(s) /\ AtMost(s, n) /\ Turn(s, t, n, m, dir, i, b) /\ Turn(t, u, m, p, dir, j, d)
    BY <1>1 DEF SinkOK, Moves
  <2>2. Turn(s, u, n, p, dir, i + j, b + d)
    BY <2>1, TurnsCompose
  <2> QED BY <1>1, <2>2 DEF Moves
<1>2. CASE s.kind # "file"
  BY <1>2 DEF Moves
<1> QED BY <1>1, <1>2

LEMMA StreamsAre ==
  ASSUME NEW s, NEW n, SinkOK(s, n), s.kind # "file"
  PROVE  /\ s \in Streams /\ s.kind \in {"stdout", "tcp", "udp"} /\ s.conn \in Conns /\ s.got \in Seq(Nat)
         /\ Increasing(s.got) /\ \A x \in ToSet(s.got) : x <= n /\ x \in Nat
<1>1. s \in Streams /\ Increasing(s.got) /\ \A x \in ToSet(s.got) : x <= n
  BY DEF SinkOK, StreamOK
<1>2. s.got \in Seq(Nat)
  BY <1>1 DEF Streams
<1>3. \A x \in ToSet(s.got) : x \in Nat
  BY <1>2 DEF ToSet
<1> QED BY <1>1, <1>2, <1>3 DEF Streams

LEMMA MovesNot ==
  ASSUME NEW s, NEW n \in Nat, NEW m \in Nat, n <= m, SinkOK(s, n), NEW dir, NEW j \in Nat, NEW b \in Nat
  PROVE  Moves(s, s, n, m, dir, j, b)
<1>1. CASE s.kind = "file"
  <2>1. FileOK(s) /\ AtMost(s, n)
    BY <1>1 DEF SinkOK
  <2>2. Turn(s, s, n, n, dir, 0, 0)
    BY <2>1, StandsStill
  <2>3. 0 \in Nat /\ 0 <= j /\ 0 <= b
    OBVIOUS
  <2>4. Turn(s, s, n, m, dir, j, b)
    BY <2>1, <2>2, <2>3, NoMore
  <2> QED BY <1>1, <2>4 DEF Moves
<1>2. CASE s.kind # "file"
  <2>1. \A x \in ToSet(s.got) : x <= m
    <3>1. \A x \in ToSet(s.got) : x <= n /\ x \in Nat
      BY <1>2, StreamsAre
    <3> QED BY <3>1
  <2> QED BY <1>2, <2>1, StreamsAre DEF Moves, StreamOK
<1> QED BY <1>1, <1>2

(* One more line of a stream. *)
OneLineMore(s, c, n) == [s EXCEPT !.conn = c, !.got = Append(@, n)]

LEMMA GotOneMore ==
  ASSUME NEW s, NEW n \in Nat, SinkOK(s, n), s.kind # "file", NEW t, NEW c \in Conns, t = OneLineMore(s, c, n + 1)
  PROVE  /\ t.kind = s.kind /\ t.format = s.format /\ t.conn = c
         /\ StreamOK(t, n + 1) /\ ToSet(s.got) \subseteq ToSet(t.got) /\ n + 1 \in ToSet(t.got)
<1>1. /\ s \in Streams /\ s.got \in Seq(Nat) /\ Increasing(s.got) /\ n + 1 \in Nat
      /\ \A x \in ToSet(s.got) : x <= n /\ x \in Nat
  BY StreamsAre
<1> DEFINE q == Append(s.got, n + 1)
<1>2. q \in Seq(Nat) /\ ToSet(q) = ToSet(s.got) \cup {n + 1} /\ Increasing(q)
  <2>1. \A x \in ToSet(s.got) : x < n + 1
    BY <1>1
  <2> QED BY <1>1, <2>1, OneMoreIs
<1>3. t = [s EXCEPT !.conn = c, !.got = q]
  BY DEF OneLineMore
<1> HIDE DEF q
<1>4. t \in Streams /\ t.kind = s.kind /\ t.format = s.format /\ t.conn = c /\ t.got = q
  BY <1>1, <1>2, <1>3 DEF Streams
<1>5. \A x \in ToSet(q) : x <= n + 1
  BY <1>1, <1>2
<1> QED BY <1>2, <1>4, <1>5 DEF StreamOK

LEMMA Reconnected ==
  ASSUME NEW s, NEW n, SinkOK(s, n), s.kind # "file", NEW t, NEW c \in Conns, t = [s EXCEPT !.conn = c]
  PROVE  /\ t.kind = s.kind /\ t.format = s.format /\ t.conn = c /\ t.got = s.got
         /\ StreamOK(t, n)
<1>1. s \in Streams
  BY StreamsAre
<1>2. t \in Streams /\ t.kind = s.kind /\ t.format = s.format /\ t.conn = c /\ t.got = s.got
  BY <1>1 DEF Streams
<1> QED BY <1>2, StreamsAre DEF StreamOK

(* A line emitted is had, or the failure shows. *)
Delivered(s, t, ok, n, e) ==
  CASE s.kind = "file" -> ok => n \in Holds(t) \/ e.dir = "readonly" \/ KeepLogs = 0
    [] s.kind = "stdout" -> n \in ToSet(t.got)
    [] s.kind = "udp" -> n \in ToSet(t.got) \/ ~e.collector
    [] s.kind = "tcp" ->
         /\ n \in ToSet(t.got) \/ (~ok /\ t.conn = "none") \/ (ok /\ s.conn = "stale" /\ t.conn = "stale")
         /\ t.conn = "stale" => s.conn = "stale" /\ ok

LEMMA EmitTcpIs ==
  ASSUME NEW s, NEW n \in Nat, SinkOK(s, n), s.kind = "tcp", NEW e, e.silent \in BOOLEAN
  PROVE  LET r == EmitTcp(s, n + 1, e)
         IN  /\ r.sink.kind = s.kind /\ r.sink.format = s.format
             /\ StreamOK(r.sink, n + 1) /\ ToSet(s.got) \subseteq ToSet(r.sink.got)
             /\ \/ n + 1 \in ToSet(r.sink.got) /\ r.sink.conn = "live"
                \/ ~r.ok /\ r.sink.conn = "none"
                \/ r.ok /\ s.conn = "stale" /\ r.sink.conn = "stale"
<1> DEFINE r == EmitTcp(s, n + 1, e)
           conn == IF s.conn = "none" /\ e.collector THEN "live" ELSE s.conn
<1>0. s.kind # "file"
  OBVIOUS
<1>1. s.conn \in Conns /\ \A x \in ToSet(s.got) : x <= n + 1
  <2>1. s.conn \in Conns /\ \A x \in ToSet(s.got) : x <= n /\ x \in Nat
    BY <1>0, StreamsAre
  <2> QED BY <2>1
<1>2. StreamOK(s, n + 1)
  BY <1>0, <1>1, StreamsAre DEF StreamOK
<1>3. CASE conn = "live"
  <2>1. r.sink = OneLineMore(s, "live", n + 1)
    BY <1>3 DEF EmitTcp, Result, OneLineMore
  <2> HIDE DEF r
  <2>2. "live" \in Conns
    BY DEF Conns
  <2> QED BY <1>0, <2>1, <2>2, GotOneMore DEF r
<1>4. CASE conn = "stale"
  <2> DEFINE c == IF e.silent THEN s.conn ELSE "none"
  <2>1. r.sink = [s EXCEPT !.conn = c] /\ r.ok = e.silent /\ s.conn = "stale"
    BY <1>4 DEF EmitTcp, Result
  <2>2. c \in Conns /\ (e.silent => c = "stale") /\ (~e.silent => c = "none")
    BY <1>1, <2>1 DEF Conns
  <2> HIDE DEF r, c
  <2>3. /\ r.sink.kind = s.kind /\ r.sink.format = s.format /\ r.sink.conn = c /\ r.sink.got = s.got
        /\ StreamOK(r.sink, n)
    BY <1>0, <2>1, <2>2, Reconnected
  <2>4. StreamOK(r.sink, n + 1)
    BY <1>1, <2>3 DEF StreamOK
  <2> QED BY <2>1, <2>2, <2>3, <2>4 DEF r
<1>5. CASE conn = "none"
  <2>1. r.sink = s /\ r.ok = FALSE /\ s.conn = "none"
    BY <1>5 DEF EmitTcp, Result
  <2> QED BY <1>2, <2>1
<1> QED BY <1>1, <1>3, <1>4, <1>5 DEF Conns

LEMMA EmitLineIs ==
  ASSUME NEW s, NEW n \in Nat, SinkOK(s, n), NEW e, e.dir \in Dirs, e.silent \in BOOLEAN
  PROVE  LET r == EmitLine(s, n + 1, e)
         IN  Moves(s, r.sink, n, n + 1, e.dir, 1, 1) /\ Delivered(s, r.sink, r.ok, n + 1, e)
<1> DEFINE r == EmitLine(s, n + 1, e)
<1>1. CASE s.kind = "file"
  <2>1. r = EmitFile(s, n + 1, e)
    BY <1>1 DEF EmitLine
  <2>2. FileOK(s) /\ AtMost(s, n) /\ s.kind = "file"
    BY <1>1 DEF SinkOK
  <2> HIDE DEF r
  <2>3. Turn(s, r.sink, n, n + 1, e.dir, 1, 1) /\ (r.ok => n + 1 \in Holds(r.sink) \/ e.dir = "readonly" \/ KeepLogs = 0)
    BY <2>1, <2>2, EmitFileIs
  <2>4. FileOK(r.sink) /\ r.sink.format = s.format
    BY <2>3 DEF Turn
  <2>5. r.sink.kind = "file"
    BY <2>4, FilesAre DEF FileOK
  <2> QED BY <1>1, <2>3, <2>4, <2>5 DEF Moves, Delivered, r
<1>2. CASE s.kind = "tcp"
  <2>1. r = EmitTcp(s, n + 1, e)
    BY <1>2 DEF EmitLine
  <2> HIDE DEF r
  <2>2. /\ r.sink.kind = s.kind /\ r.sink.format = s.format
        /\ StreamOK(r.sink, n + 1) /\ ToSet(s.got) \subseteq ToSet(r.sink.got)
        /\ \/ n + 1 \in ToSet(r.sink.got) /\ r.sink.conn = "live"
           \/ ~r.ok /\ r.sink.conn = "none"
           \/ r.ok /\ s.conn = "stale" /\ r.sink.conn = "stale"
    BY <1>2, <2>1, EmitTcpIs
  <2> QED BY <1>2, <2>2 DEF Moves, Delivered, r
<1>3. CASE s.kind = "udp"
  <2>0. s.kind # "file" /\ s.conn \in Conns
    BY <1>3, StreamsAre
  <2>1. CASE e.collector
    <3>1. r.sink = [s EXCEPT !.got = Append(s.got, n + 1)]
      BY <1>3, <2>1 DEF EmitLine, Result
    <3>2. r.sink = OneLineMore(s, s.conn, n + 1)
      <4>1. s \in Streams
        BY <2>0, StreamsAre
      <4> DEFINE q == Append(s.got, n + 1)
      <4>2. r.sink = [s EXCEPT !.got = q]
        BY <3>1
      <4> HIDE DEF q, r
      <4>3. r.sink = [s EXCEPT !.conn = s.conn, !.got = q]
        BY <4>1, <4>2 DEF Streams
      <4> QED BY <4>3 DEF q, OneLineMore
    <3> HIDE DEF r
    <3>3. /\ r.sink.kind = s.kind /\ r.sink.format = s.format
          /\ StreamOK(r.sink, n + 1) /\ ToSet(s.got) \subseteq ToSet(r.sink.got) /\ n + 1 \in ToSet(r.sink.got)
      BY <2>0, <3>2, GotOneMore
    <3> QED BY <1>3, <3>3 DEF Moves, Delivered, r
  <2>2. CASE ~e.collector
    <3>1. r.sink = s
      BY <1>3, <2>2 DEF EmitLine, Result
    <3>2. n <= n + 1 /\ n + 1 \in Nat /\ 1 \in Nat
      OBVIOUS
    <3>3. Moves(s, s, n, n + 1, e.dir, 1, 1)
      BY <3>2, MovesNot
    <3> QED BY <1>3, <2>2, <3>1, <3>3 DEF Delivered
  <2> QED BY <2>1, <2>2
<1>4. CASE s.kind = "stdout"
  <2>0. s.kind # "file" /\ s.conn \in Conns /\ s \in Streams
    BY <1>4, StreamsAre
  <2> DEFINE q == Append(s.got, n + 1)
  <2>1. r.sink = [s EXCEPT !.got = q]
    BY <1>4 DEF EmitLine, Result
  <2>2. r.sink = OneLineMore(s, s.conn, n + 1)
    <3> HIDE DEF q, r
    <3>1. r.sink = [s EXCEPT !.conn = s.conn, !.got = q]
      BY <2>0, <2>1 DEF Streams
    <3> QED BY <3>1 DEF q, OneLineMore
  <2> HIDE DEF r, q
  <2>3. /\ r.sink.kind = s.kind /\ r.sink.format = s.format
        /\ StreamOK(r.sink, n + 1) /\ ToSet(s.got) \subseteq ToSet(r.sink.got) /\ n + 1 \in ToSet(r.sink.got)
    BY <2>0, <2>2, GotOneMore
  <2> QED BY <1>4, <2>3 DEF Moves, Delivered, r
<1>5. s.kind = "file" \/ s.kind \in {"stdout", "tcp", "udp"}
  BY StreamsAre
<1> QED BY <1>1, <1>2, <1>3, <1>4, <1>5

-----------------------------------------------------------------------------
(* All the sinks of an output. *)
IsOutput(o, n) ==
  /\ o = [sinks |-> o.sinks, errors |-> o.errors] /\ DOMAIN o.errors = DOMAIN o.sinks
  /\ \A i \in DOMAIN o.sinks : o.errors[i] \in Nat /\ SinkOK(o.sinks[i], n)

AllMove(o, p, n, m, dir, j, b) ==
  /\ DOMAIN p.sinks = DOMAIN o.sinks
  /\ \A i \in DOMAIN o.sinks : Moves(o.sinks[i], p.sinks[i], n, m, dir, j, b)

LEMMA AllCompose ==
  ASSUME NEW o, NEW p, NEW q, NEW n \in Nat, NEW m \in Nat, NEW k \in Nat, n <= m, NEW dir,
         IsOutput(o, n), NEW i \in Nat, NEW b \in Nat, NEW j \in Nat, NEW d \in Nat,
         AllMove(o, p, n, m, dir, i, b), AllMove(p, q, m, k, dir, j, d)
  PROVE  AllMove(o, q, n, k, dir, i + j, b + d)
<1>1. ASSUME NEW x \in DOMAIN o.sinks PROVE Moves(o.sinks[x], q.sinks[x], n, k, dir, i + j, b + d)
  <2>1. SinkOK(o.sinks[x], n) /\ Moves(o.sinks[x], p.sinks[x], n, m, dir, i, b) /\ Moves(p.sinks[x], q.sinks[x], m, k, dir, j, d)
    BY DEF IsOutput, AllMove
  <2> QED BY <2>1, MovesCompose
<1> QED BY <1>1 DEF AllMove

(* A write to some of the sinks. *)
ToldSome(o, p, wanting, n, e) ==
  \A i \in DOMAIN o.sinks :
    IF i \in wanting
    THEN \E ok : /\ Delivered(o.sinks[i], p.sinks[i], ok, n, e)
                 /\ p.errors[i] = o.errors[i] + IF ok THEN 0 ELSE 1
    ELSE p.sinks[i] = o.sinks[i] /\ p.errors[i] = o.errors[i]

LEMMA ToSinksIs ==
  ASSUME NEW o, NEW n \in Nat, IsOutput(o, n), NEW wanting, NEW e, e.dir \in Dirs, e.silent \in BOOLEAN,
         NEW p, p = ToSinks(o, wanting, n + 1, e)
  PROVE  IsOutput(p, n + 1) /\ AllMove(o, p, n, n + 1, e.dir, 1, 1) /\ ToldSome(o, p, wanting, n + 1, e)
<1> DEFINE r(i) == EmitLine(o.sinks[i], n + 1, e)
<1>1. /\ p = [sinks |-> p.sinks, errors |-> p.errors]
      /\ DOMAIN p.sinks = DOMAIN o.sinks /\ DOMAIN p.errors = DOMAIN o.sinks
      /\ \A i \in DOMAIN o.sinks :
           /\ p.sinks[i] = IF i \in wanting THEN r(i).sink ELSE o.sinks[i]
           /\ p.errors[i] = o.errors[i] + IF i \in wanting /\ ~r(i).ok THEN 1 ELSE 0
  BY DEF ToSinks
<1>2. \A i \in DOMAIN o.sinks : o.errors[i] \in Nat /\ SinkOK(o.sinks[i], n)
  BY DEF IsOutput
<1>3. ASSUME NEW i \in DOMAIN o.sinks
      PROVE  /\ Moves(o.sinks[i], p.sinks[i], n, n + 1, e.dir, 1, 1) /\ p.errors[i] \in Nat
             /\ IF i \in wanting
                THEN \E ok : /\ Delivered(o.sinks[i], p.sinks[i], ok, n + 1, e)
                             /\ p.errors[i] = o.errors[i] + IF ok THEN 0 ELSE 1
                ELSE p.sinks[i] = o.sinks[i] /\ p.errors[i] = o.errors[i]
  <2>1. CASE i \in wanting
    <3>1. /\ Moves(o.sinks[i], r(i).sink, n, n + 1, e.dir, 1, 1)
          /\ Delivered(o.sinks[i], r(i).sink, r(i).ok, n + 1, e)
      BY <1>2, EmitLineIs
    <3>2. p.sinks[i] = r(i).sink /\ p.errors[i] = o.errors[i] + IF r(i).ok THEN 0 ELSE 1
      BY <1>1, <2>1
    <3> HIDE DEF r
    <3>3. p.errors[i] \in Nat
      BY <1>2, <3>2
    <3> QED BY <2>1, <3>1, <3>2, <3>3
  <2>2. CASE i \notin wanting
    <3>1. p.sinks[i] = o.sinks[i] /\ p.errors[i] = o.errors[i]
      BY <1>1, <1>2, <2>2
    <3>2. n <= n + 1 /\ n + 1 \in Nat /\ 1 \in Nat
      OBVIOUS
    <3>3. Moves(o.sinks[i], o.sinks[i], n, n + 1, e.dir, 1, 1)
      BY <1>2, <3>2, MovesNot
    <3> QED BY <1>2, <2>2, <3>1, <3>3
  <2> QED BY <2>1, <2>2
<1>4. \A i \in DOMAIN o.sinks : SinkOK(p.sinks[i], n + 1)
  BY <1>3, MovesOK
<1> QED BY <1>1, <1>3, <1>4 DEF IsOutput, AllMove, ToldSome

(* What is done to the files alone. *)
LEMMA OnlyFiles ==
  ASSUME NEW o, NEW n \in Nat, IsOutput(o, n), NEW p, NEW dir, NEW b \in Nat, NEW G, DOMAIN G = DOMAIN o.sinks,
         p = [o EXCEPT !.sinks = G],
         \A i \in DOMAIN o.sinks :
           IF o.sinks[i].kind = "file" THEN Turn(o.sinks[i], G[i], n, n, dir, 0, b) ELSE G[i] = o.sinks[i]
  PROVE  /\ IsOutput(p, n) /\ AllMove(o, p, n, n, dir, 0, b) /\ p.errors = o.errors /\ p.sinks = G
<1>1. \A i \in DOMAIN o.sinks : o.errors[i] \in Nat /\ SinkOK(o.sinks[i], n)
  BY DEF IsOutput
<1>2. p.sinks = G /\ p.errors = o.errors /\ p = [sinks |-> p.sinks, errors |-> p.errors]
  <2> DEFINE S == o.sinks
             E == o.errors
  <2>1. o = [sinks |-> S, errors |-> E]
    BY DEF IsOutput
  <2> HIDE DEF S, E
  <2>2. o \in [sinks : {S}, errors : {E}]
    BY <2>1
  <2>3. p = [sinks |-> G, errors |-> E]
    BY <2>1, <2>2
  <2>4. p.sinks = G /\ p.errors = E
    BY <2>3
  <2> QED BY <2>3, <2>4 DEF E
<1>3. ASSUME NEW i \in DOMAIN o.sinks PROVE Moves(o.sinks[i], G[i], n, n, dir, 0, b)
  <2>1. CASE o.sinks[i].kind = "file"
    <3>1. Turn(o.sinks[i], G[i], n, n, dir, 0, b)
      BY <2>1
    <3>2. FileOK(G[i]) /\ G[i].format = o.sinks[i].format
      BY <3>1 DEF Turn
    <3>3. G[i].kind = "file"
      BY <3>2, FilesAre DEF FileOK
    <3> QED BY <2>1, <3>1, <3>2, <3>3 DEF Moves
  <2>2. CASE o.sinks[i].kind # "file"
    <3>1. n <= n /\ 0 \in Nat
      OBVIOUS
    <3>2. Moves(o.sinks[i], o.sinks[i], n, n, dir, 0, b)
      BY <1>1, <3>1, MovesNot
    <3> QED BY <2>2, <3>2
  <2> QED BY <2>1, <2>2
<1>4. \A i \in DOMAIN o.sinks : SinkOK(G[i], n)
  BY <1>3, MovesOK
<1>5. IsOutput(p, n)
  BY <1>1, <1>2, <1>4 DEF IsOutput
<1> QED BY <1>2, <1>3, <1>5 DEF AllMove

LEMMA FlushAllIs ==
  ASSUME NEW o, NEW n \in Nat, IsOutput(o, n), NEW e, NEW dir
  PROVE  LET p == FlushAll(o, e) IN IsOutput(p, n) /\ AllMove(o, p, n, n, dir, 0, 0) /\ p.errors = o.errors
<1> DEFINE p == FlushAll(o, e)
           G == [i \in DOMAIN o.sinks |-> IF o.sinks[i].kind = "file" THEN Flushed(o.sinks[i], e) ELSE o.sinks[i]]
<1>1. p = [o EXCEPT !.sinks = G] /\ DOMAIN G = DOMAIN o.sinks
  BY DEF FlushAll
<1>2. ASSUME NEW i \in DOMAIN o.sinks
      PROVE  IF o.sinks[i].kind = "file" THEN Turn(o.sinks[i], G[i], n, n, dir, 0, 0) ELSE G[i] = o.sinks[i]
  <2>1. CASE o.sinks[i].kind = "file"
    <3>1. FileOK(o.sinks[i]) /\ AtMost(o.sinks[i], n)
      BY <2>1 DEF IsOutput, SinkOK
    <3>2. Turn(o.sinks[i], Flushed(o.sinks[i], e), n, n, dir, 0, 0)
      BY <3>1, FlushedIs
    <3> QED BY <2>1, <3>2
  <2>2. CASE o.sinks[i].kind # "file"
    BY <2>2
  <2> QED BY <2>1, <2>2
<1> HIDE DEF p, G
<1>3. 0 \in Nat
  OBVIOUS
<1> QED BY <1>1, <1>2, <1>3, OnlyFiles DEF p

LEMMA ReopenAllIs ==
  ASSUME NEW o, NEW n \in Nat, IsOutput(o, n), NEW e, e.dir \in Dirs
  PROVE  LET p == ReopenAll(o, e)
         IN  /\ IsOutput(p, n) /\ AllMove(o, p, n, n, e.dir, 0, 1) /\ p.errors = o.errors
             /\ \A i \in DOMAIN o.sinks : o.sinks[i].kind # "file" => p.sinks[i] = o.sinks[i]
<1> DEFINE p == ReopenAll(o, e)
           G == [i \in DOMAIN o.sinks |-> IF o.sinks[i].kind = "file" THEN ReopenFile(o.sinks[i], e).sink ELSE o.sinks[i]]
<1>1. p = [o EXCEPT !.sinks = G] /\ DOMAIN G = DOMAIN o.sinks
  BY DEF ReopenAll
<1>2. ASSUME NEW i \in DOMAIN o.sinks
      PROVE  IF o.sinks[i].kind = "file" THEN Turn(o.sinks[i], G[i], n, n, e.dir, 0, 1) ELSE G[i] = o.sinks[i]
  <2>1. CASE o.sinks[i].kind = "file"
    <3>1. FileOK(o.sinks[i]) /\ AtMost(o.sinks[i], n)
      BY <2>1 DEF IsOutput, SinkOK
    <3>2. Turn(o.sinks[i], ReopenFile(o.sinks[i], e).sink, n, n, e.dir, 0, 1)
      BY <3>1, ReopenedIs
    <3> QED BY <2>1, <3>2
  <2>2. CASE o.sinks[i].kind # "file"
    BY <2>2
  <2> QED BY <2>1, <2>2
<1> HIDE DEF p, G
<1>3. 1 \in Nat
  OBVIOUS
<1>4. IsOutput(p, n) /\ AllMove(o, p, n, n, e.dir, 0, 1) /\ p.errors = o.errors /\ p.sinks = G
  BY <1>1, <1>2, <1>3, OnlyFiles
<1> QED BY <1>2, <1>4 DEF p

LEMMA AllArchivedIs ==
  ASSUME NEW o, NEW n \in Nat, IsOutput(o, n), NEW p,
         p = [o EXCEPT !.sinks = [i \in DOMAIN @ |-> Archived(@[i])]]
  PROVE  IsOutput(p, n) /\ AllMove(o, p, n, n, "good", 0, 0) /\ p.errors = o.errors
<1> DEFINE G == [i \in DOMAIN o.sinks |-> Archived(o.sinks[i])]
<1>1. p = [o EXCEPT !.sinks = G] /\ DOMAIN G = DOMAIN o.sinks
  OBVIOUS
<1>2. ASSUME NEW i \in DOMAIN o.sinks
      PROVE  IF o.sinks[i].kind = "file" THEN Turn(o.sinks[i], G[i], n, n, "good", 0, 0) ELSE G[i] = o.sinks[i]
  <2>1. CASE o.sinks[i].kind = "file"
    <3>1. FileOK(o.sinks[i]) /\ AtMost(o.sinks[i], n)
      BY <2>1 DEF IsOutput, SinkOK
    <3> DEFINE s == o.sinks[i]
               t == Archived(s)
    <3>2. FileOK(t) /\ AtMost(t, n) /\ t.format = s.format /\ t.buf = s.buf /\ Pushes(s, t, 0, 0)
      BY <3>1, ArchivedIs
    <3>3. Turn(s, t, n, n, "good", 0, 0)
      <4> HIDE DEF s, t
      <4> QED BY <3>2 DEF Turn
    <3> QED BY <2>1, <3>3
  <2>2. CASE o.sinks[i].kind # "file"
    BY <2>2 DEF Archived
  <2> QED BY <2>1, <2>2
<1> HIDE DEF G
<1>3. 0 \in Nat
  OBVIOUS
<1> QED BY <1>1, <1>2, <1>3, OnlyFiles

(* The collector goes, or comes back. *)
LEMMA AllStaleIs ==
  ASSUME NEW o, NEW n \in Nat, IsOutput(o, n), NEW p, NEW dir,
         p = [o EXCEPT !.sinks = [i \in DOMAIN @ |->
                IF @[i].kind = "tcp" /\ @[i].conn = "live" THEN [@[i] EXCEPT !.conn = "stale"] ELSE @[i]]]
  PROVE  IsOutput(p, n) /\ AllMove(o, p, n, n, dir, 0, 0) /\ p.errors = o.errors
<1> DEFINE G == [i \in DOMAIN o.sinks |->
                  IF o.sinks[i].kind = "tcp" /\ o.sinks[i].conn = "live" THEN [o.sinks[i] EXCEPT !.conn = "stale"]
                  ELSE o.sinks[i]]
<1>1. p = [o EXCEPT !.sinks = G] /\ DOMAIN G = DOMAIN o.sinks
  OBVIOUS
<1>2. \A i \in DOMAIN o.sinks : o.errors[i] \in Nat /\ SinkOK(o.sinks[i], n)
  BY DEF IsOutput
<1>3. ASSUME NEW i \in DOMAIN o.sinks PROVE Moves(o.sinks[i], G[i], n, n, dir, 0, 0)
  <2> DEFINE s == o.sinks[i]
             t == G[i]
  <2>1. CASE s.kind = "tcp" /\ s.conn = "live"
    <3>1. t = [s EXCEPT !.conn = "stale"] /\ "stale" \in Conns /\ s.kind # "file" /\ SinkOK(s, n)
      BY <1>2, <2>1 DEF Conns
    <3> HIDE DEF s, t
    <3>2. t.kind = s.kind /\ t.format = s.format /\ t.got = s.got /\ StreamOK(t, n)
      BY <3>1, Reconnected
    <3>3. Moves(s, t, n, n, dir, 0, 0)
      BY <3>1, <3>2 DEF Moves
    <3> QED BY <3>3 DEF s, t
  <2>2. CASE ~(s.kind = "tcp" /\ s.conn = "live")
    <3>1. t = s /\ n <= n /\ 0 \in Nat /\ SinkOK(s, n)
      BY <1>2, <2>2
    <3> HIDE DEF s, t
    <3>2. Moves(s, s, n, n, dir, 0, 0)
      BY <3>1, MovesNot
    <3> QED BY <3>1, <3>2 DEF s, t
  <2> QED BY <2>1, <2>2
<1> HIDE DEF G
<1>4. p.sinks = G /\ p.errors = o.errors /\ p = [sinks |-> p.sinks, errors |-> p.errors]
  <2> DEFINE S == o.sinks
             E == o.errors
  <2>1. o = [sinks |-> S, errors |-> E]
    BY DEF IsOutput
  <2> HIDE DEF S, E
  <2>2. o \in [sinks : {S}, errors : {E}] /\ p = [o EXCEPT !.sinks = G]
    BY <1>1, <2>1
  <2>3. p = [sinks |-> G, errors |-> E]
    BY <2>1, <2>2
  <2>4. p.sinks = G /\ p.errors = E
    BY <2>3
  <2> QED BY <2>3, <2>4 DEF E
<1>5. \A i \in DOMAIN o.sinks : SinkOK(G[i], n)
  BY <1>3, MovesOK
<1> QED BY <1>1, <1>2, <1>3, <1>4, <1>5 DEF AllMove, IsOutput

LEMMA AllMoveMore ==
  ASSUME NEW o, NEW p, NEW n \in Nat, NEW m \in Nat, NEW dir, IsOutput(o, n), NEW j \in Nat, NEW b \in Nat,
         AllMove(o, p, n, m, dir, j, b), NEW i \in Nat, NEW d \in Nat, j <= i, b <= d
  PROVE  AllMove(o, p, n, m, dir, i, d)
<1>1. ASSUME NEW x \in DOMAIN o.sinks PROVE Moves(o.sinks[x], p.sinks[x], n, m, dir, i, d)
  <2> DEFINE s == o.sinks[x]
             t == p.sinks[x]
  <2>1. SinkOK(s, n) /\ Moves(s, t, n, m, dir, j, b) /\ m <= m
    BY DEF IsOutput, AllMove
  <2> HIDE DEF s, t
  <2>2. CASE s.kind = "file"
    <3>1. FileOK(s) /\ Turn(s, t, n, m, dir, j, b)
      BY <2>1, <2>2 DEF SinkOK, Moves
    <3>2. Turn(s, t, n, m, dir, i, d)
      BY <2>1, <3>1, NoMore
    <3> QED BY <2>1, <2>2, <3>2 DEF Moves, s, t
  <2>3. CASE s.kind # "file"
    BY <2>1, <2>3 DEF Moves, s, t
  <2> QED BY <2>2, <2>3
<1> QED BY <1>1 DEF AllMove

-----------------------------------------------------------------------------
(* Between steps: every sink is in order, its buffer is of this process,   *)
(* and standard output has all it was told.                                *)
Environments == [disk : BOOLEAN, dir : Dirs, collector : BOOLEAN, silent : BOOLEAN]
StdoutHas(s, said, b) ==
  s.kind = "stdout" =>
    \A n \in b + 1 .. Len(said) : said[n].kind = "alert" \/ s.format = "text" => n \in ToSet(s.got)
SinksInv ==
  /\ env \in Environments /\ IsOutput(output, Len(text))
  /\ \A i \in DOMAIN output.sinks :
       /\ IsFile(i) => \A x \in ToSet(SinkOf(i).buf) : x > base
       /\ StdoutHas(SinkOf(i), text, base)

Reopens == IF reopen THEN 1 ELSE 0

(* What the property says of a step. *)
StepKept ==
  \A i \in DOMAIN output.sinks :
    /\ IsFile(i) => LeavesRightly(SinkOf(i), SinkOf(i)')
    /\ Len(text') > Len(text) /\ base' = base => SaidOrCounted(i)

LEMMA TextIs == ASSUME IInv PROVE Len(text) \in Nat /\ base \in Nat /\ base <= Len(text) /\ text \in Seq(Line)
BY DEF IInv, LinesInv

(* Of the generations, a turn takes the oldest, one for each line. *)
LEMMA AgesLeave ==
  ASSUME NEW s, FileOK(s), NEW t, FileOK(t), NEW told \in Nat, Ages(s, t, told), NEW x \in OnDisk(s), x \notin Holds(t)
  PROVE  x \in UNION {ToSet(s.files[f]) : f \in {g \in DOMAIN s.files \ {Moved} : g + told > KeepLogs}}
<1>1. KeepLogs \in Nat /\ DOMAIN s.files \subseteq Numbers /\ DOMAIN s.files \subseteq Int
  BY FilesAre DEF FileOK
<1>2. PICK f \in DOMAIN s.files : x \in Lines(s, f)
  BY HeldIs
<1>3. ~ \E c : Within(t, x, c)
  BY HeldIs DEF Within
<1>4. f # -1
  <2>1. ~Within(s, x, -1)
    BY <1>3 DEF Ages
  <2> QED BY <1>2, <2>1 DEF Within
<1>5. f \in Nat
  BY <1>1, <1>4 DEF Numbers
<1>6. ~(f + told <= KeepLogs)
  <2>1. Within(s, x, f)
    BY <1>2, <1>5 DEF Within
  <2> QED BY <1>3, <1>5, <2>1 DEF Ages
<1>7. f \in {g \in DOMAIN s.files \ {Moved} : g + told > KeepLogs}
  BY <1>1, <1>4, <1>5, <1>6 DEF Moved
<1> QED BY <1>2, <1>7 DEF Lines

(* A turn takes no line from a log but the oldest. *)
LEMMA TurnLeaves ==
  ASSUME NEW s, NEW t, NEW n \in Nat, NEW m \in Nat, n <= m, n = Len(text), m = Len(text'),
         FileOK(s), AtMost(s, n), env.dir \in Dirs,
         Turn(s, t, n, m, env.dir, m - n, m - n + Reopens)
  PROVE  LeavesRightly(s, t)
<1> DEFINE told == m - n
           turns == told + Reopens
           gone == Holds(s) \ Holds(t)
<1>1. KeepLogs \in Nat /\ told \in Nat /\ turns \in Nat /\ DOMAIN s.files \subseteq Numbers /\ DOMAIN s.files \subseteq Int
  BY FilesAre DEF FileOK, Reopens
<1>2. FileOK(t) /\ Turn(s, t, n, m, env.dir, told, turns)
  BY DEF Turn
<1>3. told = Len(text') - Len(text) /\ turns = told + (IF reopen THEN 1 ELSE 0)
  BY DEF Reopens
<1> HIDE DEF told, turns
<1>4. CASE env.dir = "good"
  <2>1. Pushes(s, t, told, turns)
    BY <1>2, <1>4 DEF Turn
  <2>2. ASSUME NEW x \in gone \cap OnDisk(s)
        PROVE  x \in UNION {ToSet(s.files[f]) : f \in {g \in DOMAIN s.files \ {Moved} : g + told > KeepLogs}}
    <3>1. Ages(s, t, told) /\ x \in OnDisk(s) /\ x \notin Holds(t)
      BY <2>1, <2>2 DEF Pushes
    <3> QED BY <1>1, <1>2, <3>1, AgesLeave
  <2>3. ASSUME NEW x \in gone, x \in ToSet(s.buf) PROVE turns > KeepLogs
    <3>1. turns <= KeepLogs => x \in Holds(t)
      BY <1>1, <1>2, <1>4, <2>3, BufferSurvives
    <3> QED BY <1>1, <2>3, <3>1
  <2> HIDE DEF gone
  <2> QED BY <1>3, <1>4, <2>2, <2>3 DEF LeavesRightly, gone
<1>5. CASE env.dir = "noopen"
  <2>1. Behind(s, t, n)
    BY <1>2, <1>5 DEF Turn
  <2>2. ASSUME NEW x \in gone \cap OnDisk(s) PROVE x \in {k \in OnDisk(s) : \A y \in Generations(t) : k < y}
    <3>1. x \notin OnDisk(t)
      BY <1>2, <2>2, HeldIs
    <3> QED BY <2>1, <2>2, <3>1 DEF Behind
  <2>3. ASSUME NEW x \in gone, x \in ToSet(s.buf) PROVE FALSE
    <3>1. Newer(s, x, 0)
      BY <2>3 DEF Newer
    <3>2. Newer(t, x, 0)
      BY <2>1, <3>1 DEF Behind
    <3>3. x \in Holds(t)
      BY <1>2, <3>2, HeldIs DEF Newer
    <3> QED BY <2>3, <3>3
  <2> HIDE DEF gone
  <2> QED BY <1>5, <2>2, <2>3 DEF LeavesRightly, gone
<1>6. CASE env.dir = "readonly"
  BY <1>6 DEF LeavesRightly
<1> QED BY <1>4, <1>5, <1>6 DEF Dirs

(* A step that tells no line. *)
LEMMA NothingTold ==
  ASSUME IInv, SinksInv, UNCHANGED <<text, base>>, env' \in Environments,
         IsOutput(output', Len(text)), NEW b \in Nat, b <= Reopens,
         AllMove(output, output', Len(text), Len(text), env.dir, 0, b)
  PROVE  SinksInv' /\ StepKept
<1> DEFINE L == Len(text)
<1>1. L \in Nat /\ base \in Nat /\ base <= L /\ Len(text') = L /\ Reopens \in Nat /\ L - L = 0 /\ 0 + Reopens = Reopens
      /\ 0 \in Nat /\ 0 <= 0 /\ env.dir \in Dirs /\ L <= L
  BY TextIs DEF Reopens, SinksInv, Environments
<1>2. IsOutput(output, L) /\ AllMove(output, output', L, L, env.dir, 0, Reopens)
  <2>1. IsOutput(output, L)
    BY DEF SinksInv
  <2> HIDE DEF L
  <2> QED BY <1>1, <2>1, AllMoveMore DEF L
<1>3. ASSUME NEW i \in DOMAIN output.sinks
      PROVE  /\ IsFile(i) => LeavesRightly(SinkOf(i), SinkOf(i)') /\ \A x \in ToSet(SinkOf(i)'.buf) : x > base
             /\ SinkOf(i)'.kind = SinkOf(i).kind /\ StdoutHas(SinkOf(i)', text, base)
  <2> DEFINE s == SinkOf(i)
             t == SinkOf(i)'
  <2>1. SinkOK(s, L) /\ Moves(s, t, L, L, env.dir, 0, Reopens)
    BY <1>2 DEF IsOutput, AllMove, SinkOf
  <2>2. (s.kind = "file" => \A x \in ToSet(s.buf) : x > base) /\ StdoutHas(s, text, base)
    BY DEF SinksInv, IsFile
  <2>3. IsFile(i) <=> s.kind = "file"
    BY DEF IsFile
  <2> HIDE DEF s, t
  <2>4. ASSUME s.kind = "file" PROVE LeavesRightly(s, t) /\ \A x \in ToSet(t.buf) : x > base
    <3>1. FileOK(s) /\ AtMost(s, L) /\ Turn(s, t, L, L, env.dir, 0, Reopens)
      BY <2>1, <2>4 DEF SinkOK, Moves
    <3>2. LeavesRightly(s, t)
      <4>1. Turn(s, t, L, L, env.dir, L - L, L - L + Reopens)
        BY <1>1, <3>1
      <4>2. L = Len(text) /\ L = Len(text')
        BY <1>1
      <4> HIDE DEF L
      <4> QED BY <1>1, <3>1, <4>1, <4>2, TurnLeaves
    <3>3. FileOK(t) /\ \A x \in ToSet(t.buf) : x \in ToSet(s.buf) \/ x > L
      BY <3>1 DEF Turn
    <3>4. \A x \in ToSet(t.buf) : x \in Nat
      BY <3>3, HeldIs
    <3> QED BY <1>1, <2>2, <2>4, <3>2, <3>3, <3>4
  <2>5. t.kind = s.kind /\ t.format = s.format /\ (s.kind # "file" => ToSet(s.got) \subseteq ToSet(t.got))
    BY <2>1 DEF Moves
  <2>6. StdoutHas(t, text, base)
    BY <2>2, <2>5 DEF StdoutHas
  <2> QED BY <2>3, <2>4, <2>5, <2>6 DEF s, t
<1>4. DOMAIN output'.sinks = DOMAIN output.sinks
  BY <1>2 DEF AllMove
<1>5. SinksInv'
  <2>1. \A i \in DOMAIN output'.sinks :
          (IsFile(i)' => \A x \in ToSet(SinkOf(i)'.buf) : x > base') /\ StdoutHas(SinkOf(i)', text', base')
    BY <1>3, <1>4 DEF IsFile
  <2> QED BY <1>1, <2>1 DEF SinksInv
<1>6. StepKept
  BY <1>1, <1>3 DEF StepKept
<1> QED BY <1>5, <1>6

(* The flag is taken. *)
LEMMA TurnedIs ==
  ASSUME IInv, SinksInv
  PROVE  /\ IsOutput(Turned, Len(text)) /\ AllMove(output, Turned, Len(text), Len(text), env.dir, 0, Reopens)
         /\ Turned.errors = output.errors
         /\ \A i \in DOMAIN output.sinks : output.sinks[i].kind # "file" => Turned.sinks[i] = output.sinks[i]
<1> DEFINE L == Len(text)
<1>1. L \in Nat /\ L <= L /\ 0 \in Nat /\ IsOutput(output, L) /\ env.dir \in Dirs
  BY TextIs DEF SinksInv, Environments
<1> HIDE DEF L
<1>2. CASE reopen
  <2>1. Turned = ReopenAll(output, env) /\ Reopens = 1
    BY <1>2 DEF Turned, Reopens
  <2> QED BY <1>1, <2>1, ReopenAllIs DEF L
<1>3. CASE ~reopen
  <2>1. Turned = output /\ Reopens = 0
    BY <1>3 DEF Turned, Reopens
  <2>2. \A i \in DOMAIN output.sinks : Moves(output.sinks[i], output.sinks[i], L, L, env.dir, 0, 0)
    BY <1>1, MovesNot DEF IsOutput
  <2> QED BY <1>1, <2>1, <2>2 DEF AllMove, L
<1> QED BY <1>2, <1>3

(* What came of the lines before the last one that a step tells. *)
SoFar(o, m, said) ==
  \A i \in DOMAIN output.sinks :
    LET s == output.sinks[i]
        u == o.sinks[i]
    IN  /\ o.errors[i] >= output.errors[i]
        /\ s.kind = "tcp" /\ u.conn = "stale" => s.conn = "stale" /\ o.errors[i] = output.errors[i]
        /\ s.kind = "stdout" =>
             \A k \in base + 1 .. m : said[k].kind = "alert" \/ s.format = "text" => k \in ToSet(u.got)

LEMMA LastTold ==
  ASSUME IInv, SinksInv, NEW o, NEW m \in Nat, Len(text) <= m, IsOutput(o, m),
         AllMove(output, o, Len(text), m, env.dir, m - Len(text), m - Len(text) + Reopens),
         NEW e, e.dir = env.dir, e.silent \in BOOLEAN, e.collector = env.collector,
         output' = Written(o, m + 1, e), UNCHANGED <<base, env>>, Len(text') = m + 1, SoFar(o, m, text')
  PROVE  SinksInv' /\ StepKept
<1> DEFINE L == Len(text)
           j == m - L
           b == m - L + Reopens
<1>1. /\ L \in Nat /\ base \in Nat /\ base <= L /\ j \in Nat /\ b \in Nat /\ env.dir \in Dirs /\ e.dir \in Dirs
      /\ IsOutput(output, L) /\ m + 1 \in Nat /\ 1 \in Nat /\ L <= m + 1 /\ m <= m + 1
      /\ j + 1 = (m + 1) - L /\ b + 1 = (m + 1) - L + Reopens /\ env \in Environments /\ Len(text') > Len(text)
  BY TextIs DEF SinksInv, Environments, Reopens
<1> DEFINE p == ToSinks(o, DOMAIN o.sinks, m + 1, e)
<1>2. output' = p
  BY DEF Written
<1> HIDE DEF p
<1>3. /\ IsOutput(p, m + 1) /\ AllMove(o, p, m, m + 1, env.dir, 1, 1)
      /\ \A i \in DOMAIN o.sinks :
           \E ok : /\ Delivered(o.sinks[i], p.sinks[i], ok, m + 1, e)
                   /\ p.errors[i] = o.errors[i] + IF ok THEN 0 ELSE 1
  <2>1. p = ToSinks(o, DOMAIN o.sinks, m + 1, e)
    BY DEF p
  <2>2. IsOutput(p, m + 1) /\ AllMove(o, p, m, m + 1, e.dir, 1, 1) /\ ToldSome(o, p, DOMAIN o.sinks, m + 1, e)
    BY <1>1, <2>1, ToSinksIs
  <2> QED BY <2>2 DEF ToldSome
<1>4. AllMove(output, o, L, m, env.dir, j, b)
  OBVIOUS
<1> HIDE DEF L, j, b
<1>5. AllMove(output, output', L, m + 1, env.dir, (m + 1) - L, (m + 1) - L + Reopens)
  <2>0. L <= m
    BY DEF L
  <2>1. AllMove(output, p, L, m + 1, env.dir, j + 1, b + 1)
    BY <1>1, <1>3, <1>4, <2>0, AllCompose
  <2> QED BY <1>1, <1>2, <2>1
<1>6. DOMAIN output'.sinks = DOMAIN output.sinks /\ DOMAIN o.sinks = DOMAIN output.sinks
  BY <1>4, <1>5 DEF AllMove
<1>7. ASSUME NEW i \in DOMAIN output.sinks
      PROVE  /\ IsFile(i) => LeavesRightly(SinkOf(i), SinkOf(i)') /\ \A x \in ToSet(SinkOf(i)'.buf) : x > base
             /\ SinkOf(i)'.kind = SinkOf(i).kind /\ StdoutHas(SinkOf(i)', text', base)
             /\ SaidOrCounted(i)
  <2> DEFINE s == SinkOf(i)
             t == SinkOf(i)'
             u == o.sinks[i]
             before == output.errors[i]
             between == o.errors[i]
             after == output'.errors[i]
  <2>1. SinkOK(s, L) /\ Moves(s, t, L, m + 1, env.dir, (m + 1) - L, (m + 1) - L + Reopens) /\ Moves(s, u, L, m, env.dir, j, b)
        /\ Moves(u, t, m, m + 1, env.dir, 1, 1)
    BY <1>1, <1>2, <1>3, <1>4, <1>5, <1>6 DEF IsOutput, AllMove, SinkOf
  <2>2. (s.kind = "file" => \A x \in ToSet(s.buf) : x > base) /\ StdoutHas(s, text, base)
    BY DEF SinksInv, IsFile
  <2>3. IsFile(i) <=> s.kind = "file"
    BY DEF IsFile
  <2>4. PICK ok : Delivered(u, t, ok, m + 1, e) /\ after = between + IF ok THEN 0 ELSE 1
    BY <1>2, <1>3, <1>6 DEF SinkOf
  <2>5. /\ between >= before /\ before \in Nat /\ between \in Nat
        /\ s.kind = "tcp" /\ u.conn = "stale" => s.conn = "stale" /\ between = before
        /\ s.kind = "stdout" =>
             \A k \in base + 1 .. m : text'[k].kind = "alert" \/ s.format = "text" => k \in ToSet(u.got)
    BY <1>1, <1>6 DEF SoFar, IsOutput, SinkOf
  <2>6. t.kind = s.kind /\ t.format = s.format /\ u.kind = s.kind
    BY <2>1 DEF Moves
  <2>7. SaidOrCounted(i) <=>
          \/ m + 1 \in Holds(t)
          \/ after > before /\ (s.kind = "tcp" => t.conn = "none")
          \/ s.kind = "tcp" /\ s.conn = "stale" /\ after = before
          \/ s.kind = "udp" /\ ~env.collector
          \/ s.kind = "file" /\ (env.dir = "readonly" \/ KeepLogs = 0)
    BY <2>3 DEF SaidOrCounted
  <2> HIDE DEF s, t, u, before, between, after
  <2>8. ASSUME s.kind = "file" PROVE LeavesRightly(s, t) /\ \A x \in ToSet(t.buf) : x > base
    <3>1. FileOK(s) /\ AtMost(s, L) /\ Turn(s, t, L, m + 1, env.dir, (m + 1) - L, (m + 1) - L + Reopens)
      BY <2>1, <2>8 DEF SinkOK, Moves
    <3>2. LeavesRightly(s, t)
      <4>1. L = Len(text) /\ m + 1 = Len(text')
        BY DEF L
      <4> QED BY <1>1, <3>1, <4>1, TurnLeaves
    <3>3. FileOK(t) /\ \A x \in ToSet(t.buf) : x \in ToSet(s.buf) \/ x > L
      BY <3>1 DEF Turn
    <3>4. \A x \in ToSet(t.buf) : x \in Nat
      BY <3>3, HeldIs
    <3> QED BY <1>1, <2>2, <2>8, <3>2, <3>3, <3>4
  <2>9. ASSUME s.kind # "file" PROVE s.kind \in {"stdout", "tcp", "udp"} /\ Holds(t) = ToSet(t.got) /\ ToSet(u.got) \subseteq ToSet(t.got)
    <3>1. s.kind \in {"stdout", "tcp", "udp"}
      BY <2>1, <2>9, StreamsAre
    <3> QED BY <2>1, <2>6, <2>9, <3>1 DEF Holds, Moves
  <2>10. SaidOrCounted(i)
    <3>1. CASE s.kind = "file"
      <4>1. ok => m + 1 \in Holds(t) \/ env.dir = "readonly" \/ KeepLogs = 0
        BY <2>4, <2>6, <3>1 DEF Delivered
      <4>2. ~ok => after > before
        BY <2>4, <2>5
      <4> QED BY <2>7, <3>1, <4>1, <4>2
    <3>2. CASE s.kind = "stdout"
      <4>1. m + 1 \in ToSet(t.got)
        BY <2>4, <2>6, <3>2 DEF Delivered
      <4> QED BY <2>7, <2>9, <3>2, <4>1
    <3>3. CASE s.kind = "udp"
      <4>1. m + 1 \in ToSet(t.got) \/ ~env.collector
        BY <2>4, <2>6, <3>3 DEF Delivered
      <4> QED BY <2>7, <2>9, <3>3, <4>1
    <3>4. CASE s.kind = "tcp"
      <4>1. m + 1 \in ToSet(t.got) \/ (~ok /\ t.conn = "none") \/ (ok /\ u.conn = "stale" /\ t.conn = "stale")
        BY <2>4, <2>6, <3>4 DEF Delivered
      <4>2. CASE m + 1 \in ToSet(t.got)
        BY <2>7, <2>9, <3>4, <4>2
      <4>3. CASE ~ok /\ t.conn = "none"
        <5>1. after > before
          BY <2>4, <2>5, <4>3
        <5> QED BY <2>7, <4>3, <5>1
      <4>4. CASE ok /\ u.conn = "stale"
        <5>1. after = before /\ s.conn = "stale"
          BY <2>4, <2>5, <3>4, <4>4
        <5> QED BY <2>7, <3>4, <5>1
      <4> QED BY <4>1, <4>2, <4>3, <4>4
    <3> QED BY <2>9, <3>1, <3>2, <3>3, <3>4
  <2>11. StdoutHas(t, text', base)
    <3>1. SUFFICES ASSUME s.kind = "stdout", NEW k \in base + 1 .. m + 1, text'[k].kind = "alert" \/ s.format = "text"
                   PROVE  k \in ToSet(t.got)
      BY <2>6 DEF StdoutHas
    <3>2. CASE k = m + 1
      BY <2>4, <2>6, <3>1, <3>2 DEF Delivered
    <3>3. CASE k # m + 1
      <4>1. k \in base + 1 .. m
        BY <1>1, <3>3
      <4> QED BY <2>5, <2>9, <3>1, <4>1
    <3> QED BY <3>2, <3>3
  <2> QED BY <2>3, <2>6, <2>8, <2>10, <2>11 DEF s, t
<1>8. SinksInv'
  <2>1. \A i \in DOMAIN output'.sinks :
          (IsFile(i)' => \A x \in ToSet(SinkOf(i)'.buf) : x > base') /\ StdoutHas(SinkOf(i)', text', base')
    BY <1>6, <1>7 DEF IsFile
  <2> QED BY <1>1, <1>2, <1>3, <2>1 DEF SinksInv
<1>9. StepKept
  BY <1>7 DEF StepKept
<1> QED BY <1>8, <1>9

LEMMA TellKept ==
  ASSUME IInv, SinksInv, NEW a \in Alerts, NEW t \in Times, Tell(a, t)
  PROVE  SinksInv' /\ StepKept
<1> DEFINE L == Len(text)
           said == [kind |-> "note"]
           line == [kind |-> "alert", alert |-> a, tags |-> TagsOf(intel, a)]
<1>1. PICK silent \in BOOLEAN :
        LET e == [env EXCEPT !.silent = silent]
            note == IF Withheld(a, t) > 0 THEN <<said>> ELSE <<>>
            noteSaid == IF note = <<>> THEN Turned ELSE NoteTo(Turned, L + 1, e)
        IN  text' = text \o note \o <<line>> /\ output' = Written(noteSaid, Len(text'), e)
  BY DEF Tell
<1> DEFINE e == [env EXCEPT !.silent = silent]
<1>2. /\ L \in Nat /\ base \in Nat /\ base <= L /\ text \in Seq(Line) /\ said \in Line /\ line \in Line
      /\ e.dir = env.dir /\ e.silent \in BOOLEAN /\ e.collector = env.collector /\ e.dir \in Dirs
      /\ UNCHANGED <<base, env>> /\ said.kind # "alert" /\ IsOutput(output, L)
  <2>1. e.dir = env.dir /\ e.silent \in BOOLEAN /\ e.collector = env.collector /\ e.dir \in Dirs
    BY DEF SinksInv, Environments
  <2>2. UNCHANGED <<base, env>>
    BY DEF Tell, outside
  <2>3. said \in Line /\ line \in Line /\ said.kind # "alert"
    BY DEF Line
  <2> QED BY <2>1, <2>2, <2>3, TextIs DEF SinksInv
<1> HIDE DEF e, said, line
<1>3. /\ IsOutput(Turned, L) /\ AllMove(output, Turned, L, L, env.dir, 0, Reopens) /\ Turned.errors = output.errors
      /\ \A i \in DOMAIN output.sinks : output.sinks[i].kind # "file" => Turned.sinks[i] = output.sinks[i]
      /\ DOMAIN Turned.sinks = DOMAIN output.sinks
  BY TurnedIs DEF AllMove
<1>4. \A i \in DOMAIN output.sinks : output.errors[i] \in Nat /\ StdoutHas(output.sinks[i], text, base)
  BY <1>2 DEF SinksInv, IsOutput, SinkOf
<1>5. CASE ~(Withheld(a, t) > 0)
  <2>1. /\ text' = text \o <<>> \o <<line>>
        /\ output' = Written(Turned, Len(text'), e)
    BY <1>1, <1>5 DEF e
  <2>2. Len(text') = L + 1 /\ \A k \in 1 .. L : text'[k] = text[k]
    BY <1>2, <2>1
  <2>3. SoFar(Turned, L, text')
    <3>1. ASSUME NEW i \in DOMAIN output.sinks, output.sinks[i].kind = "stdout", NEW k \in base + 1 .. L,
                 text'[k].kind = "alert" \/ output.sinks[i].format = "text"
          PROVE  k \in ToSet(Turned.sinks[i].got)
      <4>1. Turned.sinks[i] = output.sinks[i] /\ text'[k] = text[k]
        BY <1>2, <1>3, <2>2, <3>1
      <4> QED BY <1>4, <3>1, <4>1 DEF StdoutHas
    <3>2. \A i \in DOMAIN output.sinks : Turned.errors[i] >= output.errors[i]
      BY <1>3, <1>4
    <3>3. \A i \in DOMAIN output.sinks :
            output.sinks[i].kind = "tcp" /\ Turned.sinks[i].conn = "stale" =>
              output.sinks[i].conn = "stale" /\ Turned.errors[i] = output.errors[i]
      BY <1>3
    <3> QED BY <3>1, <3>2, <3>3 DEF SoFar
  <2>4. AllMove(output, Turned, L, L, env.dir, L - L, L - L + Reopens) /\ L <= L
    <3>1. L - L = 0 /\ 0 + Reopens = Reopens /\ L <= L
      BY <1>2 DEF Reopens
    <3> QED BY <1>3, <3>1
  <2>5. output' = Written(Turned, L + 1, e)
    BY <2>1, <2>2
  <2> HIDE DEF L
  <2>6. Len(text) = L
    BY DEF L
  <2> QED BY <1>2, <1>3, <2>2, <2>3, <2>4, <2>5, <2>6, LastTold
<1>6. CASE Withheld(a, t) > 0
  <2> DEFINE o == NoteTo(Turned, L + 1, e)
             texts == {i \in DOMAIN Turned.sinks : Turned.sinks[i].format = "text"}
             m == L + 1
  <2>1. /\ text' = text \o <<said>> \o <<line>>
        /\ output' = Written(o, Len(text'), e)
    BY <1>1, <1>6 DEF e
  <2>2. Len(text') = L + 1 + 1 /\ text'[L + 1] = said /\ \A k \in 1 .. L : text'[k] = text[k]
    BY <1>2, <2>1
  <2>3. o = ToSinks(Turned, texts, L + 1, e)
    BY DEF NoteTo
  <2> HIDE DEF texts
  <2> HIDE DEF o
  <2>4. /\ IsOutput(o, L + 1) /\ AllMove(Turned, o, L, L + 1, e.dir, 1, 1)
        /\ ToldSome(Turned, o, texts, L + 1, e)
    <3> HIDE DEF L, m
    <3> QED BY <1>2, <1>3, <2>3, ToSinksIs
  <2>5. SoFar(o, m, text')
    <3>1. ASSUME NEW i \in DOMAIN output.sinks
          PROVE  LET s == output.sinks[i]
                     u == o.sinks[i]
                 IN  /\ o.errors[i] >= output.errors[i]
                     /\ s.kind = "tcp" /\ u.conn = "stale" => s.conn = "stale" /\ o.errors[i] = output.errors[i]
                     /\ s.kind = "stdout" =>
                          \A k \in base + 1 .. m : text'[k].kind = "alert" \/ s.format = "text" => k \in ToSet(u.got)
      <4> DEFINE s == output.sinks[i]
                 v == Turned.sinks[i]
                 u == o.sinks[i]
                 before == output.errors[i]
                 after == o.errors[i]
      <4>1. /\ before \in Nat /\ Turned.errors[i] = before /\ StdoutHas(s, text, base) /\ i \in DOMAIN Turned.sinks
            /\ s.kind # "file" => v = s
            /\ Moves(v, u, L, L + 1, e.dir, 1, 1) /\ v.kind = s.kind
            /\ v.format = s.format
        BY <1>3, <1>4, <2>4 DEF AllMove, Moves
      <4>2. i \in texts <=> v.format = "text"
        BY <4>1 DEF texts
      <4>3. CASE i \in texts
        <5>1. PICK ok : Delivered(v, u, ok, L + 1, e) /\ after = before + IF ok THEN 0 ELSE 1
          BY <2>4, <4>1, <4>3 DEF ToldSome
        <5> HIDE DEF s, u, v, before, after
        <5>2. after >= before
          BY <4>1, <5>1
        <5>3. ASSUME s.kind = "tcp", u.conn = "stale" PROVE s.conn = "stale" /\ after = before
          <6>1. v.conn = "stale" /\ ok
            BY <4>1, <5>1, <5>3 DEF Delivered
          <6> QED BY <4>1, <5>1, <5>3, <6>1
        <5>4. ASSUME s.kind = "stdout", NEW k \in base + 1 .. m, text'[k].kind = "alert" \/ s.format = "text"
              PROVE  k \in ToSet(u.got)
          <6>1. v = s /\ ToSet(v.got) \subseteq ToSet(u.got) /\ L + 1 \in ToSet(u.got)
            BY <4>1, <5>1, <5>4 DEF Delivered, Moves
          <6>2. CASE k = L + 1
            BY <6>1, <6>2
          <6>3. CASE k # L + 1
            <7>1. k \in base + 1 .. L /\ k \in 1 .. L
              BY <1>2, <6>3
            <7>2. text'[k] = text[k]
              BY <2>2, <7>1
            <7> QED BY <4>1, <5>4, <6>1, <7>1, <7>2 DEF StdoutHas
          <6> QED BY <6>2, <6>3
        <5> QED BY <5>2, <5>3, <5>4 DEF s, u, before, after
      <4>4. CASE i \notin texts
        <5>1. u = v /\ after = before
          BY <2>4, <4>1, <4>4 DEF ToldSome
        <5> HIDE DEF s, u, v, before, after
        <5>2. ASSUME s.kind = "stdout", NEW k \in base + 1 .. m, text'[k].kind = "alert" \/ s.format = "text"
              PROVE  k \in ToSet(u.got)
          <6>1. v = s /\ s.format # "text"
            BY <4>1, <4>2, <4>4, <5>2
          <6>2. k # L + 1
            BY <1>2, <2>2, <5>2, <6>1
          <6>3. k \in base + 1 .. L /\ k \in 1 .. L
            BY <1>2, <6>2
          <6>4. text'[k] = text[k]
            BY <2>2, <6>3
          <6> QED BY <4>1, <5>1, <5>2, <6>1, <6>3, <6>4 DEF StdoutHas
        <5>3. after >= before
          BY <4>1, <5>1
        <5> QED BY <4>1, <5>1, <5>2, <5>3 DEF s, u, v, before, after
      <4> QED BY <4>3, <4>4
    <3> HIDE DEF m
    <3> QED BY <3>1 DEF SoFar
  <2>6. AllMove(output, o, L, m, env.dir, m - L, m - L + Reopens) /\ L <= m /\ m \in Nat
    <3>1. /\ L <= L /\ L + 1 \in Nat /\ 0 \in Nat /\ 1 \in Nat /\ Reopens \in Nat /\ m - L = 1 /\ 0 + 1 = 1
          /\ Reopens + 1 = m - L + Reopens /\ L <= m /\ m \in Nat /\ m = L + 1 /\ e.dir = env.dir
      BY <1>2 DEF Reopens
    <3> HIDE DEF L, m
    <3>2. AllMove(output, o, L, L + 1, env.dir, 0 + 1, Reopens + 1)
      BY <1>2, <1>3, <2>4, <3>1, AllCompose
    <3> QED BY <3>1, <3>2
  <2>7. output' = Written(o, m + 1, e) /\ Len(text') = m + 1 /\ IsOutput(o, m)
    BY <2>1, <2>2, <2>4
  <2> HIDE DEF L, m
  <2>8. Len(text) = L
    BY DEF L
  <2> QED BY <1>2, <2>5, <2>6, <2>7, <2>8, LastTold
<1> QED BY <1>5, <1>6

(* A process is killed; the next one finds the files, and connects anew.   *)
LEMMA CrashKept ==
  ASSUME IInv, SinksInv, NEW a \in Alerts, NEW n \in 0 .. KeepLogs + 1, Crash(a, n)
  PROVE  SinksInv' /\ StepKept
<1> DEFINE L == Len(text)
           told == IF n > 0 THEN 1 ELSE 0
           m == L + told
           line == [kind |-> "alert", alert |-> a, tags |-> TagsOf(intel, a)]
<1>1. /\ L \in Nat /\ base \in Nat /\ base <= L /\ told \in Nat /\ m \in Nat /\ m >= L /\ m - L = told
      /\ IsOutput(output, L) /\ env \in Environments /\ env.dir = "good" /\ env.dir \in Dirs /\ env' = env
  BY TextIs, SinksAssumption DEF SinksInv, Environments, Crash
<1>2. Len(text') = m /\ base' = m
  <2>1. text \in Seq(Line) /\ line \in Line
    BY TextIs DEF Line
  <2>2. (IF n > 0 THEN text' = Append(text, line) ELSE text' = text) /\ base' = Len(text')
    BY DEF Crash
  <2> HIDE DEF line
  <2> QED BY <1>1, <2>1, <2>2
<1> DEFINE u(i) == Interrupted(output.sinks[i], n)
           conn == IF env.collector THEN "live" ELSE "none"
           t(i) == IF u(i).kind = "file" THEN ReopenFile(Emptied(u(i)), env).sink ELSE [u(i) EXCEPT !.conn = conn]
<1>3. /\ DOMAIN output'.sinks = DOMAIN output.sinks /\ output' = [sinks |-> output'.sinks, errors |-> output'.errors]
      /\ DOMAIN output'.errors = DOMAIN output.sinks
      /\ \A i \in DOMAIN output.sinks : output'.sinks[i] = t(i) /\ output'.errors[i] = 0
  <2> DEFINE F == [i \in DOMAIN output.sinks |-> Interrupted(output.sinks[i], n)]
             o == [output EXCEPT !.sinks = F]
  <2>1. output' = Started(o, env)
    BY DEF Crash
  <2>2. o.sinks = F
    BY <1>1 DEF IsOutput
  <2> DEFINE G == [i \in DOMAIN o.sinks |->
                     LET s == o.sinks[i]
                     IN  IF s.kind = "file" THEN ReopenFile([s EXCEPT !.buf = <<>>], env).sink
                         ELSE [s EXCEPT !.conn = IF env.collector THEN "live" ELSE "none"]]
  <2>3. output' = [sinks |-> G, errors |-> [i \in DOMAIN G |-> 0]]
    BY <2>1 DEF Started, NewOutput
  <2>4. DOMAIN G = DOMAIN output.sinks
    BY <2>2
  <2>5. \A i \in DOMAIN output.sinks : G[i] = t(i)
    BY <2>2 DEF Emptied
  <2> HIDE DEF G, o
  <2> QED BY <2>3, <2>4, <2>5
<1> HIDE DEF t, u, m, told
<1>4. ASSUME NEW i \in DOMAIN output.sinks
      PROVE  /\ SinkOK(t(i), m) /\ (IsFile(i) => t(i).buf = <<>> /\ LeavesRightly(SinkOf(i), t(i)))
             /\ t(i).kind = SinkOf(i).kind
  <2> DEFINE s == output.sinks[i]
             v == t(i)
  <2>1. SinkOK(s, L) /\ SinkOf(i) = s /\ (IsFile(i) <=> s.kind = "file")
    BY <1>1 DEF IsOutput, SinkOf, IsFile
  <2>2. CASE s.kind = "file"
    <3>1. FileOK(s) /\ AtMost(s, L)
      BY <2>1, <2>2 DEF SinkOK
    <3>2. u(i).kind = "file"
      <4>1. FileOK(Interrupted(s, n))
        BY <1>1, <3>1, InterruptedIs
      <4> QED BY <4>1 DEF FileOK, LogFiles, u
    <3>3. v = ReopenFile(Emptied(Interrupted(s, n)), env).sink
      BY <3>2 DEF t, u
    <3>4. FileOK(v) /\ AtMost(v, m) /\ v.format = s.format /\ Ages(s, v, told) /\ v.buf = <<>>
      BY <1>1, <3>1, <3>3, RestartedIs DEF m, told
    <3>5. v.kind = "file"
      BY <3>4 DEF FileOK, LogFiles
    <3> HIDE DEF s, v
    <3>6. LeavesRightly(s, v)
      <4>1. Len(text') - Len(text) = told
        BY <1>1, <1>2
      <4>2. ASSUME NEW x \in OnDisk(s), x \notin Holds(v)
            PROVE  x \in UNION {ToSet(s.files[f]) : f \in {g \in DOMAIN s.files \ {Moved} : g + told > KeepLogs}}
        BY <1>1, <3>1, <3>4, <4>2, AgesLeave
      <4>3. ASSUME NEW x \in ToSet(s.buf), base' = base PROVE FALSE
        <5>1. x \in Nat /\ x <= L
          BY <3>1, HeldIs DEF AtMost
        <5>2. x > base
          BY <2>1, <2>2, <4>3 DEF SinksInv, s
        <5>3. base = m
          BY <1>2, <4>3
        <5> HIDE DEF L
        <5> QED BY <1>1, <5>1, <5>2, <5>3
      <4> QED BY <1>1, <4>1, <4>2, <4>3 DEF LeavesRightly
    <3>7. s.kind = "file" /\ SinkOf(i) = s
      BY <2>1, <2>2 DEF s
    <3> QED BY <3>4, <3>5, <3>6, <3>7 DEF SinkOK, v
  <2>3. CASE s.kind # "file"
    <3>1. u(i) = s
      BY <2>3 DEF u, Interrupted, Interruptible
    <3>2. v = [s EXCEPT !.conn = conn] /\ conn \in Conns
      BY <2>3, <3>1 DEF t, Conns
    <3> HIDE DEF s, v, conn
    <3>3. v.kind = s.kind /\ StreamOK(v, L)
      BY <2>1, <2>3, <3>2, Reconnected
    <3>4. StreamOK(v, m)
      <4>1. v \in Streams /\ Increasing(v.got) /\ \A x \in ToSet(v.got) : x <= L
        BY <3>3 DEF StreamOK
      <4>2. v.got \in Seq(Nat)
        BY <4>1 DEF Streams
      <4>3. \A x \in ToSet(v.got) : x \in Nat
        BY <4>2 DEF ToSet
      <4> HIDE DEF L
      <4>4. \A x \in ToSet(v.got) : x <= m
        BY <1>1, <4>1, <4>3
      <4> QED BY <4>1, <4>4 DEF StreamOK
    <3>5. ~IsFile(i) /\ SinkOf(i).kind = s.kind
      BY <2>1, <2>3 DEF s
    <3> QED BY <2>3, <3>3, <3>4, <3>5 DEF SinkOK, v, s
  <2> QED BY <2>2, <2>3
<1>5. SinksInv'
  <2>1. IsOutput(output', m)
    <3>1. \A i \in DOMAIN output'.sinks : output'.errors[i] \in Nat /\ SinkOK(output'.sinks[i], m)
      BY <1>3, <1>4
    <3> QED BY <1>3, <3>1 DEF IsOutput
  <2>2. ASSUME NEW i \in DOMAIN output'.sinks
        PROVE  (IsFile(i)' => \A x \in ToSet(SinkOf(i)'.buf) : x > base') /\ StdoutHas(SinkOf(i)', text', base')
    <3>1. i \in DOMAIN output.sinks /\ SinkOf(i)' = t(i)
      BY <1>3, <2>2 DEF SinkOf
    <3>2. IsFile(i)' => SinkOf(i)'.buf = <<>>
      BY <1>4, <3>1 DEF IsFile
    <3>3. base' + 1 .. Len(text') = {}
      BY <1>1, <1>2
    <3> QED BY <3>2, <3>3, NoLines DEF StdoutHas
  <2> QED BY <1>1, <1>2, <2>1, <2>2 DEF SinksInv
<1>6. StepKept
  <2>1. ~(Len(text') > Len(text) /\ base' = base)
    BY <1>1, <1>2
  <2>2. \A i \in DOMAIN output.sinks : IsFile(i) => LeavesRightly(SinkOf(i), SinkOf(i)')
    BY <1>3, <1>4 DEF SinkOf
  <2> QED BY <2>1, <2>2 DEF StepKept
<1> QED BY <1>5, <1>6

-----------------------------------------------------------------------------
(* The steps around: none tells a line, and only a turn of the loop, the   *)
(* last flush, logrotate and the collector reach the sinks.                *)
Beside == UNCHANGED <<output, text, base, reopen>> /\ env' \in Environments

LEMMA BesideIs ==
  ASSUME SinksInv, Elsewhere
  PROVE  FlushTimeout \/ Stop \/ LogMoved \/ CollectorTurns \/ LogSignal \/ Beside
<1>0. env \in Environments
  BY DEF SinksInv
<1>1. ASSUME NEW d, Dumping(d) PROVE Beside
  BY <1>0, <1>1 DEF Dumping, Beside
<1>2. ASSUME NEW pair, NEW what, Sight(pair, what) PROVE Beside
  BY <1>0, <1>2 DEF Sight, Sees, Beside
<1>3. UNCHANGED dvars => Beside
  BY <1>0 DEF dvars, outside, Beside
<1>4. DiskTurns => Beside
  BY <1>0 DEF DiskTurns, Beside, Environments
<1>5. ASSUME NEW d \in {"good", "readonly", "noopen"}, DirTurns(d) PROVE Beside
  BY <1>0, <1>5 DEF DirTurns, Beside, Environments, Dirs
<1>6. (\E len \in {1, RetainBytes + 1} : Frame(len)) \/ EndCapture \/ Serve \/ Save => Beside
  BY <1>1 DEF Frame, EndCapture, Serve, Save
<1> QED BY <1>2, <1>3, <1>4, <1>5, <1>6 DEF Elsewhere

LEMMA BesideKept ==
  ASSUME IInv, SinksInv, UNCHANGED <<output, text, base>>, env' \in Environments
  PROVE  SinksInv' /\ StepKept
<1> DEFINE L == Len(text)
<1>1. L \in Nat /\ L <= L /\ 0 \in Nat /\ 0 <= Reopens /\ IsOutput(output, L) /\ UNCHANGED <<text, base>>
  BY TextIs DEF SinksInv, Reopens
<1>2. AllMove(output, output, L, L, env.dir, 0, 0)
  <2> HIDE DEF L
  <2>1. \A i \in DOMAIN output.sinks : Moves(output.sinks[i], output.sinks[i], L, L, env.dir, 0, 0)
    BY <1>1, MovesNot DEF IsOutput
  <2> QED BY <2>1 DEF AllMove
<1> QED BY <1>1, <1>2, NothingTold

LEMMA ElsewhereKept ==
  ASSUME IInv, SinksInv, Elsewhere
  PROVE  SinksInv' /\ StepKept
<1> DEFINE L == Len(text)
<1>1. /\ L \in Nat /\ L <= L /\ 0 \in Nat /\ 0 <= Reopens /\ IsOutput(output, L)
      /\ env \in Environments /\ Reopens \in Nat /\ Reopens <= Reopens
  BY TextIs DEF SinksInv, Reopens
<1>2. UNCHANGED <<text, base>>
  BY ElsewhereKeeps
<1>3. CASE FlushTimeout
  <2>1. output' = FlushAll(Turned, env) /\ env' = env
    BY <1>3 DEF FlushTimeout, outside
  <2>2. IsOutput(Turned, L) /\ AllMove(output, Turned, L, L, env.dir, 0, Reopens)
    BY TurnedIs
  <2> HIDE DEF L
  <2>3. IsOutput(output', L) /\ AllMove(Turned, output', L, L, env.dir, 0, 0)
    BY <1>1, <2>1, <2>2, FlushAllIs
  <2>4. AllMove(output, output', L, L, env.dir, 0 + 0, Reopens + 0)
    BY <1>1, <2>2, <2>3, AllCompose
  <2>5. 0 + 0 = 0 /\ Reopens + 0 = Reopens
    BY <1>1
  <2>6. AllMove(output, output', L, L, env.dir, 0, Reopens)
    BY <2>4, <2>5
  <2> QED BY <1>1, <1>2, <2>1, <2>3, <2>6, NothingTold DEF L
<1>4. CASE Stop
  <2>1. output' = FlushAll(output, env) /\ env' = env
    BY <1>4 DEF Stop, outside
  <2> HIDE DEF L
  <2>2. IsOutput(output', L) /\ AllMove(output, output', L, L, env.dir, 0, 0)
    BY <1>1, <2>1, FlushAllIs
  <2> QED BY <1>1, <1>2, <2>1, <2>2, NothingTold DEF L
<1>5. CASE LogMoved
  <2>1. output' = [output EXCEPT !.sinks = [i \in DOMAIN @ |-> Archived(@[i])]] /\ env' = env /\ env.dir = "good"
    BY <1>5 DEF LogMoved
  <2> HIDE DEF L
  <2>2. IsOutput(output', L) /\ AllMove(output, output', L, L, env.dir, 0, 0)
    BY <1>1, <2>1, AllArchivedIs
  <2> QED BY <1>1, <1>2, <2>1, <2>2, NothingTold DEF L
<1>6. CASE CollectorTurns
  <2>1. env' \in Environments
    BY <1>1, <1>6 DEF CollectorTurns, Environments
  <2>2. output' = [output EXCEPT !.sinks = [i \in DOMAIN @ |->
                    IF @[i].kind = "tcp" /\ @[i].conn = "live" THEN [@[i] EXCEPT !.conn = "stale"] ELSE @[i]]]
    BY <1>6 DEF CollectorTurns
  <2> HIDE DEF L
  <2>3. IsOutput(output', L) /\ AllMove(output, output', L, L, env.dir, 0, 0)
    BY <1>1, <2>2, AllStaleIs
  <2> QED BY <1>1, <1>2, <2>1, <2>3, NothingTold DEF L
<1>7. CASE LogSignal
  BY <1>1, <1>7, BesideKept DEF LogSignal
<1>8. CASE Beside
  BY <1>8, BesideKept DEF Beside
<1> QED BY <1>3, <1>4, <1>5, <1>6, <1>7, <1>8, BesideIs

LEMMA QuietKept ==
  ASSUME IInv, SinksInv, NEW a \in Alerts, NEW t \in Times, Quiet(a, t)
  PROVE  SinksInv' /\ StepKept
<1>1. output' = Turned /\ UNCHANGED <<text, base>> /\ env' = env
  BY DEF Quiet, outside
<1>2. env \in Environments /\ Reopens \in Nat /\ Reopens <= Reopens
  BY DEF SinksInv, Reopens
<1>3. IsOutput(output', Len(text)) /\ AllMove(output, output', Len(text), Len(text), env.dir, 0, Reopens)
  BY <1>1, TurnedIs
<1> QED BY <1>1, <1>2, <1>3, NothingTold

LEMMA NextKept == IInv /\ SinksInv /\ [DeliveryNext]_dvars => SinksInv' /\ StepKept
<1> SUFFICES ASSUME IInv, SinksInv, [DeliveryNext]_dvars PROVE SinksInv' /\ StepKept
  OBVIOUS
<1>1. ASSUME NEW a \in Alerts, NEW t \in Times, Quiet(a, t) PROVE SinksInv' /\ StepKept
  BY <1>1, QuietKept
<1>2. ASSUME NEW a \in Alerts, NEW t \in Times, Tell(a, t) PROVE SinksInv' /\ StepKept
  BY <1>2, TellKept
<1>3. ASSUME NEW a \in Alerts, NEW n \in 0 .. KeepLogs + 1, Crash(a, n) PROVE SinksInv' /\ StepKept
  BY <1>3, CrashKept
<1>4. CASE Elsewhere
  BY <1>4, ElsewhereKept
<1> QED
  BY <1>1, <1>2, <1>3, <1>4, Steps

(* A sink is configured empty. *)
LEMMA InitSinks == DeliveryInit => SinksInv
<1> SUFFICES ASSUME DeliveryInit PROVE SinksInv
  OBVIOUS
<1>1. env = Healthy /\ output = NewOutput(setting.sinks) /\ text = <<>> /\ base = 0 /\ setting \in Settings
  BY DEF DeliveryInit
<1>2. env \in Environments
  BY <1>1 DEF Healthy, Environments, Dirs
<1>3. /\ output = [sinks |-> setting.sinks, errors |-> [i \in DOMAIN setting.sinks |-> 0]]
      /\ output.sinks = setting.sinks /\ DOMAIN output.errors = DOMAIN output.sinks
      /\ \A i \in DOMAIN output.sinks : output.errors[i] = 0
  BY <1>1 DEF NewOutput
<1>4. ASSUME NEW i \in DOMAIN output.sinks PROVE SinkOK(output.sinks[i], 0) /\ (IsFile(i) => SinkOf(i).buf = <<>>)
  <2> DEFINE s == output.sinks[i]
  <2>1. PICK format \in {"text", "json", "eve"} :
          s \in {NewFile(format)} \cup {NewStream(kind, format) : kind \in {"stdout", "tcp", "udp"}}
    <3>1. s \in ToSet(setting.sinks)
      BY <1>3 DEF ToSet
    <3> HIDE DEF s
    <3> QED BY <1>1, <3>1, DeliveryAssumption
  <2>2. SinkOf(i) = s /\ (IsFile(i) <=> s.kind = "file")
    BY DEF SinkOf, IsFile
  <2> HIDE DEF s
  <2>3. CASE s = NewFile(format)
    <3>1. /\ s = [kind |-> "file", format |-> format, files |-> [f \in {0} |-> <<>>], at |-> 0, buf |-> <<>>,
                  written |-> 0]
      BY <2>3 DEF NewFile
    <3>2. s.kind = "file" /\ s.files = [f \in {0} |-> <<>>] /\ s.at = 0 /\ s.buf = <<>>
      BY <3>1
    <3>3. DOMAIN s.files = {0} /\ Lines(s, 0) = {} /\ s.files[0] = <<>>
      BY <3>2, NoLines DEF Lines
    <3>4. s \in LogFiles
      <4>1. s.files \in FileMaps /\ 0 \in Numbers
        <5>1. {0} \in SUBSET Numbers
          BY SinksAssumption DEF Numbers
        <5>2. s.files \in [{0} -> Seq(Nat)]
          BY <3>2, NoLines
        <5> QED BY <5>1, <5>2 DEF FileMaps
      <4>2. format \in Formats /\ <<>> \in Seq(Nat) /\ 0 \in Nat
        BY NoLines DEF Formats
      <4> QED BY <3>1, <3>2, <4>1, <4>2 DEF LogFiles
    <3>5. Sorts(s)
      BY <3>2, <3>3, NoLines DEF Sorts, Ahead
    <3>6. FileOK(s)
      BY <3>2, <3>3, <3>4, <3>5 DEF FileOK
    <3>7. Holds(s) = {}
      BY <3>2, <3>3, <3>6, HeldIs, NoLines
    <3> QED BY <2>2, <3>2, <3>6, <3>7 DEF SinkOK, AtMost, s
  <2>4. ASSUME NEW kind \in {"stdout", "tcp", "udp"}, s = NewStream(kind, format)
        PROVE  SinkOK(s, 0) /\ s.kind # "file"
    <3>1. s = [kind |-> kind, format |-> format, got |-> <<>>, conn |-> "live"]
      BY <2>4 DEF NewStream
    <3>2. s.kind = kind /\ kind # "file" /\ s.got = <<>>
      BY <3>1
    <3>3. s \in Streams
      <4>1. format \in Formats /\ <<>> \in Seq(Nat)
        BY NoLines DEF Formats
      <4> QED BY <3>1, <4>1 DEF Streams, Conns
    <3> QED BY <3>2, <3>3, NoLines DEF SinkOK, StreamOK
  <2> QED BY <2>1, <2>2, <2>3, <2>4 DEF s
<1>5. IsOutput(output, Len(text))
  <2>1. Len(text) = 0
    BY <1>1
  <2>2. output = [sinks |-> output.sinks, errors |-> output.errors]
    BY <1>3
  <2> QED BY <1>3, <1>4, <2>1, <2>2 DEF IsOutput
<1>6. ASSUME NEW i \in DOMAIN output.sinks
      PROVE  (IsFile(i) => \A x \in ToSet(SinkOf(i).buf) : x > base) /\ StdoutHas(SinkOf(i), text, base)
  <2>1. base + 1 .. Len(text) = {}
    BY <1>1
  <2> QED BY <1>4, <2>1, NoLines DEF StdoutHas
<1> QED BY <1>2, <1>5, <1>6 DEF SinksInv

LEMMA SinksInOrder == SinksInv => InOrder
<1> SUFFICES ASSUME SinksInv, NEW i \in DOMAIN output.sinks
             PROVE  LET s == SinkOf(i)
                    IN  CASE s.kind = "file" -> LogInOrder(s)
                          [] s.kind = "stdout" ->
                               \A n \in base + 1 .. Len(text) :
                                 text[n].kind = "alert" \/ s.format = "text" => n \in ToSet(s.got)
                          [] OTHER -> Increasing(s.got)
  BY DEF InOrder
<1> DEFINE s == SinkOf(i)
           L == Len(text)
<1>1. SinkOK(s, L) /\ StdoutHas(s, text, base)
  BY DEF SinksInv, IsOutput, SinkOf
<1> HIDE DEF s, L
<1>2. s.kind = "file" => LogInOrder(s)
  BY <1>1, InLog DEF SinkOK
<1>3. s.kind # "file" => Increasing(s.got)
  BY <1>1, StreamsAre
<1> QED BY <1>1, <1>2, <1>3 DEF StdoutHas, s

(* Whatever the disk, the directory, the collector and logrotate do, and   *)
(* whenever the process is killed, in a rotation too: the generations of a *)
(* log have its lines in order and none twice, standard output has every   *)
(* line of its process, a line leaves a log only with its oldest           *)
(* generation or with the buffer of a process that was killed, and a sink  *)
(* that is told a line has it or counts a failure.                         *)
THEOREM LinesAlwaysKept == DeliverySpec => LinesKept
<1>1. IInv /\ SinksInv /\ [DeliveryNext]_dvars =>
        [\A i \in DOMAIN output.sinks :
           /\ IsFile(i) => LeavesRightly(SinkOf(i), SinkOf(i)')
           /\ Len(text') > Len(text) /\ base' = base => SaidOrCounted(i)]_dvars
  BY NextKept DEF StepKept
<1>2. IInv /\ SinksInv /\ [DeliveryNext]_dvars => SinksInv'
  BY NextKept
<1> QED
  BY <1>1, <1>2, InitSinks, SinksInOrder, AlwaysIInv, PTL DEF DeliverySpec, LinesKept
=============================================================================
