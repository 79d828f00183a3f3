-------------------------- MODULE FlowTableProofs --------------------------
(***************************************************************************)
(* For every table size, timeout and lateness, and any packets in any      *)
(* order: a worker's table keeps its bound, retires every connection once, *)
(* sweeps what is idle, reports every byte once, and gives up a connection *)
(* without a packet of its own only when it has been quiet.                *)
(***************************************************************************)
EXTENDS FlowTable, FiniteSetTheorems, TLAPS

-----------------------------------------------------------------------------
(* The parts of the inductive invariant besides what the runs check. *)

(* What was reported of a flow had been counted. *)
ReportedHad == \A k \in DOMAIN flows, w \in Ways : flows[k].reported[w] <= flows[k].bytes[w]

(* A sweep is made at the time of a packet. *)
SweepKnown == lastSwept <= clock

IInv == TypeOK /\ RetiredOnce /\ OnlyOpenFlows /\ SweptInTime /\ BytesToldOnce
        /\ ReportedHad /\ SweepKnown

LEMMA IInvImplies == IInv => TableSound /\ BytesToldOnce
BY DEF IInv, TableSound

LEMMA InitIInv == Init => IInv
<1> SUFFICES ASSUME Init PROVE IInv
  OBVIOUS
<1>1. DOMAIN flows = {}
  BY DEF Init
<1>2. TypeOK
  BY <1>1, FlowAssumption DEF Init, TypeOK, NoBytes, Ways, Flow
<1>3. RetiredOnce /\ SweptInTime /\ BytesToldOnce /\ ReportedHad /\ SweepKnown
  BY <1>1 DEF Init, RetiredOnce, SweptInTime, BytesToldOnce, ReportedHad, SweepKnown, NoBytes
<1>4. OnlyOpenFlows
  BY <1>1, FS_EmptySet, FlowAssumption DEF OnlyOpenFlows
<1> QED
  BY <1>2, <1>3, <1>4 DEF IInv

-----------------------------------------------------------------------------
(* What a packet does to its own flow. *)

LEMMA NewFlowIs ==
  ASSUME NEW side \in Sides, NEW now \in Nat
  PROVE  /\ NewFlow(side, now) \in Flow
         /\ \A w \in Ways : /\ NewFlow(side, now).reported[w] = 0
                            /\ NewFlow(side, now).bytes[w] = 0
BY DEF NewFlow, Flow, NoBytes, Ways

LEMMA CountIs ==
  ASSUME NEW f \in Flow, NEW side \in Sides, NEW seg \in Segments, NEW len \in Nat, NEW now \in Nat
  PROVE  LET c == Count(f, side, seg, len, now)
         IN  /\ c \in Flow
             /\ c.lastSeen = now /\ c.reported = f.reported /\ c.client = f.client
             /\ c.bytes = [f.bytes EXCEPT ![Way(f, side)] = @ + len]
<1>0. Way(f, side) \in Ways
  BY DEF Way, Ways
<1>1. ASSUME NEW w \in Ways, NEW c,
             c = [f EXCEPT !.lastSeen = now, !.bytes[w] = @ + len, !.reset = @ \/ seg = "rst",
                           !.fin = IF seg = "fin" THEN @ \cup {w} ELSE @]
      PROVE  c = [client |-> f.client, lastSeen |-> now,
                bytes |-> [f.bytes EXCEPT ![w] = f.bytes[w] + len], reported |-> f.reported,
                lastReport |-> f.lastReport, fin |-> IF seg = "fin" THEN f.fin \cup {w} ELSE f.fin,
                reset |-> f.reset \/ seg = "rst"]
  BY <1>1, Zenon DEF Flow
<1> DEFINE bytes == [f.bytes EXCEPT ![Way(f, side)] = f.bytes[Way(f, side)] + len]
           fin   == IF seg = "fin" THEN f.fin \cup {Way(f, side)} ELSE f.fin
           reset == f.reset \/ seg = "rst"
<1>2. Count(f, side, seg, len, now) =
          [client |-> f.client, lastSeen |-> now, bytes |-> bytes, reported |-> f.reported,
           lastReport |-> f.lastReport, fin |-> fin, reset |-> reset]
  BY <1>0, <1>1, Zenon DEF Count
<1>6. bytes \in [Ways -> Nat] /\ fin \in SUBSET Ways
  BY <1>0 DEF Flow
<1>3. reset \in BOOLEAN
  BY Zenon
<1>4. f.client \in Sides /\ f.reported \in [Ways -> Nat] /\ f.lastReport \in Nat
  BY DEF Flow
<1>5. [client |-> f.client, lastSeen |-> now, bytes |-> bytes, reported |-> f.reported,
       lastReport |-> f.lastReport, fin |-> fin, reset |-> reset] \in Flow
  BY <1>6, <1>3, <1>4, Zenon DEF Flow
<1> QED
  BY <1>2, <1>5

LEMMA ReportedIs ==
  ASSUME NEW f \in Flow, NEW now \in Nat
  PROVE  LET g == Reported(f, now)
         IN  /\ g \in Flow
             /\ g.lastSeen = f.lastSeen /\ g.bytes = f.bytes
             /\ g.reported = IF Due(f, now) THEN f.bytes ELSE f.reported
<1>1. CASE Due(f, now)
  <2>1. Reported(f, now) = [client |-> f.client, lastSeen |-> f.lastSeen, bytes |-> f.bytes,
                            reported |-> f.bytes, lastReport |-> now, fin |-> f.fin, reset |-> f.reset]
    BY <1>1, Zenon DEF Reported, Flow
  <2>2. [client |-> f.client, lastSeen |-> f.lastSeen, bytes |-> f.bytes,
         reported |-> f.bytes, lastReport |-> now, fin |-> f.fin, reset |-> f.reset] \in Flow
    BY Zenon DEF Flow
  <2> QED
    BY <1>1, <2>1, <2>2
<1>2. CASE ~Due(f, now)
  BY <1>2 DEF Reported
<1> QED
  BY <1>1, <1>2

LEMMA PendingIs ==
  ASSUME NEW f \in Flow, NEW w \in Ways
  PROVE  Pending(f)[w] = f.bytes[w] - f.reported[w]
BY DEF Pending

LEMMA WithoutIs ==
  ASSUME NEW t, NEW gone
  PROVE  /\ DOMAIN Without(t, gone) = DOMAIN t \ gone
         /\ \A j \in DOMAIN t \ gone : Without(t, gone)[j] = t[j]
BY DEF Without

-----------------------------------------------------------------------------
(* What every step on the table comes to: of the flows of D, as they are   *)
(* in `after`, some stay; the others are each logged, and their pending    *)
(* bytes told besides what was due.                                        *)
Ends(D, after, due) ==
  LET left == D \ DOMAIN flows'
  IN  /\ DOMAIN flows' \subseteq D
      /\ flows' = [j \in DOMAIN flows' |-> after[j]]
      /\ logged' = [j \in Keys |-> IF j \in left THEN logged[j] + 1 ELSE logged[j]]
      /\ told' = [j \in Keys |-> [w \in Ways |->
           told[j][w] + due[j][w]
             + (IF ObserveEnabled /\ j \in left THEN Pending(after[j])[w] ELSE 0)]]

(* The books would be right had all of them stayed. *)
Accounts(D, after, due) ==
  /\ D \in SUBSET Keys /\ after \in [D -> Flow] /\ due \in [Keys -> [Ways -> Nat]]
  /\ \A j \in D, w \in Ways : after[j].reported[w] <= after[j].bytes[w]
  /\ \A j \in Keys : opened'[j] = logged[j] + (IF j \in D THEN 1 ELSE 0)
  /\ ObserveEnabled =>
       \A j \in Keys, w \in Ways :
         counted'[j][w] = told[j][w] + due[j][w] + (IF j \in D THEN Pending(after[j])[w] ELSE 0)

BooksKept ==
  /\ DOMAIN flows' \subseteq Keys /\ flows' \in [DOMAIN flows' -> Flow]
  /\ told' \in [Keys -> [Ways -> Nat]] /\ logged' \in [Keys -> Nat]
  /\ ReportedHad' /\ RetiredOnce' /\ BytesToldOnce'

(* Then no byte is told twice and no flow logged twice, whichever stay. *)
LEMMA EndsKeeps ==
  ASSUME TypeOK, NEW D, NEW after, NEW due, Ends(D, after, due), Accounts(D, after, due)
  PROVE  BooksKept
<1> USE DEF Accounts
<1>1. ASSUME NEW j \in D, NEW w \in Ways PROVE Pending(after[j])[w] \in Nat
  BY <1>1, PendingIs DEF Flow
<1>2. DOMAIN flows' \subseteq Keys /\ flows' \in [DOMAIN flows' -> Flow]
  BY DEF Ends
<1>3. \A j \in DOMAIN flows' : j \in D /\ flows'[j] = after[j]
  BY DEF Ends
<1>4. told' \in [Keys -> [Ways -> Nat]]
  BY <1>1 DEF Ends, TypeOK
<1>5. logged' \in [Keys -> Nat]
  BY DEF Ends, TypeOK
<1>6. ReportedHad'
  BY <1>3 DEF ReportedHad
<1>7. RetiredOnce'
  BY <1>3 DEF RetiredOnce, Ends, TypeOK
<1>8. ASSUME ObserveEnabled PROVE BytesToldOnce'
  <2> SUFFICES ASSUME NEW j \in Keys, NEW w \in Ways
               PROVE  counted'[j][w] =
                        told'[j][w] + (IF j \in DOMAIN flows' THEN Pending(flows'[j])[w] ELSE 0)
    BY DEF BytesToldOnce
  <2>1. told[j][w] \in Nat /\ due[j][w] \in Nat
    BY DEF TypeOK
  <2>2. told'[j][w] = told[j][w] + due[j][w]
                       + (IF j \in D \ DOMAIN flows' THEN Pending(after[j])[w] ELSE 0)
    BY <1>8 DEF Ends
  <2>3. CASE j \in DOMAIN flows'
    BY <1>1, <1>3, <1>8, <2>1, <2>2, <2>3
  <2>4. CASE j \notin DOMAIN flows'
    BY <1>1, <1>8, <2>1, <2>2, <2>4
  <2> QED
    BY <2>3, <2>4
<1> QED
  BY <1>2, <1>4, <1>5, <1>6, <1>7, <1>8 DEF BytesToldOnce, BooksKept

-----------------------------------------------------------------------------
(* Room made for a packet: what is taken out of the table is as it was,    *)
(* and is not the packet's own connection.                                 *)
RoomMade(k, out) ==
  /\ DOMAIN out \subseteq DOMAIN flows \ {k}
  /\ \A j \in DOMAIN out : out[j] = flows[j]

(* Whether a flow outlived a timeout by the time of a sweep. *)
Outlived(f, now) ==
  \/ f.lastSeen <= now - Idle
  \/ ~Answered(f) /\ f.lastSeen <= now - Unanswered

NoneDue == [j \in Keys |-> [w \in Ways |-> 0]]

LEMMA LeaveIs ==
  ASSUME TypeOK, NEW out, NEW n, DOMAIN out \subseteq DOMAIN flows,
         \A j \in DOMAIN out : out[j] = flows[j], Leave(out, n)
  PROVE  Ends(DOMAIN flows, flows, NoneDue) /\ DOMAIN flows' = DOMAIN flows \ DOMAIN out
<1>1. DOMAIN flows' = DOMAIN flows \ DOMAIN out /\ flows' = [j \in DOMAIN flows' |-> flows[j]]
  BY DEF Leave, Without
<1>2. \A j \in Keys : j \in DOMAIN flows \ DOMAIN flows' <=> j \in DOMAIN out
  BY <1>1
<1>3. logged' = [j \in Keys |-> IF j \in DOMAIN flows \ DOMAIN flows' THEN logged[j] + 1 ELSE logged[j]]
  BY <1>2 DEF Leave
<1>4. told' = [j \in Keys |-> [w \in Ways |->
        told[j][w] + NoneDue[j][w]
          + (IF ObserveEnabled /\ j \in DOMAIN flows \ DOMAIN flows' THEN Pending(flows[j])[w] ELSE 0)]]
  BY <1>2 DEF Leave, NoneDue, TypeOK
<1> QED
  BY <1>1, <1>3, <1>4 DEF Ends

(* The packet's flow after it, and the table had nothing left it for the   *)
(* packet's sake.                                                          *)
Old(k, side, now, t)       == IF k \in DOMAIN t THEN t[k] ELSE NewFlow(side, now)
Took(k, side, seg, len, now, t) == Count(Old(k, side, now, t), side, seg, len, now)
After(k, g) == [j \in DOMAIN flows \cup {k} |-> IF j = k THEN g ELSE flows[j]]
DueOf(k, f, now) ==
  [j \in Keys |-> [w \in Ways |-> IF j = k /\ Due(f, now) THEN Pending(f)[w] ELSE 0]]

(* What tracking a packet comes to; `f` is its flow before the report.     *)
Tracked(k, v, len, now, f, out) ==
  LET g     == Reported(f, now)
      D     == DOMAIN flows \cup {k}
      after == After(k, g)
  IN  /\ Ends(D, after, DueOf(k, f, now))
      /\ counted' = [counted EXCEPT ![k][v] = @ + len]
      /\ opened' = [opened EXCEPT ![k] = IF k \in DOMAIN flows THEN @ ELSE @ + 1]
      /\ k \in DOMAIN flows' => ~Closed(g)
      /\ DOMAIN flows' \cap DOMAIN out = {}
      /\ \A j \in D \ (DOMAIN out \cup DOMAIN flows') :
           Closed(after[j]) \/ Outlived(after[j], now)
      /\ \/ now <= lastSwept /\ lastSwept' = lastSwept
         \/ lastSwept' = now /\ \A j \in DOMAIN flows' : ~Outlived(after[j], now)

LEMMA TrackIs ==
  ASSUME IInv, NEW k \in Keys, NEW side \in Sides, NEW seg \in Segments, NEW len \in Frames,
         NEW now \in Times, NEW out, NEW t, RoomMade(k, out), t = Without(flows, DOMAIN out),
         Track(k, side, seg, len, now, t, out)
  PROVE  Tracked(k, Way(Old(k, side, now, t), side), len, now, Took(k, side, seg, len, now, t), out)
<1>2. /\ DOMAIN t = DOMAIN flows \ DOMAIN out /\ \A j \in DOMAIN t : t[j] = flows[j]
      /\ k \in DOMAIN t <=> k \in DOMAIN flows
      /\ k \notin DOMAIN out
  BY DEF RoomMade, Without
<1> DEFINE old    == Old(k, side, now, t)
           f      == Took(k, side, seg, len, now, t)
           g      == Reported(f, now)
           with   == [j \in DOMAIN t \cup {k} |-> IF j = k THEN g ELSE t[j]]
           kept   == IF Closed(g) THEN Without(with, {k}) ELSE with
           sweep  == sinceSweep + 1 >= SweepEvery \/ now > lastSwept
           dead   == IF sweep THEN Dead(kept, now, Idle) ELSE {}
           gone   == (DOMAIN with \ DOMAIN kept) \cup dead
           left   == [j \in DOMAIN out \cup gone |-> IF j \in DOMAIN out THEN out[j] ELSE with[j]]
           D      == DOMAIN flows \cup {k}
           after  == After(k, g)
           due    == DueOf(k, f, now)
<1>1. /\ flows' = Without(kept, dead)
      /\ lastSwept' = IF sweep THEN now ELSE lastSwept
      /\ counted' = [counted EXCEPT ![k][Way(old, side)] = @ + len]
      /\ told' = [j \in Keys |-> [w \in Ways |->
           told[j][w] + (IF j = k /\ Due(f, now) THEN Pending(f)[w] ELSE 0)
                      + (IF ObserveEnabled /\ j \in DOMAIN left THEN Pending(left[j])[w] ELSE 0)]]
      /\ opened' = [opened EXCEPT ![k] = IF k \in DOMAIN t THEN @ ELSE @ + 1]
      /\ logged' = [j \in Keys |-> IF j \in DOMAIN left THEN logged[j] + 1 ELSE logged[j]]
  BY DEF Track, Old, Took
<1> HIDE DEF old, f, g
<1>4. DOMAIN with = D \ DOMAIN out /\ \A j \in DOMAIN with : with[j] = after[j]
  BY <1>2 DEF After
<1> HIDE DEF with, after
<1>5. DOMAIN kept = (IF Closed(g) THEN DOMAIN with \ {k} ELSE DOMAIN with)
      /\ \A j \in DOMAIN kept : kept[j] = after[j]
  <2>1. CASE Closed(g)
    BY <2>1, <1>4 DEF Without
  <2>2. CASE ~Closed(g)
    BY <2>2, <1>4
  <2> QED
    BY <2>1, <2>2
<1>6. dead \subseteq DOMAIN kept
  BY DEF Dead
<1> HIDE DEF kept
<1>7. DOMAIN flows' = DOMAIN kept \ dead /\ flows' = [j \in DOMAIN flows' |-> after[j]]
  BY <1>1, <1>5 DEF Without
<1>8. DOMAIN left = D \ DOMAIN flows'
  BY <1>2, <1>4, <1>5, <1>6, <1>7 DEF RoomMade
<1>9. \A j \in DOMAIN left : left[j] = after[j]
  <2>1. \A j \in DOMAIN out : out[j] = after[j]
    BY <1>2 DEF RoomMade, after, After
  <2> QED
    BY <2>1, <1>4, <1>5, <1>6
<1> HIDE DEF left
<1>10. Ends(D, after, due)
  <2>1. DOMAIN flows' \subseteq D
    BY <1>4, <1>5, <1>7
  <2>2. logged' = [j \in Keys |-> IF j \in D \ DOMAIN flows' THEN logged[j] + 1 ELSE logged[j]]
    BY <1>1, <1>8
  <2>3. told' = [j \in Keys |-> [w \in Ways |->
          told[j][w] + due[j][w]
            + (IF ObserveEnabled /\ j \in D \ DOMAIN flows' THEN Pending(after[j])[w] ELSE 0)]]
    BY <1>1, <1>8, <1>9 DEF DueOf
  <2> QED
    BY <1>7, <2>1, <2>2, <2>3 DEF Ends
<1>11. k \in DOMAIN flows' => ~Closed(g)
  BY <1>5, <1>7
<1>12. DOMAIN flows' \cap DOMAIN out = {}
  BY <1>4, <1>5, <1>7
<1>13. \A j \in D \ (DOMAIN out \cup DOMAIN flows') : Closed(after[j]) \/ Outlived(after[j], now)
  <2> SUFFICES ASSUME NEW j \in D, j \notin DOMAIN out, j \notin DOMAIN flows'
               PROVE  Closed(after[j]) \/ Outlived(after[j], now)
    OBVIOUS
  <2>1. CASE j \in dead
    <3>1. j \in Dead(kept, now, Idle)
      BY <2>1
    <3>2. kept[j] = after[j]
      BY <3>1, <1>5 DEF Dead
    <3>3. Closed(kept[j]) \/ Outlived(kept[j], now)
      BY <3>1 DEF Dead, Outlived
    <3> QED
      BY <3>2, <3>3
  <2>2. CASE j \notin dead
    <3>1. j \in DOMAIN with /\ j \notin DOMAIN kept
      BY <2>2, <1>4, <1>7
    <3>2. j = k /\ Closed(g)
      BY <3>1, <1>5
    <3> QED
      BY <3>2 DEF after, After
  <2> QED
    BY <2>1, <2>2
<1>14. \/ now <= lastSwept /\ lastSwept' = lastSwept
       \/ lastSwept' = now /\ \A j \in DOMAIN flows' : ~Outlived(after[j], now)
  <2>1. CASE sweep
    BY <2>1, <1>1, <1>5, <1>7 DEF Dead, Outlived
  <2>2. CASE ~sweep
    BY <2>2, <1>1, FlowAssumption DEF IInv, TypeOK
  <2> QED
    BY <2>1, <2>2
<1>15. opened' = [opened EXCEPT ![k] = IF k \in DOMAIN flows THEN @ ELSE @ + 1]
  BY <1>1, <1>2
<1> QED
  BY <1>1, <1>10, <1>11, <1>12, <1>13, <1>14, <1>15 DEF Tracked, old, f, g, after

-----------------------------------------------------------------------------
(* One step per action. *)

LEMMA CountsGrow ==
  ASSUME TypeOK, NEW k \in Keys, NEW v \in Ways, NEW len \in Nat,
         counted' = [counted EXCEPT ![k][v] = @ + len]
  PROVE  /\ counted' \in [Keys -> [Ways -> Nat]]
         /\ \A j \in Keys, w \in Ways :
              counted'[j][w] = counted[j][w] + (IF j = k /\ w = v THEN len ELSE 0)
BY DEF TypeOK

LEMMA TrackStep ==
  ASSUME IInv, NEW k \in Keys, NEW side \in Sides, NEW seg \in Segments, NEW len \in Frames,
         NEW now \in Times, NEW out, NEW t, RoomMade(k, out), t = Without(flows, DOMAIN out),
         Track(k, side, seg, len, now, t, out), UNCHANGED refused,
         now >= clock - MaxLate, clock' = IF now > clock THEN now ELSE clock,
         Cardinality((DOMAIN flows \ DOMAIN out) \cup {k}) <= MaxFlows
  PROVE  /\ BooksKept
         /\ counted' \in [Keys -> [Ways -> Nat]] /\ opened' \in [Keys -> Nat]
         /\ SweepKnown' /\ OnlyOpenFlows' /\ SweptInTime'
<1> DEFINE old   == Old(k, side, now, t)
           f     == Took(k, side, seg, len, now, t)
           g     == Reported(f, now)
           D     == DOMAIN flows \cup {k}
           after == After(k, g)
           due   == DueOf(k, f, now)
<1>0. Tracked(k, Way(old, side), len, now, f, out)
  BY TrackIs
<1>1. /\ Ends(D, after, due)
      /\ counted' = [counted EXCEPT ![k][Way(old, side)] = @ + len]
      /\ opened' = [opened EXCEPT ![k] = IF k \in DOMAIN flows THEN @ ELSE @ + 1]
      /\ k \in DOMAIN flows' => ~Closed(g)
      /\ DOMAIN flows' \cap DOMAIN out = {}
      /\ \/ now <= lastSwept /\ lastSwept' = lastSwept
         \/ lastSwept' = now /\ \A j \in DOMAIN flows' : ~Outlived(after[j], now)
  BY <1>0 DEF Tracked
<1>2. now \in Nat /\ len \in Nat
  BY FlowAssumption
<1>3. old = IF k \in DOMAIN flows THEN flows[k] ELSE NewFlow(side, now)
  BY DEF Old, RoomMade, Without
<1>4. /\ old \in Flow
      /\ \A w \in Ways : /\ old.reported[w] <= old.bytes[w]
                         /\ Pending(old)[w] = IF k \in DOMAIN flows THEN Pending(flows[k])[w] ELSE 0
  <2>1. CASE k \in DOMAIN flows
    BY <1>3, <2>1 DEF IInv, TypeOK, ReportedHad
  <2>2. CASE k \notin DOMAIN flows
    BY <1>2, <1>3, <2>2, NewFlowIs DEF Pending
  <2> QED
    BY <2>1, <2>2
<1>taken. f = Count(old, side, seg, len, now)
  BY DEF Took
<1> HIDE DEF old, f
<1>5. /\ f \in Flow /\ f.lastSeen = now /\ f.reported = old.reported
      /\ f.bytes = [old.bytes EXCEPT ![Way(old, side)] = @ + len]
  BY <1>2, <1>4, <1>taken, CountIs
<1>6. Way(old, side) \in Ways
  BY DEF Way, Ways
<1>7. \A w \in Ways : /\ f.reported[w] <= f.bytes[w]
                     /\ Pending(f)[w] = Pending(old)[w] + (IF w = Way(old, side) THEN len ELSE 0)
  <2> TAKE w \in Ways
  <2>1. /\ Pending(f)[w] = f.bytes[w] - f.reported[w]
        /\ Pending(old)[w] = old.bytes[w] - old.reported[w]
    BY <1>4, <1>5, PendingIs
  <2>2. f.bytes[w] = old.bytes[w] + (IF w = Way(old, side) THEN len ELSE 0)
    BY <1>4, <1>5, <1>6 DEF Flow
  <2>3. old.bytes[w] \in Nat /\ old.reported[w] \in Nat /\ old.reported[w] <= old.bytes[w]
    BY <1>4 DEF Flow
  <2> QED
    BY <1>2, <1>5, <2>1, <2>2, <2>3
<1>8. /\ g \in Flow /\ g.lastSeen = now /\ g.bytes = f.bytes
      /\ g.reported = IF Due(f, now) THEN f.bytes ELSE f.reported
  BY <1>2, <1>5, ReportedIs
<1>9. \A w \in Ways : /\ g.reported[w] <= g.bytes[w]
                     /\ Pending(g)[w] = IF Due(f, now) THEN 0 ELSE Pending(f)[w]
  BY <1>5, <1>7, <1>8, PendingIs DEF Flow
<1> HIDE DEF g
<1>10. after \in [D -> Flow] /\ \A j \in D, w \in Ways : after[j].reported[w] <= after[j].bytes[w]
  BY <1>8, <1>9 DEF After, IInv, TypeOK, ReportedHad
<1>11. due \in [Keys -> [Ways -> Nat]]
  BY <1>5, <1>7, PendingIs DEF DueOf, Flow
<1>12. D \in SUBSET Keys
  BY DEF IInv, TypeOK
<1>13. \A j \in D : after[j] = IF j = k THEN g ELSE flows[j]
  BY DEF After
<1>14. \A j \in Keys, w \in Ways : due[j][w] = IF j = k /\ Due(f, now) THEN Pending(f)[w] ELSE 0
  BY DEF DueOf
<1> HIDE DEF after, due
<1>grown. /\ counted' \in [Keys -> [Ways -> Nat]]
          /\ \A j \in Keys, w \in Ways :
               counted'[j][w] = counted[j][w] + (IF j = k /\ w = Way(old, side) THEN len ELSE 0)
  <2> DEFINE v == Way(old, side)
  <2>1. counted \in [Keys -> [Ways -> Nat]] /\ v \in Ways
    BY <1>6 DEF IInv, TypeOK
  <2>2. counted' = [counted EXCEPT ![k][v] = @ + len]
    BY <1>1
  <2> HIDE DEF v, after, due, D, g
  <2>3. /\ counted' \in [Keys -> [Ways -> Nat]]
        /\ \A j \in Keys, w \in Ways :
             counted'[j][w] = counted[j][w] + (IF j = k /\ w = v THEN len ELSE 0)
    BY <1>2, <2>1, <2>2
  <2> QED
    BY <2>3 DEF v
<1>15. opened' \in [Keys -> Nat]
  BY <1>1 DEF IInv, TypeOK
<1>16. \A j \in Keys : opened'[j] = logged[j] + (IF j \in D THEN 1 ELSE 0)
  BY <1>1 DEF IInv, TypeOK, RetiredOnce
<1>17. ASSUME ObserveEnabled, NEW j \in Keys, NEW w \in Ways
       PROVE  counted'[j][w] = told[j][w] + due[j][w] + (IF j \in D THEN Pending(after[j])[w] ELSE 0)
  <2>1. counted'[j][w] = counted[j][w] + (IF j = k /\ w = Way(old, side) THEN len ELSE 0)
    BY <1>grown
  <2>2. counted[j][w] = told[j][w] + (IF j \in DOMAIN flows THEN Pending(flows[j])[w] ELSE 0)
    BY <1>17 DEF IInv, BytesToldOnce
  <2>3. told[j][w] \in Nat
    BY DEF IInv, TypeOK
  <2>4. CASE j = k
    <3>1. Pending(old)[w] \in Int /\ Pending(f)[w] \in Int
      BY <1>4, <1>5, PendingIs DEF Flow
    <3>2. counted'[j][w] = told[j][w] + Pending(f)[w]
      BY <1>2, <1>4, <1>7, <2>1, <2>2, <2>3, <2>4, <3>1
    <3> QED
      BY <1>9, <1>13, <1>14, <2>3, <2>4, <3>1, <3>2
  <2>5. CASE j # k
    <3>1. j \in DOMAIN flows => Pending(flows[j])[w] \in Int
      BY PendingIs DEF IInv, TypeOK, Flow
    <3> QED
      BY <1>13, <1>14, <2>1, <2>2, <2>3, <2>5, <3>1
  <2> QED
    BY <2>4, <2>5
<1>18. BooksKept
  <2>1. TypeOK /\ Ends(D, after, due)
    BY <1>1 DEF IInv
  <2>2. Accounts(D, after, due)
    BY <1>10, <1>11, <1>12, <1>16, <1>17 DEF Accounts
  <2> QED
    BY <2>1, <2>2, EndsKeeps
<1>19. \A j \in DOMAIN flows' : j \in D /\ flows'[j] = after[j]
  BY <1>1 DEF Ends
<1>20. SweepKnown'
  BY <1>1, <1>2 DEF SweepKnown, IInv, TypeOK
<1>21. OnlyOpenFlows'
  <2>1. \A j \in DOMAIN flows' : ~Closed(flows'[j])
    BY <1>1, <1>13, <1>19 DEF IInv, OnlyOpenFlows
  <2>2. DOMAIN flows' \subseteq (DOMAIN flows \ DOMAIN out) \cup {k}
    BY <1>1, <1>19
  <2>3. Cardinality(DOMAIN flows') <= MaxFlows
    <3>1. IsFiniteSet((DOMAIN flows \ DOMAIN out) \cup {k})
      BY <1>12, FS_Subset, FlowAssumption
    <3> DEFINE held == (DOMAIN flows \ DOMAIN out) \cup {k}
    <3>2. Cardinality(DOMAIN flows') <= Cardinality(held) /\ Cardinality(held) \in Nat
          /\ Cardinality(DOMAIN flows') \in Nat
      <4> HIDE DEF held
      <4> QED
        BY <2>2, <3>1, FS_Subset, FS_CardinalityType DEF held
    <3> QED
      BY <3>2, FlowAssumption
  <2> QED
    BY <2>1, <2>3 DEF OnlyOpenFlows
<1>22. SweptInTime'
  <2> SUFFICES ASSUME NEW j \in DOMAIN flows', lastSwept' - flows'[j].lastSeen > MaxLate
               PROVE  /\ lastSwept' - flows'[j].lastSeen < Idle
                      /\ Answered(flows'[j]) \/ lastSwept' - flows'[j].lastSeen < Unanswered
    BY DEF SweptInTime
  <2>1. flows'[j] = after[j] /\ after[j].lastSeen \in Nat
    BY <1>10, <1>19 DEF Flow
  <2>2. CASE lastSwept' = now /\ ~Outlived(after[j], now)
    BY <1>2, <2>1, <2>2, FlowAssumption DEF Outlived
  <2>3. CASE now <= lastSwept /\ lastSwept' = lastSwept
    <3>1. CASE j = k
      BY <1>2, <1>8, <1>13, <1>19, <2>1, <2>3, <3>1, FlowAssumption DEF IInv, TypeOK, SweepKnown
    <3>2. CASE j # k
      BY <1>13, <1>19, <2>3, <3>2 DEF IInv, SweptInTime
    <3> QED
      BY <3>1, <3>2
  <2> QED
    BY <1>1, <2>2, <2>3
<1> QED
  BY <1>grown, <1>15, <1>18, <1>20, <1>21, <1>22

(* Between packets the books are right as they stand. *)
LEMMA BooksRight ==
  ASSUME IInv, UNCHANGED <<counted, opened>>
  PROVE  Accounts(DOMAIN flows, flows, NoneDue)
<1>1. \A j \in DOMAIN flows, w \in Ways : flows[j].reported[w] <= flows[j].bytes[w]
  BY DEF IInv, ReportedHad
<1>2. \A j \in Keys : opened'[j] = logged[j] + (IF j \in DOMAIN flows THEN 1 ELSE 0)
  BY DEF IInv, RetiredOnce
<1>3. ASSUME ObserveEnabled, NEW j \in Keys, NEW w \in Ways
      PROVE  counted'[j][w] = told[j][w] + NoneDue[j][w]
                               + (IF j \in DOMAIN flows THEN Pending(flows[j])[w] ELSE 0)
  BY <1>3 DEF IInv, TypeOK, BytesToldOnce, NoneDue
<1>4. NoneDue \in [Keys -> [Ways -> Nat]]
  BY DEF NoneDue
<1> QED
  BY <1>1, <1>2, <1>3, <1>4 DEF Accounts, IInv, TypeOK

LEMMA LeaveStep ==
  ASSUME IInv, NEW out, NEW n, DOMAIN out \subseteq DOMAIN flows,
         \A j \in DOMAIN out : out[j] = flows[j], Leave(out, n),
         clock' \in Nat, clock' >= clock
  PROVE  /\ BooksKept
         /\ counted' \in [Keys -> [Ways -> Nat]] /\ opened' \in [Keys -> Nat]
         /\ SweepKnown' /\ OnlyOpenFlows' /\ SweptInTime'
<1>1. Ends(DOMAIN flows, flows, NoneDue) /\ DOMAIN flows' \subseteq DOMAIN flows
  BY LeaveIs DEF IInv
<1>2. UNCHANGED <<lastSwept, counted, opened>>
  BY DEF Leave
<1>3. Accounts(DOMAIN flows, flows, NoneDue)
  BY <1>2, BooksRight
<1>4. BooksKept
  BY <1>1, <1>3, EndsKeeps DEF IInv
<1>5. \A j \in DOMAIN flows' : j \in DOMAIN flows /\ flows'[j] = flows[j]
  BY <1>1 DEF Ends
<1>6. OnlyOpenFlows'
  <2>1. Cardinality(DOMAIN flows') <= Cardinality(DOMAIN flows)
        /\ Cardinality(DOMAIN flows') \in Nat /\ Cardinality(DOMAIN flows) \in Nat
    BY <1>1, FS_Subset, FS_CardinalityType, FlowAssumption DEF IInv, TypeOK
  <2> QED
    BY <1>5, <2>1, FlowAssumption DEF IInv, OnlyOpenFlows
<1>7. SweptInTime' /\ SweepKnown'
  BY <1>2, <1>5 DEF IInv, TypeOK, SweptInTime, SweepKnown
<1> QED
  BY <1>2, <1>4, <1>6, <1>7 DEF IInv, TypeOK

-----------------------------------------------------------------------------
(* Whom a packet may push out. *)
MayGo(k) ==
  LET quiet == clock' - flows[k].lastSeen
  IN  \/ pc' = "stop"
      \/ \E w \in Ways : counted'[k][w] > counted[k][w]
      \/ quiet >= Idle
      \/ quiet >= Unanswered /\ ~Answered(flows[k])
      \/ quiet >= Pressure /\ Full(flows)

LEMMA ObserveStep ==
  ASSUME IInv, NEW k \in Keys, NEW side \in Sides, NEW seg \in Segments, NEW len \in Frames,
         NEW now \in Times, Observe(k, side, seg, len, now)
  PROVE  IInv' /\ \A j \in DOMAIN flows \ DOMAIN flows' : MayGo(j)
<1> DEFINE squeeze == Full(flows) /\ k \notin DOMAIN flows
           out == IF squeeze THEN [j \in Dead(flows, now, Pressure) |-> flows[j]] ELSE <<>>
           t   == Without(flows, DOMAIN out)
<1>1. /\ pc' = "drain" /\ packets' = packets + 1 /\ now >= clock - MaxLate
      /\ clock' = IF now > clock THEN now ELSE clock
      /\ \/ squeeze /\ Full(t) /\ Leave(out, 1)
         \/ ~(squeeze /\ Full(t)) /\ seg = "bare" /\ k \notin DOMAIN t /\ Leave(out, 0)
         \/ /\ ~(squeeze /\ Full(t)) /\ ~(seg = "bare" /\ k \notin DOMAIN t)
            /\ Track(k, side, seg, len, now, t, out)
            /\ UNCHANGED refused
  BY DEF Observe
<1>2. now \in Nat /\ len \in Nat \ {0} /\ clock \in Nat /\ clock' \in Nat /\ clock' >= clock /\ clock' >= now
  <2>1. now \in Nat /\ len \in Nat \ {0}
    BY FlowAssumption
  <2>2. clock \in Nat
    BY DEF IInv, TypeOK
  <2>3. clock' = IF now > clock THEN now ELSE clock
    BY <1>1
  <2> QED BY <2>1, <2>2, <2>3
<1>3. /\ RoomMade(k, out)
      /\ \A j \in DOMAIN out : squeeze /\ j \in Dead(flows, now, Pressure)
  BY DEF RoomMade, Dead
<1>4. DOMAIN t = DOMAIN flows \ DOMAIN out
  BY DEF Without
<1>5. squeeze \/ DOMAIN out = {}
  BY <1>3
<1>9. t = Without(flows, DOMAIN out)
  OBVIOUS
<1> HIDE DEF out, t
<1>6. \A j \in DOMAIN out : MayGo(j)
  <2> SUFFICES ASSUME NEW j \in DOMAIN out PROVE MayGo(j)
    OBVIOUS
  <2>1. j \in DOMAIN flows /\ ~Closed(flows[j]) /\ flows[j].lastSeen \in Nat
    BY <1>3 DEF RoomMade, IInv, TypeOK, Flow, OnlyOpenFlows
  <2>2. \/ flows[j].lastSeen <= now - Pressure
        \/ ~Answered(flows[j]) /\ flows[j].lastSeen <= now - Unanswered
    BY <1>3, <2>1 DEF Dead
  <2> QED
    BY <1>2, <1>3, <2>1, <2>2, FlowAssumption DEF MayGo
<1>7. ASSUME NEW n \in {0, 1}, Leave(out, n)
      PROVE  IInv' /\ \A j \in DOMAIN flows \ DOMAIN flows' : MayGo(j)
  <2>1. /\ BooksKept /\ counted' \in [Keys -> [Ways -> Nat]] /\ opened' \in [Keys -> Nat]
        /\ SweepKnown' /\ OnlyOpenFlows' /\ SweptInTime'
    BY <1>2, <1>3, <1>7, LeaveStep DEF RoomMade
  <2>2. TypeOK'
    BY <1>1, <1>2, <1>7, <2>1 DEF BooksKept, Leave, IInv, TypeOK
  <2>3. DOMAIN flows \ DOMAIN flows' \subseteq DOMAIN out
    BY <1>7 DEF Leave, Without
  <2> QED
    BY <1>6, <2>1, <2>2, <2>3 DEF BooksKept, IInv
<1>8. ASSUME ~(squeeze /\ Full(t)), Track(k, side, seg, len, now, t, out), UNCHANGED refused
      PROVE  IInv' /\ \A j \in DOMAIN flows \ DOMAIN flows' : MayGo(j)
  <2>1. Cardinality((DOMAIN flows \ DOMAIN out) \cup {k}) <= MaxFlows
    <3>1. /\ IsFiniteSet(DOMAIN flows) /\ IsFiniteSet(DOMAIN flows \ DOMAIN out)
      <4>1. DOMAIN flows \in SUBSET Keys
        BY DEF IInv, TypeOK
      <4>2. IsFiniteSet(Keys)
        BY FlowAssumption
      <4>3. IsFiniteSet(DOMAIN flows)
        BY <4>1, <4>2, FS_Subset
      <4>4. DOMAIN flows \ DOMAIN out \in SUBSET (DOMAIN flows)
        OBVIOUS
      <4>5. IsFiniteSet(DOMAIN flows \ DOMAIN out)
        BY <4>3, <4>4, FS_Subset
      <4> QED
        BY <4>3, <4>5
    <3>2. CASE k \in DOMAIN flows
      <4>1. (DOMAIN flows \ DOMAIN out) \cup {k} = DOMAIN flows
        BY <1>5, <3>2
      <4> QED
        BY <4>1 DEF IInv, OnlyOpenFlows
    <3>3. CASE k \notin DOMAIN flows
      <4>1. Cardinality(DOMAIN flows \ DOMAIN out) < MaxFlows /\ Cardinality(DOMAIN flows \ DOMAIN out) \in Nat
        <5>1. CASE squeeze
          BY <1>4, <1>8, <3>1, <5>1, FS_CardinalityType, FlowAssumption DEF Full
        <5>2. CASE ~squeeze
          <6>1. DOMAIN flows \ DOMAIN out = DOMAIN flows
            BY <1>5, <5>2
          <6> QED
            BY <3>1, <3>3, <5>2, <6>1, FS_CardinalityType, FlowAssumption DEF Full
        <5> QED
          BY <5>1, <5>2
      <4>2. Cardinality((DOMAIN flows \ DOMAIN out) \cup {k}) = Cardinality(DOMAIN flows \ DOMAIN out) + 1
        BY <3>1, <3>3, FS_AddElement
      <4> QED
        BY <4>1, <4>2, FlowAssumption
    <3> QED
      BY <3>2, <3>3
  <2> HIDE DEF squeeze
  <2>2. /\ BooksKept /\ counted' \in [Keys -> [Ways -> Nat]] /\ opened' \in [Keys -> Nat]
        /\ SweepKnown' /\ OnlyOpenFlows' /\ SweptInTime'
    <3>1. now >= clock - MaxLate /\ clock' = IF now > clock THEN now ELSE clock
      BY <1>1
    <3> QED
      BY <1>3, <1>8, <1>9, <2>1, <3>1, TrackStep
  <2>3. TypeOK'
    <3>1. sinceSweep' \in Nat /\ lastSwept' \in Nat
      <4> DEFINE sweep == sinceSweep + 1 >= SweepEvery \/ now > lastSwept
      <4>1. /\ sinceSweep' = IF sweep THEN 0 ELSE sinceSweep + 1
            /\ lastSwept' = IF sweep THEN now ELSE lastSwept
        BY <1>8, Zenon DEF Track
      <4>2. sinceSweep \in Nat /\ lastSwept \in Nat
        BY DEF IInv, TypeOK
      <4> HIDE DEF sweep
      <4> QED BY <1>2, <4>1, <4>2
    <3> QED
      BY <1>1, <1>2, <1>8, <2>2, <3>1 DEF BooksKept, IInv, TypeOK
  <2> DEFINE f == Took(k, side, seg, len, now, t)
             v == Way(Old(k, side, now, t), side)
  <2>4. Tracked(k, v, len, now, f, out)
    BY <1>3, <1>8, <1>9, TrackIs
  <2>5. v \in Ways
    BY DEF Way, Ways
  <2> HIDE DEF f, v
  <2>6. ASSUME NEW j \in DOMAIN flows \ DOMAIN flows' PROVE MayGo(j)
    <3>1. CASE j \in DOMAIN out
      BY <1>6, <3>1
    <3>2. CASE j = k
      <4>1. counted'[k][v] = counted[k][v] + len /\ counted[k][v] \in Nat
        BY <1>2, <2>4, <2>5, CountsGrow DEF Tracked, IInv, TypeOK
      <4> QED
        BY <1>2, <2>5, <3>2, <4>1 DEF MayGo
    <3>3. CASE j # k /\ j \notin DOMAIN out
      <4>1. Closed(flows[j]) \/ Outlived(flows[j], now)
        BY <2>4, <2>6, <3>3 DEF Tracked, After
      <4>2. Outlived(flows[j], now) /\ flows[j].lastSeen \in Nat
        BY <4>1 DEF IInv, TypeOK, Flow, OnlyOpenFlows
      <4> QED
        BY <1>2, <4>2, FlowAssumption DEF Outlived, MayGo
    <3> QED
      BY <3>1, <3>2, <3>3
  <2> QED
    BY <2>2, <2>3, <2>6 DEF BooksKept, IInv
<1> QED
  BY <1>1, <1>7, <1>8

LEMMA FlushStep ==
  ASSUME IInv, FlushOpenFlows
  PROVE  IInv'
<1>1. DOMAIN flows' = {} /\ UNCHANGED <<counted, opened, clock, lastSwept>>
  BY DEF FlushOpenFlows
<1>2. Ends(DOMAIN flows, flows, NoneDue)
  <2>1. flows' = [j \in DOMAIN flows' |-> flows[j]]
    BY <1>1 DEF FlushOpenFlows
  <2>2. \A j : j \in DOMAIN flows \ DOMAIN flows' <=> j \in DOMAIN flows
    BY <1>1
  <2>3. logged' = [j \in Keys |-> IF j \in DOMAIN flows \ DOMAIN flows' THEN logged[j] + 1 ELSE logged[j]]
    BY <2>2 DEF FlushOpenFlows
  <2>4. told' = [j \in Keys |-> [w \in Ways |->
          told[j][w] + NoneDue[j][w]
            + (IF ObserveEnabled /\ j \in DOMAIN flows \ DOMAIN flows' THEN Pending(flows[j])[w] ELSE 0)]]
    BY <2>2 DEF FlushOpenFlows, NoneDue, IInv, TypeOK
  <2> QED
    BY <1>1, <2>1, <2>3, <2>4 DEF Ends
<1>3. BooksKept
  BY <1>1, <1>2, BooksRight, EndsKeeps DEF IInv
<1>4. TypeOK'
  BY <1>3 DEF BooksKept, FlushOpenFlows, IInv, TypeOK
<1>5. OnlyOpenFlows' /\ SweptInTime' /\ SweepKnown'
  BY <1>1, FS_EmptySet, FlowAssumption DEF OnlyOpenFlows, SweptInTime, SweepKnown, IInv
<1> QED
  BY <1>3, <1>4, <1>5 DEF BooksKept, IInv

(* Draining and stuttering touch nothing the invariant is about. *)
LEMMA RestStep ==
  ASSUME IInv, Drain \/ UNCHANGED vars
  PROVE  IInv' /\ UNCHANGED flows
<1>1. UNCHANGED <<flows, sinceSweep, lastSwept, refused, clock, packets, counted, told, opened, logged>>
      /\ pc' \in {"ready", "drain", "stop", "done"}
  BY DEF Drain, vars, table, ghost, IInv, TypeOK
<1>2. TypeOK' /\ RetiredOnce' /\ BytesToldOnce'
  BY <1>1 DEF IInv, TypeOK, RetiredOnce, BytesToldOnce
<1>3. OnlyOpenFlows' /\ SweptInTime' /\ ReportedHad' /\ SweepKnown'
  BY <1>1 DEF IInv, OnlyOpenFlows, SweptInTime, ReportedHad, SweepKnown
<1> QED
  BY <1>1, <1>2, <1>3 DEF IInv

LEMMA NextIInv == IInv /\ [Next]_vars => IInv'
BY ObserveStep, FlushStep, RestStep DEF Next

LEMMA Inductive == Spec => []IInv
BY InitIInv, NextIInv, PTL DEF Spec

-----------------------------------------------------------------------------
(* The table's bound and its books: at no moment does it hold more flows   *)
(* than it may or one that has closed or outstayed its timeout, and each   *)
(* connection opened was logged once or is in it.                          *)
THEOREM AlwaysSound == Spec => []TableSound
<1>1. IInv => TableSound
  BY IInvImplies
<1> QED
  BY <1>1, Inductive, PTL

(* Interim reports, departures, pressure and shutdown between them tell    *)
(* volume detection of every byte once.                                    *)
THEOREM EveryByteToldOnce == Spec => []BytesToldOnce
<1>1. IInv => BytesToldOnce
  BY IInvImplies
<1> QED
  BY <1>1, Inductive, PTL

(* No packet pushes out another's live connection. *)
THEOREM LiveFlowsAlwaysStay == Spec => LiveFlowsStay
<1>1. IInv /\ [Next]_vars =>
        [\A k \in DOMAIN flows \ DOMAIN flows' :
           LET quiet == clock' - flows[k].lastSeen
           IN  \/ pc' = "stop"
               \/ \E w \in Ways : counted'[k][w] > counted[k][w]
               \/ quiet >= Idle
               \/ quiet >= Unanswered /\ ~Answered(flows[k])
               \/ quiet >= Pressure /\ Full(flows)]_vars
  <2> SUFFICES ASSUME IInv, [Next]_vars, NEW k \in DOMAIN flows \ DOMAIN flows'
               PROVE  MayGo(k)
    BY DEF MayGo
  <2>1. CASE FlushOpenFlows
    BY <2>1 DEF FlushOpenFlows, MayGo
  <2>2. CASE Drain \/ UNCHANGED vars
    BY <2>2, RestStep
  <2>3. CASE \E j \in Keys, side \in Sides, seg \in Segments, len \in Frames, now \in Times :
               Observe(j, side, seg, len, now)
    BY <2>3, ObserveStep
  <2> QED
    BY <2>1, <2>2, <2>3 DEF Next
<1> QED
  BY <1>1, Inductive, PTL DEF Spec, LiveFlowsStay
=============================================================================
