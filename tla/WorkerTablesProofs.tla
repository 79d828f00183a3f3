------------------------- MODULE WorkerTablesProofs -------------------------
(***************************************************************************)
(* For any limits, window and packets: what a worker's tables say of the   *)
(* recent past is what the packets were.  Floods and scans are judged on   *)
(* exactly the packets of the window, replies are told from probes, every  *)
(* packet counted is reported or waits to be, and every datagram admitted  *)
(* is in one conversation.                                                 *)
(***************************************************************************)
EXTENDS WorkerTables, FiniteSetTheorems, TLAPS, WellFoundedInduction

-----------------------------------------------------------------------------
(* Types. *)

Stamped == {[p EXCEPT !.t = t] : p \in UNION {s.packets : s \in Settings}, t \in Times}
Mark == [p : Stamped, reply : BOOLEAN, recorded : BOOLEAN, admitted : BOOLEAN,
         flood : BOOLEAN, probe : BOOLEAN, scan : BOOLEAN]

IsDst(d) ==
  /\ d.ports = [x \in Probes |-> d.ports[x]] /\ d.pruned \in [Probes -> Nat]
  /\ d.seen \in Nat /\ d.alert \in Nat \cup {None}
  /\ \A x \in Probes : \A q \in DOMAIN d.ports[x] : d.ports[x][q] \in Nat
IsSource(st) ==
  /\ st = [bucket |-> st.bucket, dsts |-> st.dsts, seen |-> st.seen, flood |-> st.flood,
           volSec |-> st.volSec, volume |-> st.volume]
  /\ st.bucket \in [0 .. Window - 1 -> [sec : Nat, n : Nat]]
  /\ st.seen \in Nat /\ st.flood \in Nat \cup {None} /\ st.volSec \in Nat /\ st.volume \in Nat
  /\ IsFiniteSet(DOMAIN st.dsts) /\ \A d \in DOMAIN st.dsts : IsDst(st.dsts[d])

TypeOK ==
  /\ setting \in Settings /\ log \in Seq(Mark)
  /\ IsFiniteSet(DOMAIN stats) /\ \A s \in DOMAIN stats : IsSource(stats[s])
  /\ IsFiniteSet(DOMAIN pairs) /\ \A k \in DOMAIN pairs : pairs[k] \in Nat
  /\ \A s \in DOMAIN active : active[s] \in Nat
  /\ latest \in Nat /\ flushed \in Nat
  /\ \A k \in DOMAIN reported : reported[k] \in Nat

-----------------------------------------------------------------------------
(* The parts of the inductive invariant. *)

Ordered == setting.late = 0
Clock == IF log = <<>> THEN 0 ELSE log[Len(log)].p.t
Recent(i) == log[i].p.t > Clock - Window

InOrder == Ordered => \A i, j \in DOMAIN log : i <= j => log[i].p.t <= log[j].p.t

(* A source is as old as its last packet, so what has been forgotten of    *)
(* one is out of the window.                                               *)
SourcesKept ==
  /\ \A s \in DOMAIN stats : stats[s].seen <= Clock /\ \A i \in Sent(s) : log[i].p.t <= stats[s].seen
  /\ \A i \in DOMAIN log : log[i].admitted /\ Recent(i) => log[i].p.src \in DOMAIN stats

(* A bucket that still counts has the packets of its second, all of them.  *)
BucketsTrue ==
  /\ \A s \in DOMAIN stats : \A b \in 0 .. Window - 1 :
       LET e == stats[s].bucket[b]
       IN  e.sec <= Clock /\ (e.sec > Clock - Window /\ e.n # 0 => e.sec % Window = b /\ e.n = SentAt(s, e.sec))
  /\ \A i \in DOMAIN log : log[i].admitted /\ Recent(i) =>
       LET s == log[i].p.src  t == log[i].p.t
       IN  stats[s].bucket[t % Window] = [sec |-> t, n |-> SentAt(s, t)]

(* The last alert of some packets is known while an alert could be held    *)
(* back for it.                                                            *)
Alarm(last, S) ==
  /\ last # None => \E i \in S : log[i].p.t = last
  /\ \A i \in S : Recent(i) => last \in Nat /\ log[i].p.t <= last
Flooded(s) == {i \in Sent(s) : log[i].flood}
FloodsKnown == \A s \in DOMAIN stats : Alarm(stats[s].flood, Flooded(s))

Probing(s, d) == {i \in Sent(s) : log[i].probe /\ log[i].p.dst = d}
Scanning(s, d) == {i \in Probing(s, d) : log[i].scan}
DstsKept ==
  \A s \in DOMAIN stats :
    /\ \A i \in Sent(s) : log[i].probe /\ Recent(i) =>
         log[i].p.dst \in DOMAIN stats[s].dsts /\ log[i].p.t <= stats[s].dsts[log[i].p.dst].seen
    /\ \A d \in DOMAIN stats[s].dsts : Alarm(stats[s].dsts[d].alert, Scanning(s, d))

(* A destination's ports are those tried in the window, each at its last   *)
(* time, and maybe older ones that the next to be tried will prune.        *)
PortsTrue ==
  \A s \in DOMAIN stats : \A d \in DOMAIN stats[s].dsts : \A x \in Probes :
    LET e == stats[s].dsts[d]
        ports == e.ports[x]
    IN  /\ e.pruned[x] <= Clock
        /\ \A q \in DOMAIN ports :
             /\ e.pruned[x] - Window < ports[q]
             /\ \E i \in Probing(s, d) : log[i].p.proto = x /\ log[i].p.dport = q /\ log[i].p.t = ports[q]
        /\ \A i \in Probing(s, d) : log[i].p.proto = x /\ Recent(i) =>
             log[i].p.dport \in DOMAIN ports /\ log[i].p.t <= ports[log[i].p.dport]

(* What the log says was so. *)
MarksTrue ==
  \A i \in DOMAIN log :
    /\ log[i].flood => log[i].admitted
    /\ log[i].probe => log[i].admitted /\ log[i].p.proto \in Probes
    /\ log[i].scan => log[i].probe

PairsTrue ==
  /\ \A k \in DOMAIN pairs : \E i \in DOMAIN log : log[i].recorded /\ Pair(log[i].p) = k /\ log[i].p.t = pairs[k]
  /\ Ordered => \A i \in DOMAIN log : log[i].recorded /\ Recent(i) =>
       Pair(log[i].p) \in DOMAIN pairs /\ log[i].p.t <= pairs[Pair(log[i].p)]

(* Volume. *)
Listed == \A s \in DOMAIN stats : stats[s].volume > 0 => s \in DOMAIN active
InSecond ==
  setting.viaObservations =>
    /\ flushed = latest
    /\ \A s \in DOMAIN stats : stats[s].seen = stats[s].volSec
    /\ \A s, t : Told(s, t) <= SentAt(s, t)
    /\ Ordered =>
         /\ \A s \in DOMAIN stats : stats[s].volume > 0 => stats[s].volSec = latest
         /\ \A i \in DOMAIN log : log[i].admitted => log[i].p.t <= latest
         /\ latest <= Clock
Lost ==
  setting.viaObservations /\ Ordered =>
    \A s : \A t \in Nat : Told(s, t) < SentAt(s, t) => t + Window <= Clock /\ ~AdmittedBetween(t, t + Window)

(* Conversations. *)
IsFlow(f) ==
  /\ f = [client |-> f.client, server |-> f.server, last |-> f.last, toServer |-> f.toServer, toClient |-> f.toClient]
  /\ f.toServer \in Nat /\ f.toClient \in Nat /\ f.last \in Nat
FlowsOK ==
  /\ IsFiniteSet(DOMAIN flows) /\ Cardinality(DOMAIN flows) <= MaxFlows
  /\ \A k \in DOMAIN flows : IsFlow(flows[k]) /\ k = {flows[k].client, flows[k].server}
  /\ swept \in Nat /\ seen.at \in Nat /\ seen.refused \in BOOLEAN
  /\ \A w \in DOMAIN told : told[w] \in Nat
  /\ \A w \in DOMAIN counted : counted[w] \in Nat /\ \E x, y : w = <<x, y>>
Balanced ==
  IF Ghosts
  THEN \A x, y : D!Or0(counted, <<x, y>>) = D!Or0(told, <<x, y>>) + D!Carried(flows, <<x, y>>)
  ELSE DOMAIN counted = {}
Quiet ==
  Ordered =>
    /\ swept <= Clock /\ (~seen.refused => seen.at <= swept)
    /\ \A k \in DOMAIN flows : flows[k].last > swept - Idle

-----------------------------------------------------------------------------
(* The sum of the buckets that still count is by induction on how many of  *)
(* them have been added: a least number for which it fails is not there.   *)

LEMMA NoneFails ==
  ASSUME NEW S \in SUBSET Nat, 0 \notin S, \A n \in Nat : n + 1 \in S => n \in S
  PROVE  S = {}
<1> SUFFICES ASSUME S # {}
             PROVE  FALSE
  OBVIOUS
<1>1. PICK m \in S : \A y \in S : <<y, m>> \notin OpToRel(<, Nat)
  BY NatLessThanWellFounded, WFMin
<1>2. \A y \in S : ~(y < m)
  BY <1>1 DEF OpToRel
<1>3. m \in Nat /\ m # 0
  OBVIOUS
<1>4. m - 1 \in Nat /\ (m - 1) + 1 = m
  BY <1>3
<1> QED
  BY <1>2, <1>3, <1>4

Part(bucket, i, cutoff) == IF bucket[i - 1].sec > cutoff THEN bucket[i - 1].n ELSE 0
Sums(f, bucket, n, cutoff) ==
  f = [i \in 0 .. n |-> IF i = 0 THEN 0 ELSE f[i - 1] + Part(bucket, i, cutoff)]

LEMMA SumsExist ==
  ASSUME NEW bucket, NEW cutoff, NEW n \in Nat
  PROVE  \E f : Sums(f, bucket, n, cutoff)
<1> DEFINE S == {m \in Nat : ~ \E f : Sums(f, bucket, m, cutoff)}
<1>1. 0 \notin S
  <2>1. Sums([i \in 0 .. 0 |-> 0], bucket, 0, cutoff)
    BY DEF Sums
  <2> QED BY <2>1
<1>2. ASSUME NEW m \in Nat, m \notin S
      PROVE  m + 1 \notin S
  <2>1. PICK f : Sums(f, bucket, m, cutoff)
    BY <1>2
  <2> DEFINE g == [i \in 0 .. m + 1 |-> IF i <= m THEN f[i] ELSE f[m] + Part(bucket, m + 1, cutoff)]
  <2>2. ASSUME NEW i \in 0 .. m + 1
        PROVE  g[i] = IF i = 0 THEN 0 ELSE g[i - 1] + Part(bucket, i, cutoff)
    <3>1. CASE i = 0
      BY <2>1, <3>1 DEF Sums
    <3>2. CASE i # 0 /\ i <= m
      <4>1. i - 1 \in 0 .. m /\ i \in 0 .. m /\ i - 1 \in 0 .. m + 1
        BY <3>2
      <4>2. g[i - 1] = f[i - 1] /\ g[i] = f[i]
        BY <3>2, <4>1
      <4>3. f[i] = f[i - 1] + Part(bucket, i, cutoff)
        BY <2>1, <3>2, <4>1 DEF Sums
      <4> HIDE DEF g
      <4> QED BY <3>2, <4>2, <4>3
    <3>3. CASE i = m + 1
      <4>1. g[i - 1] = f[m] /\ g[i] = f[m] + Part(bucket, i, cutoff)
        BY <3>3
      <4> HIDE DEF g
      <4> QED BY <3>3, <4>1
    <3> QED BY <3>1, <3>2, <3>3
  <2>3. g = [i \in 0 .. m + 1 |-> IF i = 0 THEN 0 ELSE g[i - 1] + Part(bucket, i, cutoff)]
    <3>1. g = [i \in 0 .. m + 1 |-> g[i]]
      OBVIOUS
    <3> HIDE DEF g
    <3> QED BY <2>2, <3>1
  <2>4. Sums(g, bucket, m + 1, cutoff)
    BY <2>3 DEF Sums
  <2> HIDE DEF g
  <2> QED BY <2>4
<1> HIDE DEF S
<1>3. \A m \in Nat : m + 1 \in S => m \in S
  BY <1>2
<1>4. S = {}
  BY <1>1, <1>3, NoneFails DEF S
<1> QED
  BY <1>4 DEF S

LEMMA SumIs ==
  ASSUME NEW bucket, NEW cutoff, NEW n \in Nat
  PROVE  \E f : Sums(f, bucket, n, cutoff) /\ SumOf(bucket, n, cutoff) = f[n]
<1> DEFINE h == CHOOSE f : Sums(f, bucket, n, cutoff)
<1>1. Sums(h, bucket, n, cutoff)
  BY SumsExist
<1>2. SumOf(bucket, n, cutoff) = h[n]
  BY DEF SumOf, Sums, Part
<1> QED
  BY <1>1, <1>2

(* Buckets that are true of some times sum up to how many of these are in  *)
(* the window: each second of the window is in the bucket of its own       *)
(* remainder, with no other.                                               *)
At(G, tm, t) == {g \in G : tm[g] = t}
After(G, tm, t) == {g \in G : tm[g] > t}

BucketsCount(bucket, W, now, G, tm) ==
  /\ \A b \in 0 .. W - 1 : bucket[b].sec > now - W /\ bucket[b].n # 0 =>
       bucket[b].sec % W = b /\ bucket[b].n = Cardinality(At(G, tm, bucket[b].sec))
  /\ \A g \in G : tm[g] > now - W =>
       bucket[tm[g] % W] = [sec |-> tm[g], n |-> Cardinality(At(G, tm, tm[g]))]

LEMMA SumCounts ==
  ASSUME NEW W \in Nat \ {0}, NEW now \in Nat, NEW bucket \in [0 .. W - 1 -> [sec : Nat, n : Nat]],
         NEW G, IsFiniteSet(G), NEW tm \in [G -> Nat],
         BucketsCount(bucket, W, now, G, tm)
  PROVE  SumOf(bucket, W, now - W) = Cardinality(After(G, tm, now - W))
<1> USE DEF BucketsCount
<1> DEFINE Upto(m) == {g \in G : tm[g] > now - W /\ tm[g] % W < m}
           Here(m) == {g \in G : tm[g] > now - W /\ tm[g] % W = m}
<1>0. W \in Nat /\ W > 0
  OBVIOUS
<1>1. PICK f : Sums(f, bucket, W, now - W) /\ SumOf(bucket, W, now - W) = f[W]
  <2>1. \A c : \E f : Sums(f, bucket, W, c) /\ SumOf(bucket, W, c) = f[W]
    BY <1>0, SumIs
  <2> QED BY <2>1
<1> USE DEF At, After
<1>2. \A m \in Nat : IsFiniteSet(Upto(m)) /\ IsFiniteSet(Here(m))
  <2> SUFFICES ASSUME NEW m \in Nat PROVE IsFiniteSet(Upto(m)) /\ IsFiniteSet(Here(m))
    OBVIOUS
  <2>1. Upto(m) \in SUBSET G /\ Here(m) \in SUBSET G
    OBVIOUS
  <2> HIDE DEF Upto, Here
  <2> QED BY <2>1, FS_Subset
<1>3. \A g \in G : tm[g] % W \in 0 .. W - 1
  OBVIOUS
<1>4. ASSUME NEW m \in 0 .. W - 1
      PROVE  Part(bucket, m + 1, now - W) = Cardinality(Here(m))
  <2>0. (m + 1) - 1 = m /\ bucket[m].sec \in Nat /\ bucket[m].n \in Nat
    OBVIOUS
  <2>1. CASE bucket[m].sec > now - W /\ bucket[m].n # 0
    <3>1. bucket[m].sec % W = m /\ bucket[m].n = Cardinality({g \in G : tm[g] = bucket[m].sec})
      BY <2>1
    <3>2. \A g \in G : tm[g] = bucket[m].sec => g \in Here(m)
      BY <2>1, <3>1
    <3>3. ASSUME NEW g \in Here(m) PROVE tm[g] = bucket[m].sec
      <4>1. g \in G /\ tm[g] > now - W /\ tm[g] % W = m
        OBVIOUS
      <4>2. bucket[m] = [sec |-> tm[g], n |-> Cardinality({h \in G : tm[h] = tm[g]})]
        BY <4>1
      <4> QED BY <4>2
    <3>4. {g \in G : tm[g] = bucket[m].sec} = Here(m)
      BY <3>2, <3>3
    <3> HIDE DEF Here
    <3> QED BY <2>0, <2>1, <3>1, <3>4 DEF Part
  <2>2. CASE ~(bucket[m].sec > now - W /\ bucket[m].n # 0)
    <3>1. ASSUME NEW g \in Here(m) PROVE FALSE
      <4>0. g \in G /\ tm[g] > now - W /\ tm[g] % W = m
        OBVIOUS
      <4>1. bucket[m] = [sec |-> tm[g], n |-> Cardinality({h \in G : tm[h] = tm[g]})]
        BY <4>0
      <4> DEFINE Q == {h \in G : tm[h] = tm[g]}
      <4>2. g \in Q /\ Q \in SUBSET G
        OBVIOUS
      <4>3. IsFiniteSet(Q)
        BY <4>2, FS_Subset
      <4>4. Cardinality(Q) # 0
        BY <4>2, <4>3, FS_EmptySet
      <4> QED BY <2>2, <4>0, <4>1, <4>4
    <3>2. Here(m) = {}
      BY <3>1
    <3>3. Cardinality(Here(m)) = 0
      BY <3>2, FS_EmptySet
    <3> HIDE DEF Here
    <3> QED BY <2>0, <2>2, <3>3 DEF Part
  <2> QED BY <2>1, <2>2
<1>5. ASSUME NEW m \in 0 .. W - 1
      PROVE  Cardinality(Upto(m + 1)) = Cardinality(Upto(m)) + Cardinality(Here(m))
  <2>0. \A g \in G : /\ tm[g] % W < m + 1 <=> tm[g] % W < m \/ tm[g] % W = m
                     /\ ~(tm[g] % W < m /\ tm[g] % W = m)
    <3>1. m \in Int /\ \A g \in G : tm[g] % W \in Int
      BY <1>3
    <3>2. \A a \in Int : (a < m + 1 <=> a < m \/ a = m) /\ ~(a < m /\ a = m)
      BY <3>1
    <3> QED BY <3>1, <3>2
  <2>1. Upto(m + 1) = Upto(m) \cup Here(m)
    BY <2>0
  <2>2. Upto(m) \cap Here(m) = {}
    BY <2>0
  <2>3. IsFiniteSet(Upto(m)) /\ IsFiniteSet(Here(m))
    <3>1. m \in Nat
      BY <1>0
    <3> HIDE DEF Upto, Here
    <3> QED BY <1>2, <3>1
  <2> HIDE DEF Upto, Here
  <2>4. Cardinality(Upto(m) \cup Here(m)) =
          Cardinality(Upto(m)) + Cardinality(Here(m)) - Cardinality(Upto(m) \cap Here(m))
    BY <2>3, FS_Union
  <2>5. Cardinality(Upto(m) \cap Here(m)) = 0
    BY <2>2, FS_EmptySet
  <2>6. Cardinality(Upto(m)) \in Nat /\ Cardinality(Here(m)) \in Nat
    BY <2>3, FS_CardinalityType
  <2>7. \A x, y \in Nat : x + y - 0 = x + y
    OBVIOUS
  <2> QED BY <2>1, <2>4, <2>5, <2>6, <2>7
<1>6. Cardinality(Upto(0)) = 0
  <2>1. Upto(0) = {}
    BY <1>3
  <2> QED BY <2>1, FS_EmptySet
<1>7. {g \in G : tm[g] > now - W} = Upto(W)
  BY <1>3
<1> HIDE DEF Upto, Here
<1>8. f[0] = 0 /\ \A i \in 1 .. W : f[i] = f[i - 1] + Part(bucket, i, now - W)
  <2>1. f = [i \in 0 .. W |-> IF i = 0 THEN 0 ELSE f[i - 1] + Part(bucket, i, now - W)]
    BY <1>1 DEF Sums
  <2> QED BY <2>1
<1> DEFINE S == {m \in 0 .. W : f[m] # Cardinality(Upto(m))}
<1>9. S = {}
  <2>1. S \in SUBSET Nat /\ 0 \notin S
    BY <1>6, <1>8
  <2>2. ASSUME NEW m \in Nat, m \notin S
        PROVE  m + 1 \notin S
    <3>1. CASE m + 1 \in 0 .. W
      <4>1. m \in 0 .. W - 1 /\ m \in 0 .. W /\ m + 1 \in 1 .. W /\ (m + 1) - 1 = m
        BY <3>1
      <4>2. f[m] = Cardinality(Upto(m))
        BY <2>2, <4>1
      <4>3. f[m + 1] = f[m] + Part(bucket, m + 1, now - W)
        BY <1>8, <4>1
      <4>4. f[m + 1] = Cardinality(Upto(m + 1))
        BY <1>4, <1>5, <4>1, <4>2, <4>3
      <4> QED BY <4>4
    <3> QED BY <3>1
  <2> HIDE DEF S
  <2>3. \A m \in Nat : m + 1 \in S => m \in S
    BY <2>2
  <2> QED BY <2>1, <2>3, NoneFails
<1>10. f[W] = Cardinality(Upto(W))
  BY <1>0, <1>9
<1> QED
  BY <1>1, <1>7, <1>10

-----------------------------------------------------------------------------
(* Options and packets. *)

LEMMA SettingIs ==
  ASSUME setting \in Settings
  PROVE  /\ Window \in Nat /\ Window > 0 /\ setting.gap \in Nat /\ setting.gap <= Window
         /\ setting.floodLimit \in Nat /\ setting.scanLimit \in Nat /\ setting.late \in Nat
         /\ setting.maxSources \in Nat /\ setting.maxDsts \in Nat /\ setting.maxPairs \in Nat
         /\ setting.viaObservations \in BOOLEAN
<1>1. /\ setting.window \in Nat \ {0} /\ setting.gap \in 0 .. setting.window
      /\ {setting.floodLimit, setting.scanLimit, setting.maxSources, setting.maxDsts,
          setting.maxPairs, setting.late, setting.maxPackets} \subseteq Nat
      /\ setting.viaObservations \in BOOLEAN
  BY AnomalyAssumption
<1> QED
  BY <1>1 DEF Window

LEMMA PacketIs ==
  ASSUME NEW p \in Stamped
  PROVE  IsPacket(p) /\ p.t \in Nat
<1>1. PICK s \in Settings : \E r \in s.packets, u \in Times : p = [r EXCEPT !.t = u]
  BY DEF Stamped
<1>0. PICK q \in s.packets, t \in Times : p = [q EXCEPT !.t = t]
  BY <1>1
<1>2. IsPacket(q) /\ t \in Nat
  BY AnomalyAssumption
<1>3. q = [src |-> q.src, sport |-> q.sport, dst |-> q.dst, dport |-> q.dport,
           proto |-> q.proto, syn |-> q.syn, t |-> q.t]
  BY <1>2 DEF IsPacket
<1>4. /\ p = [src |-> q.src, sport |-> q.sport, dst |-> q.dst, dport |-> q.dport,
              proto |-> q.proto, syn |-> q.syn, t |-> t]
  BY <1>0, <1>3
<1>5. /\ p.src = q.src /\ p.sport = q.sport /\ p.dst = q.dst /\ p.dport = q.dport
      /\ p.proto = q.proto /\ p.syn = q.syn /\ p.t = t
  BY <1>4
<1> QED
  BY <1>2, <1>4, <1>5 DEF IsPacket

LEMMA StampedIs ==
  ASSUME setting \in Settings, NEW p \in setting.packets, NEW t \in Times
  PROVE  [p EXCEPT !.t = t] \in Stamped
BY DEF Stamped

-----------------------------------------------------------------------------
(* The entry of a source, before and after a packet. *)

LEMMA SourcesForIs ==
  ASSUME TypeOK, NEW p \in Stamped
  PROVE  /\ DOMAIN SourcesFor(p) \subseteq DOMAIN stats
         /\ \A s \in DOMAIN SourcesFor(p) : SourcesFor(p)[s] = stats[s]
         /\ \A s \in DOMAIN stats : stats[s].seen > p.t - Window => s \in DOMAIN SourcesFor(p)
         /\ p.src \in DOMAIN stats => Admitted(p) /\ p.src \in DOMAIN SourcesFor(p)
         /\ IsFiniteSet(DOMAIN SourcesFor(p))
<1>1. IsFiniteSet(DOMAIN stats)
  BY DEF TypeOK
<1>2. CASE FullOfOthers(stats, p.src, setting.maxSources)
  <2>1. SourcesFor(p) = FreshSources(stats, p.t) /\ p.src \notin DOMAIN stats
    BY <1>2 DEF SourcesFor, FullOfOthers
  <2>2. /\ DOMAIN SourcesFor(p) = {s \in DOMAIN stats : stats[s].seen > p.t - Window}
        /\ \A s \in DOMAIN SourcesFor(p) : SourcesFor(p)[s] = stats[s]
    BY <2>1 DEF FreshSources, Restrict, Fresh
  <2>3. DOMAIN SourcesFor(p) \in SUBSET DOMAIN stats
    BY <2>2
  <2>4. IsFiniteSet(DOMAIN SourcesFor(p))
    BY <1>1, <2>3, FS_Subset
  <2> QED BY <2>1, <2>2, <2>3, <2>4
<1>3. CASE ~FullOfOthers(stats, p.src, setting.maxSources)
  <2>1. SourcesFor(p) = stats
    BY <1>3 DEF SourcesFor
  <2>2. p.src \in DOMAIN stats => Admitted(p)
    BY <2>1 DEF Admitted, FullOfOthers
  <2> QED BY <1>1, <2>1, <2>2
<1> QED
  BY <1>2, <1>3

LEMMA NewSourceIs ==
  ASSUME setting \in Settings, NEW t \in Nat
  PROVE  IsSource(NewSource(t))
<1>1. IsFiniteSet(DOMAIN <<>>) /\ DOMAIN <<>> = {}
  BY FS_EmptySet
<1> QED
  BY <1>1, SettingIs DEF IsSource, NewSource

LEMMA EntryIs ==
  ASSUME TypeOK, NEW p \in Stamped
  PROVE  /\ IsSource(Entry(p))
         /\ p.src \in DOMAIN stats => Entry(p) = stats[p.src]
         /\ p.src \notin DOMAIN stats => Entry(p) = NewSource(p.t)
<1>1. p.src \in DOMAIN stats => Entry(p) = stats[p.src] /\ IsSource(stats[p.src])
  BY SourcesForIs DEF Entry, TypeOK
<1>2. p.src \notin DOMAIN stats => Entry(p) = NewSource(p.t)
  BY SourcesForIs DEF Entry
<1>3. IsSource(NewSource(p.t))
  BY NewSourceIs, PacketIs DEF TypeOK
<1> QED
  BY <1>1, <1>2, <1>3

LEMMA BumpedIs ==
  ASSUME setting \in Settings, NEW t \in Nat, NEW bucket \in [0 .. Window - 1 -> [sec : Nat, n : Nat]]
  PROVE  /\ t % Window \in 0 .. Window - 1
         /\ Bumped(bucket, t) \in [0 .. Window - 1 -> [sec : Nat, n : Nat]]
         /\ Bumped(bucket, t)[t % Window] =
              [sec |-> t, n |-> IF bucket[t % Window].sec = t THEN bucket[t % Window].n + 1 ELSE 1]
         /\ \A b \in 0 .. Window - 1 : b # t % Window => Bumped(bucket, t)[b] = bucket[b]
<1>1. t % Window \in 0 .. Window - 1
  BY SettingIs
<1> DEFINE e == [sec |-> t, n |-> IF bucket[t % Window].sec = t THEN bucket[t % Window].n + 1 ELSE 1]
<1>2. Bumped(bucket, t) = [bucket EXCEPT ![t % Window] = e]
  BY DEF Bumped
<1>3. e \in [sec : Nat, n : Nat]
  BY <1>1
<1> QED
  BY <1>1, <1>2, <1>3

LEMMA NewDstIs == IsDst(NewDst)
BY DEF IsDst, NewDst, Probes

LEMMA DstsForIs ==
  ASSUME setting \in Settings, NEW st, IsSource(st), NEW p \in Stamped
  PROVE  /\ DOMAIN DstsFor(st, p) \subseteq DOMAIN st.dsts
         /\ \A d \in DOMAIN DstsFor(st, p) : DstsFor(st, p)[d] = st.dsts[d]
         /\ \A d \in DOMAIN st.dsts : st.dsts[d].seen > p.t - Window => d \in DOMAIN DstsFor(st, p)
         /\ p.dst \in DOMAIN st.dsts => p.dst \in DOMAIN DstsFor(st, p)
         /\ IsFiniteSet(DOMAIN DstsFor(st, p))
<1>1. IsFiniteSet(DOMAIN st.dsts)
  BY DEF IsSource
<1>2. CASE FullOfOthers(st.dsts, p.dst, setting.maxDsts)
  <2>1. DstsFor(st, p) = FreshSources(st.dsts, p.t) /\ p.dst \notin DOMAIN st.dsts
    BY <1>2 DEF DstsFor, FullOfOthers
  <2>2. /\ DOMAIN DstsFor(st, p) = {d \in DOMAIN st.dsts : st.dsts[d].seen > p.t - Window}
        /\ \A d \in DOMAIN DstsFor(st, p) : DstsFor(st, p)[d] = st.dsts[d]
    BY <2>1 DEF FreshSources, Restrict, Fresh
  <2>3. DOMAIN DstsFor(st, p) \in SUBSET DOMAIN st.dsts
    BY <2>2
  <2>4. IsFiniteSet(DOMAIN DstsFor(st, p))
    BY <1>1, <2>3, FS_Subset
  <2> QED BY <2>1, <2>2, <2>3, <2>4
<1>3. CASE ~FullOfOthers(st.dsts, p.dst, setting.maxDsts)
  BY <1>1, <1>3 DEF DstsFor
<1> QED
  BY <1>2, <1>3

(* A destination's entry e after a packet tried a port of it: its ports in *)
(* the packet's protocol are now those that were, pruned maybe of stale    *)
(* ones, and the port tried.                                               *)
PortTried(d, e, x0, port, now) ==
  /\ \A x \in Probes : x # x0 => e.ports[x] = d.ports[x] /\ e.pruned[x] = d.pruned[x]
  /\ port \in DOMAIN e.ports[x0] /\ e.ports[x0][port] = now
  /\ \A q \in DOMAIN e.ports[x0] : q # port => q \in DOMAIN d.ports[x0] /\ e.ports[x0][q] = d.ports[x0][q]
  /\ \A q \in DOMAIN d.ports[x0] : d.ports[x0][q] > now - Window => q \in DOMAIN e.ports[x0]
  /\ now > d.pruned[x0] =>
       e.pruned[x0] = now /\ \A q \in DOMAIN e.ports[x0] : e.ports[x0][q] > now - Window
  /\ ~(now > d.pruned[x0]) => e.pruned[x0] = d.pruned[x0]

LEMMA TouchedIs ==
  ASSUME setting \in Settings, NEW d, IsDst(d), NEW p \in Stamped, p.proto \in Probes,
         NEW e, e = Touched(d, p)
  PROVE  /\ IsDst(e) /\ e.seen = p.t /\ e.alert = d.alert
         /\ PortTried(d, e, p.proto, p.dport, p.t)
<1> DEFINE x0 == p.proto
           ports == d.ports[x0]
           put == Put(ports, p.dport, p.t)
           prune == p.t > d.pruned[x0]
           new == IF prune THEN FreshPairs(put, p.t) ELSE put
           last == IF prune THEN p.t ELSE d.pruned[x0]
<1>1. /\ d.ports = [x \in Probes |-> d.ports[x]] /\ d.pruned \in [Probes -> Nat]
      /\ \A q \in DOMAIN ports : ports[q] \in Nat
      /\ d.seen \in Nat /\ d.alert \in Nat \cup {None} /\ p.t \in Nat
      /\ \A x \in Probes : \A q \in DOMAIN d.ports[x] : d.ports[x][q] \in Nat
  BY PacketIs DEF IsDst
<1>2. e = [seen |-> p.t, alert |-> d.alert, ports |-> [d.ports EXCEPT ![x0] = new],
           pruned |-> [d.pruned EXCEPT ![x0] = last]]
  BY DEF Touched
<1>3. /\ DOMAIN put = DOMAIN ports \cup {p.dport} /\ put[p.dport] = p.t
      /\ \A q \in DOMAIN ports : q # p.dport => put[q] = ports[q]
  BY DEF Put
<1>4. /\ \A q \in DOMAIN new : q \in DOMAIN put /\ new[q] = put[q]
      /\ \A q \in DOMAIN put : put[q] > p.t - Window => q \in DOMAIN new
      /\ prune => \A q \in DOMAIN new : new[q] > p.t - Window
  <2> HIDE DEF put
  <2>1. CASE prune
    <3>1. new = [q \in {k \in DOMAIN put : put[k] > p.t - Window} |-> put[q]]
      BY <2>1 DEF FreshPairs, Restrict, Fresh
    <3> HIDE DEF new
    <3> QED BY <3>1
  <2>2. CASE ~prune
    BY <2>2
  <2> QED BY <2>1, <2>2
<1>5. last \in Nat
  BY <1>1
<1>6. p.t > p.t - Window
  BY <1>1, SettingIs
<1> HIDE DEF put, new
<1>7. /\ e.seen = p.t /\ e.alert = d.alert
      /\ e.ports = [d.ports EXCEPT ![x0] = new] /\ e.pruned = [d.pruned EXCEPT ![x0] = last]
  BY <1>2
<1>8. /\ e.ports[x0] = new /\ e.pruned[x0] = last
      /\ \A x \in Probes : x # x0 => e.ports[x] = d.ports[x] /\ e.pruned[x] = d.pruned[x]
      /\ e.ports = [x \in Probes |-> e.ports[x]] /\ e.pruned \in [Probes -> Nat]
  BY <1>1, <1>5, <1>7
<1>9. /\ p.dport \in DOMAIN new /\ new[p.dport] = p.t
      /\ \A q \in DOMAIN new : q # p.dport => q \in DOMAIN ports /\ new[q] = ports[q]
      /\ \A q \in DOMAIN ports : ports[q] > p.t - Window => q \in DOMAIN new
  BY <1>3, <1>4, <1>6
<1>10. \A x \in Probes : \A q \in DOMAIN e.ports[x] : e.ports[x][q] \in Nat
  <2> SUFFICES ASSUME NEW x \in Probes, NEW q \in DOMAIN e.ports[x] PROVE e.ports[x][q] \in Nat
    OBVIOUS
  <2>1. CASE x = x0
    BY <1>1, <1>8, <1>9, <2>1
  <2>2. CASE x # x0
    BY <1>1, <1>8, <2>2
  <2> QED BY <2>1, <2>2
<1>11. IsDst(e)
  BY <1>1, <1>7, <1>8, <1>10 DEF IsDst
<1>12. PortTried(d, e, x0, p.dport, p.t)
  <2> HIDE DEF x0
  <2>1. \A q \in DOMAIN new : q # p.dport => q \in DOMAIN ports /\ new[q] = ports[q]
    BY <1>9
  <2>2. prune => last = p.t /\ \A q \in DOMAIN new : new[q] > p.t - Window
    BY <1>4
  <2>3. ~prune => last = d.pruned[x0]
    OBVIOUS
  <2> HIDE DEF ports, last
  <2> QED BY <1>8, <1>9, <2>1, <2>2, <2>3 DEF PortTried, ports
<1> QED
  BY <1>7, <1>11, <1>12

DstBefore(p) == IF p.dst \in DOMAIN DstsFor(Counted(p), p) THEN DstsFor(Counted(p), p)[p.dst] ELSE NewDst

LEMMA CountedIs ==
  ASSUME TypeOK, NEW p \in Stamped
  PROVE  /\ IsSource(Counted(p))
         /\ Counted(p).bucket = Bumped(Entry(p).bucket, p.t) /\ Counted(p).dsts = Entry(p).dsts
         /\ Counted(p).seen = p.t
         /\ Counted(p).flood = (IF Floods(Entry(p), p) THEN p.t ELSE Entry(p).flood)
         /\ ~setting.viaObservations => Counted(p).volume = Entry(p).volume
         /\ setting.viaObservations =>
              /\ Counted(p).volSec = p.t
              /\ Counted(p).volume = IF Entry(p).volSec # p.t THEN 1 ELSE Entry(p).volume + 1
<1> DEFINE st == Entry(p)
           c == Counted(p)
<1>1. IsSource(st) /\ p.t \in Nat /\ setting \in Settings
  BY EntryIs, PacketIs DEF TypeOK
<1> HIDE DEF st
<1>2. /\ c.bucket = Bumped(st.bucket, p.t) /\ c.dsts = st.dsts /\ c.seen = p.t
      /\ c.flood = (IF Floods(st, p) THEN p.t ELSE st.flood)
      /\ c.volSec = (IF setting.viaObservations THEN p.t ELSE st.volSec)
      /\ c.volume = (IF ~setting.viaObservations THEN st.volume
                     ELSE IF st.volSec # p.t THEN 1 ELSE st.volume + 1)
      /\ c = [bucket |-> c.bucket, dsts |-> c.dsts, seen |-> c.seen, flood |-> c.flood,
              volSec |-> c.volSec, volume |-> c.volume]
  BY DEF Counted, st
<1> HIDE DEF c
<1>3. st.bucket \in [0 .. Window - 1 -> [sec : Nat, n : Nat]] /\ st.flood \in Nat \cup {None}
      /\ st.volSec \in Nat /\ st.volume \in Nat
      /\ IsFiniteSet(DOMAIN st.dsts) /\ \A d \in DOMAIN st.dsts : IsDst(st.dsts[d])
  BY <1>1 DEF IsSource
<1>4. c.bucket \in [0 .. Window - 1 -> [sec : Nat, n : Nat]]
  <2>1. Bumped(st.bucket, p.t) \in [0 .. Window - 1 -> [sec : Nat, n : Nat]]
    BY <1>1, <1>3, BumpedIs
  <2> QED BY <1>2, <2>1
<1>5. c.seen \in Nat /\ c.flood \in Nat \cup {None} /\ c.volSec \in Nat /\ c.volume \in Nat
  BY <1>1, <1>2, <1>3
<1>6. IsFiniteSet(DOMAIN c.dsts) /\ \A d \in DOMAIN c.dsts : IsDst(c.dsts[d])
  BY <1>2, <1>3
<1>7. IsSource(c)
  BY <1>2, <1>4, <1>5, <1>6 DEF IsSource
<1> QED
  BY <1>2, <1>7 DEF st, c

LEMMA DstBeforeIs ==
  ASSUME TypeOK, NEW p \in Stamped
  PROVE  /\ IsDst(DstBefore(p)) /\ DstEntry(Counted(p), p) = Touched(DstBefore(p), p)
         /\ p.dst \in DOMAIN Entry(p).dsts => DstBefore(p) = Entry(p).dsts[p.dst]
         /\ p.dst \notin DOMAIN Entry(p).dsts => DstBefore(p) = NewDst
<1> DEFINE st == Counted(p)
<1>1. IsSource(st) /\ st.dsts = Entry(p).dsts /\ setting \in Settings
  BY CountedIs DEF TypeOK
<1>2. DstEntry(st, p) = Touched(DstBefore(p), p)
  BY DEF DstEntry, DstBefore
<1>3. \A d \in DOMAIN st.dsts : IsDst(st.dsts[d])
  BY <1>1 DEF IsSource
<1> QED
  BY <1>1, <1>2, <1>3, DstsForIs, NewDstIs DEF DstBefore

(* What is known of the source's destinations after the packet: an attempt *)
(* that is admitted touches its own and takes from the others only the     *)
(* stale.                                                                  *)
LEMMA DstsAfterIs ==
  ASSUME TypeOK, NEW p \in Stamped, NEW dsts, dsts = DstsAfter(p), NEW st, st = Entry(p)
  PROVE  /\ IsFiniteSet(DOMAIN dsts) /\ \A d \in DOMAIN dsts : IsDst(dsts[d])
         /\ \A d \in DOMAIN dsts : ~(Tries(p) /\ d = p.dst) =>
              d \in DOMAIN st.dsts /\ dsts[d] = st.dsts[d]
         /\ \A d \in DOMAIN st.dsts : st.dsts[d].seen > p.t - Window => d \in DOMAIN dsts
         /\ Tries(p) =>
              /\ p.dst \in DOMAIN dsts /\ p.proto \in Probes
              /\ dsts[p.dst].ports = Touched(DstBefore(p), p).ports
              /\ dsts[p.dst].pruned = Touched(DstBefore(p), p).pruned
              /\ dsts[p.dst].seen = p.t
              /\ dsts[p.dst].alert = IF ScanFound(p) THEN p.t ELSE DstBefore(p).alert
<1> DEFINE c == Counted(p)
           f == DstsFor(c, p)
           e == DstEntry(c, p)
           d1 == IF Scans(e, p) THEN [e EXCEPT !.alert = p.t] ELSE e
<1>1. IsSource(c) /\ c.dsts = st.dsts /\ setting \in Settings /\ p.t \in Nat
  BY CountedIs, PacketIs DEF TypeOK
<1>2. /\ DOMAIN f \subseteq DOMAIN st.dsts /\ \A d \in DOMAIN f : f[d] = st.dsts[d]
      /\ \A d \in DOMAIN st.dsts : st.dsts[d].seen > p.t - Window => d \in DOMAIN f
      /\ IsFiniteSet(DOMAIN f)
  BY <1>1, DstsForIs
<1>3. IsFiniteSet(DOMAIN st.dsts) /\ \A d \in DOMAIN st.dsts : IsDst(st.dsts[d])
  BY <1>1 DEF IsSource
<1>4. Attempt(p) => p.proto \in Probes
  BY DEF Attempt, Probes
<1>5. CASE ~Attempt(p)
  <2>1. dsts = st.dsts /\ ~Tries(p)
    BY <1>1, <1>5 DEF DstsAfter, Tries
  <2> QED BY <1>3, <2>1
<1>6. CASE Attempt(p) /\ ~DstAdmitted(c, p)
  <2>1. dsts = f /\ ~Tries(p)
    BY <1>6 DEF DstsAfter, Tries
  <2> HIDE DEF f
  <2> QED BY <1>2, <1>3, <2>1
<1>7. CASE Attempt(p) /\ DstAdmitted(c, p)
  <2>1. dsts = Put(f, p.dst, d1) /\ Tries(p)
    BY <1>7 DEF DstsAfter, Tries
  <2>2. e = Touched(DstBefore(p), p) /\ IsDst(DstBefore(p))
    BY DstBeforeIs
  <2>3. IsDst(e) /\ e.seen = p.t /\ e.alert = DstBefore(p).alert
    BY <1>1, <1>4, <1>7, <2>2, TouchedIs
  <2>4. e = [seen |-> e.seen, alert |-> e.alert, ports |-> e.ports, pruned |-> e.pruned]
    BY <2>2 DEF Touched
  <2> HIDE DEF e
  <2>5. /\ d1.seen = e.seen /\ d1.ports = e.ports /\ d1.pruned = e.pruned
        /\ d1.alert = (IF Scans(e, p) THEN p.t ELSE e.alert)
    BY <2>4
  <2> HIDE DEF d1
  <2>6. IsDst(d1)
    BY <1>1, <2>3, <2>5 DEF IsDst
  <2>7. /\ DOMAIN dsts = DOMAIN f \cup {p.dst} /\ dsts[p.dst] = d1
        /\ \A d \in DOMAIN f : d # p.dst => dsts[d] = f[d]
    BY <2>1 DEF Put
  <2>8. IsFiniteSet(DOMAIN f \cup {p.dst})
    BY <1>2, FS_AddElement
  <2>9. ScanFound(p) <=> Scans(e, p)
    BY <2>1 DEF ScanFound, e
  <2> HIDE DEF f, c
  <2> QED BY <1>2, <1>3, <1>4, <1>7, <2>1, <2>2, <2>3, <2>5, <2>6, <2>7, <2>8, <2>9
<1> QED
  BY <1>5, <1>6, <1>7

LEMMA ProbedIs ==
  ASSUME TypeOK, NEW p \in Stamped
  PROVE  /\ IsSource(Probed(p)) /\ Probed(p).dsts = DstsAfter(p)
         /\ Probed(p).bucket = Bumped(Entry(p).bucket, p.t) /\ Probed(p).seen = p.t
         /\ Probed(p).flood = (IF Floods(Entry(p), p) THEN p.t ELSE Entry(p).flood)
         /\ ~setting.viaObservations => Probed(p).volume = Entry(p).volume
         /\ setting.viaObservations =>
              /\ Probed(p).volSec = p.t
              /\ Probed(p).volume = IF Entry(p).volSec # p.t THEN 1 ELSE Entry(p).volume + 1
<1> DEFINE c == Counted(p)
           d == DstsAfter(p)
<1>1. /\ IsSource(c) /\ c.bucket = Bumped(Entry(p).bucket, p.t) /\ c.seen = p.t
      /\ c.flood = (IF Floods(Entry(p), p) THEN p.t ELSE Entry(p).flood)
      /\ ~setting.viaObservations => c.volume = Entry(p).volume
      /\ setting.viaObservations =>
           /\ c.volSec = p.t
           /\ c.volume = IF Entry(p).volSec # p.t THEN 1 ELSE Entry(p).volume + 1
  BY CountedIs
<1>2. IsFiniteSet(DOMAIN d) /\ \A x \in DOMAIN d : IsDst(d[x])
  BY DstsAfterIs
<1>3. Probed(p) = [c EXCEPT !.dsts = d]
  BY DEF Probed
<1> HIDE DEF c, d
<1>4. c = [bucket |-> c.bucket, dsts |-> c.dsts, seen |-> c.seen, flood |-> c.flood,
           volSec |-> c.volSec, volume |-> c.volume]
  BY <1>1 DEF IsSource
<1>5. Probed(p) = [bucket |-> c.bucket, dsts |-> d, seen |-> c.seen, flood |-> c.flood,
                   volSec |-> c.volSec, volume |-> c.volume]
  BY <1>3, <1>4
<1>6. IsSource(Probed(p))
  BY <1>1, <1>2, <1>5 DEF IsSource
<1> QED
  BY <1>1, <1>5, <1>6 DEF d

-----------------------------------------------------------------------------
(* A packet, but for volume: what it leaves in the log and the tables. *)

(* A flush changes nothing but the volume that waits.                      *)
Same(a, b) ==
  a.bucket = b.bucket /\ a.dsts = b.dsts /\ a.seen = b.seen /\ a.flood = b.flood /\ a.volSec = b.volSec

IsTable(f) == IsFiniteSet(DOMAIN f) /\ \A s \in DOMAIN f : IsSource(f[s])

LEMMA FlushedIs ==
  ASSUME NEW f, IsTable(f), NEW gone, NEW g, g = Flushed(f, gone)
  PROVE  /\ DOMAIN g = DOMAIN f /\ IsTable(g)
         /\ \A s \in DOMAIN f : Same(g[s], f[s]) /\ g[s].volume = IF s \in gone THEN 0 ELSE f[s].volume
<1>1. DOMAIN g = DOMAIN f /\ \A s \in DOMAIN f : g[s] = IF s \in gone THEN [f[s] EXCEPT !.volume = 0] ELSE f[s]
  BY DEF Flushed
<1>2. ASSUME NEW s \in DOMAIN f
      PROVE  IsSource(g[s]) /\ Same(g[s], f[s]) /\ g[s].volume = IF s \in gone THEN 0 ELSE f[s].volume
  <2>1. IsSource(f[s])
    BY DEF IsTable
  <2>2. CASE s \notin gone
    BY <1>1, <2>1, <2>2 DEF Same
  <2>3. CASE s \in gone
    <3> DEFINE st == f[s]
    <3>1. st = [bucket |-> st.bucket, dsts |-> st.dsts, seen |-> st.seen, flood |-> st.flood,
                volSec |-> st.volSec, volume |-> st.volume]
      BY <2>1 DEF IsSource
    <3>2. g[s] = [st EXCEPT !.volume = 0]
      BY <1>1, <2>3
    <3> HIDE DEF st
    <3>3. g[s] = [bucket |-> st.bucket, dsts |-> st.dsts, seen |-> st.seen, flood |-> st.flood,
                  volSec |-> st.volSec, volume |-> 0]
      BY <3>1, <3>2
    <3>4. IsSource(st)
      BY <2>1 DEF st
    <3>5. IsSource(g[s])
      BY <3>3, <3>4 DEF IsSource
    <3> QED BY <2>3, <3>3, <3>5 DEF Same, st
  <2> QED BY <2>2, <2>3
<1> QED
  BY <1>1, <1>2 DEF IsTable

LEMMA TakenIs ==
  ASSUME NEW f, IsTable(f), NEW act, NEW r, NEW newest, TakeObservations(f, act, r, newest)
  PROVE  DOMAIN stats' = DOMAIN f /\ IsTable(stats') /\ \A s \in DOMAIN f : Same(stats'[s], f[s])
<1>1. CASE stats' = f
  BY <1>1 DEF Same
<1>2. CASE stats' = Flushed(f, Ended(f, act, newest, FALSE))
  <2> DEFINE gone == Ended(f, act, newest, FALSE)
  <2>1. stats' = Flushed(f, gone)
    BY <1>2
  <2> HIDE DEF gone
  <2> QED BY <2>1, FlushedIs
<1> QED
  BY <1>1, <1>2 DEF TakeObservations, FlushVolume

(* The tables with the packet's own entry put in, before the flush. *)
LEMMA SourcesIs ==
  ASSUME TypeOK, NEW p \in Stamped, NEW sweep \in Sweeps, NEW f, f = Sources(p, sweep)
  PROVE  /\ IsTable(f) /\ p.src \in DOMAIN f /\ f[p.src] = Probed(p)
         /\ \A s \in DOMAIN f : s # p.src => s \in DOMAIN SourcesFor(p) /\ f[s] = stats[s]
         /\ \A s \in DOMAIN stats : stats[s].seen > p.t - Window => s \in DOMAIN f
<1> DEFINE all == Put(SourcesFor(p), p.src, Probed(p))
<1>1. /\ DOMAIN SourcesFor(p) \subseteq DOMAIN stats
      /\ \A s \in DOMAIN SourcesFor(p) : SourcesFor(p)[s] = stats[s]
      /\ \A s \in DOMAIN stats : stats[s].seen > p.t - Window => s \in DOMAIN SourcesFor(p)
      /\ IsFiniteSet(DOMAIN SourcesFor(p))
  BY SourcesForIs
<1>2. IsSource(Probed(p)) /\ Probed(p).seen = p.t /\ p.t > p.t - Window
  <2>1. p.t \in Nat /\ Window \in Nat /\ Window > 0
    BY PacketIs, SettingIs DEF TypeOK
  <2> QED BY <2>1, ProbedIs
<1>3. \A s \in DOMAIN stats : IsSource(stats[s])
  BY DEF TypeOK
<1>4. /\ DOMAIN all = DOMAIN SourcesFor(p) \cup {p.src} /\ all[p.src] = Probed(p)
      /\ \A s \in DOMAIN SourcesFor(p) : s # p.src => all[s] = SourcesFor(p)[s]
  BY DEF Put
<1>5. IsFiniteSet(DOMAIN all)
  <2>1. IsFiniteSet(DOMAIN SourcesFor(p) \cup {p.src})
    BY <1>1, FS_AddElement
  <2> QED BY <1>4, <2>1
<1>6. f = all \/ f = FreshSources(all, p.t)
  BY DEF Sources
<1> HIDE DEF all
<1>7. CASE f = all
  <2>1. \A s \in DOMAIN all : IsSource(all[s])
    BY <1>1, <1>2, <1>3, <1>4
  <2>2. IsTable(f)
    BY <1>5, <1>7, <2>1 DEF IsTable
  <2> QED BY <1>1, <1>2, <1>4, <1>7, <2>2
<1>8. CASE f = FreshSources(all, p.t)
  <2>1. /\ DOMAIN f = {s \in DOMAIN all : all[s].seen > p.t - Window}
        /\ \A s \in DOMAIN f : f[s] = all[s]
    BY <1>8 DEF FreshSources, Restrict, Fresh
  <2>2. DOMAIN f \in SUBSET DOMAIN all
    BY <2>1
  <2>3. IsFiniteSet(DOMAIN f)
    BY <1>5, <2>2, FS_Subset
  <2>4. \A s \in DOMAIN f : IsSource(f[s])
    BY <1>1, <1>2, <1>3, <1>4, <2>1
  <2>5. p.src \in DOMAIN f /\ f[p.src] = Probed(p)
    BY <1>2, <1>4, <2>1
  <2>6. \A s \in DOMAIN stats : stats[s].seen > p.t - Window => s \in DOMAIN f
    <3> SUFFICES ASSUME NEW s \in DOMAIN stats, stats[s].seen > p.t - Window PROVE s \in DOMAIN f
      OBVIOUS
    <3>1. CASE s = p.src
      BY <2>5, <3>1
    <3>2. CASE s # p.src
      BY <1>1, <1>4, <2>1, <3>2
    <3> QED BY <3>1, <3>2
  <2>7. \A s \in DOMAIN f : s # p.src => s \in DOMAIN SourcesFor(p) /\ f[s] = stats[s]
    BY <1>1, <1>4, <2>1
  <2>8. IsTable(f)
    BY <2>3, <2>4 DEF IsTable
  <2> QED BY <2>5, <2>6, <2>7, <2>8
<1> QED
  BY <1>6, <1>7, <1>8

(* What Observe does, as the parts of the invariant need it. *)
Logged(p) ==
  LET n == Len(log)
      e == log'[n + 1]
  IN  /\ setting' = setting /\ log' \in Seq(Mark) /\ Len(log') = n + 1
      /\ \A i \in 1 .. n : log'[i] = log[i]
      /\ e.p = p /\ e.reply = IsReply(p) /\ e.recorded = Recorded(p) /\ e.admitted = Admitted(p)
      /\ e.flood = (Admitted(p) /\ Floods(Entry(p), p))
      /\ e.probe = (Admitted(p) /\ Tries(p)) /\ e.scan = (Admitted(p) /\ ScanFound(p))
      /\ Ordered => Clock <= p.t
Tabled(p) ==
  /\ \A s \in DOMAIN stats' : ~(Admitted(p) /\ s = p.src) =>
       s \in DOMAIN SourcesFor(p) /\ s \in DOMAIN stats /\ Same(stats'[s], stats[s])
  /\ Admitted(p) => p.src \in DOMAIN stats' /\ Same(stats'[p.src], Probed(p))
  /\ \A s \in DOMAIN stats : stats[s].seen > p.t - Window => s \in DOMAIN stats'

LEMMA LogAfter ==
  ASSUME TypeOK, NEW p \in Stamped, NEW sweep, Observe(p, sweep)
  PROVE  Logged(p)
<1> DEFINE n == Len(log)
           e == [p |-> p, reply |-> IsReply(p), recorded |-> Recorded(p), admitted |-> Admitted(p),
                 flood |-> Admitted(p) /\ Floods(Entry(p), p),
                 probe |-> Admitted(p) /\ Tries(p), scan |-> Admitted(p) /\ ScanFound(p)]
<1>1. setting' = setting /\ log' = Append(log, e)
  BY DEF Observe, Noted
<1>2. /\ IsReply(p) \in BOOLEAN /\ Recorded(p) \in BOOLEAN /\ Admitted(p) \in BOOLEAN
      /\ Floods(Entry(p), p) \in BOOLEAN /\ Tries(p) \in BOOLEAN /\ ScanFound(p) \in BOOLEAN
  BY Zenon DEF IsReply, Recorded, Admitted, Floods, Tries, ScanFound
<1>3. e \in Mark
  BY <1>2, Zenon DEF Mark
<1>4. log \in Seq(Mark)
  BY DEF TypeOK
<1>5. Ordered => Clock <= p.t
  <2>1. CASE log = <<>>
    BY <2>1, PacketIs DEF Clock
  <2>2. CASE log # <<>>
    <3>1. p.t >= log[Len(log)].p.t - setting.late
      BY <2>2 DEF Observe, Last
    <3>2. log[Len(log)] \in Mark
      BY <1>4, <2>2
    <3>3. log[Len(log)].p.t \in Nat
      BY <3>2, PacketIs DEF Mark
    <3> QED BY <2>2, <3>1, <3>3, PacketIs DEF Clock, Ordered
  <2> QED BY <2>1, <2>2
<1>6. /\ e.p = p /\ e.reply = IsReply(p) /\ e.recorded = Recorded(p) /\ e.admitted = Admitted(p)
      /\ e.flood = (Admitted(p) /\ Floods(Entry(p), p))
      /\ e.probe = (Admitted(p) /\ Tries(p)) /\ e.scan = (Admitted(p) /\ ScanFound(p))
  BY Zenon
<1> HIDE DEF e
<1>7. log' \in Seq(Mark) /\ Len(log') = n + 1 /\ \A i \in 1 .. n : log'[i] = log[i]
  BY <1>1, <1>3, <1>4
<1>8. log'[n + 1] = e
  BY <1>1, <1>3, <1>4
<1> QED
  BY <1>1, <1>5, <1>6, <1>7, <1>8, Zenon DEF Logged

LEMMA TableAfter ==
  ASSUME TypeOK, NEW p \in Stamped, NEW sweep \in Sweeps, Observe(p, sweep)
  PROVE  IsTable(stats') /\ Tabled(p)
<1>0. DOMAIN SourcesFor(p) \subseteq DOMAIN stats
  BY SourcesForIs
<1>1. CASE Admitted(p)
  <2> DEFINE f == Sources(p, sweep)
  <2>1. TakeObservations(f, ActiveAfter(p), ReportedBy(p), Newest(p))
    BY <1>1 DEF Observe
  <2>2. /\ IsTable(f) /\ p.src \in DOMAIN f /\ f[p.src] = Probed(p)
        /\ \A s \in DOMAIN f : s # p.src => s \in DOMAIN SourcesFor(p) /\ f[s] = stats[s]
        /\ \A s \in DOMAIN stats : stats[s].seen > p.t - Window => s \in DOMAIN f
    BY SourcesIs
  <2> HIDE DEF f
  <2>3. DOMAIN stats' = DOMAIN f /\ IsTable(stats') /\ \A s \in DOMAIN f : Same(stats'[s], f[s])
    BY <2>1, <2>2, TakenIs
  <2> QED BY <1>0, <1>1, <2>2, <2>3 DEF Tabled
<1>2. CASE ~Admitted(p)
  <2> DEFINE f == SourcesFor(p)
  <2>1. TakeObservations(f, active, reported, latest)
    BY <1>2 DEF Observe
  <2>2. /\ DOMAIN f \subseteq DOMAIN stats /\ \A s \in DOMAIN f : f[s] = stats[s]
        /\ \A s \in DOMAIN stats : stats[s].seen > p.t - Window => s \in DOMAIN f
        /\ IsFiniteSet(DOMAIN f)
    BY SourcesForIs
  <2>3. IsTable(f)
    BY <2>2 DEF IsTable, TypeOK
  <2> HIDE DEF f
  <2>4. DOMAIN stats' = DOMAIN f /\ IsTable(stats') /\ \A s \in DOMAIN f : Same(stats'[s], f[s])
    BY <2>1, <2>3, TakenIs
  <2> QED BY <1>2, <2>2, <2>4 DEF Tabled, f
<1> QED
  BY <1>1, <1>2

-----------------------------------------------------------------------------
(* The log with the packet added. *)

LEMMA LogIs ==
  ASSUME TypeOK
  PROVE  /\ DOMAIN log = 1 .. Len(log) /\ Len(log) \in Nat
         /\ \A i \in DOMAIN log : log[i] \in Mark /\ log[i].p \in Stamped /\ log[i].p.t \in Nat
         /\ Clock \in Nat
<1>1. DOMAIN log = 1 .. Len(log) /\ Len(log) \in Nat /\ \A i \in DOMAIN log : log[i] \in Mark
  BY DEF TypeOK
<1>2. \A i \in DOMAIN log : log[i].p \in Stamped
  BY <1>1 DEF Mark
<1>3. \A i \in DOMAIN log : log[i].p.t \in Nat
  BY <1>2, PacketIs
<1>4. log # <<>> => Len(log) \in DOMAIN log
  BY DEF TypeOK
<1> QED
  BY <1>1, <1>2, <1>3, <1>4 DEF Clock

LEMMA LogGrows ==
  ASSUME TypeOK, NEW p \in Stamped, Logged(p), NEW n, n = Len(log)
  PROVE  /\ DOMAIN log' = DOMAIN log \cup {n + 1} /\ n + 1 \notin DOMAIN log
         /\ \A i \in DOMAIN log : log'[i] = log[i]
         /\ log'[n + 1].p = p /\ Len(log') = n + 1 /\ log' # <<>>
         /\ Clock' = p.t /\ p.t \in Nat /\ Window' = Window
         /\ Window \in Nat /\ Window > 0 /\ Clock \in Nat
<1>1. /\ DOMAIN log = 1 .. n /\ n \in Nat /\ Clock \in Nat
  BY LogIs
<1>2. log' \in Seq(Mark) /\ Len(log') = n + 1 /\ \A i \in 1 .. n : log'[i] = log[i]
  BY DEF Logged
<1>3. log'[n + 1].p = p /\ setting' = setting
  BY DEF Logged
<1>4. DOMAIN log' = 1 .. n + 1 /\ log' # <<>>
  BY <1>1, <1>2
<1>5. Clock' = p.t
  BY <1>2, <1>3, <1>4 DEF Clock
<1>6. p.t \in Nat /\ Window \in Nat /\ Window > 0 /\ Window' = Window
  BY <1>3, PacketIs, SettingIs DEF TypeOK, Window
<1> QED
  BY <1>1, <1>2, <1>3, <1>4, <1>5, <1>6

(* What was sent, tried and told before, and whether the packet is one     *)
(* more of them.                                                           *)
LEMMA SentAfter ==
  ASSUME TypeOK, NEW p \in Stamped, Logged(p), NEW n, n = Len(log), NEW s
  PROVE  /\ Sent(s)' = Sent(s) \cup (IF Admitted(p) /\ s = p.src THEN {n + 1} ELSE {})
         /\ Flooded(s)' = Flooded(s) \cup
              (IF Admitted(p) /\ s = p.src /\ Floods(Entry(p), p) THEN {n + 1} ELSE {})
<1>1. /\ DOMAIN log' = DOMAIN log \cup {n + 1} /\ n + 1 \notin DOMAIN log
      /\ \A i \in DOMAIN log : log'[i] = log[i]
  BY LogGrows
<1>2. /\ log'[n + 1].p = p /\ log'[n + 1].admitted = Admitted(p)
      /\ log'[n + 1].flood = (Admitted(p) /\ Floods(Entry(p), p))
  BY DEF Logged
<1>3. Sent(s)' = {i \in DOMAIN log' : log'[i].admitted /\ log'[i].p.src = s}
  BY DEF Sent
<1>4. Sent(s)' = Sent(s) \cup (IF Admitted(p) /\ s = p.src THEN {n + 1} ELSE {})
  BY <1>1, <1>2, <1>3 DEF Sent
<1>5. Flooded(s)' = {i \in Sent(s)' : log'[i].flood}
  BY DEF Flooded
<1>6. \A i \in Sent(s) : i \in DOMAIN log
  BY DEF Sent
<1> QED
  BY <1>1, <1>2, <1>4, <1>5, <1>6 DEF Flooded

LEMMA ProbingAfter ==
  ASSUME TypeOK, NEW p \in Stamped, Logged(p), NEW n, n = Len(log), NEW s, NEW d
  PROVE  /\ Probing(s, d)' = Probing(s, d) \cup
              (IF Admitted(p) /\ Tries(p) /\ s = p.src /\ d = p.dst THEN {n + 1} ELSE {})
         /\ Scanning(s, d)' = Scanning(s, d) \cup
              (IF Admitted(p) /\ ScanFound(p) /\ s = p.src /\ d = p.dst THEN {n + 1} ELSE {})
<1>1. /\ DOMAIN log' = DOMAIN log \cup {n + 1} /\ n + 1 \notin DOMAIN log
      /\ \A i \in DOMAIN log : log'[i] = log[i]
  BY LogGrows
<1>2. /\ log'[n + 1].p = p
      /\ log'[n + 1].probe = (Admitted(p) /\ Tries(p))
      /\ log'[n + 1].scan = (Admitted(p) /\ ScanFound(p))
  BY DEF Logged
<1>3. Sent(s)' = Sent(s) \cup (IF Admitted(p) /\ s = p.src THEN {n + 1} ELSE {})
  BY SentAfter
<1>4. /\ Probing(s, d)' = {i \in Sent(s)' : log'[i].probe /\ log'[i].p.dst = d}
      /\ Scanning(s, d)' = {i \in Probing(s, d)' : log'[i].scan}
  BY DEF Probing, Scanning
<1>5. \A i \in Sent(s) : i \in DOMAIN log
  BY DEF Sent
<1>6. Probing(s, d)' = Probing(s, d) \cup
        (IF Admitted(p) /\ Tries(p) /\ s = p.src /\ d = p.dst THEN {n + 1} ELSE {})
  BY <1>1, <1>2, <1>3, <1>4, <1>5 DEF Probing
<1>7. \A i \in Probing(s, d) : i \in DOMAIN log
  BY <1>5 DEF Probing
<1>8. ScanFound(p) => Tries(p)
  BY DEF ScanFound
<1> QED
  BY <1>1, <1>2, <1>4, <1>6, <1>7, <1>8 DEF Scanning

LEMMA SentIs ==
  ASSUME TypeOK, NEW s, NEW t
  PROVE  /\ IsFiniteSet(Sent(s)) /\ SentAt(s, t) \in Nat
         /\ SentAt(s, t) = 0 <=> \A i \in Sent(s) : log[i].p.t # t
<1> DEFINE Q == {i \in Sent(s) : log[i].p.t = t}
<1>1. DOMAIN log = 1 .. Len(log) /\ Len(log) \in Nat
  BY LogIs
<1>2. IsFiniteSet(1 .. Len(log))
  BY <1>1, FS_Interval
<1>3. Sent(s) \in SUBSET (1 .. Len(log)) /\ Q \in SUBSET Sent(s)
  BY <1>1 DEF Sent
<1>4. IsFiniteSet(Sent(s))
  BY <1>2, <1>3, FS_Subset
<1>5. IsFiniteSet(Q)
  BY <1>3, <1>4, FS_Subset
<1>6. Cardinality(Q) \in Nat
  BY <1>5, FS_CardinalityType
<1>7. Cardinality(Q) = 0 <=> Q = {}
  BY <1>5, FS_EmptySet
<1> QED
  BY <1>4, <1>6, <1>7 DEF SentAt

LEMMA SentAtAfter ==
  ASSUME TypeOK, NEW p \in Stamped, Logged(p), NEW s, NEW t
  PROVE  SentAt(s, t)' = SentAt(s, t) + IF Admitted(p) /\ s = p.src /\ t = p.t THEN 1 ELSE 0
<1> DEFINE n == Len(log)
           Q == {i \in Sent(s) : log[i].p.t = t}
           R == {i \in Sent(s)' : log'[i].p.t = t}
<1>1. /\ Sent(s)' = Sent(s) \cup (IF Admitted(p) /\ s = p.src THEN {n + 1} ELSE {})
      /\ n + 1 \notin Sent(s) /\ log'[n + 1].p = p /\ \A i \in Sent(s) : log'[i] = log[i]
  <2>1. Sent(s)' = Sent(s) \cup (IF Admitted(p) /\ s = p.src THEN {n + 1} ELSE {})
    BY SentAfter
  <2>2. n + 1 \notin DOMAIN log /\ log'[n + 1].p = p /\ \A i \in DOMAIN log : log'[i] = log[i]
    BY LogGrows
  <2>3. Sent(s) \subseteq DOMAIN log
    BY DEF Sent
  <2> QED BY <2>1, <2>2, <2>3
<1>2. SentAt(s, t) = Cardinality(Q) /\ SentAt(s, t)' = Cardinality(R)
  BY DEF SentAt
<1>3. IsFiniteSet(Q) /\ Cardinality(Q) \in Nat
  <2>1. IsFiniteSet(Sent(s)) /\ Q \in SUBSET Sent(s)
    BY SentIs
  <2>2. IsFiniteSet(Q)
    BY <2>1, FS_Subset
  <2> QED BY <2>2, FS_CardinalityType
<1>4. CASE Admitted(p) /\ s = p.src /\ t = p.t
  <2>1. R = Q \cup {n + 1} /\ n + 1 \notin Q
    BY <1>1, <1>4
  <2> HIDE DEF Q, R, n
  <2>2. Cardinality(Q \cup {n + 1}) = Cardinality(Q) + 1
    BY <1>3, <2>1, FS_AddElement
  <2> QED BY <1>2, <1>4, <2>1, <2>2
<1>5. CASE ~(Admitted(p) /\ s = p.src /\ t = p.t)
  <2>1. R = Q
    BY <1>1, <1>5
  <2> HIDE DEF Q, R
  <2> QED BY <1>2, <1>3, <1>5, <2>1
<1> QED
  BY <1>4, <1>5

(* In order, no packet before is later, and what the packet finds recent   *)
(* was recent to the one before it.                                        *)
LEMMA TimeMovesOn ==
  ASSUME TypeOK, NEW p \in Stamped, Logged(p), Ordered, InOrder, NEW n, n = Len(log)
  PROVE  /\ InOrder' /\ Clock <= p.t
         /\ \A i \in DOMAIN log : log[i].p.t <= Clock /\ log[i].p.t <= p.t
         /\ \A i \in DOMAIN log : log[i].p.t > p.t - Window => Recent(i)
         /\ \A i \in DOMAIN log : Recent(i)' <=> log[i].p.t > p.t - Window
<1>1. /\ DOMAIN log' = DOMAIN log \cup {n + 1} /\ n + 1 \notin DOMAIN log
      /\ \A i \in DOMAIN log : log'[i] = log[i]
      /\ log'[n + 1].p = p /\ Clock' = p.t /\ p.t \in Nat /\ Window' = Window
      /\ Window \in Nat /\ Window > 0 /\ Clock \in Nat
  BY LogGrows
<1>2. DOMAIN log = 1 .. n /\ n \in Nat /\ \A i \in DOMAIN log : log[i].p.t \in Nat
  BY LogIs
<1>3. Clock <= p.t
  BY DEF Logged
<1>4. \A i, j \in DOMAIN log : i <= j => log[i].p.t <= log[j].p.t
  BY DEF InOrder
<1>5. \A i \in DOMAIN log : log[i].p.t <= Clock
  <2> SUFFICES ASSUME NEW i \in DOMAIN log PROVE log[i].p.t <= Clock
    OBVIOUS
  <2>1. n \in DOMAIN log /\ i <= n /\ log # <<>>
    BY <1>2
  <2> QED BY <1>4, <2>1 DEF Clock
<1>6. \A i \in DOMAIN log : log[i].p.t <= p.t
  BY <1>1, <1>2, <1>3, <1>5
<1>7. InOrder'
  <2> SUFFICES ASSUME NEW i \in DOMAIN log', NEW j \in DOMAIN log', i <= j
               PROVE  log'[i].p.t <= log'[j].p.t
    BY DEF InOrder
  <2>1. CASE j = n + 1
    BY <1>1, <1>6, <2>1
  <2>2. CASE j \in DOMAIN log
    <3>1. i \in DOMAIN log
      BY <1>1, <1>2, <2>2
    <3> QED BY <1>1, <1>4, <2>2, <3>1
  <2> QED BY <1>1, <2>1, <2>2
<1>8. \A i \in DOMAIN log : log[i].p.t > p.t - Window => Recent(i)
  BY <1>1, <1>2, <1>3 DEF Recent
<1>9. \A i \in DOMAIN log : Recent(i)' <=> log[i].p.t > p.t - Window
  BY <1>1 DEF Recent
<1> QED
  BY <1>3, <1>5, <1>6, <1>7, <1>8, <1>9

-----------------------------------------------------------------------------
(* What the entry of the packet's source is worth: a source that was       *)
(* forgotten sent nothing that still counts, so a new entry knows as much. *)

Recalled == SourcesKept /\ BucketsTrue /\ FloodsKnown /\ DstsKept /\ PortsTrue
Counts(i, p) == log[i].p.t > p.t - Window

LEMMA ForgottenIs ==
  ASSUME TypeOK, NEW p \in Stamped, Logged(p), Ordered, InOrder, SourcesKept, p.src \notin DOMAIN stats
  PROVE  \A i \in Sent(p.src) : ~Counts(i, p)
<1> SUFFICES ASSUME NEW i \in Sent(p.src), Counts(i, p)
             PROVE  FALSE
  OBVIOUS
<1>1. i \in DOMAIN log /\ log[i].admitted /\ log[i].p.src = p.src
  BY DEF Sent
<1>2. Recent(i)
  BY <1>1, TimeMovesOn DEF Counts
<1> QED
  BY <1>1, <1>2 DEF SourcesKept

LEMMA BucketsKnown ==
  ASSUME TypeOK, NEW p \in Stamped, Logged(p), Ordered, InOrder, SourcesKept, BucketsTrue,
         NEW bucket, bucket = Entry(p).bucket
  PROVE  /\ bucket \in [0 .. Window - 1 -> [sec : Nat, n : Nat]]
         /\ \A b \in 0 .. Window - 1 :
              LET e == bucket[b]
              IN  /\ e.sec <= p.t
                  /\ e.sec > p.t - Window /\ e.n # 0 => e.sec % Window = b /\ e.n = SentAt(p.src, e.sec)
         /\ \A i \in Sent(p.src) : Counts(i, p) =>
              bucket[log[i].p.t % Window] = [sec |-> log[i].p.t, n |-> SentAt(p.src, log[i].p.t)]
<1>1. Clock <= p.t /\ \A i \in DOMAIN log : log[i].p.t > p.t - Window => Recent(i)
  BY TimeMovesOn
<1>2. Clock \in Nat /\ p.t \in Nat /\ Window \in Nat /\ Window > 0
  BY LogGrows
<1>3. bucket \in [0 .. Window - 1 -> [sec : Nat, n : Nat]]
  BY EntryIs DEF IsSource
<1>4. CASE p.src \in DOMAIN stats
  <2>1. bucket = stats[p.src].bucket
    BY <1>4, EntryIs
  <2>2. ASSUME NEW b \in 0 .. Window - 1, NEW e, e = bucket[b]
        PROVE  /\ e.sec <= p.t
               /\ e.sec > p.t - Window /\ e.n # 0 => e.sec % Window = b /\ e.n = SentAt(p.src, e.sec)
    <3>1. /\ e.sec <= Clock
          /\ e.sec > Clock - Window /\ e.n # 0 => e.sec % Window = b /\ e.n = SentAt(p.src, e.sec)
      BY <1>4, <2>1, <2>2 DEF BucketsTrue
    <3>2. e.sec \in Nat
      BY <1>3, <2>2
    <3>3. e.sec > p.t - Window => e.sec > Clock - Window
      BY <1>1, <1>2, <3>2
    <3>4. e.sec <= p.t
      BY <1>1, <1>2, <3>1, <3>2
    <3> QED BY <3>1, <3>3, <3>4
  <2>3. ASSUME NEW i \in Sent(p.src), Counts(i, p)
        PROVE  bucket[log[i].p.t % Window] = [sec |-> log[i].p.t, n |-> SentAt(p.src, log[i].p.t)]
    <3>1. i \in DOMAIN log /\ log[i].admitted /\ log[i].p.src = p.src
      BY DEF Sent
    <3>2. Recent(i)
      BY <1>1, <2>3, <3>1 DEF Counts
    <3> QED BY <2>1, <3>1, <3>2 DEF BucketsTrue
  <2> QED BY <1>3, <2>2, <2>3
<1>5. CASE p.src \notin DOMAIN stats
  <2>1. bucket = [i \in 0 .. Window - 1 |-> [sec |-> 0, n |-> 0]]
    <3>1. Entry(p) = NewSource(p.t)
      BY <1>5, EntryIs
    <3> QED BY <3>1 DEF NewSource
  <2>2. \A b \in 0 .. Window - 1 : bucket[b].sec = 0 /\ bucket[b].n = 0
    BY <2>1
  <2>3. \A i \in Sent(p.src) : ~Counts(i, p)
    BY <1>5, ForgottenIs
  <2> QED BY <1>2, <1>3, <2>2, <2>3
<1> QED
  BY <1>4, <1>5

(* Two times less than a window apart are in one bucket only if the same.  *)
LEMMA OneBucket ==
  ASSUME NEW W \in Nat, W > 0, NEW t \in Nat, NEW u \in Nat, u <= t, u > t - W, u % W = t % W
  PROVE  u = t
<1> DEFINE k == t \div W
           l == u \div W
<1>1. k \in Int /\ l \in Int /\ t = W * k + (t % W) /\ u = W * l + (u % W)
  OBVIOUS
<1> HIDE DEF k, l
<1>2. t - u = W * (k - l) /\ t - u >= 0 /\ t - u < W
  BY <1>1
<1>3. CASE k - l <= 0
  BY <1>1, <1>2, <1>3
<1>4. CASE k - l >= 1
  BY <1>1, <1>2, <1>4
<1> QED
  BY <1>1, <1>3, <1>4

LEMMA MarksKept ==
  ASSUME TypeOK, NEW p \in Stamped, Logged(p), MarksTrue
  PROVE  MarksTrue'
<1> DEFINE n == Len(log)
<1>1. DOMAIN log' = DOMAIN log \cup {n + 1} /\ \A i \in DOMAIN log : log'[i] = log[i]
  BY LogGrows
<1>2. /\ log'[n + 1].p = p /\ log'[n + 1].admitted = Admitted(p)
      /\ log'[n + 1].flood = (Admitted(p) /\ Floods(Entry(p), p))
      /\ log'[n + 1].probe = (Admitted(p) /\ Tries(p))
      /\ log'[n + 1].scan = (Admitted(p) /\ ScanFound(p))
  BY DEF Logged
<1>3. (ScanFound(p) => Tries(p)) /\ (Tries(p) => p.proto \in Probes)
  BY DEF ScanFound, Tries, Attempt, Probes
<1> QED
  BY <1>1, <1>2, <1>3 DEF MarksTrue

LEMMA SourcesStayKept ==
  ASSUME TypeOK, NEW p \in Stamped, Logged(p), Tabled(p), Ordered, InOrder, SourcesKept
  PROVE  SourcesKept'
<1> DEFINE n == Len(log)
<1>1. /\ DOMAIN log' = DOMAIN log \cup {n + 1} /\ n + 1 \notin DOMAIN log
      /\ \A i \in DOMAIN log : log'[i] = log[i]
      /\ log'[n + 1].p = p /\ Clock' = p.t /\ Clock \in Nat /\ p.t \in Nat
  BY LogGrows
<1>2. /\ Clock <= p.t
      /\ \A i \in DOMAIN log : log[i].p.t <= p.t
      /\ \A i \in DOMAIN log : log[i].p.t > p.t - Window => Recent(i)
      /\ \A i \in DOMAIN log : Recent(i)' <=> log[i].p.t > p.t - Window
  BY TimeMovesOn
<1>3. log'[n + 1].admitted = Admitted(p)
  BY DEF Logged
<1>4. Window \in Nat /\ \A i \in DOMAIN log : log[i].p.t \in Nat
  BY LogIs, SettingIs DEF TypeOK
<1>5. ASSUME NEW s \in DOMAIN stats'
      PROVE  stats'[s].seen <= p.t /\ \A i \in Sent(s)' : log'[i].p.t <= stats'[s].seen
  <2>1. CASE Admitted(p) /\ s = p.src
    <3>1. stats'[s].seen = p.t
      BY <2>1, ProbedIs DEF Tabled, Same
    <3>2. \A i \in Sent(s)' : i \in DOMAIN log \/ i = n + 1
      BY <1>1 DEF Sent
    <3> QED BY <1>1, <1>2, <3>1, <3>2
  <2>2. CASE ~(Admitted(p) /\ s = p.src)
    <3>1. s \in DOMAIN stats /\ stats'[s].seen = stats[s].seen
      BY <2>2 DEF Tabled, Same
    <3>2. Sent(s)' = Sent(s)
      BY <2>2, SentAfter
    <3>3. \A i \in Sent(s) : i \in DOMAIN log
      BY DEF Sent
    <3>4. stats[s].seen <= Clock /\ \A i \in Sent(s) : log[i].p.t <= stats[s].seen
      BY <3>1 DEF SourcesKept
    <3>5. stats[s].seen \in Nat
      BY <3>1 DEF TypeOK, IsSource
    <3> QED BY <1>1, <1>2, <3>1, <3>2, <3>3, <3>4, <3>5
  <2> QED BY <2>1, <2>2
<1>6. ASSUME NEW i \in DOMAIN log', log'[i].admitted, Recent(i)'
      PROVE  log'[i].p.src \in DOMAIN stats'
  <2>1. CASE i = n + 1
    BY <1>1, <1>3, <1>6, <2>1 DEF Tabled
  <2>2. CASE i \in DOMAIN log
    <3> DEFINE s == log[i].p.src
    <3>1. log'[i] = log[i] /\ log[i].p.t > p.t - Window /\ Recent(i)
      BY <1>1, <1>2, <1>6, <2>2
    <3>2. s \in DOMAIN stats /\ i \in Sent(s)
      BY <1>6, <2>2, <3>1 DEF SourcesKept, Sent
    <3>3. log[i].p.t <= stats[s].seen /\ stats[s].seen \in Nat
      BY <3>2 DEF SourcesKept, TypeOK, IsSource
    <3>4. stats[s].seen > p.t - Window
      BY <1>1, <1>4, <2>2, <3>1, <3>3
    <3> QED BY <3>1, <3>2, <3>4 DEF Tabled
  <2> QED BY <1>1, <2>1, <2>2
<1> QED
  BY <1>1, <1>5, <1>6 DEF SourcesKept

(* The packet's own second is counted where its bucket says: a bucket left *)
(* from an earlier second starts again at one.                             *)
LEMMA BucketsStayTrue ==
  ASSUME TypeOK, NEW p \in Stamped, Logged(p), Tabled(p), Ordered, InOrder, SourcesKept, BucketsTrue
  PROVE  BucketsTrue'
<1> DEFINE n == Len(log)
           old == Entry(p).bucket
           new == Bumped(old, p.t)
           here == p.t % Window
<1>1. /\ DOMAIN log' = DOMAIN log \cup {n + 1} /\ n + 1 \notin DOMAIN log
      /\ \A i \in DOMAIN log : log'[i] = log[i]
      /\ log'[n + 1].p = p /\ Clock' = p.t /\ Clock \in Nat /\ p.t \in Nat
      /\ Window' = Window /\ Window \in Nat /\ Window > 0
  BY LogGrows
<1>2. /\ Clock <= p.t
      /\ \A i \in DOMAIN log : log[i].p.t <= p.t
      /\ \A i \in DOMAIN log : log[i].p.t > p.t - Window => Recent(i)
      /\ \A i \in DOMAIN log : Recent(i)' <=> log[i].p.t > p.t - Window
  BY TimeMovesOn
<1>3. log'[n + 1].admitted = Admitted(p)
  BY DEF Logged
<1>4. \A i \in DOMAIN log : log[i].p.t \in Nat
  BY LogIs
<1>5. /\ old \in [0 .. Window - 1 -> [sec : Nat, n : Nat]]
      /\ \A b \in 0 .. Window - 1 :
           LET e == old[b]
           IN  /\ e.sec <= p.t
               /\ e.sec > p.t - Window /\ e.n # 0 => e.sec % Window = b /\ e.n = SentAt(p.src, e.sec)
      /\ \A i \in Sent(p.src) : Counts(i, p) =>
           old[log[i].p.t % Window] = [sec |-> log[i].p.t, n |-> SentAt(p.src, log[i].p.t)]
  BY BucketsKnown
<1>6. /\ here \in 0 .. Window - 1
      /\ new \in [0 .. Window - 1 -> [sec : Nat, n : Nat]]
      /\ new[here] = [sec |-> p.t, n |-> IF old[here].sec = p.t THEN old[here].n + 1 ELSE 1]
      /\ \A b \in 0 .. Window - 1 : b # here => new[b] = old[b]
  <2>1. setting \in Settings
    BY DEF TypeOK
  <2> HIDE DEF old, here, new
  <2> QED BY <1>1, <1>5, <2>1, BumpedIs DEF here, new
<1>7. \A i \in Sent(p.src) : i \in DOMAIN log
  BY DEF Sent
<1>8. (IF old[here].sec = p.t THEN old[here].n ELSE 0) = SentAt(p.src, p.t)
  <2>1. CASE \E i \in Sent(p.src) : log[i].p.t = p.t
    <3>1. PICK i \in Sent(p.src) : log[i].p.t = p.t
      BY <2>1
    <3>2. Counts(i, p)
      BY <1>1, <3>1 DEF Counts
    <3>3. old[here] = [sec |-> p.t, n |-> SentAt(p.src, p.t)]
      BY <1>5, <3>1, <3>2
    <3> QED BY <3>3
  <2>2. CASE ~\E i \in Sent(p.src) : log[i].p.t = p.t
    <3>1. SentAt(p.src, p.t) = 0
      BY <2>2, SentIs
    <3>2. p.t > p.t - Window
      BY <1>1
    <3>3. old[here].sec > p.t - Window /\ old[here].n # 0 => old[here].n = SentAt(p.src, old[here].sec)
      BY <1>5, <1>6
    <3>4. old[here].sec = p.t => old[here].n = 0
      BY <3>1, <3>2, <3>3
    <3> QED BY <3>1, <3>4
  <2> QED BY <2>1, <2>2
<1> HIDE DEF old, new, here
<1>9. new[here] = [sec |-> p.t, n |-> SentAt(p.src, p.t) + 1]
  <2>1. SentAt(p.src, p.t) \in Nat /\ old[here].n \in Nat
    BY <1>5, <1>6, SentIs
  <2>2. (IF old[here].sec = p.t THEN old[here].n + 1 ELSE 1) = SentAt(p.src, p.t) + 1
    BY <1>8, <2>1
  <2> QED BY <1>6, <2>2
<1>10. Admitted(p) => p.src \in DOMAIN stats' /\ stats'[p.src].bucket = new
  BY ProbedIs DEF Tabled, Same, new, old
<1>11. ASSUME NEW s \in DOMAIN stats', ~(Admitted(p) /\ s = p.src)
       PROVE  s \in DOMAIN stats /\ stats'[s].bucket = stats[s].bucket /\ \A t : SentAt(s, t)' = SentAt(s, t)
  <2>1. s \in DOMAIN stats /\ stats'[s].bucket = stats[s].bucket
    BY <1>11 DEF Tabled, Same
  <2>2. \A t : SentAt(s, t) \in Nat /\ SentAt(s, t)' = SentAt(s, t) + 0
    BY <1>11, SentAtAfter, SentIs
  <2> QED BY <2>1, <2>2
<1>12. \A t : SentAt(p.src, t) \in Nat
  BY SentIs
<1>13. Admitted(p) => \A t : SentAt(p.src, t)' = SentAt(p.src, t) + IF t = p.t THEN 1 ELSE 0
  BY SentAtAfter
<1>14. ASSUME NEW s \in DOMAIN stats', NEW b \in 0 .. Window - 1, NEW e, e = stats'[s].bucket[b]
       PROVE  /\ e.sec <= p.t
              /\ e.sec > p.t - Window /\ e.n # 0 => e.sec % Window = b /\ e.n = SentAt(s, e.sec)'
  <2>1. CASE Admitted(p) /\ s = p.src /\ b = here
    <3>1. e = [sec |-> p.t, n |-> SentAt(p.src, p.t) + 1]
      BY <1>9, <1>10, <1>14, <2>1
    <3>2. SentAt(s, p.t)' = SentAt(p.src, p.t) + 1
      BY <1>13, <2>1
    <3>3. e.sec = p.t /\ e.n = SentAt(s, p.t)'
      BY <3>1, <3>2
    <3> QED BY <1>1, <2>1, <3>3 DEF here
  <2>2. CASE Admitted(p) /\ s = p.src /\ b # here
    <3>1. e = old[b]
      BY <1>6, <1>10, <1>14, <2>2
    <3>2. e.sec % Window = b => e.sec # p.t
      BY <2>2 DEF here
    <3>3. e.sec # p.t => SentAt(s, e.sec)' = SentAt(p.src, e.sec) + 0
      BY <1>13, <2>2
    <3>4. e.sec # p.t => SentAt(s, e.sec)' = SentAt(p.src, e.sec)
      BY <1>12, <3>3
    <3> QED BY <1>5, <3>1, <3>2, <3>4
  <2>3. CASE ~(Admitted(p) /\ s = p.src)
    <3>1. s \in DOMAIN stats /\ e = stats[s].bucket[b] /\ SentAt(s, e.sec)' = SentAt(s, e.sec)
      BY <1>11, <1>14, <2>3
    <3>2. /\ e.sec <= Clock
          /\ e.sec > Clock - Window /\ e.n # 0 => e.sec % Window = b /\ e.n = SentAt(s, e.sec)
      BY <3>1 DEF BucketsTrue
    <3>3. e.sec \in Nat
      BY <3>1 DEF TypeOK, IsSource
    <3>4. e.sec <= p.t /\ (e.sec > p.t - Window => e.sec > Clock - Window)
      BY <1>1, <1>2, <3>2, <3>3
    <3> QED BY <3>1, <3>2, <3>4
  <2> QED BY <2>1, <2>2, <2>3
<1>15. ASSUME NEW i \in DOMAIN log', log'[i].admitted, Recent(i)', NEW s, s = log'[i].p.src,
              NEW t, t = log'[i].p.t
       PROVE  stats'[s].bucket[t % Window] = [sec |-> t, n |-> SentAt(s, t)']
  <2>1. t \in Nat /\ t <= p.t /\ t > p.t - Window
    BY <1>1, <1>2, <1>4, <1>15
  <2>2. CASE Admitted(p) /\ s = p.src /\ t % Window = here
    <3>1. t = p.t
      BY <1>1, <2>1, <2>2, OneBucket DEF here
    <3>2. SentAt(s, t)' = SentAt(p.src, p.t) + 1
      BY <1>13, <2>2, <3>1
    <3> QED BY <1>9, <1>10, <2>2, <3>1, <3>2
  <2>3. CASE Admitted(p) /\ s = p.src /\ t % Window # here
    <3>1. t # p.t /\ i # n + 1
      BY <1>1, <1>15, <2>3 DEF here
    <3>2. i \in Sent(p.src) /\ log[i].p.t = t /\ Counts(i, p)
      BY <1>1, <1>15, <2>1, <2>3, <3>1 DEF Sent, Counts
    <3>3. old[t % Window] = [sec |-> t, n |-> SentAt(p.src, t)]
      BY <1>5, <3>2
    <3>4. SentAt(s, t)' = SentAt(p.src, t) + 0
      BY <1>13, <2>3, <3>1
    <3>5. SentAt(s, t)' = SentAt(p.src, t)
      BY <1>12, <3>4
    <3>6. t % Window \in 0 .. Window - 1
      BY <1>1, <2>1
    <3>7. new[t % Window] = old[t % Window]
      BY <1>6, <2>3, <3>6
    <3> QED BY <1>10, <2>3, <3>3, <3>5, <3>7
  <2>4. CASE ~(Admitted(p) /\ s = p.src)
    <3>1. i \in DOMAIN log /\ log[i].admitted /\ s = log[i].p.src /\ t = log[i].p.t /\ Recent(i)
      BY <1>1, <1>2, <1>3, <1>15, <2>4
    <3>2. stats[s].bucket[t % Window] = [sec |-> t, n |-> SentAt(s, t)]
      BY <3>1 DEF BucketsTrue
    <3>3. s \in DOMAIN stats'
      <4>1. SourcesKept'
        BY SourcesStayKept
      <4> QED BY <1>15, <4>1 DEF SourcesKept
    <3> QED BY <1>11, <2>4, <3>2, <3>3
  <2> QED BY <2>2, <2>3, <2>4
<1>16. ASSUME NEW s \in DOMAIN stats', NEW b \in 0 .. Window - 1
       PROVE  (LET e == stats[s].bucket[b]
               IN  e.sec <= Clock /\ (e.sec > Clock - Window /\ e.n # 0 => e.sec % Window = b /\ e.n = SentAt(s, e.sec)))'
  <2>1. Clock' = p.t /\ Window' = Window
    BY <1>1
  <2>2. \A e : e = stats'[s].bucket[b] =>
          e.sec <= p.t /\ (e.sec > p.t - Window /\ e.n # 0 => e.sec % Window = b /\ e.n = SentAt(s, e.sec)')
    BY <1>14
  <2> QED BY <2>1, <2>2
<1>17. ASSUME NEW i \in DOMAIN log', log'[i].admitted, Recent(i)'
       PROVE  (LET s == log[i].p.src  t == log[i].p.t
               IN  stats[s].bucket[t % Window] = [sec |-> t, n |-> SentAt(s, t)])'
  <2>1. Window' = Window
    BY <1>1
  <2>2. \A s, t : s = log'[i].p.src /\ t = log'[i].p.t =>
          stats'[s].bucket[t % Window] = [sec |-> t, n |-> SentAt(s, t)']
    BY <1>15, <1>17
  <2> QED BY <2>1, <2>2
<1>18. Window' = Window
  BY <1>1
<1> QED
  BY <1>16, <1>17, <1>18 DEF BucketsTrue

-----------------------------------------------------------------------------
(* Alerts held back: the last one is known as long as it may hold the next *)
(* back, for the interval between alerts is no longer than the window.     *)

Raised(last, S, p) ==
  /\ last # None => \E i \in S : log[i].p.t = last
  /\ \A i \in S : Counts(i, p) => last \in Nat /\ log[i].p.t <= last

LEMMA GatedIs ==
  ASSUME TypeOK, NEW p \in Stamped, NEW S, S \subseteq DOMAIN log, NEW last, Raised(last, S, p)
  PROVE  Gated(last, p.t) <=> \E i \in S : p.t - log[i].p.t < setting.gap
<1>1. /\ p.t \in Nat /\ \A i \in DOMAIN log : log[i].p.t \in Nat
      /\ setting.gap \in Nat /\ setting.gap <= Window /\ Window \in Nat
  BY PacketIs, LogIs, SettingIs DEF TypeOK
<1>2. None \notin Int
  BY AnomalyAssumption
<1>3. ASSUME Gated(last, p.t) PROVE \E i \in S : p.t - log[i].p.t < setting.gap
  <2>1. last # None /\ p.t - last < setting.gap
    BY <1>3 DEF Gated
  <2> QED BY <2>1 DEF Raised
<1>4. ASSUME NEW i \in S, p.t - log[i].p.t < setting.gap PROVE Gated(last, p.t)
  <2>1. log[i].p.t \in Nat
    BY <1>1
  <2>2. log[i].p.t > p.t - Window
    BY <1>1, <1>4, <2>1
  <2>3. last \in Nat /\ log[i].p.t <= last
    BY <2>2 DEF Raised, Counts
  <2>4. last # None /\ p.t - last < setting.gap
    BY <1>1, <1>2, <1>4, <2>1, <2>3
  <2> QED BY <2>4 DEF Gated
<1> QED
  BY <1>3, <1>4

(* An alarm that a packet raises, and one that it does not. *)
LEMMA RaisedNow ==
  ASSUME TypeOK, NEW p \in Stamped, Logged(p), Ordered, InOrder, NEW S, S \subseteq DOMAIN log,
         NEW T, T = S \cup {Len(log) + 1}
  PROVE  /\ p.t \in Nat /\ \E i \in T : log'[i].p.t = p.t
         /\ \A i \in T : log'[i].p.t <= p.t
<1> DEFINE n == Len(log)
<1>1. /\ n + 1 \notin DOMAIN log /\ \A i \in DOMAIN log : log'[i] = log[i]
      /\ log'[n + 1].p = p /\ p.t \in Nat
  BY LogGrows
<1>2. \A i \in DOMAIN log : log[i].p.t <= p.t
  BY TimeMovesOn
<1> QED
  BY <1>1, <1>2

LEMMA RaisedBefore ==
  ASSUME TypeOK, NEW p \in Stamped, Logged(p), Ordered, InOrder, NEW S, S \subseteq DOMAIN log,
         NEW last, Raised(last, S, p)
  PROVE  /\ last # None => \E i \in S : log'[i].p.t = last
         /\ \A i \in S : Recent(i)' => last \in Nat /\ log'[i].p.t <= last
<1>1. \A i \in DOMAIN log : log'[i] = log[i]
  BY LogGrows
<1>2. \A i \in DOMAIN log : Recent(i)' <=> log[i].p.t > p.t - Window
  BY TimeMovesOn
<1> QED
  BY <1>1, <1>2 DEF Raised, Counts

LEMMA AlarmStays ==
  ASSUME TypeOK, NEW p \in Stamped, Logged(p), Ordered, InOrder, NEW S, S \subseteq DOMAIN log,
         NEW last, Alarm(last, S)
  PROVE  Raised(last, S, p)
<1>1. \A i \in DOMAIN log : log[i].p.t > p.t - Window => Recent(i)
  BY TimeMovesOn
<1>2. /\ last # None => \E i \in S : log[i].p.t = last
      /\ \A i \in S : Recent(i) => last \in Nat /\ log[i].p.t <= last
  BY DEF Alarm
<1> QED
  BY <1>1, <1>2 DEF Raised, Counts

LEMMA FloodsRaised ==
  ASSUME TypeOK, NEW p \in Stamped, Logged(p), Ordered, InOrder, SourcesKept, FloodsKnown
  PROVE  Raised(Entry(p).flood, Flooded(p.src), p) /\ Flooded(p.src) \subseteq DOMAIN log
<1>1. Flooded(p.src) \subseteq DOMAIN log /\ Flooded(p.src) \subseteq Sent(p.src)
  BY DEF Flooded, Sent
<1>2. CASE p.src \in DOMAIN stats
  <2>1. Alarm(Entry(p).flood, Flooded(p.src))
    BY <1>2, EntryIs DEF FloodsKnown
  <2> QED BY <1>1, <2>1, AlarmStays
<1>3. CASE p.src \notin DOMAIN stats
  <2>1. Entry(p) = NewSource(p.t)
    BY <1>3, EntryIs
  <2>2. Entry(p).flood = None
    BY <2>1 DEF NewSource
  <2>3. \A i \in Sent(p.src) : ~Counts(i, p)
    BY <1>3, ForgottenIs
  <2> QED BY <1>1, <2>2, <2>3 DEF Raised
<1> QED
  BY <1>2, <1>3

LEMMA FloodsStayKnown ==
  ASSUME TypeOK, NEW p \in Stamped, Logged(p), Tabled(p), Ordered, InOrder, SourcesKept, FloodsKnown
  PROVE  FloodsKnown'
<1> DEFINE n == Len(log)
<1>1. SUFFICES ASSUME NEW s \in DOMAIN stats', NEW T, T = Flooded(s)', NEW next, next = stats'[s].flood
               PROVE  /\ next # None => \E i \in T : log'[i].p.t = next
                      /\ \A i \in T : Recent(i)' => next \in Nat /\ log'[i].p.t <= next
  BY DEF FloodsKnown, Alarm
<1>2. CASE Admitted(p) /\ s = p.src
  <2> DEFINE S == Flooded(p.src)
             last == Entry(p).flood
  <2>1. T = S \cup (IF Floods(Entry(p), p) THEN {n + 1} ELSE {})
    BY <1>1, <1>2, SentAfter
  <2>2. next = IF Floods(Entry(p), p) THEN p.t ELSE last
    BY <1>1, <1>2, ProbedIs DEF Tabled, Same
  <2>3. Raised(last, S, p) /\ S \subseteq DOMAIN log
    BY FloodsRaised
  <2> HIDE DEF S, last
  <2>4. CASE Floods(Entry(p), p)
    <3>1. T = S \cup {Len(log) + 1} /\ next = p.t
      BY <2>1, <2>2, <2>4
    <3>2. p.t \in Nat /\ (\E i \in T : log'[i].p.t = p.t) /\ \A i \in T : log'[i].p.t <= p.t
      BY <2>3, <3>1, RaisedNow
    <3> QED BY <3>1, <3>2
  <2>5. CASE ~Floods(Entry(p), p)
    <3>1. T = S /\ next = last
      BY <2>1, <2>2, <2>5
    <3> QED BY <2>3, <3>1, RaisedBefore
  <2> QED BY <2>4, <2>5
<1>3. CASE ~(Admitted(p) /\ s = p.src)
  <2>1. s \in DOMAIN stats /\ next = stats[s].flood
    BY <1>1, <1>3 DEF Tabled, Same
  <2>2. T = Flooded(s)
    BY <1>1, <1>3, SentAfter
  <2>3. Alarm(next, T) /\ T \subseteq DOMAIN log
    BY <2>1, <2>2 DEF FloodsKnown, Flooded, Sent
  <2>4. Raised(next, T, p)
    BY <2>3, AlarmStays
  <2> QED BY <2>3, <2>4, RaisedBefore
<1> QED
  BY <1>2, <1>3

(* The verdict on a flood is that of the packets of the window.            *)
LEMMA FloodsToldTrue ==
  ASSUME TypeOK, NEW p \in Stamped, Logged(p), Tabled(p), Ordered => InOrder /\ Recalled, MarksTrue
  PROVE  FloodsTrue'
<1> DEFINE n == Len(log)
           G == Sent(p.src)'
           bucket == Bumped(Entry(p).bucket, p.t)
<1>1. /\ DOMAIN log' = DOMAIN log \cup {n + 1} /\ n + 1 \notin DOMAIN log
      /\ \A i \in DOMAIN log : log'[i] = log[i]
      /\ log'[n + 1].p = p /\ Len(log') = n + 1 /\ p.t \in Nat
      /\ Window' = Window /\ Window \in Nat /\ Window > 0
  BY LogGrows
<1>2. /\ setting' = setting /\ log'[n + 1].admitted = Admitted(p)
      /\ log'[n + 1].flood = (Admitted(p) /\ Floods(Entry(p), p))
  BY DEF Logged
<1>3. Latest' = log'[n + 1]
  BY <1>1 DEF Latest, Last
<1>4. SUFFICES ASSUME Admitted(p), ~setting.viaObservations, Ordered
               PROVE  Floods(Entry(p), p) <=>
                        /\ Cardinality({i \in G : log'[i].p.t > p.t - Window}) > setting.floodLimit
                        /\ ~\E i \in 1 .. n : log'[i].flood /\ log'[i].p.src = p.src
                                              /\ p.t - log'[i].p.t < setting.gap
  <2>1. /\ Latest'.p = p /\ Latest'.admitted = Admitted(p) /\ setting' = setting
        /\ Latest'.flood = (Admitted(p) /\ Floods(Entry(p), p))
    BY <1>1, <1>2, <1>3
  <2> DEFINE q == Latest'.p
             Q == {i \in {j \in DOMAIN log' : log'[j].admitted /\ log'[j].p.src = q.src} :
                     log'[i].p.t > q.t - setting'.window}
             held == \E i \in 1 .. Len(log') - 1 : /\ log'[i].flood /\ log'[i].p.src = q.src
                                                   /\ q.t - log'[i].p.t < setting'.gap
  <2>2. G = {i \in DOMAIN log' : log'[i].admitted /\ log'[i].p.src = p.src}
    BY DEF Sent
  <2>3. Q = {i \in G : log'[i].p.t > p.t - Window}
    BY <2>1, <2>2 DEF Window
  <2>4. n + 1 - 1 = n
    BY LogIs
  <2>5. held <=> \E i \in 1 .. n : /\ log'[i].flood /\ log'[i].p.src = p.src
                                   /\ p.t - log'[i].p.t < setting.gap
    BY <1>1, <2>1, <2>4
  <2>6. FloodsTrue' <=>
          (log' # <<>> /\ Latest'.admitted /\ ~setting'.viaObservations /\ setting'.late = 0 =>
             (Latest'.flood <=> Cardinality(Q) > setting'.floodLimit /\ ~held))
    BY DEF FloodsTrue, Within, Fresh, Earlier, Lately, Sent, Window
  <2> HIDE DEF Q, held, G
  <2> QED BY <2>1, <2>3, <2>5, <2>6 DEF Ordered
<1>5. DOMAIN log = 1 .. n /\ \A i \in DOMAIN log : log[i].p.t \in Nat
  BY LogIs
<1>6. Total(bucket, p.t) = Cardinality({i \in G : log'[i].p.t > p.t - Window})
  <2> DEFINE tm == [i \in G |-> log'[i].p.t]
  <2>1. BucketsTrue' /\ SourcesKept'
    BY <1>4, BucketsStayTrue, SourcesStayKept DEF Recalled
  <2>2. p.src \in DOMAIN stats' /\ stats'[p.src].bucket = bucket
    BY <1>4, ProbedIs DEF Tabled, Same
  <2>3. bucket \in [0 .. Window - 1 -> [sec : Nat, n : Nat]]
    <3>1. Probed(p).bucket = bucket /\ IsSource(Probed(p))
      BY ProbedIs
    <3> QED BY <3>1 DEF IsSource
  <2>4. \A i \in G : i \in DOMAIN log' /\ log'[i].admitted /\ log'[i].p.src = p.src
    BY DEF Sent
  <2>5. tm \in [G -> Nat]
    BY <1>1, <1>5, <2>4
  <2>6. IsFiniteSet(G)
    <3>1. G = Sent(p.src) \cup {n + 1}
      BY <1>4, SentAfter
    <3>2. IsFiniteSet(Sent(p.src))
      BY SentIs
    <3>3. IsFiniteSet(Sent(p.src) \cup {n + 1})
      BY <3>2, FS_AddElement
    <3> QED BY <3>1, <3>3
  <2>7. ASSUME NEW b \in 0 .. Window - 1, NEW sec, sec = bucket[b].sec, sec > p.t - Window, bucket[b].n # 0
        PROVE  sec % Window = b /\ bucket[b].n = Cardinality(At(G, tm, sec))
    <3>1. sec % Window = b /\ bucket[b].n = SentAt(p.src, sec)'
      <4>1. /\ Clock' = p.t
            /\ stats'[p.src].bucket[b].sec = sec /\ stats'[p.src].bucket[b].n = bucket[b].n
        BY <2>2, <2>7, LogGrows
      <4> HIDE DEF bucket
      <4>2. Window' = Window /\ p.src \in DOMAIN stats'
        BY <1>1, <2>2
      <4>3. (LET e == stats[p.src].bucket[b]
             IN  e.sec > Clock - Window /\ e.n # 0 => e.sec % Window = b /\ e.n = SentAt(p.src, e.sec))'
        BY <2>1, <4>2 DEF BucketsTrue
      <4> QED BY <2>7, <4>1, <4>2, <4>3
    <3>2. SentAt(p.src, sec)' = Cardinality({i \in G : log'[i].p.t = sec})
      BY DEF SentAt
    <3>3. {i \in G : log'[i].p.t = sec} = At(G, tm, sec)
      BY DEF At
    <3> QED BY <3>1, <3>2, <3>3
  <2>8. ASSUME NEW i \in G, NEW t, t = tm[i], t > p.t - Window
        PROVE  bucket[t % Window] = [sec |-> t, n |-> Cardinality(At(G, tm, t))]
    <3>0. t = log'[i].p.t
      BY <2>8
    <3>1. Recent(i)'
      <4>1. Clock' = p.t
        BY LogGrows
      <4> QED BY <1>1, <2>8, <3>0, <4>1 DEF Recent
    <3>2. bucket[t % Window] = [sec |-> t, n |-> SentAt(p.src, t)']
      <4> HIDE DEF bucket
      <4>1. i \in DOMAIN log' /\ log'[i].admitted /\ log'[i].p.src = p.src
        BY <2>4
      <4> QED BY <1>1, <2>1, <2>2, <3>0, <3>1, <4>1 DEF BucketsTrue
    <3>3. SentAt(p.src, t)' = Cardinality({h \in G : log'[h].p.t = t})
      BY DEF SentAt
    <3>4. {h \in G : log'[h].p.t = t} = At(G, tm, t)
      BY DEF At
    <3> QED BY <3>2, <3>3, <3>4
  <2>9. {i \in G : log'[i].p.t > p.t - Window} = After(G, tm, p.t - Window)
    BY DEF After
  <2> HIDE DEF G, bucket, tm
  <2>10. \A b \in 0 .. Window - 1 : bucket[b].sec > p.t - Window /\ bucket[b].n # 0 =>
           bucket[b].sec % Window = b /\ bucket[b].n = Cardinality(At(G, tm, bucket[b].sec))
    BY <2>7
  <2>11. \A i \in G : tm[i] > p.t - Window =>
           bucket[tm[i] % Window] = [sec |-> tm[i], n |-> Cardinality(At(G, tm, tm[i]))]
    BY <2>8
  <2>12. Window \in Nat \ {0} /\ BucketsCount(bucket, Window, p.t, G, tm)
    BY <1>1, <2>10, <2>11 DEF BucketsCount
  <2>13. SumOf(bucket, Window, p.t - Window) = Cardinality(After(G, tm, p.t - Window))
    BY <1>1, <2>3, <2>5, <2>6, <2>12, SumCounts, SMTT(30)
  <2> QED BY <2>9, <2>13 DEF Total
<1>7. Gated(Entry(p).flood, p.t) <=> \E i \in Flooded(p.src) : p.t - log[i].p.t < setting.gap
  <2>1. Raised(Entry(p).flood, Flooded(p.src), p) /\ Flooded(p.src) \subseteq DOMAIN log
    BY <1>4, FloodsRaised DEF Recalled
  <2> QED BY <2>1, GatedIs
<1>8. \A i \in 1 .. n : i \in Flooded(p.src) <=> log'[i].flood /\ log'[i].p.src = p.src
  BY <1>1, <1>5 DEF Flooded, Sent, MarksTrue
<1>9. \A i \in Flooded(p.src) : i \in 1 .. n
  BY <1>5 DEF Flooded, Sent
<1>10. Floods(Entry(p), p) <=>
         Total(bucket, p.t) > setting.floodLimit /\ ~Gated(Entry(p).flood, p.t)
  BY <1>4 DEF Floods
<1> HIDE DEF G, bucket
<1> QED
  BY <1>1, <1>5, <1>6, <1>7, <1>8, <1>9, <1>10

-----------------------------------------------------------------------------
(* Destinations and their ports. *)

PortsKnown(e, s, d, p) ==
  \A x \in Probes :
    /\ e.pruned[x] <= p.t
    /\ \A q \in DOMAIN e.ports[x] :
         /\ e.pruned[x] - Window < e.ports[x][q]
         /\ \E i \in Probing(s, d) :
              log[i].p.proto = x /\ log[i].p.dport = q /\ log[i].p.t = e.ports[x][q]
    /\ \A i \in Probing(s, d) : log[i].p.proto = x /\ Counts(i, p) =>
         log[i].p.dport \in DOMAIN e.ports[x] /\ log[i].p.t <= e.ports[x][log[i].p.dport]
PortsNext(e, p, T) ==
  \A x \in Probes :
    /\ e.pruned[x] <= p.t
    /\ \A q \in DOMAIN e.ports[x] :
         /\ e.pruned[x] - Window < e.ports[x][q]
         /\ \E i \in T : log'[i].p.proto = x /\ log'[i].p.dport = q /\ log'[i].p.t = e.ports[x][q]
    /\ \A i \in T : log'[i].p.proto = x /\ Recent(i)' =>
         log'[i].p.dport \in DOMAIN e.ports[x] /\ log'[i].p.t <= e.ports[x][log'[i].p.dport]

LEMMA ProbingIs ==
  ASSUME NEW s, NEW d
  PROVE  Probing(s, d) \subseteq DOMAIN log /\ Scanning(s, d) \subseteq DOMAIN log /\ Probing(s, d) \subseteq Sent(s)
BY DEF Probing, Scanning, Sent

(* What was so after the packet before is so when the next one comes. *)
LEMMA DstsStand ==
  ASSUME TypeOK, NEW p \in Stamped, Logged(p), Ordered, InOrder, DstsKept, PortsTrue, NEW s \in DOMAIN stats
  PROVE  /\ \A i \in Sent(s) : log[i].probe /\ Counts(i, p) =>
              log[i].p.dst \in DOMAIN stats[s].dsts /\ log[i].p.t <= stats[s].dsts[log[i].p.dst].seen
         /\ \A d \in DOMAIN stats[s].dsts :
              /\ IsDst(stats[s].dsts[d])
              /\ Raised(stats[s].dsts[d].alert, Scanning(s, d), p)
              /\ PortsKnown(stats[s].dsts[d], s, d, p)
<1>1. Clock <= p.t /\ \A i \in DOMAIN log : log[i].p.t > p.t - Window => Recent(i)
  BY TimeMovesOn
<1>2. Clock \in Nat /\ p.t \in Nat
  BY LogGrows
<1>3. \A i \in Sent(s) : i \in DOMAIN log
  BY DEF Sent
<1>4. \A d \in DOMAIN stats[s].dsts : IsDst(stats[s].dsts[d])
  BY DEF TypeOK, IsSource
<1>5. ASSUME NEW d \in DOMAIN stats[s].dsts
      PROVE  Raised(stats[s].dsts[d].alert, Scanning(s, d), p)
  <2>1. Alarm(stats[s].dsts[d].alert, Scanning(s, d)) /\ Scanning(s, d) \subseteq DOMAIN log
    BY ProbingIs DEF DstsKept
  <2> QED BY <2>1, AlarmStays
<1>6. ASSUME NEW d \in DOMAIN stats[s].dsts
      PROVE  PortsKnown(stats[s].dsts[d], s, d, p)
  <2> DEFINE e == stats[s].dsts[d]
  <2>1. \A x \in Probes : e.pruned[x] \in Nat
    BY <1>4 DEF IsDst
  <2>2. \A i \in Probing(s, d) : i \in DOMAIN log
    BY ProbingIs
  <2>3. ASSUME NEW x \in Probes
        PROVE  /\ e.pruned[x] <= p.t
               /\ \A q \in DOMAIN e.ports[x] :
                    /\ e.pruned[x] - Window < e.ports[x][q]
                    /\ \E i \in Probing(s, d) :
                         log[i].p.proto = x /\ log[i].p.dport = q /\ log[i].p.t = e.ports[x][q]
               /\ \A i \in Probing(s, d) : log[i].p.proto = x /\ Counts(i, p) =>
                    log[i].p.dport \in DOMAIN e.ports[x] /\ log[i].p.t <= e.ports[x][log[i].p.dport]
    <3>1. /\ e.pruned[x] <= Clock
          /\ \A q \in DOMAIN e.ports[x] :
               /\ e.pruned[x] - Window < e.ports[x][q]
               /\ \E i \in Probing(s, d) :
                    log[i].p.proto = x /\ log[i].p.dport = q /\ log[i].p.t = e.ports[x][q]
          /\ \A i \in Probing(s, d) : log[i].p.proto = x /\ Recent(i) =>
               log[i].p.dport \in DOMAIN e.ports[x] /\ log[i].p.t <= e.ports[x][log[i].p.dport]
      BY DEF PortsTrue
    <3> HIDE DEF e
    <3>2. e.pruned[x] <= p.t
      BY <1>1, <1>2, <2>1, <3>1
    <3>3. \A i \in Probing(s, d) : Counts(i, p) => Recent(i)
      BY <1>1, <2>2 DEF Counts
    <3> QED BY <3>1, <3>2, <3>3
  <2> HIDE DEF e
  <2>4. PortsKnown(e, s, d, p)
    BY <2>3 DEF PortsKnown
  <2> QED BY <2>4 DEF e
<1>7. \A i \in Sent(s) : log[i].probe /\ Counts(i, p) =>
        log[i].p.dst \in DOMAIN stats[s].dsts /\ log[i].p.t <= stats[s].dsts[log[i].p.dst].seen
  BY <1>1, <1>3 DEF DstsKept, Counts
<1> QED
  BY <1>4, <1>5, <1>6, <1>7

LEMMA DstsKnown ==
  ASSUME TypeOK, NEW p \in Stamped, Logged(p), Ordered, InOrder, SourcesKept, DstsKept, PortsTrue,
         NEW dsts, dsts = Entry(p).dsts
  PROVE  /\ \A i \in Sent(p.src) : log[i].probe /\ Counts(i, p) =>
              log[i].p.dst \in DOMAIN dsts /\ log[i].p.t <= dsts[log[i].p.dst].seen
         /\ \A d \in DOMAIN dsts :
              /\ IsDst(dsts[d])
              /\ Raised(dsts[d].alert, Scanning(p.src, d), p) /\ PortsKnown(dsts[d], p.src, d, p)
<1>1. CASE p.src \in DOMAIN stats
  <2>1. dsts = stats[p.src].dsts
    BY <1>1, EntryIs
  <2> QED BY <1>1, <2>1, DstsStand
<1>2. CASE p.src \notin DOMAIN stats
  <2>1. Entry(p) = NewSource(p.t)
    BY <1>2, EntryIs
  <2>2. DOMAIN dsts = {}
    BY <2>1 DEF NewSource
  <2>3. \A i \in Sent(p.src) : ~Counts(i, p)
    BY <1>2, ForgottenIs
  <2> QED BY <2>2, <2>3
<1> QED
  BY <1>1, <1>2

LEMMA DstIs ==
  ASSUME TypeOK, NEW p \in Stamped, Logged(p), Ordered, InOrder, SourcesKept, DstsKept, PortsTrue,
         NEW e, e = DstBefore(p)
  PROVE  /\ IsDst(e) /\ Raised(e.alert, Scanning(p.src, p.dst), p)
         /\ PortsKnown(e, p.src, p.dst, p)
<1> DEFINE dsts == Entry(p).dsts
<1>1. /\ \A i \in Sent(p.src) : log[i].probe /\ Counts(i, p) =>
           log[i].p.dst \in DOMAIN dsts /\ log[i].p.t <= dsts[log[i].p.dst].seen
      /\ \A d \in DOMAIN dsts :
           /\ IsDst(dsts[d])
           /\ Raised(dsts[d].alert, Scanning(p.src, d), p) /\ PortsKnown(dsts[d], p.src, d, p)
  BY DstsKnown
<1>2. CASE p.dst \in DOMAIN dsts
  BY <1>1, <1>2, DstBeforeIs
<1>3. CASE p.dst \notin DOMAIN dsts
  <2>1. e = NewDst
    BY <1>3, DstBeforeIs
  <2>2. \A i \in Probing(p.src, p.dst) : i \in Sent(p.src) /\ log[i].probe /\ log[i].p.dst = p.dst
    BY DEF Probing
  <2>3. \A i \in Probing(p.src, p.dst) : ~Counts(i, p)
    BY <1>1, <1>3, <2>2
  <2>4. /\ e.alert = None
        /\ \A x \in Probes : e.pruned[x] = 0 /\ DOMAIN e.ports[x] = {}
    BY <2>1 DEF NewDst
  <2>5. p.t \in Nat
    BY PacketIs
  <2>6. \A i \in Scanning(p.src, p.dst) : i \in Probing(p.src, p.dst)
    BY DEF Scanning
  <2> QED BY <2>1, <2>3, <2>4, <2>5, <2>6, NewDstIs DEF Raised, PortsKnown
<1> QED
  BY <1>2, <1>3

LEMMA PortsPass ==
  ASSUME TypeOK, NEW p \in Stamped, Logged(p), Ordered, InOrder,
         NEW s, NEW d, NEW e, PortsKnown(e, s, d, p), NEW T, T = Probing(s, d)
  PROVE  PortsNext(e, p, T)
<1>1. \A i \in DOMAIN log : log'[i] = log[i]
  BY LogGrows
<1>2. \A i \in DOMAIN log : Recent(i)' <=> log[i].p.t > p.t - Window
  BY TimeMovesOn
<1>3. T \subseteq DOMAIN log
  BY ProbingIs
<1>4. \A i \in T : log'[i] = log[i] /\ (Recent(i)' => Counts(i, p))
  BY <1>1, <1>2, <1>3 DEF Counts
<1>5. ASSUME NEW x \in Probes
      PROVE  /\ e.pruned[x] <= p.t
             /\ \A q \in DOMAIN e.ports[x] :
                  /\ e.pruned[x] - Window < e.ports[x][q]
                  /\ \E i \in T : log'[i].p.proto = x /\ log'[i].p.dport = q /\ log'[i].p.t = e.ports[x][q]
             /\ \A i \in T : log'[i].p.proto = x /\ Recent(i)' =>
                  log'[i].p.dport \in DOMAIN e.ports[x] /\ log'[i].p.t <= e.ports[x][log'[i].p.dport]
  BY <1>4 DEF PortsKnown
<1> QED
  BY <1>5 DEF PortsNext

(* The port just tried is the newest; of the rest only those out of the    *)
(* window are pruned, and when the second is a new one, all of those.      *)
LEMMA PortsTouched ==
  ASSUME TypeOK, NEW p \in Stamped, Logged(p), Ordered, InOrder, SourcesKept, DstsKept, PortsTrue,
         Admitted(p), Tries(p), NEW e, e.ports = Touched(DstBefore(p), p).ports,
         e.pruned = Touched(DstBefore(p), p).pruned,
         NEW T, T = Probing(p.src, p.dst) \cup {Len(log) + 1}
  PROVE  /\ PortsNext(e, p, T)
         /\ DOMAIN e.ports[p.proto] =
              {log'[i].p.dport : i \in {j \in T : log'[j].p.proto = p.proto /\ log'[j].p.t > p.t - Window}}
<1> DEFINE n == Len(log)
           x0 == p.proto
           old == DstBefore(p)
           was == old.ports[x0]
           now == e.ports[x0]
           P == Probing(p.src, p.dst)
<1>1. /\ n + 1 \notin DOMAIN log /\ \A i \in DOMAIN log : log'[i] = log[i]
      /\ log'[n + 1].p = p /\ p.t \in Nat /\ Window \in Nat /\ Window > 0
      /\ Clock' = p.t /\ Window' = Window
  BY LogGrows
<1>2. /\ \A i \in DOMAIN log : log[i].p.t <= p.t
      /\ \A i \in DOMAIN log : Recent(i)' <=> log[i].p.t > p.t - Window
  BY TimeMovesOn
<1>3. P \subseteq DOMAIN log /\ \A i \in DOMAIN log : log[i].p.t \in Nat
  BY ProbingIs, LogIs
<1>4. x0 \in Probes /\ setting \in Settings
  BY DEF Tries, Attempt, Probes, TypeOK
<1>5. IsDst(old) /\ PortsKnown(old, p.src, p.dst, p)
  BY DstIs
<1>6. /\ \A x \in Probes : x # x0 => e.ports[x] = old.ports[x] /\ e.pruned[x] = old.pruned[x]
      /\ p.dport \in DOMAIN now /\ now[p.dport] = p.t
      /\ \A q \in DOMAIN now : q # p.dport => q \in DOMAIN was /\ now[q] = was[q]
      /\ \A q \in DOMAIN was : was[q] > p.t - Window => q \in DOMAIN now
      /\ p.t > old.pruned[x0] =>
           e.pruned[x0] = p.t /\ \A q \in DOMAIN now : now[q] > p.t - Window
      /\ ~(p.t > old.pruned[x0]) => e.pruned[x0] = old.pruned[x0]
  <2> DEFINE f == Touched(old, p)
  <2>1. e.ports = f.ports /\ e.pruned = f.pruned
    OBVIOUS
  <2>2. f = Touched(old, p)
    OBVIOUS
  <2> HIDE DEF f, old
  <2>3. PortTried(old, f, x0, p.dport, p.t)
    BY <1>4, <1>5, <2>2, TouchedIs
  <2> HIDE DEF x0
  <2> QED BY <2>1, <2>3 DEF PortTried
<1>7. /\ old.pruned[x0] <= p.t /\ old.pruned[x0] \in Nat
      /\ \A q \in DOMAIN was : was[q] \in Nat
      /\ \A q \in DOMAIN was :
           /\ old.pruned[x0] - Window < was[q]
           /\ \E i \in P : log[i].p.proto = x0 /\ log[i].p.dport = q /\ log[i].p.t = was[q]
      /\ \A i \in P : log[i].p.proto = x0 /\ Counts(i, p) =>
           log[i].p.dport \in DOMAIN was /\ log[i].p.t <= was[log[i].p.dport]
  BY <1>4, <1>5 DEF PortsKnown, IsDst
<1>8. PortsNext(old, p, P)
  BY <1>5, PortsPass
<1>9. \A i \in P : log'[i] = log[i] /\ (Recent(i)' <=> Counts(i, p)) /\ i # n + 1
  BY <1>1, <1>2, <1>3 DEF Counts
<1> HIDE DEF old, was, now, P
<1>10. e.pruned[x0] = p.t
  BY <1>1, <1>6, <1>7
<1>11. \A q \in DOMAIN now : now[q] > p.t - Window
  <2>1. CASE p.t > old.pruned[x0]
    BY <1>6, <2>1
  <2>2. CASE ~(p.t > old.pruned[x0])
    <3>1. old.pruned[x0] = p.t
      BY <1>1, <1>7, <2>2
    <3> QED BY <1>1, <1>6, <1>7, <3>1
  <2> QED BY <2>1, <2>2
<1>12. \A q \in DOMAIN now : \E i \in T :
         log'[i].p.proto = x0 /\ log'[i].p.dport = q /\ log'[i].p.t = now[q]
  <2> SUFFICES ASSUME NEW q \in DOMAIN now
               PROVE  \E i \in T : log'[i].p.proto = x0 /\ log'[i].p.dport = q /\ log'[i].p.t = now[q]
    OBVIOUS
  <2>1. CASE q = p.dport
    BY <1>1, <1>6, <2>1
  <2>2. CASE q # p.dport
    <3>1. q \in DOMAIN was /\ now[q] = was[q]
      BY <1>6, <2>2
    <3>2. PICK i \in P : log[i].p.proto = x0 /\ log[i].p.dport = q /\ log[i].p.t = was[q]
      BY <1>7, <3>1
    <3> QED BY <1>9, <3>1, <3>2 DEF P
  <2> QED BY <2>1, <2>2
<1>13. ASSUME NEW i \in T, log'[i].p.proto = x0, log'[i].p.t > p.t - Window
       PROVE  log'[i].p.dport \in DOMAIN now /\ log'[i].p.t <= now[log'[i].p.dport]
  <2> DEFINE q == log'[i].p.dport
  <2>1. CASE i = n + 1
    BY <1>1, <1>6, <2>1
  <2>2. CASE i \in P
    <3>1. log'[i] = log[i] /\ Counts(i, p)
      BY <1>9, <1>13, <2>2 DEF Counts
    <3>2. q \in DOMAIN was /\ log'[i].p.t <= was[q] /\ log'[i].p.t \in Nat /\ was[q] \in Nat
      BY <1>3, <1>7, <1>13, <2>2, <3>1 DEF P
    <3>3. was[q] > p.t - Window /\ log'[i].p.t <= p.t
      BY <1>1, <1>2, <1>3, <1>13, <2>2, <3>1, <3>2 DEF P
    <3>4. q \in DOMAIN now
      BY <1>6, <3>2, <3>3
    <3>5. CASE q = p.dport
      BY <1>6, <3>3, <3>4, <3>5
    <3>6. CASE q # p.dport
      BY <1>6, <3>2, <3>4, <3>6
    <3> QED BY <3>4, <3>5, <3>6
  <2> QED BY <2>1, <2>2 DEF P
<1>14. PortsNext(e, p, T)
  <2>1. ASSUME NEW x \in Probes
        PROVE  /\ e.pruned[x] <= p.t
               /\ \A q \in DOMAIN e.ports[x] :
                    /\ e.pruned[x] - Window < e.ports[x][q]
                    /\ \E i \in T : log'[i].p.proto = x /\ log'[i].p.dport = q /\ log'[i].p.t = e.ports[x][q]
               /\ \A i \in T : log'[i].p.proto = x /\ Recent(i)' =>
                    log'[i].p.dport \in DOMAIN e.ports[x] /\ log'[i].p.t <= e.ports[x][log'[i].p.dport]
    <3>1. CASE x = x0
      <4>1. e.pruned[x] = p.t /\ e.ports[x] = now
        BY <1>10, <3>1 DEF now
      <4>2. \A i \in T : Recent(i)' => log'[i].p.t > p.t - Window
        BY <1>1 DEF Recent
      <4> QED BY <1>1, <1>11, <1>12, <1>13, <3>1, <4>1, <4>2
    <3>2. CASE x # x0
      <4>1. e.pruned[x] = old.pruned[x] /\ e.ports[x] = old.ports[x]
        BY <1>6, <3>2
      <4>2. \A i \in T : log'[i].p.proto = x => i \in P
        BY <1>1, <3>2 DEF P
      <4> QED BY <1>8, <4>1, <4>2 DEF PortsNext, P
    <3> QED BY <3>1, <3>2
  <2> QED BY <2>1 DEF PortsNext
<1>15. DOMAIN now = {log'[i].p.dport : i \in {j \in T : log'[j].p.proto = x0 /\ log'[j].p.t > p.t - Window}}
  BY <1>11, <1>12, <1>13
<1> QED
  BY <1>14, <1>15 DEF now

(* A destination of an admitted source, after the packet: the one it tried *)
(* a port of, or one as before.                                            *)
LEMMA DstsAfterAre ==
  ASSUME TypeOK, NEW p \in Stamped, Logged(p), Tabled(p), Ordered, InOrder, Recalled,
         NEW s \in DOMAIN stats', NEW dsts, dsts = stats'[s].dsts
  PROVE  \A d \in DOMAIN dsts : \A T, S : T = Probing(s, d)' /\ S = Scanning(s, d)' =>
           /\ PortsNext(dsts[d], p, T)
           /\ dsts[d].alert # None => \E i \in S : log'[i].p.t = dsts[d].alert
           /\ \A i \in S : Recent(i)' => dsts[d].alert \in Nat /\ log'[i].p.t <= dsts[d].alert
<1> SUFFICES ASSUME NEW d \in DOMAIN dsts, NEW T, NEW S, T = Probing(s, d)', S = Scanning(s, d)',
                    NEW e, e = dsts[d]
             PROVE  /\ PortsNext(e, p, T)
                    /\ e.alert # None => \E i \in S : log'[i].p.t = e.alert
                    /\ \A i \in S : Recent(i)' => e.alert \in Nat /\ log'[i].p.t <= e.alert
  OBVIOUS
<1> DEFINE before == Scanning(s, d)
<1>0. Probing(s, d) \subseteq DOMAIN log /\ before \subseteq DOMAIN log
  BY ProbingIs
<1>1. CASE Admitted(p) /\ s = p.src /\ Tries(p) /\ d = p.dst
  <2>1. dsts = DstsAfter(p)
    BY <1>1, ProbedIs DEF Tabled, Same
  <2>2. /\ e.ports = Touched(DstBefore(p), p).ports /\ e.pruned = Touched(DstBefore(p), p).pruned
        /\ e.alert = IF ScanFound(p) THEN p.t ELSE DstBefore(p).alert
    BY <1>1, <2>1, DstsAfterIs
  <2>3. /\ T = Probing(p.src, p.dst) \cup {Len(log) + 1}
        /\ S = before \cup (IF ScanFound(p) THEN {Len(log) + 1} ELSE {})
    BY <1>1, ProbingAfter
  <2>4. PortsNext(e, p, T)
    BY <1>1, <2>2, <2>3, PortsTouched DEF Recalled
  <2>5. Raised(DstBefore(p).alert, before, p)
    BY <1>1, DstIs DEF Recalled
  <2> HIDE DEF before
  <2>6. CASE ScanFound(p)
    <3>1. S = before \cup {Len(log) + 1} /\ e.alert = p.t
      BY <2>2, <2>3, <2>6
    <3>2. p.t \in Nat /\ (\E i \in S : log'[i].p.t = p.t) /\ \A i \in S : log'[i].p.t <= p.t
      BY <1>0, <3>1, RaisedNow
    <3> QED BY <2>4, <3>1, <3>2
  <2>7. CASE ~ScanFound(p)
    <3>1. S = before /\ Raised(e.alert, before, p)
      BY <2>2, <2>3, <2>5, <2>7
    <3> QED BY <1>0, <2>4, <3>1, RaisedBefore
  <2> QED BY <2>6, <2>7
<1>2. CASE ~(Admitted(p) /\ s = p.src /\ Tries(p) /\ d = p.dst)
  <2>1. T = Probing(s, d) /\ S = before
    <3>1. ScanFound(p) => Tries(p)
      BY DEF ScanFound
    <3>2. Probing(s, d)' = Probing(s, d) \cup
            (IF Admitted(p) /\ Tries(p) /\ s = p.src /\ d = p.dst THEN {Len(log) + 1} ELSE {})
      BY ProbingAfter
    <3>3. PICK m : m = Len(log)
      OBVIOUS
    <3>4. Scanning(s, d)' = Scanning(s, d) \cup
            (IF Admitted(p) /\ ScanFound(p) /\ s = p.src /\ d = p.dst THEN {m + 1} ELSE {})
      BY <3>3, ProbingAfter
    <3> QED BY <1>2, <3>1, <3>2, <3>4
  <2>2. Raised(e.alert, before, p) /\ PortsKnown(e, s, d, p)
    <3>1. CASE Admitted(p) /\ s = p.src
      <4>1. dsts = DstsAfter(p)
        BY <3>1, ProbedIs DEF Tabled, Same
      <4>2. d \in DOMAIN Entry(p).dsts /\ e = Entry(p).dsts[d]
        BY <1>2, <3>1, <4>1, DstsAfterIs
      <4> QED BY <3>1, <4>2, DstsKnown DEF Recalled
    <3>2. CASE ~(Admitted(p) /\ s = p.src)
      <4>1. s \in DOMAIN stats /\ dsts = stats[s].dsts
        BY <3>2 DEF Tabled, Same
      <4> QED BY <4>1, DstsStand DEF Recalled
    <3> QED BY <3>1, <3>2
  <2>3. PortsNext(e, p, T)
    BY <2>1, <2>2, PortsPass
  <2> HIDE DEF before
  <2> QED BY <1>0, <2>1, <2>2, <2>3, RaisedBefore
<1> QED
  BY <1>1, <1>2

LEMMA PortsStayTrue ==
  ASSUME TypeOK, NEW p \in Stamped, Logged(p), Tabled(p), Ordered, InOrder, Recalled
  PROVE  PortsTrue'
<1>2. Clock' = p.t /\ Window' = Window
  BY LogGrows
<1>3. ASSUME NEW s \in DOMAIN stats', NEW d \in DOMAIN stats'[s].dsts
      PROVE  PortsNext(stats'[s].dsts[d], p, Probing(s, d)')
  <2> DEFINE dsts == stats'[s].dsts
             T == Probing(s, d)'
             S == Scanning(s, d)'
  <2>1. dsts = stats'[s].dsts /\ T = Probing(s, d)' /\ S = Scanning(s, d)' /\ d \in DOMAIN dsts
    OBVIOUS
  <2> HIDE DEF dsts, T, S
  <2>2. PortsNext(dsts[d], p, T)
    BY <2>1, DstsAfterAre
  <2> QED BY <2>2 DEF dsts, T
<1>4. ASSUME NEW s \in DOMAIN stats', NEW d \in DOMAIN stats'[s].dsts, NEW x \in Probes
      PROVE  LET e == stats'[s].dsts[d]
                 ports == e.ports[x]
             IN  /\ e.pruned[x] <= Clock'
                 /\ \A q \in DOMAIN ports :
                      /\ e.pruned[x] - Window' < ports[q]
                      /\ \E i \in Probing(s, d)' : log'[i].p.proto = x /\ log'[i].p.dport = q /\ log'[i].p.t = ports[q]
                 /\ \A i \in Probing(s, d)' : log'[i].p.proto = x /\ Recent(i)' =>
                      log'[i].p.dport \in DOMAIN ports /\ log'[i].p.t <= ports[log'[i].p.dport]
  <2> DEFINE e == stats'[s].dsts[d]
             T == Probing(s, d)'
  <2>1. PortsNext(e, p, T)
    BY <1>3
  <2> HIDE DEF e, T
  <2>2. /\ e.pruned[x] <= Clock'
        /\ \A q \in DOMAIN e.ports[x] :
             /\ e.pruned[x] - Window' < e.ports[x][q]
             /\ \E i \in T : log'[i].p.proto = x /\ log'[i].p.dport = q /\ log'[i].p.t = e.ports[x][q]
        /\ \A i \in T : log'[i].p.proto = x /\ Recent(i)' =>
             log'[i].p.dport \in DOMAIN e.ports[x] /\ log'[i].p.t <= e.ports[x][log'[i].p.dport]
    BY <1>2, <2>1 DEF PortsNext
  <2> QED BY <2>2 DEF e, T
<1> QED
  BY <1>4 DEF PortsTrue

LEMMA DstsStayKept ==
  ASSUME TypeOK, NEW p \in Stamped, Logged(p), Tabled(p), Ordered, InOrder, Recalled
  PROVE  DstsKept'
<1> DEFINE n == Len(log)
<1>1. /\ n + 1 \notin DOMAIN log /\ \A i \in DOMAIN log : log'[i] = log[i]
      /\ log'[n + 1].p = p /\ p.t \in Nat /\ Window \in Nat /\ Window > 0
  BY LogGrows
<1>2. /\ \A i \in DOMAIN log : log[i].p.t <= p.t
      /\ \A i \in DOMAIN log : Recent(i)' <=> log[i].p.t > p.t - Window
  BY TimeMovesOn
<1>3. log'[n + 1].probe = (Admitted(p) /\ Tries(p))
  BY DEF Logged
<1>4. \A i \in DOMAIN log : log[i].p.t \in Nat
  BY LogIs
<1>5. ASSUME NEW s \in DOMAIN stats', NEW i \in Sent(s)', log'[i].probe, Recent(i)', NEW dsts, dsts = stats'[s].dsts
      PROVE  log'[i].p.dst \in DOMAIN dsts /\ log'[i].p.t <= dsts[log'[i].p.dst].seen
  <2>1. Sent(s)' = Sent(s) \cup (IF Admitted(p) /\ s = p.src THEN {n + 1} ELSE {})
    BY SentAfter
  <2>2. \A j \in Sent(s) : j \in DOMAIN log
    BY DEF Sent
  <2>3. CASE i = n + 1
    <3>1. Admitted(p) /\ s = p.src /\ Tries(p)
      BY <1>1, <1>3, <1>5, <2>1, <2>2, <2>3
    <3>2. dsts = DstsAfter(p)
      BY <1>5, <3>1, ProbedIs DEF Tabled, Same
    <3>3. p.dst \in DOMAIN dsts /\ dsts[p.dst].seen = p.t
      BY <3>1, <3>2, DstsAfterIs
    <3> QED BY <1>1, <2>3, <3>3
  <2>4. CASE i \in Sent(s)
    <3> DEFINE d == log[i].p.dst
    <3>1. log'[i] = log[i] /\ log[i].probe /\ Counts(i, p) /\ i \in DOMAIN log
      BY <1>1, <1>2, <1>5, <2>2, <2>4 DEF Counts
    <3>2. CASE Admitted(p) /\ s = p.src
      <4> DEFINE was == Entry(p).dsts
      <4>1. dsts = DstsAfter(p)
        BY <1>5, <3>2, ProbedIs DEF Tabled, Same
      <4>2. /\ d \in DOMAIN was /\ log[i].p.t <= was[d].seen
            /\ IsDst(was[d])
        BY <2>4, <3>1, <3>2, DstsKnown DEF Recalled
      <4>3. was[d].seen > p.t - Window
        <5>1. was[d].seen \in Nat /\ log[i].p.t \in Nat /\ log[i].p.t > p.t - Window
          BY <1>4, <3>1, <4>2 DEF IsDst, Counts
        <5> HIDE DEF was
        <5> QED BY <1>1, <4>2, <5>1
      <4>4. d \in DOMAIN dsts
        BY <4>1, <4>2, <4>3, DstsAfterIs
      <4>5. CASE Tries(p) /\ d = p.dst
        <5>1. dsts[d].seen = p.t
          BY <4>1, <4>5, DstsAfterIs
        <5> QED BY <1>2, <3>1, <4>4, <5>1
      <4>6. CASE ~(Tries(p) /\ d = p.dst)
        <5>1. dsts[d] = was[d]
          BY <4>1, <4>4, <4>6, DstsAfterIs
        <5> QED BY <3>1, <4>2, <4>4, <5>1
      <4> QED BY <4>5, <4>6
    <3>3. CASE ~(Admitted(p) /\ s = p.src)
      <4>1. s \in DOMAIN stats /\ dsts = stats[s].dsts
        BY <1>5, <3>3 DEF Tabled, Same
      <4> QED BY <2>4, <3>1, <4>1, DstsStand DEF Recalled
    <3> QED BY <3>2, <3>3
  <2> QED BY <1>5, <2>1, <2>3, <2>4
<1>6. ASSUME NEW s \in DOMAIN stats', NEW d \in DOMAIN stats'[s].dsts, NEW S, S = Scanning(s, d)',
             NEW last, last = stats'[s].dsts[d].alert
      PROVE  /\ last # None => \E i \in S : log'[i].p.t = last
             /\ \A i \in S : Recent(i)' => last \in Nat /\ log'[i].p.t <= last
  BY <1>6, DstsAfterAre
<1> QED
  BY <1>5, <1>6 DEF DstsKept, Alarm

(* The verdict on a scan is that of the attempts of the window. *)
LEMMA ScansToldTrue ==
  ASSUME TypeOK, NEW p \in Stamped, Logged(p), Tabled(p), Ordered => InOrder /\ Recalled, MarksTrue
  PROVE  ScansTrue'
<1> DEFINE n == Len(log)
           q == Latest'.p
           Q == {log'[i].p.dport : i \in {j \in DOMAIN log' :
                   /\ log'[j].probe /\ (log'[j].p.src = q.src /\ log'[j].p.dst = q.dst)
                   /\ log'[j].p.proto = q.proto /\ log'[j].p.t > q.t - setting'.window}}
           held == \E i \in 1 .. Len(log') - 1 :
                     /\ log'[i].scan /\ (log'[i].p.src = q.src /\ log'[i].p.dst = q.dst)
                     /\ q.t - log'[i].p.t < setting'.gap
           e == Touched(DstBefore(p), p)
           T == Probing(p.src, p.dst)'
<1>1. /\ DOMAIN log' = DOMAIN log \cup {n + 1} /\ n + 1 \notin DOMAIN log
      /\ \A i \in DOMAIN log : log'[i] = log[i]
      /\ log'[n + 1].p = p /\ Len(log') = n + 1 /\ p.t \in Nat
  BY LogGrows
<1>2. /\ setting' = setting /\ log'[n + 1].probe = (Admitted(p) /\ Tries(p))
      /\ log'[n + 1].scan = (Admitted(p) /\ ScanFound(p))
  BY DEF Logged
<1>3. Latest' = log'[n + 1] /\ q = p
  BY <1>1 DEF Latest, Last
<1>4. ScansTrue' <=>
        (log' # <<>> /\ Latest'.probe /\ setting'.late = 0 =>
           (Latest'.scan <=> Cardinality(Q) > setting'.scanLimit /\ ~held))
  BY DEF ScansTrue, Tried, Alike, Within, Fresh, Earlier, Lately, Window
<1>5. DOMAIN log = 1 .. n /\ n + 1 - 1 = n
  BY LogIs
<1>6. held <=> \E i \in 1 .. n : /\ log'[i].scan /\ (log'[i].p.src = p.src /\ log'[i].p.dst = p.dst)
                                 /\ p.t - log'[i].p.t < setting.gap
  BY <1>1, <1>2, <1>3, <1>5
<1>7. MarksTrue'
  BY MarksKept
<1>8. T = {i \in DOMAIN log' : log'[i].probe /\ (log'[i].p.src = p.src /\ log'[i].p.dst = p.dst)}
  BY <1>7 DEF Probing, Sent, MarksTrue
<1>9. Q = {log'[i].p.dport : i \in {j \in T : log'[j].p.proto = p.proto /\ log'[j].p.t > p.t - Window}}
  BY <1>2, <1>3, <1>8 DEF Window
<1> HIDE DEF Q, held, q, T, e
<1>10. SUFFICES ASSUME Admitted(p), Tries(p), Ordered
                PROVE  ScanFound(p) <=> Cardinality(Q) > setting.scanLimit /\ ~held
  BY <1>2, <1>3, <1>4 DEF Ordered
<1>11. DOMAIN e.ports[p.proto] = Q
  <2>1. T = Probing(p.src, p.dst) \cup {Len(log) + 1}
    BY <1>10, ProbingAfter DEF T
  <2>2. e.ports = Touched(DstBefore(p), p).ports /\ e.pruned = Touched(DstBefore(p), p).pruned
    BY DEF e
  <2> QED BY <1>9, <1>10, <2>1, <2>2, PortsTouched DEF Recalled
<1>12. DstEntry(Counted(p), p) = e /\ e.alert = DstBefore(p).alert
  BY DstBeforeIs DEF e, Touched
<1>13. Gated(DstBefore(p).alert, p.t) <=> \E i \in Scanning(p.src, p.dst) : p.t - log[i].p.t < setting.gap
  <2>1. Raised(DstBefore(p).alert, Scanning(p.src, p.dst), p) /\ Scanning(p.src, p.dst) \subseteq DOMAIN log
    BY <1>10, DstIs, ProbingIs DEF Recalled
  <2> QED BY <2>1, GatedIs
<1>14. \A i \in 1 .. n : i \in Scanning(p.src, p.dst) <=>
         log'[i].scan /\ (log'[i].p.src = p.src /\ log'[i].p.dst = p.dst)
  BY <1>1, <1>5 DEF Scanning, Probing, Sent, MarksTrue
<1>15. \A i \in Scanning(p.src, p.dst) : i \in 1 .. n
  BY <1>5, ProbingIs
<1>16. held <=> Gated(DstBefore(p).alert, p.t)
  BY <1>1, <1>5, <1>6, <1>13, <1>14, <1>15
<1>17. ScanFound(p) <=> Cardinality(DOMAIN e.ports[p.proto]) > setting.scanLimit /\ ~Gated(e.alert, p.t)
  BY <1>10, <1>12 DEF ScanFound, Scans
<1> QED
  BY <1>11, <1>12, <1>16, <1>17

-----------------------------------------------------------------------------
(* Datagrams that may be answered. *)

LEMMA PairsAfter ==
  ASSUME TypeOK, NEW p \in Stamped, NEW sweep \in Sweeps, ObservePair(p, sweep),
         NEW k0, k0 = Pair(p)
  PROVE  /\ IsFiniteSet(DOMAIN pairs')
         /\ \A k \in DOMAIN pairs' :
              \/ k \in DOMAIN pairs /\ pairs'[k] = pairs[k] /\ ~(Recorded(p) /\ k = k0)
              \/ Recorded(p) /\ k = k0 /\ pairs'[k] = p.t
         /\ \A k \in DOMAIN pairs : pairs[k] > p.t - Window => k \in DOMAIN pairs'
         /\ Recorded(p) => k0 \in DOMAIN pairs'
<1> DEFINE g == MadeRoom(p)
           f == Put(g, k0, p.t)
<1>1. /\ p.t \in Nat /\ p.t > p.t - Window /\ IsFiniteSet(DOMAIN pairs)
  BY PacketIs, SettingIs DEF TypeOK
<1>2. \A h : /\ DOMAIN FreshPairs(h, p.t) = {k \in DOMAIN h : h[k] > p.t - Window}
             /\ \A k \in DOMAIN FreshPairs(h, p.t) : FreshPairs(h, p.t)[k] = h[k]
  BY DEF FreshPairs, Restrict, Fresh
<1>3. /\ DOMAIN g \subseteq DOMAIN pairs /\ \A k \in DOMAIN g : g[k] = pairs[k]
      /\ \A k \in DOMAIN pairs : pairs[k] > p.t - Window => k \in DOMAIN g
  BY <1>2 DEF MadeRoom
<1>4. IsFiniteSet(DOMAIN g)
  BY <1>1, <1>3, FS_Subset
<1> HIDE DEF g
<1>5. DOMAIN f = DOMAIN g \cup {k0} /\ \A k \in DOMAIN f : f[k] = IF k = k0 THEN p.t ELSE g[k]
  BY DEF Put
<1>6. IsFiniteSet(DOMAIN f)
  <2>1. IsFiniteSet(DOMAIN g \cup {k0})
    BY <1>4, FS_AddElement
  <2> QED BY <1>5, <2>1
<1> HIDE DEF f
<1>7. CASE ~Recorded(p)
  <2>1. pairs' = g \/ pairs' = pairs
    BY <1>7 DEF ObservePair, g
  <2> QED BY <1>1, <1>3, <1>4, <1>7, <2>1
<1>8. CASE Recorded(p)
  <2>1. pairs' = f \/ pairs' = FreshPairs(f, p.t)
    BY <1>8 DEF ObservePair, f, g
  <2>2. CASE pairs' = f
    BY <1>3, <1>5, <1>6, <1>8, <2>2
  <2>3. CASE pairs' = FreshPairs(f, p.t)
    <3>1. DOMAIN pairs' = {k \in DOMAIN f : f[k] > p.t - Window} /\ \A k \in DOMAIN pairs' : pairs'[k] = f[k]
      BY <1>2, <2>3
    <3>2. DOMAIN pairs' \in SUBSET DOMAIN f
      BY <3>1
    <3>3. IsFiniteSet(DOMAIN pairs')
      BY <1>6, <3>2, FS_Subset
    <3> QED BY <1>1, <1>3, <1>5, <1>8, <3>1, <3>3
  <2> QED BY <2>1, <2>2, <2>3
<1> QED
  BY <1>7, <1>8

LEMMA PairsStayTrue ==
  ASSUME TypeOK, NEW p \in Stamped, NEW sweep \in Sweeps, ObservePair(p, sweep), Logged(p),
         InOrder, PairsTrue
  PROVE  /\ PairsTrue' /\ IsFiniteSet(DOMAIN pairs') /\ \A k \in DOMAIN pairs' : pairs'[k] \in Nat
<1> DEFINE n == Len(log)
           k0 == Pair(p)
<1>1. /\ DOMAIN log' = DOMAIN log \cup {n + 1} /\ n + 1 \notin DOMAIN log
      /\ \A i \in DOMAIN log : log'[i] = log[i]
      /\ log'[n + 1].p = p /\ p.t \in Nat /\ Window \in Nat /\ Window > 0
  BY LogGrows
<1>2. log'[n + 1].recorded = Recorded(p) /\ setting' = setting
  BY DEF Logged
<1>3. /\ IsFiniteSet(DOMAIN pairs')
      /\ \A k \in DOMAIN pairs' :
           \/ k \in DOMAIN pairs /\ pairs'[k] = pairs[k] /\ ~(Recorded(p) /\ k = k0)
           \/ Recorded(p) /\ k = k0 /\ pairs'[k] = p.t
      /\ \A k \in DOMAIN pairs : pairs[k] > p.t - Window => k \in DOMAIN pairs'
      /\ Recorded(p) => k0 \in DOMAIN pairs'
  BY PairsAfter
<1>4. \A k \in DOMAIN pairs : pairs[k] \in Nat
  BY DEF TypeOK
<1>5. Pair(log'[n + 1].p) = k0
  BY <1>1
<1> HIDE DEF k0
<1>6. ASSUME NEW k \in DOMAIN pairs'
      PROVE  \E i \in DOMAIN log' : log'[i].recorded /\ Pair(log'[i].p) = k /\ log'[i].p.t = pairs'[k]
  <2>1. CASE k \in DOMAIN pairs /\ pairs'[k] = pairs[k]
    <3>1. PICK i \in DOMAIN log : log[i].recorded /\ Pair(log[i].p) = k /\ log[i].p.t = pairs[k]
      BY <2>1 DEF PairsTrue
    <3> QED BY <1>1, <2>1, <3>1
  <2>2. CASE Recorded(p) /\ k = k0 /\ pairs'[k] = p.t
    BY <1>1, <1>2, <1>5, <2>2
  <2> QED BY <1>3, <2>1, <2>2
<1>7. ASSUME Ordered, NEW i \in DOMAIN log', log'[i].recorded, Recent(i)', NEW k, k = Pair(log'[i].p)
      PROVE  k \in DOMAIN pairs' /\ log'[i].p.t <= pairs'[k]
  <2>1. CASE i = n + 1
    BY <1>1, <1>2, <1>3, <1>5, <1>7, <2>1
  <2>2. CASE i \in DOMAIN log
    <3>1. /\ log[i].p.t > p.t - Window /\ Recent(i) /\ log[i].p.t <= p.t /\ log[i].p.t \in Nat
          /\ log'[i] = log[i]
      BY <1>1, <1>7, <2>2, TimeMovesOn, LogIs
    <3>2. k \in DOMAIN pairs /\ log[i].p.t <= pairs[k]
      BY <1>7, <2>2, <3>1 DEF PairsTrue
    <3>3. pairs[k] > p.t - Window
      BY <1>1, <1>4, <3>1, <3>2
    <3> QED BY <1>3, <3>1, <3>2, <3>3
  <2> QED BY <1>1, <2>1, <2>2
<1>8. PairsTrue'
  <2>1. Ordered' <=> Ordered
    BY <1>2 DEF Ordered
  <2>2. \A k \in DOMAIN pairs' :
          \E i \in DOMAIN log' : log'[i].recorded /\ Pair(log'[i].p) = k /\ log'[i].p.t = pairs'[k]
    BY <1>6
  <2>3. Ordered => \A i \in DOMAIN log' : log'[i].recorded /\ Recent(i)' =>
          Pair(log'[i].p) \in DOMAIN pairs' /\ log'[i].p.t <= pairs'[Pair(log'[i].p)]
    BY <1>7
  <2>4. \A x : Pair(x)' = Pair(x)
    BY DEF Pair
  <2> QED BY <2>1, <2>2, <2>3, <2>4 DEF PairsTrue, Pair
<1> QED
  BY <1>1, <1>3, <1>4, <1>8

LEMMA RepliesToldTrue ==
  ASSUME TypeOK, NEW p \in Stamped, Logged(p), InOrder, PairsTrue
  PROVE  RepliesKnown'
<1> DEFINE n == Len(log)
           a == Answered(p)
<1>1. /\ n + 1 \notin DOMAIN log /\ \A i \in DOMAIN log : log'[i] = log[i]
      /\ log'[n + 1].p = p /\ Len(log') = n + 1 /\ p.t \in Nat /\ Window \in Nat /\ Window > 0
  BY LogGrows
<1>2. log'[n + 1].reply = IsReply(p) /\ setting' = setting
  BY DEF Logged
<1>3. Latest' = log'[n + 1]
  BY <1>1 DEF Latest, Last
<1>4. DOMAIN log = 1 .. n /\ n + 1 - 1 = n /\ \A i \in DOMAIN log : log[i].p.t \in Nat
  BY LogIs
<1> DEFINE asked(age) == \E i \in 1 .. n : log[i].recorded /\ Pair(log[i].p) = a /\ p.t - log[i].p.t <= age
<1>5. RepliesKnown' <=>
        /\ IsReply(p) => asked(Window)
        /\ p.proto = "udp" /\ p.dport # 0 /\ setting.late = 0 /\ asked(Window - 1) => IsReply(p)
  <2>1. \A i \in 1 .. Len(log') - 1 : log'[i] = log[i]
    BY <1>1, <1>4
  <2>2. log' # <<>>
    BY LogGrows
  <2> DEFINE r == Latest'.p
             then(age) == \E i \in 1 .. Len(log') - 1 :
               /\ log'[i].recorded
               /\ <<log'[i].p.src, log'[i].p.sport, log'[i].p.dst, log'[i].p.dport>>
                    = <<r.dst, r.dport, r.src, r.sport>>
               /\ r.t - log'[i].p.t <= age
  <2>3. RepliesKnown' <=>
          (log' # <<>> =>
             /\ Latest'.reply => then(setting'.window)
             /\ r.proto = "udp" /\ r.dport # 0 /\ setting'.late = 0 /\ then(setting'.window - 1)
                  => Latest'.reply)
    BY DEF RepliesKnown, Asked, Pair, Answered, Earlier, Window
  <2>4. r = p
    BY <1>1, <1>3
  <2> HIDE DEF r
  <2>5. \A age : then(age) <=> asked(age)
    <3>1. Len(log') - 1 = n /\ \A i \in 1 .. n : log'[i] = log[i]
      BY <1>1, <1>4
    <3>2. a = <<r.dst, r.dport, r.src, r.sport>>
      BY <2>4 DEF Answered
    <3>3. \A i \in 1 .. n : Pair(log[i].p) = <<log[i].p.src, log[i].p.sport, log[i].p.dst, log[i].p.dport>>
      BY DEF Pair
    <3> HIDE DEF n, a
    <3> QED BY <2>4, <3>1, <3>2, <3>3
  <2> HIDE DEF then, asked
  <2> QED BY <1>2, <1>3, <2>2, <2>3, <2>4, <2>5 DEF Window
<1>6. ASSUME IsReply(p) PROVE asked(Window)
  <2>1. a \in DOMAIN pairs /\ p.t - pairs[a] <= Window
    BY <1>6 DEF IsReply
  <2>2. PICK i \in DOMAIN log : log[i].recorded /\ Pair(log[i].p) = a /\ log[i].p.t = pairs[a]
    BY <2>1 DEF PairsTrue
  <2> QED BY <1>4, <2>1, <2>2
<1>7. ASSUME p.proto = "udp", p.dport # 0, setting.late = 0, asked(Window - 1) PROVE IsReply(p)
  <2>1. PICK i \in 1 .. n : log[i].recorded /\ Pair(log[i].p) = a /\ p.t - log[i].p.t <= Window - 1
    BY <1>7
  <2>2. i \in DOMAIN log /\ log[i].p.t \in Nat /\ log[i].p.t > p.t - Window
    BY <1>1, <1>4, <2>1
  <2>3. Recent(i) /\ Ordered
    BY <1>7, <2>2, TimeMovesOn DEF Ordered
  <2>4. a \in DOMAIN pairs /\ log[i].p.t <= pairs[a] /\ pairs[a] \in Nat
    BY <2>1, <2>2, <2>3 DEF PairsTrue, TypeOK
  <2>5. p.t - pairs[a] <= Window
    BY <1>1, <2>1, <2>2, <2>4
  <2> QED BY <1>7, <2>4, <2>5 DEF IsReply
<1> QED
  BY <1>5, <1>6, <1>7

-----------------------------------------------------------------------------
(* Volume.  A flush moves what waits to what is reported; a packet of the  *)
(* source adds one; only a source that is forgotten takes some along.      *)

ToldBy(r, f, s, t) == Of(r, <<s, t>>) + Waiting(f, s, t)
ListedIn(f, act) == \A s \in DOMAIN f : f[s].volume > 0 => s \in DOMAIN act
IsReport(r) == \A k \in DOMAIN r : r[k] \in Nat
IsList(act) == \A s \in DOMAIN act : act[s] \in Nat

LEMMA ToldIs ==
  ASSUME NEW r, IsReport(r), NEW f, IsTable(f), NEW s, NEW t
  PROVE  Of(r, <<s, t>>) \in Nat /\ Waiting(f, s, t) \in Nat
<1>1. s \in DOMAIN f => f[s].volume \in Nat
  BY DEF IsTable, IsSource
<1> QED
  BY <1>1 DEF Of, Waiting, IsReport

LEMMA FlushTells ==
  ASSUME NEW f, IsTable(f), NEW act, IsList(act), ListedIn(f, act), NEW r, IsReport(r),
         NEW gone \in SUBSET DOMAIN f, stats' = Flushed(f, gone), active' = Still(f, act, gone),
         reported' = FlushReport(f, r, gone)
  PROVE  /\ \A s, t : ToldBy(reported', stats', s, t) = ToldBy(r, f, s, t)
         /\ IsReport(reported') /\ IsList(active') /\ ListedIn(stats', active')
         /\ \A s \in DOMAIN f : stats'[s].volume = IF s \in gone THEN 0 ELSE f[s].volume
<1>1. /\ stats' = Flushed(f, gone) /\ active' = Still(f, act, gone) /\ reported' = FlushReport(f, r, gone)
  OBVIOUS
<1>3. gone \subseteq DOMAIN f
  OBVIOUS
<1>4. /\ DOMAIN stats' = DOMAIN f
      /\ \A s \in DOMAIN f : Same(stats'[s], f[s]) /\ stats'[s].volume = IF s \in gone THEN 0 ELSE f[s].volume
  BY <1>1, FlushedIs
<1>5. \A s \in DOMAIN f : f[s].volume \in Nat
  BY DEF IsTable, IsSource
<1>6. /\ DOMAIN reported' = DOMAIN r \cup {<<s, f[s].volSec>> : s \in gone}
      /\ \A k \in DOMAIN reported' :
           reported'[k] = Of(r, k) + IF k[1] \in gone THEN Waiting(f, k[1], k[2]) ELSE 0
  BY <1>1 DEF FlushReport
<1>7. ASSUME NEW s, NEW t
      PROVE  ToldBy(reported', stats', s, t) = ToldBy(r, f, s, t)
  <2> DEFINE k == <<s, t>>
  <2>1. Of(r, k) \in Nat /\ Waiting(f, s, t) \in Nat
    BY ToldIs
  <2>2. k[1] = s /\ k[2] = t
    OBVIOUS
  <2>3. \A x \in gone : k = <<x, f[x].volSec>> => s = x /\ t = f[x].volSec
    OBVIOUS
  <2> HIDE DEF k
  <2>4. CASE s \in gone
    <3>1. Waiting(stats', s, t) = 0
      BY <1>3, <1>4, <2>4 DEF Waiting
    <3>2. Of(reported', k) = Of(r, k) + Waiting(f, s, t)
      <4>1. CASE k \in DOMAIN reported'
        BY <1>6, <2>2, <2>4, <4>1 DEF Of
      <4>2. CASE k \notin DOMAIN reported'
        <5>1. k \notin DOMAIN r /\ t # f[s].volSec
          BY <1>6, <2>4, <4>2 DEF k
        <5>2. Waiting(f, s, t) = 0
          BY <1>3, <2>4, <5>1 DEF Waiting
        <5> QED BY <4>2, <5>1, <5>2 DEF Of
      <4> QED BY <4>1, <4>2
    <3> QED BY <2>1, <3>1, <3>2 DEF ToldBy, k
  <2>5. CASE s \notin gone
    <3>1. Waiting(stats', s, t) = Waiting(f, s, t)
      BY <1>4, <2>5 DEF Waiting, Same
    <3>2. Of(reported', k) = Of(r, k)
      <4>1. k \in DOMAIN reported' <=> k \in DOMAIN r
        BY <1>6, <2>3, <2>5
      <4>2. k \in DOMAIN reported' => reported'[k] = Of(r, k) + 0
        BY <1>6, <2>2, <2>5
      <4> QED BY <2>1, <4>1, <4>2 DEF Of
    <3> QED BY <3>1, <3>2 DEF ToldBy, k
  <2> QED BY <2>4, <2>5
<1>8. IsReport(reported')
  <2> SUFFICES ASSUME NEW k \in DOMAIN reported' PROVE reported'[k] \in Nat
    BY DEF IsReport
  <2>1. Of(r, k) \in Nat /\ Waiting(f, k[1], k[2]) \in Nat
    BY <1>5 DEF Of, Waiting, IsReport
  <2> QED BY <1>6, <2>1
<1>9. /\ DOMAIN active' = {s \in DOMAIN act \cap DOMAIN f : f[s].volume > 0 /\ s \notin gone}
      /\ \A s \in DOMAIN active' : active'[s] = act[s]
  BY <1>1 DEF Still, Restrict
<1>10. IsList(active')
  BY <1>9 DEF IsList
<1>11. ListedIn(stats', active')
  BY <1>4, <1>5, <1>9 DEF ListedIn
<1> QED
  BY <1>4, <1>7, <1>8, <1>10, <1>11

LEMMA TakenTells ==
  ASSUME NEW f, IsTable(f), NEW act, IsList(act), ListedIn(f, act), NEW r, IsReport(r), NEW newest,
         TakeObservations(f, act, r, newest)
  PROVE  /\ \A s, t : ToldBy(reported', stats', s, t) = ToldBy(r, f, s, t)
         /\ IsReport(reported') /\ IsList(active') /\ ListedIn(stats', active')
         /\ flushed' = IF setting.viaObservations THEN newest ELSE flushed
         /\ \A s \in DOMAIN f : stats'[s].volume =
              IF setting.viaObservations /\ newest # flushed /\ f[s].volume > 0 /\ f[s].volSec < newest
              THEN 0 ELSE f[s].volume
<1>0. \A s \in DOMAIN f : f[s].volume \in Nat
  BY DEF IsTable, IsSource
<1>1. CASE setting.viaObservations /\ newest # flushed
  <2> DEFINE gone == {s \in DOMAIN act \cap DOMAIN f : f[s].volume > 0 /\ f[s].volSec < newest}
  <2>1. /\ flushed' = newest /\ gone \in SUBSET DOMAIN f /\ stats' = Flushed(f, gone)
        /\ active' = Still(f, act, gone) /\ reported' = FlushReport(f, r, gone)
    BY <1>1 DEF TakeObservations, FlushVolume, Ended
  <2>4. \A s \in DOMAIN f : s \in gone <=> f[s].volume > 0 /\ f[s].volSec < newest
    BY DEF ListedIn
  <2> HIDE DEF gone
  <2>2. /\ \A s, t : ToldBy(reported', stats', s, t) = ToldBy(r, f, s, t)
        /\ IsReport(reported') /\ IsList(active') /\ ListedIn(stats', active')
    BY <2>1, FlushTells
  <2>3. \A s \in DOMAIN f :
          stats'[s].volume = IF s \in gone THEN 0 ELSE f[s].volume
    BY <2>1, FlushTells
  <2> QED BY <1>0, <1>1, <2>1, <2>2, <2>3, <2>4
<1>2. CASE ~(setting.viaObservations /\ newest # flushed)
  <2>1. stats' = f /\ active' = act /\ reported' = r /\ flushed' = flushed
    BY <1>2 DEF TakeObservations
  <2> QED BY <1>2, <2>1
<1> QED
  BY <1>1, <1>2

LEMMA AddsOne ==
  ASSUME TypeOK, NEW p \in Stamped, NEW r, r = ReportedBy(p)
  PROVE  /\ IsReport(r)
         /\ \A s, t : s # p.src => Of(r, <<s, t>>) = Of(reported, <<s, t>>)
         /\ setting.viaObservations => \A f : p.src \in DOMAIN f /\ f[p.src] = Probed(p) =>
              \A t : ToldBy(r, f, p.src, t) = Told(p.src, t) + IF t = p.t THEN 1 ELSE 0
<1> DEFINE st == Entry(p)
           k0 == <<p.src, st.volSec>>
<1>1. IsSource(st) /\ p.t \in Nat
  BY EntryIs, PacketIs
<1>2. st.volume \in Nat /\ st.volSec \in Nat
  BY <1>1 DEF IsSource
<1>3. \A k : Of(reported, k) \in Nat
  BY DEF Of, TypeOK
<1>4. /\ p.src \in DOMAIN stats => st = stats[p.src]
      /\ p.src \notin DOMAIN stats => st.volume = 0
  <2>1. p.src \notin DOMAIN stats => Entry(p) = NewSource(p.t)
    BY EntryIs
  <2>2. NewSource(p.t).volume = 0
    BY DEF NewSource
  <2> QED BY <2>1, <2>2, EntryIs
<1>5. r = IF Due(p) THEN Put(reported, k0, Of(reported, k0) + st.volume) ELSE reported
  BY DEF ReportedBy
<1> HIDE DEF st
<1>6. \A k : Of(r, k) = IF Due(p) /\ k = k0 THEN Of(reported, k0) + st.volume ELSE Of(reported, k)
  <2> HIDE DEF k0
  <2> QED BY <1>5 DEF Put, Of
<1>7. IsReport(r)
  <2>1. \A k \in DOMAIN r : r[k] = Of(r, k)
    BY DEF Of
  <2>2. \A k : Of(r, k) \in Nat
    BY <1>2, <1>3, <1>6
  <2> QED BY <2>1, <2>2 DEF IsReport
<1>8. ASSUME NEW s, NEW t, s # p.src PROVE Of(r, <<s, t>>) = Of(reported, <<s, t>>)
  BY <1>6, <1>8
<1>9. ASSUME setting.viaObservations, NEW f, p.src \in DOMAIN f, f[p.src] = Probed(p), NEW t
      PROVE  ToldBy(r, f, p.src, t) = Told(p.src, t) + IF t = p.t THEN 1 ELSE 0
  <2> DEFINE k == <<p.src, t>>
             v == Probed(p).volume
  <2>1. Probed(p).volSec = p.t /\ v = IF st.volSec # p.t THEN 1 ELSE st.volume + 1
    BY <1>9, ProbedIs DEF st
  <2>2. Waiting(f, p.src, t) = IF p.t = t THEN v ELSE 0
    BY <1>9, <2>1 DEF Waiting
  <2>3. Waiting(stats, p.src, t) = IF st.volSec = t THEN st.volume ELSE 0
    BY <1>4 DEF Waiting
  <2>4. Due(p) <=> st.volume > 0 /\ st.volSec # p.t
    BY <1>9 DEF Due, st
  <2>5. k = k0 <=> t = st.volSec
    OBVIOUS
  <2> HIDE DEF v, k, k0
  <2>6. Of(r, k) = Of(reported, k) + IF Due(p) /\ t = st.volSec THEN st.volume ELSE 0
    BY <1>2, <1>3, <1>6, <2>5
  <2>7. Of(r, k) + (IF p.t = t THEN v ELSE 0) =
          Of(reported, k) + (IF st.volSec = t THEN st.volume ELSE 0) + IF t = p.t THEN 1 ELSE 0
    BY <1>2, <1>3, <2>1, <2>4, <2>6
  <2> QED BY <2>2, <2>3, <2>7 DEF ToldBy, Told, k
<1> QED
  BY <1>7, <1>8, <1>9

LEMMA ActiveIs ==
  ASSUME TypeOK, Listed, NEW p \in Stamped, NEW act, act = ActiveAfter(p)
  PROVE  /\ IsList(act) /\ DOMAIN active \subseteq DOMAIN act
         /\ Probed(p).volume > 0 => p.src \in DOMAIN act
<1> DEFINE st == Entry(p)
<1>1. IsSource(st)
  BY EntryIs
<1>2. st.volume \in Nat
  BY <1>1 DEF IsSource
<1>3. st.volume > 0 => p.src \in DOMAIN active
  <2>1. p.src \notin DOMAIN stats => Entry(p) = NewSource(p.t)
    BY EntryIs
  <2>2. NewSource(p.t).volume = 0
    BY DEF NewSource
  <2> QED BY <2>1, <2>2, EntryIs DEF Listed
<1>4. IsList(active) /\ \A s : Of(active, s) \in Nat
  BY DEF TypeOK, IsList, Of
<1>5. act = IF setting.viaObservations /\ (st.volume = 0 \/ Due(p))
            THEN Put(active, p.src, Of(active, p.src) + 1) ELSE active
  BY DEF ActiveAfter
<1>6. ~setting.viaObservations => Probed(p).volume = st.volume
  BY ProbedIs
<1> HIDE DEF st
<1>7. CASE act = active
  BY <1>2, <1>3, <1>4, <1>5, <1>6, <1>7 DEF Put
<1>8. CASE act = Put(active, p.src, Of(active, p.src) + 1)
  <2>1. /\ DOMAIN act = DOMAIN active \cup {p.src}
        /\ \A s \in DOMAIN act : act[s] = IF s = p.src THEN Of(active, p.src) + 1 ELSE active[s]
    BY <1>8 DEF Put
  <2> QED BY <1>4, <2>1 DEF IsList
<1> QED
  BY <1>5, <1>7, <1>8

(* What a packet hands to the flush that follows it. *)
LEMMA Handed ==
  ASSUME TypeOK, Listed, NEW p \in Stamped, NEW sweep \in Sweeps, Observe(p, sweep)
  PROVE  \E f, act, r, newest :
           /\ IsTable(f) /\ IsList(act) /\ ListedIn(f, act) /\ IsReport(r)
           /\ TakeObservations(f, act, r, newest) /\ latest' = newest
           /\ newest = IF Admitted(p) THEN Newest(p) ELSE latest
           /\ \A s \in DOMAIN f : ~(Admitted(p) /\ s = p.src) => s \in DOMAIN stats /\ f[s] = stats[s]
           /\ \A s, t : ~(Admitted(p) /\ s = p.src) => Of(r, <<s, t>>) = Of(reported, <<s, t>>)
           /\ \A s \in DOMAIN stats : stats[s].seen > p.t - Window => s \in DOMAIN f
           /\ Admitted(p) => p.src \in DOMAIN f /\ f[p.src] = Probed(p)
           /\ Admitted(p) /\ setting.viaObservations =>
                \A t : ToldBy(r, f, p.src, t) = Told(p.src, t) + IF t = p.t THEN 1 ELSE 0
<1>1. /\ DOMAIN SourcesFor(p) \subseteq DOMAIN stats
      /\ \A s \in DOMAIN SourcesFor(p) : SourcesFor(p)[s] = stats[s]
      /\ \A s \in DOMAIN stats : stats[s].seen > p.t - Window => s \in DOMAIN SourcesFor(p)
      /\ IsFiniteSet(DOMAIN SourcesFor(p))
  BY SourcesForIs
<1>2. \A s \in DOMAIN stats : IsSource(stats[s]) /\ (stats[s].volume > 0 => s \in DOMAIN active)
  BY DEF TypeOK, Listed
<1>3. CASE Admitted(p)
  <2> DEFINE f == Sources(p, sweep)
             act == ActiveAfter(p)
             r == ReportedBy(p)
  <2>1. TakeObservations(f, act, r, Newest(p)) /\ latest' = Newest(p)
    BY <1>3 DEF Observe
  <2>2. /\ IsTable(f) /\ p.src \in DOMAIN f /\ f[p.src] = Probed(p)
        /\ \A s \in DOMAIN f : s # p.src => s \in DOMAIN SourcesFor(p) /\ f[s] = stats[s]
        /\ \A s \in DOMAIN stats : stats[s].seen > p.t - Window => s \in DOMAIN f
    BY SourcesIs
  <2>3. /\ IsList(act) /\ DOMAIN active \subseteq DOMAIN act
        /\ Probed(p).volume > 0 => p.src \in DOMAIN act
    BY ActiveIs
  <2>4. /\ IsReport(r)
        /\ \A s, t : s # p.src => Of(r, <<s, t>>) = Of(reported, <<s, t>>)
        /\ setting.viaObservations => \A g : p.src \in DOMAIN g /\ g[p.src] = Probed(p) =>
             \A t : ToldBy(r, g, p.src, t) = Told(p.src, t) + IF t = p.t THEN 1 ELSE 0
    BY AddsOne
  <2> HIDE DEF f, act, r
  <2>5. ListedIn(f, act)
    BY <1>1, <1>2, <2>2, <2>3 DEF ListedIn
  <2>6. setting.viaObservations =>
          \A t : ToldBy(r, f, p.src, t) = Told(p.src, t) + IF t = p.t THEN 1 ELSE 0
    BY <2>2, <2>4
  <2> QED BY <1>1, <1>3, <2>1, <2>2, <2>3, <2>4, <2>5, <2>6
<1>4. CASE ~Admitted(p)
  <2> DEFINE f == SourcesFor(p)
  <2>1. TakeObservations(f, active, reported, latest) /\ latest' = latest
    BY <1>4 DEF Observe
  <2> HIDE DEF f
  <2>2. IsTable(f) /\ ListedIn(f, active)
    BY <1>1, <1>2 DEF IsTable, ListedIn, f
  <2>3. IsList(active) /\ IsReport(reported)
    BY DEF TypeOK, IsList, IsReport
  <2>4. /\ \A s \in DOMAIN f : s \in DOMAIN stats /\ f[s] = stats[s]
        /\ \A s \in DOMAIN stats : stats[s].seen > p.t - Window => s \in DOMAIN f
    BY <1>1 DEF f
  <2> QED BY <1>4, <2>1, <2>2, <2>3, <2>4
<1> QED
  BY <1>3, <1>4

LEMMA VolumeStays ==
  ASSUME TypeOK, Listed, NEW p \in Stamped, NEW sweep \in Sweeps, Observe(p, sweep), Logged(p),
         InOrder, InSecond, Lost
  PROVE  /\ Listed' /\ InSecond' /\ Lost'
         /\ IsReport(reported') /\ IsList(active') /\ latest' \in Nat /\ flushed' \in Nat
<1> DEFINE via == setting.viaObservations
           n == Len(log)
<1>1. PICK f, act, r, newest :
        /\ IsTable(f) /\ IsList(act) /\ ListedIn(f, act) /\ IsReport(r)
        /\ TakeObservations(f, act, r, newest) /\ latest' = newest
        /\ newest = IF Admitted(p) THEN Newest(p) ELSE latest
        /\ \A s \in DOMAIN f : ~(Admitted(p) /\ s = p.src) => s \in DOMAIN stats /\ f[s] = stats[s]
        /\ \A s, t : ~(Admitted(p) /\ s = p.src) => Of(r, <<s, t>>) = Of(reported, <<s, t>>)
        /\ \A s \in DOMAIN stats : stats[s].seen > p.t - Window => s \in DOMAIN f
        /\ Admitted(p) => p.src \in DOMAIN f /\ f[p.src] = Probed(p)
        /\ Admitted(p) /\ setting.viaObservations =>
             \A t : ToldBy(r, f, p.src, t) = Told(p.src, t) + IF t = p.t THEN 1 ELSE 0
  BY Handed
<1>2. DOMAIN stats' = DOMAIN f /\ \A s \in DOMAIN f : Same(stats'[s], f[s])
  BY <1>1, TakenIs
<1>3. /\ \A s, t : ToldBy(reported', stats', s, t) = ToldBy(r, f, s, t)
      /\ IsReport(reported') /\ IsList(active') /\ ListedIn(stats', active')
      /\ flushed' = IF via THEN newest ELSE flushed
      /\ \A s \in DOMAIN f : stats'[s].volume =
           IF via /\ newest # flushed /\ f[s].volume > 0 /\ f[s].volSec < newest THEN 0 ELSE f[s].volume
  BY <1>1, TakenTells
<1>4. /\ DOMAIN log' = DOMAIN log \cup {n + 1} /\ n + 1 \notin DOMAIN log
      /\ \A i \in DOMAIN log : log'[i] = log[i]
      /\ log'[n + 1].p = p /\ Clock' = p.t /\ p.t \in Nat
      /\ Window' = Window /\ Window \in Nat /\ Window > 0 /\ Clock \in Nat
  BY LogGrows
<1>5. log'[n + 1].admitted = Admitted(p) /\ setting' = setting
  BY DEF Logged
<1>6. latest \in Nat /\ flushed \in Nat /\ setting \in Settings /\ \A s \in DOMAIN stats : IsSource(stats[s])
  BY DEF TypeOK
<1>7. newest \in Nat /\ latest' \in Nat /\ flushed' \in Nat
  BY <1>1, <1>3, <1>4, <1>6 DEF Newest
<1>8. Listed'
  BY <1>3 DEF ListedIn, Listed
<1>9. \A s, t : Told(s, t)' = ToldBy(r, f, s, t)
  BY <1>3 DEF Told, ToldBy
<1>10. \A s \in DOMAIN f : f[s].volume \in Nat /\ f[s].volSec \in Nat /\ f[s].seen \in Nat
  BY <1>1 DEF IsTable, IsSource
<1>11. ASSUME via, Admitted(p), NEW t, NEW c, c = IF t = p.t THEN 1 ELSE 0
       PROVE  Told(p.src, t)' = Told(p.src, t) + c /\ SentAt(p.src, t)' = SentAt(p.src, t) + c
  BY <1>1, <1>9, <1>11, SentAtAfter
<1>12. ASSUME NEW s, NEW t, ~(Admitted(p) /\ s = p.src)
       PROVE  /\ SentAt(s, t)' = SentAt(s, t) /\ Told(s, t)' <= Told(s, t)
              /\ Told(s, t)' < Told(s, t) =>
                   /\ s \in DOMAIN stats /\ stats[s].volSec = t /\ stats[s].volume > 0
                   /\ ~(stats[s].seen > p.t - Window)
  <2>1. SentAt(s, t)' = SentAt(s, t)
    <3>1. SentAt(s, t)' = SentAt(s, t) + 0 /\ SentAt(s, t) \in Nat
      BY <1>12, SentAtAfter, SentIs
    <3> QED BY <3>1
  <2>2. Of(r, <<s, t>>) = Of(reported, <<s, t>>) /\ Of(reported, <<s, t>>) \in Nat
    BY <1>1, <1>12 DEF Of, TypeOK
  <2>3. s \in DOMAIN stats => stats[s].volume \in Nat
    BY <1>6 DEF IsSource
  <2>4. CASE s \in DOMAIN f
    <3>1. s \in DOMAIN stats /\ f[s] = stats[s]
      BY <1>1, <1>12, <2>4
    <3>2. Waiting(f, s, t) = Waiting(stats, s, t) /\ Waiting(stats, s, t) \in Nat
      BY <2>3, <2>4, <3>1 DEF Waiting
    <3>3. Told(s, t)' = Told(s, t) /\ Told(s, t) \in Nat
      BY <1>9, <2>2, <3>2 DEF Told, ToldBy
    <3> QED BY <2>1, <3>3
  <2>5. CASE s \notin DOMAIN f
    <3>1. Waiting(f, s, t) = 0
      BY <2>5 DEF Waiting
    <3>2. Told(s, t)' = Of(reported, <<s, t>>) /\ Told(s, t) = Of(reported, <<s, t>>) + Waiting(stats, s, t)
      BY <1>9, <2>2, <3>1 DEF Told, ToldBy
    <3>3. Waiting(stats, s, t) = IF s \in DOMAIN stats THEN IF stats[s].volSec = t THEN stats[s].volume ELSE 0 ELSE 0
      BY DEF Waiting
    <3>4. Waiting(stats, s, t) \in Nat
      BY <2>3, <3>3
    <3>5. s \in DOMAIN stats => ~(stats[s].seen > p.t - Window)
      BY <1>1, <2>5
    <3>6. Waiting(stats, s, t) > 0 => s \in DOMAIN stats /\ stats[s].volSec = t /\ stats[s].volume > 0
      BY <2>3, <3>3
    <3>7. Told(s, t)' <= Told(s, t) /\ (Told(s, t)' < Told(s, t) => Waiting(stats, s, t) > 0)
      BY <2>2, <3>2, <3>4
    <3> QED BY <2>1, <3>5, <3>6, <3>7
  <2> QED BY <2>4, <2>5
<1>13. \A s, t : Told(s, t) \in Nat /\ Told(s, t)' \in Nat /\ SentAt(s, t) \in Nat
  <2> SUFFICES ASSUME NEW s, NEW t PROVE Told(s, t) \in Nat /\ Told(s, t)' \in Nat /\ SentAt(s, t) \in Nat
    OBVIOUS
  <2>1. IsReport(reported) /\ IsTable(stats)
    BY DEF TypeOK, IsReport, IsTable
  <2>2. Of(reported, <<s, t>>) \in Nat /\ Waiting(stats, s, t) \in Nat
    BY <2>1, ToldIs
  <2>3. Of(r, <<s, t>>) \in Nat /\ Waiting(f, s, t) \in Nat
    BY <1>1, ToldIs
  <2> QED BY <1>9, <2>2, <2>3, SentIs DEF Told, ToldBy
<1>14. ASSUME via, NEW s, NEW t PROVE Told(s, t)' <= SentAt(s, t)'
  <2>0. Told(s, t) <= SentAt(s, t)
    BY <1>14 DEF InSecond
  <2>1. CASE Admitted(p) /\ s = p.src
    <3>1. PICK c : c = IF t = p.t THEN 1 ELSE 0
      OBVIOUS
    <3>2. Told(s, t)' = Told(s, t) + c /\ SentAt(s, t)' = SentAt(s, t) + c
      BY <1>11, <1>14, <2>1, <3>1
    <3> QED BY <1>13, <2>0, <3>1, <3>2
  <2>2. CASE ~(Admitted(p) /\ s = p.src)
    BY <1>12, <1>13, <2>0, <2>2
  <2> QED BY <2>1, <2>2
<1>15. ASSUME via, Ordered
       PROVE  /\ Clock <= p.t /\ latest <= Clock /\ flushed = latest
              /\ \A s \in DOMAIN stats : stats[s].volume > 0 => stats[s].volSec = latest
              /\ \A i \in DOMAIN log : log[i].admitted => log[i].p.t <= latest
              /\ newest = IF Admitted(p) THEN p.t ELSE latest
  <2>1. Clock <= p.t
    BY <1>15 DEF Logged
  <2>2. /\ latest <= Clock /\ flushed = latest
        /\ \A s \in DOMAIN stats : stats[s].volume > 0 => stats[s].volSec = latest
        /\ \A i \in DOMAIN log : log[i].admitted => log[i].p.t <= latest
    BY <1>15 DEF InSecond
  <2>3. newest = IF Admitted(p) THEN p.t ELSE latest
    BY <1>1, <1>4, <1>6, <1>15, <2>1, <2>2 DEF Newest
  <2> QED BY <2>1, <2>2, <2>3
<1>16. ASSUME via, NEW s \in DOMAIN stats' PROVE stats'[s].seen = stats'[s].volSec
  <2>1. f[s].seen = f[s].volSec
    <3>1. CASE Admitted(p) /\ s = p.src
      BY <1>1, <1>16, <3>1, ProbedIs
    <3>2. CASE ~(Admitted(p) /\ s = p.src)
      BY <1>1, <1>2, <1>16, <3>2 DEF InSecond
    <3> QED BY <3>1, <3>2
  <2> QED BY <1>2, <1>16, <2>1 DEF Same
<1>17. ASSUME via, Ordered, NEW s \in DOMAIN stats', stats'[s].volume > 0
       PROVE  stats'[s].volSec = newest
  <2>1. /\ s \in DOMAIN f /\ stats'[s].volSec = f[s].volSec /\ f[s].volume > 0
        /\ ~(newest # flushed /\ f[s].volSec < newest)
    BY <1>2, <1>3, <1>17 DEF Same
  <2>2. CASE Admitted(p) /\ s = p.src
    BY <1>1, <1>15, <1>17, <2>1, <2>2, ProbedIs
  <2>3. CASE ~(Admitted(p) /\ s = p.src)
    <3>1. f[s].volSec = latest
      BY <1>1, <1>15, <1>17, <2>1, <2>3
    <3> QED BY <1>4, <1>6, <1>15, <1>17, <2>1, <3>1
  <2> QED BY <2>2, <2>3
<1>18. ASSUME via, Ordered
       PROVE  newest <= p.t /\ \A i \in DOMAIN log' : log'[i].admitted => log'[i].p.t <= newest
  <2>1. latest <= p.t /\ (\A i \in DOMAIN log : log[i].p.t \in Nat)
    BY <1>4, <1>6, <1>15, <1>18, LogIs
  <2> QED BY <1>4, <1>5, <1>6, <1>15, <1>18, <2>1
<1>19. InSecond'
  <2>1. via => flushed' = latest'
    BY <1>1, <1>3
  <2>2. Ordered' <=> Ordered
    BY <1>5 DEF Ordered
  <2> QED BY <1>1, <1>4, <1>5, <1>14, <1>16, <1>17, <1>18, <2>1, <2>2 DEF InSecond
<1>20. ASSUME via, Ordered, NEW s, NEW t \in Nat, Told(s, t)' < SentAt(s, t)'
       PROVE  t + Window <= p.t /\ \A i \in DOMAIN log' : ~(log'[i].admitted /\ t < log'[i].p.t /\ log'[i].p.t < t + Window)
  <2>1. ASSUME t + Window <= Clock, ~AdmittedBetween(t, t + Window)
        PROVE  t + Window <= p.t /\ \A i \in DOMAIN log' : ~(log'[i].admitted /\ t < log'[i].p.t /\ log'[i].p.t < t + Window)
    <3>1. t + Window <= p.t
      BY <1>4, <1>15, <1>20, <2>1
    <3> QED BY <1>4, <2>1, <3>1 DEF AdmittedBetween
  <2>2. CASE Told(s, t) < SentAt(s, t)
    BY <1>20, <2>1, <2>2 DEF Lost
  <2>3. CASE ~(Told(s, t) < SentAt(s, t))
    <3>1. ~(Admitted(p) /\ s = p.src)
      <4> SUFFICES ASSUME Admitted(p), s = p.src PROVE FALSE
        OBVIOUS
      <4>1. PICK c : c = IF t = p.t THEN 1 ELSE 0
        OBVIOUS
      <4>2. Told(s, t)' = Told(s, t) + c /\ SentAt(s, t)' = SentAt(s, t) + c
        BY <1>11, <1>20, <4>1
      <4> QED BY <1>13, <1>20, <2>3, <4>1, <4>2
    <3>2. Told(s, t)' < Told(s, t)
      BY <1>12, <1>13, <1>20, <2>3, <3>1
    <3>3. s \in DOMAIN stats /\ stats[s].volSec = t /\ stats[s].volume > 0 /\ ~(stats[s].seen > p.t - Window)
      BY <1>12, <3>1, <3>2
    <3>4. stats[s].seen = t /\ latest = t
      BY <1>15, <1>20, <3>3 DEF InSecond
    <3>5. t + Window <= p.t
      BY <1>4, <3>3, <3>4
    <3>6. \A i \in DOMAIN log : log[i].admitted => ~(t < log[i].p.t)
      BY <1>15, <1>20, <3>4, LogIs
    <3> QED BY <1>4, <3>5, <3>6
  <2> QED BY <2>2, <2>3
<1>21. Lost'
  <2>1. Ordered' <=> Ordered
    BY <1>5 DEF Ordered
  <2> QED BY <1>4, <1>5, <1>20, <2>1 DEF Lost, AdmittedBetween
<1> QED
  BY <1>3, <1>7, <1>8, <1>19, <1>21

-----------------------------------------------------------------------------
(* The bounds of the tables: one more is only put where there is room.     *)

LEMMA RoomIs ==
  ASSUME NEW A, IsFiniteSet(A), NEW k, NEW max \in Nat, Cardinality(A) <= max,
         ~(Cardinality(A) >= max /\ k \notin A), NEW B \in SUBSET (A \cup {k})
  PROVE  IsFiniteSet(B) /\ Cardinality(B) <= max
<1>1. IsFiniteSet(A \cup {k})
  BY FS_AddElement
<1>2. Cardinality(A \cup {k}) = IF k \in A THEN Cardinality(A) ELSE Cardinality(A) + 1
  BY FS_AddElement
<1>3. Cardinality(A) \in Nat
  BY FS_CardinalityType
<1>4. IsFiniteSet(B)
  BY <1>1, FS_Subset
<1>5. Cardinality(B) <= Cardinality(A \cup {k})
  BY <1>1, FS_Subset
<1>6. Cardinality(B) \in Nat
  BY <1>4, FS_CardinalityType
<1>7. Cardinality(A \cup {k}) \in Nat /\ Cardinality(A \cup {k}) <= max
  BY <1>2, <1>3
<1> QED
  BY <1>4, <1>5, <1>6, <1>7

LEMMA FewerFit ==
  ASSUME NEW A, IsFiniteSet(A), NEW max \in Nat, Cardinality(A) <= max, NEW B \in SUBSET A
  PROVE  Cardinality(B) <= max
<1>1. IsFiniteSet(B) /\ Cardinality(B) <= Cardinality(A)
  BY FS_Subset
<1>2. Cardinality(A) \in Nat /\ Cardinality(B) \in Nat
  BY <1>1, FS_CardinalityType
<1> QED
  BY <1>1, <1>2

LEMMA DstsFit ==
  ASSUME TypeOK, TablesBounded, NEW p \in Stamped
  PROVE  Cardinality(DOMAIN DstsAfter(p)) <= setting.maxDsts
<1> DEFINE st == Counted(p)
           f == DstsFor(st, p)
           max == setting.maxDsts
<1>1. IsSource(st) /\ st.dsts = Entry(p).dsts /\ setting \in Settings /\ max \in Nat
  BY CountedIs, SettingIs DEF TypeOK
<1>2. IsFiniteSet(DOMAIN st.dsts)
  BY <1>1 DEF IsSource
<1>3. Cardinality(DOMAIN st.dsts) <= max
  <2>1. CASE p.src \in DOMAIN stats
    BY <1>1, <2>1, EntryIs DEF TablesBounded
  <2>2. CASE p.src \notin DOMAIN stats
    <3>1. st.dsts = <<>>
      BY <1>1, <2>2, EntryIs DEF NewSource
    <3>2. DOMAIN st.dsts = {}
      BY <3>1
    <3>3. Cardinality(DOMAIN st.dsts) = 0
      BY <3>2, FS_EmptySet
    <3> HIDE DEF st, max
    <3> QED BY <1>1, <3>3
  <2> QED BY <2>1, <2>2
<1>4. DOMAIN f \subseteq DOMAIN st.dsts /\ IsFiniteSet(DOMAIN f)
  <2> HIDE DEF st
  <2> QED BY <1>1, DstsForIs
<1>5. Cardinality(DOMAIN f) <= max
  <2> HIDE DEF st, f, max
  <2> QED BY <1>1, <1>2, <1>3, <1>4, FewerFit
<1>6. CASE ~Attempt(p)
  <2>1. DstsAfter(p) = st.dsts
    BY <1>6 DEF DstsAfter
  <2> HIDE DEF st
  <2> QED BY <1>3, <2>1
<1>7. CASE Attempt(p) /\ ~DstAdmitted(st, p)
  <2>1. DstsAfter(p) = f
    BY <1>7 DEF DstsAfter
  <2> HIDE DEF f
  <2> QED BY <1>5, <2>1
<1>8. CASE Attempt(p) /\ DstAdmitted(st, p)
  <2>1. DOMAIN DstsAfter(p) = DOMAIN f \cup {p.dst}
    BY <1>8 DEF DstsAfter, Put
  <2>2. ~(Cardinality(DOMAIN f) >= max /\ p.dst \notin DOMAIN f)
    BY <1>8 DEF DstAdmitted, FullOfOthers
  <2> HIDE DEF f, max
  <2>3. Cardinality(DOMAIN f \cup {p.dst}) <= max
    BY <1>1, <1>4, <1>5, <2>2, RoomIs
  <2> QED BY <2>1, <2>3 DEF max
<1> QED
  BY <1>6, <1>7, <1>8

LEMMA SourcesFit ==
  ASSUME TypeOK, TablesBounded, NEW p \in Stamped, Tabled(p)
  PROVE  Cardinality(DOMAIN stats') <= setting.maxSources
<1> DEFINE A == DOMAIN SourcesFor(p)
           max == setting.maxSources
<1>1. A \subseteq DOMAIN stats /\ IsFiniteSet(A) /\ IsFiniteSet(DOMAIN stats)
  BY SourcesForIs DEF TypeOK
<1>2. max \in Nat /\ Cardinality(DOMAIN stats) <= max
  BY SettingIs DEF TypeOK, TablesBounded
<1>3. /\ DOMAIN stats' \subseteq A \cup {p.src}
      /\ ~Admitted(p) => DOMAIN stats' \subseteq A
  BY DEF Tabled
<1>4. Admitted(p) => ~(Cardinality(A) >= max /\ p.src \notin A)
  BY DEF Admitted, FullOfOthers
<1> HIDE DEF A, max
<1>5. Cardinality(A) <= max
  BY <1>1, <1>2, FewerFit
<1>6. CASE Admitted(p)
  <2> QED BY <1>1, <1>2, <1>3, <1>4, <1>5, <1>6, RoomIs DEF max
<1>7. CASE ~Admitted(p)
  <2> QED BY <1>1, <1>2, <1>3, <1>5, <1>7, FewerFit DEF max
<1> QED
  BY <1>6, <1>7

LEMMA PairsFit ==
  ASSUME TypeOK, TablesBounded, NEW p, NEW sweep, ObservePair(p, sweep)
  PROVE  Cardinality(DOMAIN pairs') <= setting.maxPairs
<1> DEFINE g == MadeRoom(p)
           max == setting.maxPairs
           k == Pair(p)
<1>1. IsFiniteSet(DOMAIN pairs) /\ max \in Nat /\ Cardinality(DOMAIN pairs) <= max
  BY SettingIs DEF TypeOK, TablesBounded
<1>2. DOMAIN g \subseteq DOMAIN pairs
  BY DEF MadeRoom, FreshPairs, Restrict
<1>3. CASE ~Recorded(p)
  <2>1. DOMAIN pairs' \subseteq DOMAIN pairs
    BY <1>2, <1>3 DEF ObservePair
  <2> HIDE DEF max
  <2> QED BY <1>1, <2>1, FewerFit DEF max
<1>4. CASE Recorded(p)
  <2>1. pairs' = Put(g, k, p.t) \/ pairs' = FreshPairs(Put(g, k, p.t), p.t)
    BY <1>4 DEF ObservePair
  <2>2. DOMAIN pairs' \subseteq DOMAIN g \cup {k}
    <3>1. CASE pairs' = Put(g, k, p.t)
      BY <3>1 DEF Put
    <3>2. CASE pairs' = FreshPairs(Put(g, k, p.t), p.t)
      BY <3>2 DEF Put, FreshPairs, Restrict
    <3> QED BY <2>1, <3>1, <3>2
  <2>3. ~(Cardinality(DOMAIN g) >= max /\ k \notin DOMAIN g)
    BY <1>4 DEF Recorded, FullOfOthers
  <2> HIDE DEF g, max, k
  <2>4. IsFiniteSet(DOMAIN g) /\ Cardinality(DOMAIN g) <= max
    <3>1. IsFiniteSet(DOMAIN g)
      BY <1>1, <1>2, FS_Subset
    <3>2. Cardinality(DOMAIN g) <= max
      BY <1>1, <1>2, FewerFit
    <3> QED BY <3>1, <3>2
  <2> QED BY <1>1, <2>2, <2>3, <2>4, RoomIs DEF max
<1> QED
  BY <1>3, <1>4

LEMMA TablesStayBounded ==
  ASSUME TypeOK, TablesBounded, NEW p \in Stamped, NEW sweep \in Sweeps, Observe(p, sweep), Tabled(p)
  PROVE  TablesBounded'
<1>1. setting' = setting /\ ObservePair(p, sweep)
  BY DEF Observe
<1>2. Cardinality(DOMAIN stats') <= setting.maxSources /\ Cardinality(DOMAIN pairs') <= setting.maxPairs
  BY <1>1, SourcesFit, PairsFit
<1>3. ASSUME NEW s \in DOMAIN stats'
      PROVE  Cardinality(DOMAIN stats'[s].dsts) <= setting.maxDsts
  <2>1. CASE Admitted(p) /\ s = p.src
    <3>1. stats'[s].dsts = DstsAfter(p)
      BY <2>1, ProbedIs DEF Tabled, Same
    <3> QED BY <3>1, DstsFit
  <2>2. CASE ~(Admitted(p) /\ s = p.src)
    BY <2>2 DEF Tabled, Same, TablesBounded
  <2> QED BY <2>1, <2>2
<1> QED
  BY <1>1, <1>2, <1>3 DEF TablesBounded

-----------------------------------------------------------------------------
(* Conversations: a packet is carried by its own, and what leaves the      *)
(* table is told.                                                          *)

IsFlows(fs) == \A k \in DOMAIN fs : IsFlow(fs[k]) /\ k = {fs[k].client, fs[k].server}

LEMMA CarriedIs ==
  ASSUME NEW fs, IsFlows(fs), NEW w
  PROVE  D!Carried(fs, w) \in Nat
BY DEF IsFlows, IsFlow, D!Carried

LEMMA CarriedBy ==
  ASSUME NEW fs, NEW x, NEW y
  PROVE  D!Carried(fs, <<x, y>>) =
           IF {x, y} \in DOMAIN fs
           THEN IF x = fs[{x, y}].client THEN fs[{x, y}].toServer ELSE fs[{x, y}].toClient ELSE 0
<1>1. <<x, y>>[1] = x /\ <<x, y>>[2] = y
  OBVIOUS
<1> QED
  BY <1>1 DEF D!Carried

LEMMA RecordsAdd ==
  ASSUME NEW gone, IsFlows(gone), \A w \in DOMAIN told : told[w] \in Nat, NEW r, r = D!Records(gone)
  PROVE  /\ \A w \in DOMAIN r : r[w] \in Nat
         /\ \A x, y : D!Or0(r, <<x, y>>) = D!Or0(told, <<x, y>>) + D!Carried(gone, <<x, y>>)
<1>1. /\ DOMAIN r = DOMAIN told \cup UNION {k \X k : k \in DOMAIN gone}
      /\ \A w \in DOMAIN r : r[w] = D!Or0(told, w) + D!Carried(gone, w)
  BY DEF D!Records
<1>2. \A w : D!Or0(told, w) \in Nat /\ D!Carried(gone, w) \in Nat
  BY CarriedIs DEF D!Or0
<1>3. ASSUME NEW x, NEW y
      PROVE  D!Or0(r, <<x, y>>) = D!Or0(told, <<x, y>>) + D!Carried(gone, <<x, y>>)
  <2>1. CASE <<x, y>> \in DOMAIN r
    BY <1>1, <2>1 DEF D!Or0
  <2>2. CASE <<x, y>> \notin DOMAIN r
    <3>1. {x, y} \notin DOMAIN gone
      <4>1. SUFFICES ASSUME {x, y} \in DOMAIN gone
                     PROVE  <<x, y>> \in DOMAIN r
        BY <2>2
      <4>2. <<x, y>> \in {x, y} \X {x, y}
        OBVIOUS
      <4> QED BY <1>1, <4>1, <4>2
    <3>2. D!Carried(gone, <<x, y>>) = 0
      BY <3>1, CarriedBy
    <3>3. D!Or0(r, <<x, y>>) = 0 /\ D!Or0(told, <<x, y>>) = 0
      BY <1>1, <2>2 DEF D!Or0
    <3> QED BY <3>2, <3>3
  <2> QED BY <2>1, <2>2
<1> QED
  BY <1>1, <1>2, <1>3

LEMMA PartsAdd ==
  ASSUME NEW fs, IsFlows(fs), NEW S \in SUBSET DOMAIN fs,
         NEW gone, gone = D!Restrict(fs, S), NEW rest, rest = D!Restrict(fs, DOMAIN fs \ S)
  PROVE  /\ IsFlows(gone) /\ IsFlows(rest)
         /\ \A x, y : D!Carried(rest, <<x, y>>) + D!Carried(gone, <<x, y>>) = D!Carried(fs, <<x, y>>)
<1>1. DOMAIN gone = S /\ \A k \in S : gone[k] = fs[k]
  BY DEF D!Restrict
<1>2. DOMAIN rest = DOMAIN fs \ S /\ \A k \in DOMAIN rest : rest[k] = fs[k]
  BY DEF D!Restrict
<1>3. IsFlows(gone) /\ IsFlows(rest)
  BY <1>1, <1>2 DEF IsFlows
<1>4. ASSUME NEW x, NEW y
      PROVE  D!Carried(rest, <<x, y>>) + D!Carried(gone, <<x, y>>) = D!Carried(fs, <<x, y>>)
  <2>1. CASE {x, y} \in S
    <3>1. D!Carried(rest, <<x, y>>) = 0 /\ D!Carried(gone, <<x, y>>) = D!Carried(fs, <<x, y>>)
      BY <1>1, <1>2, <2>1, CarriedBy
    <3> QED BY <3>1, CarriedIs
  <2>2. CASE {x, y} \notin S
    <3>1. D!Carried(gone, <<x, y>>) = 0 /\ D!Carried(rest, <<x, y>>) = D!Carried(fs, <<x, y>>)
      BY <1>1, <1>2, <2>2, CarriedBy
    <3> QED BY <3>1, CarriedIs
  <2> QED BY <2>1, <2>2
<1> QED
  BY <1>3, <1>4

LEMMA EitherWay ==
  ASSUME NEW x, NEW y, NEW a, NEW b, NEW z, {x, y} = {a, b}, z \in {a, b}
  PROVE  /\ <<x, y>> = <<a, b>> => x = a
         /\ <<x, y>> # <<a, b>> => (x = z <=> a # z)
<1>1. x \in {a, b} /\ y \in {a, b} /\ a \in {x, y} /\ b \in {x, y}
  <2>1. x \in {x, y} /\ y \in {x, y} /\ a \in {a, b} /\ b \in {a, b}
    OBVIOUS
  <2> QED BY <2>1
<1>2. (x = a /\ y = b) \/ (x = b /\ y = a)
  BY <1>1
<1>3. <<x, y>> = <<a, b>> <=> x = a /\ y = b
  OBVIOUS
<1>4. CASE x = a /\ y = b
  BY <1>3, <1>4
<1>5. CASE x = b /\ y = a /\ a # b
  BY <1>3, <1>5
<1> QED
  BY <1>2, <1>4, <1>5

LEMMA ConversationIs ==
  ASSUME FlowsOK, NEW p \in Stamped, NEW c, c = D!Conversation(p)
  PROVE  /\ IsFlow(c) /\ D!Key(p) = {c.client, c.server} /\ c.last = p.t
         /\ \A x, y : {x, y} = D!Key(p) =>
              (IF x = c.client THEN c.toServer ELSE c.toClient) =
                D!Carried(flows, <<x, y>>) + IF <<x, y>> = D!Way(p) THEN 1 ELSE 0
<1> DEFINE a == <<p.src, p.sport>>
           b == <<p.dst, p.dport>>
           f == D!Found(p)
           in == IF a = f.client THEN 1 ELSE 0
           back == IF a = f.client THEN 0 ELSE 1
<1>1. D!Key(p) = {a, b} /\ D!From(p) = a /\ D!Way(p) = <<a, b>> /\ p.t \in Nat
  BY PacketIs DEF D!Key, D!From, D!Way
<1>2. /\ IsFlow(f) /\ {a, b} = {f.client, f.server}
      /\ {a, b} \in DOMAIN flows => f = flows[{a, b}]
      /\ {a, b} \notin DOMAIN flows => f.toServer = 0 /\ f.toClient = 0
  <2>1. CASE {a, b} \in DOMAIN flows
    <3>1. f = flows[{a, b}]
      BY <1>1, <2>1 DEF D!Found
    <3> HIDE DEF f, a, b
    <3> QED BY <2>1, <3>1 DEF FlowsOK
  <2>2. CASE {a, b} \notin DOMAIN flows
    <3>1. f = [client |-> a, server |-> b, toServer |-> 0, toClient |-> 0, last |-> p.t]
      BY <1>1, <2>2 DEF D!Found
    <3> HIDE DEF f
    <3> QED BY <1>1, <2>2, <3>1 DEF IsFlow
  <2> QED BY <2>1, <2>2
<1>3. /\ c = [client |-> f.client, server |-> f.server, last |-> p.t,
              toServer |-> f.toServer + in, toClient |-> f.toClient + back]
  BY <1>1 DEF D!Conversation, D!Seen
<1> HIDE DEF f
<1>4. f.toServer \in Nat /\ f.toClient \in Nat /\ in \in Nat /\ back \in Nat
  BY <1>2 DEF IsFlow
<1>5. IsFlow(c) /\ D!Key(p) = {c.client, c.server} /\ c.last = p.t
  <2> HIDE DEF in, back, a, b
  <2> QED BY <1>1, <1>2, <1>3, <1>4 DEF IsFlow
<1>6. ASSUME NEW x, NEW y, {x, y} = {a, b}
      PROVE  (IF x = c.client THEN c.toServer ELSE c.toClient) =
               D!Carried(flows, <<x, y>>) + IF <<x, y>> = <<a, b>> THEN 1 ELSE 0
  <2> HIDE DEF a, b
  <2>1. D!Carried(flows, <<x, y>>) = IF x = f.client THEN f.toServer ELSE f.toClient
    BY <1>2, <1>6, CarriedBy
  <2>2. c.client = f.client /\ c.toServer = f.toServer + in /\ c.toClient = f.toClient + back
    BY <1>3
  <2>3. f.client = a \/ f.client = b
    BY <1>2
  <2>6. /\ <<x, y>> = <<a, b>> => x = a
        /\ <<x, y>> # <<a, b>> => (x = f.client <=> a # f.client)
    <3>1. \A z \in {a, b} : /\ <<x, y>> = <<a, b>> => x = a
                            /\ <<x, y>> # <<a, b>> => (x = z <=> a # z)
      BY <1>6, EitherWay
    <3>2. f.client \in {a, b}
      BY <2>3
    <3> QED BY <3>1, <3>2
  <2>7. CASE <<x, y>> = <<a, b>>
    BY <1>4, <2>1, <2>2, <2>6, <2>7
  <2>8. CASE <<x, y>> # <<a, b>>
    <3>1. x = f.client => in = 0
      BY <2>6, <2>8
    <3>2. x # f.client => back = 0
      BY <2>6, <2>8
    <3> HIDE DEF in, back
    <3> QED BY <1>4, <2>1, <2>2, <2>8, <3>1, <3>2
  <2> QED BY <2>7, <2>8
<1> QED
  BY <1>1, <1>5, <1>6

LEMMA WithIs ==
  ASSUME FlowsOK, NEW p \in Stamped, NEW fs, fs = D!With(flows, D!Key(p), D!Conversation(p))
  PROVE  /\ IsFlows(fs) /\ DOMAIN fs = DOMAIN flows \cup {D!Key(p)}
         /\ \A k \in DOMAIN fs : k # D!Key(p) => fs[k] = flows[k]
         /\ fs[D!Key(p)].last = p.t
         /\ \A x, y : D!Carried(fs, <<x, y>>) =
              D!Carried(flows, <<x, y>>) + IF <<x, y>> = D!Way(p) THEN 1 ELSE 0
<1> DEFINE k0 == D!Key(p)
           c == D!Conversation(p)
<1>1. /\ IsFlow(c) /\ k0 = {c.client, c.server} /\ c.last = p.t
      /\ \A x, y : {x, y} = k0 =>
           (IF x = c.client THEN c.toServer ELSE c.toClient) =
             D!Carried(flows, <<x, y>>) + IF <<x, y>> = D!Way(p) THEN 1 ELSE 0
  BY ConversationIs
<1>2. DOMAIN fs = DOMAIN flows \cup {k0} /\ \A k \in DOMAIN fs : fs[k] = IF k = k0 THEN c ELSE flows[k]
  BY DEF D!With
<1>3. D!Way(p) = <<<<p.src, p.sport>>, <<p.dst, p.dport>>>> /\ k0 = {<<p.src, p.sport>>, <<p.dst, p.dport>>}
  BY DEF D!Way, D!From, D!Key
<1>4. \A x, y : <<x, y>> = D!Way(p) => {x, y} = k0
  BY <1>3
<1>5. IsFlows(flows)
  BY DEF IsFlows, FlowsOK
<1> HIDE DEF k0, c
<1>6. IsFlows(fs)
  BY <1>1, <1>2, <1>5 DEF IsFlows
<1>7. ASSUME NEW x, NEW y, NEW w, w = <<x, y>>
      PROVE  D!Carried(fs, w) = D!Carried(flows, w) + IF w = D!Way(p) THEN 1 ELSE 0
  <2>0. D!Carried(flows, w) \in Nat
    BY <1>5, CarriedIs
  <2>1. CASE {x, y} = k0
    BY <1>1, <1>2, <1>7, <2>1, CarriedBy
  <2>2. CASE {x, y} # k0
    <3>1. D!Carried(fs, w) = D!Carried(flows, w)
      <4>1. CASE {x, y} \in DOMAIN flows
        <5>1. {x, y} \in DOMAIN fs /\ fs[{x, y}] = flows[{x, y}]
          BY <1>2, <2>2, <4>1
        <5> QED BY <1>7, <4>1, <5>1, CarriedBy
      <4>2. CASE {x, y} \notin DOMAIN flows
        <5>1. {x, y} \notin DOMAIN fs
          BY <1>2, <2>2, <4>2
        <5> QED BY <1>7, <4>2, <5>1, CarriedBy
      <4> QED BY <4>1, <4>2
    <3>2. w # D!Way(p)
      BY <1>4, <1>7, <2>2
    <3> QED BY <2>0, <3>1, <3>2
  <2> QED BY <2>1, <2>2
<1> QED
  BY <1>1, <1>2, <1>6, <1>7 DEF k0

(* What is swept out of the table is told, and the rest stays.             *)
LEMMA Swept ==
  ASSUME \A w \in DOMAIN told : told[w] \in Nat, NEW fs, IsFlows(fs), NEW now,
         \/ D!Expire(fs, now)
         \/ flows' = fs /\ told' = told
  PROVE  /\ IsFlows(flows)' /\ DOMAIN flows' \subseteq DOMAIN fs
         /\ \A k \in DOMAIN flows' : flows'[k] = fs[k]
         /\ \A w \in DOMAIN told' : told'[w] \in Nat
         /\ \A x, y : D!Or0(told', <<x, y>>) + D!Carried(flows', <<x, y>>) =
                      D!Or0(told, <<x, y>>) + D!Carried(fs, <<x, y>>)
         /\ D!Expire(fs, now) => \A k \in DOMAIN flows' : ~(fs[k].last <= now - Idle)
<1>1. CASE D!Expire(fs, now)
  <2> DEFINE S == D!Silent(fs, now)
             gone == D!Restrict(fs, S)
             rest == D!Restrict(fs, DOMAIN fs \ S)
  <2>1. flows' = rest /\ told' = D!Records(gone)
    BY <1>1 DEF D!Expire
  <2>2. S = {k \in DOMAIN fs : fs[k].last <= now - Idle}
    BY DEF D!Silent
  <2>3. DOMAIN rest = DOMAIN fs \ S /\ \A k \in DOMAIN rest : rest[k] = fs[k]
    BY DEF D!Restrict
  <2>4. /\ IsFlows(gone) /\ IsFlows(rest)
        /\ \A x, y : D!Carried(rest, <<x, y>>) + D!Carried(gone, <<x, y>>) = D!Carried(fs, <<x, y>>)
    <3>1. S \in SUBSET DOMAIN fs
      BY <2>2
    <3> HIDE DEF S
    <3> QED BY <3>1, PartsAdd
  <2> HIDE DEF gone, rest, S
  <2>5. /\ \A w \in DOMAIN told' : told'[w] \in Nat
        /\ \A x, y : D!Or0(told', <<x, y>>) = D!Or0(told, <<x, y>>) + D!Carried(gone, <<x, y>>)
    BY <2>1, <2>4, RecordsAdd
  <2>6. ASSUME NEW x, NEW y
        PROVE  D!Or0(told', <<x, y>>) + D!Carried(rest, <<x, y>>) =
               D!Or0(told, <<x, y>>) + D!Carried(fs, <<x, y>>)
    <3>1. /\ D!Or0(told, <<x, y>>) \in Nat /\ D!Carried(gone, <<x, y>>) \in Nat
          /\ D!Carried(rest, <<x, y>>) \in Nat
      BY <2>4, CarriedIs DEF D!Or0
    <3>2. /\ D!Or0(told', <<x, y>>) = D!Or0(told, <<x, y>>) + D!Carried(gone, <<x, y>>)
          /\ D!Carried(rest, <<x, y>>) + D!Carried(gone, <<x, y>>) = D!Carried(fs, <<x, y>>)
      BY <2>4, <2>5
    <3> QED BY <3>1, <3>2
  <2>7. IsFlows(flows)'
    BY <2>1, <2>4 DEF IsFlows
  <2> QED BY <2>1, <2>2, <2>3, <2>5, <2>6, <2>7
<1>2. CASE flows' = fs /\ told' = told /\ ~D!Expire(fs, now)
  <2>1. IsFlows(flows)'
    BY <1>2 DEF IsFlows
  <2> QED BY <1>2, <2>1
<1> QED
  BY <1>1, <1>2

LEMMA SameCount ==
  ASSUME NEW S
  PROVE  D!Cardinality(S) = Cardinality(S)
BY DEF D!Cardinality, Cardinality

LEMMA FlowsAfter ==
  ASSUME FlowsOK, Balanced, NEW p \in Stamped, D!Observe(p)
  PROVE  /\ FlowsOK' /\ Balanced'
         /\ swept <= p.t => swept' <= p.t /\ (~seen'.refused => seen'.at <= swept')
         /\ (\A k \in DOMAIN flows : flows[k].last > swept - Idle) /\ swept <= p.t =>
              \A k \in DOMAIN flows' : flows'[k].last > swept' - Idle
<1>0. /\ p.t \in Nat /\ swept \in Nat /\ Idle \in Nat /\ Idle > 0 /\ MaxFlows \in Nat /\ Ghosts \in BOOLEAN
      /\ \A k \in DOMAIN flows : flows[k].last \in Nat
  BY PacketIs, DatagramAssumption DEF FlowsOK, IsFlow
<1>1. CASE D!Key(p) \notin DOMAIN flows /\ Cardinality(DOMAIN flows) >= MaxFlows
  <2>1. seen' = [at |-> p.t, refused |-> TRUE]
    BY <1>1, SameCount DEF D!Observe
  <2>2. flows' = flows /\ swept' = swept /\ counted' = counted /\ told' = told
    BY <1>1, SameCount DEF D!Observe
  <2>3. FlowsOK'
    BY <1>0, <2>1, <2>2 DEF FlowsOK
  <2>4. Balanced'
    BY <2>2 DEF Balanced
  <2> QED BY <2>1, <2>2, <2>3, <2>4
<1>2. CASE ~(D!Key(p) \notin DOMAIN flows /\ Cardinality(DOMAIN flows) >= MaxFlows)
  <2> DEFINE fs == D!With(flows, D!Key(p), D!Conversation(p))
  <2>1. seen' = [at |-> p.t, refused |-> FALSE]
    BY <1>2, SameCount DEF D!Observe
  <2>2. counted' = IF Ghosts THEN D!Added(counted, D!Way(p), 1) ELSE counted
    BY <1>2, SameCount DEF D!Observe
  <2>3. swept' = (IF p.t > swept THEN p.t ELSE swept)
    BY <1>2, SameCount DEF D!Observe
  <2>4. IF p.t > swept THEN D!Expire(fs, p.t) ELSE flows' = fs /\ told' = told
    BY <1>2, SameCount DEF D!Observe
  <2>5. /\ IsFlows(fs) /\ DOMAIN fs = DOMAIN flows \cup {D!Key(p)}
        /\ \A k \in DOMAIN fs : k # D!Key(p) => fs[k] = flows[k]
        /\ fs[D!Key(p)].last = p.t
        /\ \A x, y : D!Carried(fs, <<x, y>>) =
             D!Carried(flows, <<x, y>>) + IF <<x, y>> = D!Way(p) THEN 1 ELSE 0
    BY WithIs
  <2> HIDE DEF fs
  <2>6. \A w \in DOMAIN told : told[w] \in Nat
    BY DEF FlowsOK
  <2>7. /\ IsFlows(flows)' /\ DOMAIN flows' \subseteq DOMAIN fs
        /\ \A k \in DOMAIN flows' : flows'[k] = fs[k]
        /\ \A w \in DOMAIN told' : told'[w] \in Nat
        /\ \A x, y : D!Or0(told', <<x, y>>) + D!Carried(flows', <<x, y>>) =
                     D!Or0(told, <<x, y>>) + D!Carried(fs, <<x, y>>)
        /\ D!Expire(fs, p.t) => \A k \in DOMAIN flows' : ~(fs[k].last <= p.t - Idle)
    BY <2>4, <2>5, <2>6, Swept
  <2>8. IsFiniteSet(DOMAIN flows') /\ Cardinality(DOMAIN flows') <= MaxFlows
    <3>1. IsFiniteSet(DOMAIN flows) /\ Cardinality(DOMAIN flows) <= MaxFlows
      BY DEF FlowsOK
    <3>2. DOMAIN flows' \in SUBSET (DOMAIN flows \cup {D!Key(p)})
      BY <2>5, <2>7
    <3> QED BY <1>0, <1>2, <3>1, <3>2, RoomIs
  <2>9. /\ \A w : w = D!Way(p) => \E x, y : w = <<x, y>>
        /\ \A w \in DOMAIN counted : counted[w] \in Nat /\ \E x, y : w = <<x, y>>
    BY DEF D!Way, FlowsOK
  <2>10. /\ DOMAIN D!Added(counted, D!Way(p), 1) = DOMAIN counted \cup {D!Way(p)}
         /\ \A w \in DOMAIN D!Added(counted, D!Way(p), 1) :
              D!Added(counted, D!Way(p), 1)[w] = IF w = D!Way(p) THEN D!Or0(counted, w) + 1 ELSE counted[w]
    BY DEF D!Added, D!With
  <2>11. \A w : D!Or0(counted, w) \in Nat /\ D!Or0(told, w) \in Nat
    BY <2>6, <2>9 DEF D!Or0
  <2>12. \A w \in DOMAIN counted' : counted'[w] \in Nat /\ \E x, y : w = <<x, y>>
    BY <2>2, <2>9, <2>10, <2>11
  <2>13. FlowsOK'
    <3>1. swept' \in Nat /\ seen'.at \in Nat /\ seen'.refused \in BOOLEAN
      BY <1>0, <2>1, <2>3
    <3> QED BY <2>7, <2>8, <2>12, <3>1 DEF FlowsOK, IsFlows
  <2>14. Balanced'
    <3>1. CASE ~Ghosts
      BY <2>2, <3>1 DEF Balanced
    <3>2. CASE Ghosts
      <4>1. ASSUME NEW w
            PROVE  D!Or0(counted', w) = D!Or0(counted, w) + IF w = D!Way(p) THEN 1 ELSE 0
        <5>1. counted' = D!Added(counted, D!Way(p), 1)
          BY <2>2, <3>2
        <5>2. CASE w = D!Way(p)
          BY <2>10, <2>11, <5>1, <5>2 DEF D!Or0
        <5>3. CASE w # D!Way(p)
          BY <2>10, <2>11, <5>1, <5>3 DEF D!Or0
        <5> QED BY <5>2, <5>3
      <4>2. ASSUME NEW x, NEW y
            PROVE  D!Or0(counted', <<x, y>>) = D!Or0(told', <<x, y>>) + D!Carried(flows', <<x, y>>)
        <5>1. D!Or0(counted, <<x, y>>) = D!Or0(told, <<x, y>>) + D!Carried(flows, <<x, y>>)
          BY <3>2 DEF Balanced
        <5>2. IsFlows(flows)
          BY DEF IsFlows, FlowsOK
        <5>3. D!Carried(flows, <<x, y>>) \in Nat
          BY <5>2, CarriedIs
        <5> DEFINE one == IF <<x, y>> = D!Way(p) THEN 1 ELSE 0
        <5>4. /\ D!Or0(counted', <<x, y>>) = D!Or0(counted, <<x, y>>) + one
              /\ D!Carried(fs, <<x, y>>) = D!Carried(flows, <<x, y>>) + one
              /\ one \in Nat
          BY <2>5, <4>1
        <5>5. D!Or0(told', <<x, y>>) + D!Carried(flows', <<x, y>>) =
              D!Or0(told, <<x, y>>) + D!Carried(fs, <<x, y>>)
          BY <2>7
        <5> HIDE DEF one
        <5> QED BY <2>11, <5>1, <5>3, <5>4, <5>5
      <4> QED BY <3>2, <4>2 DEF Balanced
    <3> QED BY <1>0, <3>1, <3>2
  <2>15. swept <= p.t => swept' = p.t
    BY <1>0, <2>3
  <2>16. ASSUME \A k \in DOMAIN flows : flows[k].last > swept - Idle, swept <= p.t, NEW k \in DOMAIN flows'
         PROVE  flows'[k].last > swept' - Idle
    <3>1. flows'[k] = fs[k] /\ k \in DOMAIN fs /\ fs[k].last \in Nat
      BY <2>5, <2>7 DEF IsFlows, IsFlow
    <3>2. CASE p.t > swept
      BY <1>0, <2>4, <2>7, <2>15, <2>16, <3>1, <3>2
    <3>3. CASE ~(p.t > swept)
      <4>1. swept = p.t
        BY <1>0, <2>16, <3>3
      <4>2. fs[k].last > p.t - Idle
        BY <1>0, <2>5, <2>16, <3>1, <4>1
      <4> QED BY <2>15, <2>16, <3>1, <4>2
    <3> QED BY <3>2, <3>3
  <2> QED BY <1>0, <2>1, <2>13, <2>14, <2>15, <2>16
<1> QED
  BY <1>1, <1>2

LEMMA FlowsFlushed ==
  ASSUME FlowsOK, Balanced, D!Flush
  PROVE  FlowsOK' /\ Balanced' /\ DOMAIN flows' = {}
<1>1. /\ flows' = <<>> /\ told' = D!Records(flows)
      /\ swept' = swept /\ counted' = counted /\ seen' = seen
  BY DEF D!Flush
<1>2. DOMAIN flows' = {}
  BY <1>1
<1>3. IsFlows(flows) /\ \A w \in DOMAIN told : told[w] \in Nat
  BY DEF IsFlows, FlowsOK
<1>4. /\ \A w \in DOMAIN told' : told'[w] \in Nat
      /\ \A x, y : D!Or0(told', <<x, y>>) = D!Or0(told, <<x, y>>) + D!Carried(flows, <<x, y>>)
  BY <1>1, <1>3, RecordsAdd
<1>5. IsFiniteSet(DOMAIN flows') /\ Cardinality(DOMAIN flows') = 0
  BY <1>2, FS_EmptySet
<1>6. FlowsOK'
  BY <1>1, <1>2, <1>4, <1>5, DatagramAssumption DEF FlowsOK
<1>7. Balanced'
  <2>1. ASSUME NEW x, NEW y
        PROVE  D!Or0(told', <<x, y>>) + D!Carried(flows', <<x, y>>) =
               D!Or0(told, <<x, y>>) + D!Carried(flows, <<x, y>>)
    <3>1. D!Carried(flows', <<x, y>>) = 0
      BY <1>2, CarriedBy
    <3>2. D!Or0(told, <<x, y>>) \in Nat /\ D!Carried(flows, <<x, y>>) \in Nat
      BY <1>3, CarriedIs DEF D!Or0
    <3>3. D!Or0(told', <<x, y>>) = D!Or0(told, <<x, y>>) + D!Carried(flows, <<x, y>>)
      BY <1>4
    <3> QED BY <3>1, <3>2, <3>3
  <2> QED BY <1>1, <2>1 DEF Balanced
<1> QED
  BY <1>2, <1>6, <1>7

-----------------------------------------------------------------------------
(* A step that sends no packet: the worker stops and reports, or nothing   *)
(* happens.                                                                *)

Idles ==
  /\ setting' = setting /\ log' = log /\ pairs' = pairs /\ latest' = latest /\ flushed' = flushed
  /\ DOMAIN stats' = DOMAIN stats /\ \A s \in DOMAIN stats : Same(stats'[s], stats[s])
  /\ \A s \in DOMAIN stats : stats'[s].volume > 0 => stats[s].volume > 0
  /\ \A s, t : Told(s, t)' = Told(s, t)

LEMMA LogStands ==
  ASSUME Idles
  PROVE  /\ Clock' = Clock /\ (Ordered' <=> Ordered) /\ Window' = Window
         /\ \A i : Recent(i)' <=> Recent(i)
         /\ \A s : Sent(s)' = Sent(s) /\ Flooded(s)' = Flooded(s)
         /\ \A s, d : Probing(s, d)' = Probing(s, d) /\ Scanning(s, d)' = Scanning(s, d)
         /\ \A s, t : SentAt(s, t)' = SentAt(s, t)
<1>1. log' = log /\ setting' = setting
  BY DEF Idles
<1> QED
  BY <1>1 DEF Clock, Ordered, Window, Recent, Sent, Flooded, Probing, Scanning, SentAt

LEMMA RecallStands ==
  ASSUME Idles, Recalled
  PROVE  Recalled'
<1>1. /\ log' = log /\ DOMAIN stats' = DOMAIN stats
      /\ \A s \in DOMAIN stats :
           /\ stats'[s].bucket = stats[s].bucket /\ stats'[s].dsts = stats[s].dsts
           /\ stats'[s].seen = stats[s].seen /\ stats'[s].flood = stats[s].flood
  BY DEF Idles, Same
<1>2. SourcesKept'
  BY <1>1, LogStands DEF Recalled, SourcesKept
<1>3. BucketsTrue'
  <2>1. ASSUME NEW s \in DOMAIN stats', NEW b \in 0 .. Window - 1, NEW e, e = stats'[s].bucket[b]
        PROVE  e.sec <= Clock' /\ (e.sec > Clock' - Window /\ e.n # 0 => e.sec % Window = b /\ e.n = SentAt(s, e.sec)')
    <3>1. e.sec <= Clock /\ (e.sec > Clock - Window /\ e.n # 0 => e.sec % Window = b /\ e.n = SentAt(s, e.sec))
      BY <1>1, <2>1 DEF Recalled, BucketsTrue
    <3>2. \A t : SentAt(s, t)' = SentAt(s, t)
      BY LogStands
    <3>3. SentAt(s, e.sec)' = SentAt(s, e.sec)
      BY <3>2
    <3> QED BY <3>1, <3>3, LogStands
  <2>2. ASSUME NEW i \in DOMAIN log', log'[i].admitted, Recent(i)', NEW s, NEW t, s = log'[i].p.src, t = log'[i].p.t
        PROVE  stats'[s].bucket[t % Window] = [sec |-> t, n |-> SentAt(s, t)']
    <3>1. i \in DOMAIN log /\ log[i].admitted /\ Recent(i) /\ s = log[i].p.src /\ t = log[i].p.t
      BY <1>1, <2>2, LogStands
    <3>2. stats[s].bucket[t % Window] = [sec |-> t, n |-> SentAt(s, t)] /\ s \in DOMAIN stats
      BY <3>1 DEF Recalled, BucketsTrue, SourcesKept
    <3>3. SentAt(s, t)' = SentAt(s, t)
      BY LogStands
    <3> QED BY <1>1, <3>2, <3>3
  <2>3. Window' = Window
    BY LogStands
  <2> QED BY <2>1, <2>2, <2>3 DEF BucketsTrue
<1>4. FloodsKnown'
  BY <1>1, LogStands DEF Recalled, FloodsKnown, Alarm
<1>5. DstsKept'
  BY <1>1, LogStands DEF Recalled, DstsKept, Alarm
<1>6. PortsTrue'
  <2>1. Clock' = Clock /\ Window' = Window /\ (\A i : Recent(i)' <=> Recent(i))
        /\ \A s, d : Probing(s, d)' = Probing(s, d)
    BY LogStands
  <2>2. ASSUME NEW s \in DOMAIN stats', NEW d \in DOMAIN stats'[s].dsts, NEW x \in Probes
        PROVE  LET e == stats'[s].dsts[d]
                   ports == e.ports[x]
               IN  /\ e.pruned[x] <= Clock'
                   /\ \A q \in DOMAIN ports :
                        /\ e.pruned[x] - Window' < ports[q]
                        /\ \E i \in Probing(s, d)' : log'[i].p.proto = x /\ log'[i].p.dport = q /\ log'[i].p.t = ports[q]
                   /\ \A i \in Probing(s, d)' : log'[i].p.proto = x /\ Recent(i)' =>
                        log'[i].p.dport \in DOMAIN ports /\ log'[i].p.t <= ports[log'[i].p.dport]
    <3> DEFINE T == Probing(s, d)
               e == stats[s].dsts[d]
               ports == e.ports[x]
    <3>1. s \in DOMAIN stats /\ d \in DOMAIN stats[s].dsts /\ stats'[s].dsts = stats[s].dsts
      BY <1>1
    <3>2. /\ e.pruned[x] <= Clock
          /\ \A q \in DOMAIN ports :
               /\ e.pruned[x] - Window < ports[q]
               /\ \E i \in T : log[i].p.proto = x /\ log[i].p.dport = q /\ log[i].p.t = ports[q]
          /\ \A i \in T : log[i].p.proto = x /\ Recent(i) =>
               log[i].p.dport \in DOMAIN ports /\ log[i].p.t <= ports[log[i].p.dport]
      BY <3>1 DEF Recalled, PortsTrue
    <3>3. Probing(s, d)' = T /\ stats'[s].dsts[d] = e /\ log' = log
      BY <1>1, <2>1, <3>1
    <3> HIDE DEF T, e
    <3> QED BY <2>1, <3>2, <3>3
  <2> QED BY <2>2 DEF PortsTrue
<1> QED
  BY <1>2, <1>3, <1>4, <1>5, <1>6 DEF Recalled

LEMMA ToldStands ==
  ASSUME Idles
  PROVE  /\ InOrder => InOrder'
         /\ MarksTrue => MarksTrue'
         /\ PairsTrue => PairsTrue'
         /\ FloodsTrue => FloodsTrue'
         /\ ScansTrue => ScansTrue'
         /\ RepliesKnown => RepliesKnown'
<1>1. log' = log /\ setting' = setting /\ pairs' = pairs
  BY DEF Idles
<1>2. InOrder => InOrder'
  BY <1>1 DEF InOrder, Ordered
<1>3. MarksTrue => MarksTrue'
  BY <1>1 DEF MarksTrue
<1>4. PairsTrue => PairsTrue'
  BY <1>1 DEF PairsTrue, Ordered, Recent, Clock, Window
<1>5. FloodsTrue => FloodsTrue'
  BY <1>1 DEF FloodsTrue, Latest, Earlier, Within, Fresh, Window, Lately, Sent
<1>6. ScansTrue => ScansTrue'
  BY <1>1 DEF ScansTrue, Tried, Latest, Earlier, Within, Fresh, Window, Lately, Alike
<1>7. RepliesKnown => RepliesKnown'
  BY <1>1 DEF RepliesKnown, Asked, Latest, Earlier, Window
<1> QED
  BY <1>2, <1>3, <1>4, <1>5, <1>6, <1>7

LEMMA VolumeStands ==
  ASSUME Idles
  PROVE  InSecond /\ Lost /\ TablesBounded => InSecond' /\ Lost' /\ TablesBounded'
<1>1. /\ setting' = setting /\ log' = log /\ pairs' = pairs /\ latest' = latest /\ flushed' = flushed
      /\ DOMAIN stats' = DOMAIN stats
      /\ \A s \in DOMAIN stats :
           /\ stats'[s].dsts = stats[s].dsts /\ stats'[s].seen = stats[s].seen
           /\ stats'[s].volSec = stats[s].volSec
           /\ stats'[s].volume > 0 => stats[s].volume > 0
      /\ \A s, t : Told(s, t)' = Told(s, t)
  BY DEF Idles, Same
<1>2. InSecond => InSecond'
  BY <1>1, LogStands DEF InSecond
<1>3. Lost => Lost'
  BY <1>1, LogStands DEF Lost, AdmittedBetween
<1>4. TablesBounded => TablesBounded'
  BY <1>1 DEF TablesBounded
<1> QED
  BY <1>2, <1>3, <1>4

LEMMA FlushIdles ==
  ASSUME TypeOK, Listed, FlushAll
  PROVE  /\ Idles /\ IsTable(stats') /\ IsReport(reported') /\ IsList(active') /\ Listed'
<1> DEFINE gone == Ended(stats, active, latest, TRUE)
<1>1. /\ stats' = Flushed(stats, gone) /\ active' = Still(stats, active, gone)
      /\ reported' = FlushReport(stats, reported, gone)
      /\ setting' = setting /\ pairs' = pairs /\ log' = log /\ latest' = latest /\ flushed' = flushed
  BY DEF FlushAll, FlushVolume
<1>2. IsTable(stats) /\ IsList(active) /\ IsReport(reported) /\ ListedIn(stats, active)
  BY DEF TypeOK, IsTable, IsList, IsReport, ListedIn, Listed
<1>3. gone \in SUBSET DOMAIN stats
  BY DEF Ended
<1> HIDE DEF gone
<1>4. /\ \A s, t : ToldBy(reported', stats', s, t) = ToldBy(reported, stats, s, t)
      /\ IsReport(reported') /\ IsList(active') /\ ListedIn(stats', active')
      /\ \A s \in DOMAIN stats : stats'[s].volume = IF s \in gone THEN 0 ELSE stats[s].volume
  BY <1>1, <1>2, <1>3, FlushTells
<1>5. DOMAIN stats' = DOMAIN stats /\ IsTable(stats') /\ \A s \in DOMAIN stats : Same(stats'[s], stats[s])
  BY <1>1, <1>2, FlushedIs
<1>6. \A s, t : Told(s, t)' = Told(s, t)
  BY <1>4 DEF Told, ToldBy
<1>7. \A s \in DOMAIN stats : stats'[s].volume > 0 => stats[s].volume > 0
  BY <1>4
<1>8. Idles
  BY <1>1, <1>5, <1>6, <1>7 DEF Idles
<1>9. Listed'
  BY <1>4 DEF Listed, ListedIn
<1> QED
  BY <1>4, <1>5, <1>8, <1>9

-----------------------------------------------------------------------------
(* The inductive invariant: the tables are true of the log, whatever was   *)
(* swept or refused, and what was said of each packet was so when it came. *)
(* Packets that come late would undo what is remembered, but not what is   *)
(* told of volume and conversations.                                       *)
TablesTrue ==
  /\ TypeOK /\ InOrder /\ (Ordered => Recalled) /\ MarksTrue /\ PairsTrue
  /\ Listed /\ InSecond /\ Lost /\ TablesBounded
SaidTrue == FloodsTrue /\ ScansTrue /\ RepliesKnown
FlowsTrue == FlowsOK /\ Balanced /\ Quiet
IInv == TablesTrue /\ SaidTrue /\ FlowsTrue

LEMMA InitTrue == WorkerInit => IInv
<1> SUFFICES ASSUME WorkerInit
             PROVE  IInv
  OBVIOUS
<1>1. /\ setting \in Settings /\ stats = <<>> /\ pairs = <<>> /\ active = <<>>
      /\ latest = 0 /\ flushed = 0 /\ reported = <<>> /\ log = <<>>
      /\ flows = <<>> /\ swept = 0 /\ counted = <<>> /\ told = <<>>
      /\ seen = [at |-> 0, refused |-> FALSE]
  BY DEF WorkerInit, Init, D!Init
<1>2. /\ DOMAIN stats = {} /\ DOMAIN pairs = {} /\ DOMAIN active = {} /\ DOMAIN reported = {} /\ DOMAIN log = {}
      /\ DOMAIN flows = {} /\ DOMAIN counted = {} /\ DOMAIN told = {}
  BY <1>1
<1>3. IsFiniteSet({}) /\ Cardinality({}) = 0
  BY FS_EmptySet
<1>4. /\ setting.maxSources \in Nat /\ setting.maxPairs \in Nat /\ setting.late \in Nat
      /\ Window \in Nat /\ Window > 0
  BY <1>1, SettingIs
<1>5. MaxFlows \in Nat /\ Idle \in Nat /\ Idle > 0
  BY DatagramAssumption
<1>6. TypeOK
  BY <1>1, <1>2, <1>3 DEF TypeOK
<1>7. \A s : Sent(s) = {}
  BY <1>2 DEF Sent
<1>8. \A s, t : SentAt(s, t) = 0 /\ Told(s, t) = 0
  <2>1. ASSUME NEW s, NEW t PROVE SentAt(s, t) = 0
    <3>1. {i \in Sent(s) : log[i].p.t = t} = {}
      BY <1>7
    <3> QED BY <1>3, <3>1 DEF SentAt
  <2>2. ASSUME NEW s, NEW t PROVE Told(s, t) = 0
    <3>1. Of(reported, <<s, t>>) = 0 /\ Waiting(stats, s, t) = 0
      BY <1>2 DEF Of, Waiting
    <3>2. Told(s, t) = 0 + 0
      BY <3>1 DEF Told
    <3> QED BY <3>2
  <2> QED BY <2>1, <2>2
<1>9. InOrder /\ MarksTrue /\ PairsTrue /\ Listed
  BY <1>2 DEF InOrder, MarksTrue, PairsTrue, Listed
<1>10. Recalled
  BY <1>2 DEF Recalled, SourcesKept, BucketsTrue, FloodsKnown, DstsKept, PortsTrue
<1>11. Clock = 0
  BY <1>1 DEF Clock
<1>12. InSecond /\ Lost
  BY <1>1, <1>2, <1>8, <1>11 DEF InSecond, Lost
<1>13. TablesBounded
  BY <1>2, <1>3, <1>4 DEF TablesBounded
<1>14. SaidTrue
  BY <1>1 DEF SaidTrue, FloodsTrue, ScansTrue, RepliesKnown
<1>15. FlowsOK
  BY <1>1, <1>2, <1>3, <1>5 DEF FlowsOK
<1>16. Balanced
  <2>1. \A x, y : D!Carried(flows, <<x, y>>) = 0
    BY <1>2, CarriedBy
  <2>2. \A w : D!Or0(counted, w) = 0 /\ D!Or0(told, w) = 0
    BY <1>2 DEF D!Or0
  <2> QED BY <1>2, <2>1, <2>2 DEF Balanced
<1>17. Quiet
  BY <1>1, <1>2, <1>11 DEF Quiet
<1> QED
  BY <1>6, <1>9, <1>10, <1>12, <1>13, <1>14, <1>15, <1>16, <1>17 DEF IInv, TablesTrue, FlowsTrue

LEMMA TypesNext ==
  ASSUME IsTable(stats'), setting' = setting, setting \in Settings, log' \in Seq(Mark),
         IsFiniteSet(DOMAIN pairs'), \A k \in DOMAIN pairs' : pairs'[k] \in Nat,
         IsList(active'), IsReport(reported'), latest' \in Nat, flushed' \in Nat
  PROVE  TypeOK'
<1>1. ASSUME NEW s \in DOMAIN stats'
      PROVE  IsSource(stats[s])'
  <2>1. IsSource(stats'[s])
    BY DEF IsTable
  <2> QED BY <2>1 DEF IsSource, Window, IsDst
<1> QED
  BY <1>1 DEF TypeOK, IsTable, IsList, IsReport, Mark, Stamped

LEMMA PacketKeepsTrue ==
  ASSUME IInv, NEW p \in Stamped, NEW sweep \in Sweeps, Observe(p, sweep),
         \/ UNCHANGED tables
         \/ D!Observe(p)
  PROVE  IInv'
<1> USE DEF IInv, TablesTrue, SaidTrue, FlowsTrue
<1>1. Logged(p)
  BY LogAfter
<1>2. IsTable(stats') /\ Tabled(p)
  BY TableAfter
<1>3. setting' = setting /\ log' \in Seq(Mark) /\ ObservePair(p, sweep)
  BY <1>1 DEF Logged, Observe
<1>4. PairsTrue' /\ IsFiniteSet(DOMAIN pairs') /\ \A k \in DOMAIN pairs' : pairs'[k] \in Nat
  BY <1>1, <1>3, PairsStayTrue
<1>5. /\ Listed' /\ InSecond' /\ Lost'
      /\ IsReport(reported') /\ IsList(active') /\ latest' \in Nat /\ flushed' \in Nat
  BY <1>1, VolumeStays
<1>6. TypeOK'
  BY <1>2, <1>3, <1>4, <1>5, TypesNext DEF TypeOK
<1>7. Ordered' <=> Ordered
  BY <1>3 DEF Ordered
<1>8. Ordered => InOrder' /\ Clock <= p.t
  BY <1>1, TimeMovesOn
<1>9. InOrder'
  BY <1>7, <1>8 DEF InOrder
<1>10. ASSUME Ordered PROVE Recalled'
  <2>1. SourcesKept'
    BY <1>1, <1>2, <1>10, SourcesStayKept DEF Recalled
  <2>2. BucketsTrue'
    BY <1>1, <1>2, <1>10, BucketsStayTrue DEF Recalled
  <2>3. FloodsKnown'
    BY <1>1, <1>2, <1>10, FloodsStayKnown DEF Recalled
  <2>4. DstsKept'
    BY <1>1, <1>2, <1>10, DstsStayKept
  <2>5. PortsTrue'
    BY <1>1, <1>2, <1>10, PortsStayTrue
  <2> QED BY <2>1, <2>2, <2>3, <2>4, <2>5 DEF Recalled
<1>11. MarksTrue'
  BY <1>1, MarksKept
<1>12. TablesBounded'
  BY <1>2, TablesStayBounded
<1>13. FloodsTrue' /\ ScansTrue' /\ RepliesKnown'
  BY <1>1, <1>2, FloodsToldTrue, ScansToldTrue, RepliesToldTrue
<1>14. FlowsOK' /\ Balanced' /\ Quiet'
  <2>1. Clock' = p.t /\ p.t \in Nat /\ Clock \in Nat
    <3>1. \A n : n = Len(log) => Clock' = p.t /\ p.t \in Nat /\ Clock \in Nat
      BY <1>1, LogGrows
    <3> QED BY <3>1
  <2>2. swept \in Nat /\ Idle \in Nat
    BY DatagramAssumption DEF FlowsOK
  <2>3. CASE UNCHANGED tables
    <3>1. flows' = flows /\ swept' = swept /\ counted' = counted /\ told' = told /\ seen' = seen
      BY <2>3 DEF tables
    <3>2. FlowsOK' /\ Balanced'
      BY <3>1 DEF FlowsOK, Balanced
    <3>3. Quiet'
      BY <1>7, <1>8, <2>1, <2>2, <3>1 DEF Quiet
    <3> QED BY <3>2, <3>3
  <2>4. CASE D!Observe(p)
    <3>1. /\ FlowsOK' /\ Balanced'
          /\ swept <= p.t => swept' <= p.t /\ (~seen'.refused => seen'.at <= swept')
          /\ (\A k \in DOMAIN flows : flows[k].last > swept - Idle) /\ swept <= p.t =>
               \A k \in DOMAIN flows' : flows'[k].last > swept' - Idle
      BY <2>4, FlowsAfter
    <3>2. Ordered => swept <= p.t /\ \A k \in DOMAIN flows : flows[k].last > swept - Idle
      BY <1>8, <2>1, <2>2 DEF Quiet
    <3>3. Quiet'
      BY <1>7, <2>1, <3>1, <3>2 DEF Quiet
    <3> QED BY <3>1, <3>3
  <2> QED BY <2>3, <2>4
<1> QED
  BY <1>4, <1>5, <1>6, <1>7, <1>9, <1>10, <1>11, <1>12, <1>13, <1>14

LEMMA IdlingKeepsTrue ==
  ASSUME TablesTrue, SaidTrue, Idles, TypeOK', Listed'
  PROVE  TablesTrue' /\ SaidTrue'
<1>1. Ordered' <=> Ordered
  BY LogStands
<1>2. Ordered => Recalled'
  BY RecallStands DEF TablesTrue
<1> QED
  BY <1>1, <1>2, ToldStands, VolumeStands DEF TablesTrue, SaidTrue

LEMMA StopKeepsTrue ==
  ASSUME IInv, WorkerStop
  PROVE  IInv'
<1>1. FlushAll /\ D!Flush
  BY DEF WorkerStop
<1>2. Idles /\ IsTable(stats') /\ IsReport(reported') /\ IsList(active') /\ Listed'
  BY <1>1, FlushIdles DEF IInv, TablesTrue
<1>3. TypeOK'
  BY <1>2, TypesNext DEF IInv, TablesTrue, TypeOK, Idles
<1>4. FlowsOK' /\ Balanced' /\ DOMAIN flows' = {}
  BY <1>1, FlowsFlushed DEF IInv, FlowsTrue
<1>5. Quiet'
  <2>1. swept' = swept /\ seen' = seen
    BY <1>1 DEF D!Flush
  <2>2. Clock' = Clock /\ (Ordered' <=> Ordered)
    BY <1>2, LogStands
  <2> QED BY <1>4, <2>1, <2>2 DEF IInv, FlowsTrue, Quiet
<1> QED
  BY <1>2, <1>3, <1>4, <1>5, IdlingKeepsTrue DEF IInv, FlowsTrue

LEMMA StutterKeepsTrue ==
  ASSUME IInv, UNCHANGED allVars
  PROVE  IInv'
<1>1. /\ setting' = setting /\ log' = log /\ pairs' = pairs /\ latest' = latest /\ flushed' = flushed
      /\ stats' = stats /\ active' = active /\ reported' = reported
      /\ flows' = flows /\ swept' = swept /\ counted' = counted /\ told' = told /\ seen' = seen
  BY DEF allVars, vars, tables
<1>2. \A s, t : Told(s, t)' = Told(s, t)
  BY <1>1 DEF Told
<1>3. Idles
  BY <1>1, <1>2 DEF Idles, Same
<1>4. TypeOK' /\ Listed'
  <2>1. Listed'
    BY <1>1 DEF IInv, TablesTrue, Listed
  <2>2. IsTable(stats') /\ IsList(active') /\ IsReport(reported')
    BY <1>1 DEF IInv, TablesTrue, TypeOK, IsTable, IsList, IsReport
  <2> QED BY <1>1, <2>1, <2>2, TypesNext DEF IInv, TablesTrue, TypeOK
<1>5. FlowsTrue'
  BY <1>1 DEF IInv, FlowsTrue, FlowsOK, Balanced, Quiet, Ordered, Clock
<1> QED
  BY <1>3, <1>4, <1>5, IdlingKeepsTrue DEF IInv

LEMMA StepKeepsTrue == IInv /\ [WorkerNext]_allVars => IInv'
<1> SUFFICES ASSUME IInv, [WorkerNext]_allVars
             PROVE  IInv'
  OBVIOUS
<1>1. CASE WorkerPacket
  <2>1. PICK p \in setting.packets : \E sweep \in Sweeps, t \in Times :
          LET q == [p EXCEPT !.t = t]
          IN  Observe(q, sweep) /\ IF q.proto = "tcp" THEN UNCHANGED tables ELSE D!Observe(q)
    BY <1>1 DEF WorkerPacket
  <2>2. PICK sweep \in Sweeps, t \in Times :
          LET q == [p EXCEPT !.t = t]
          IN  Observe(q, sweep) /\ IF q.proto = "tcp" THEN UNCHANGED tables ELSE D!Observe(q)
    BY <2>1
  <2> DEFINE q == [p EXCEPT !.t = t]
  <2>3. q \in Stamped
    BY StampedIs DEF IInv, TablesTrue, TypeOK
  <2>4. Observe(q, sweep) /\ (UNCHANGED tables \/ D!Observe(q))
    BY <2>2
  <2> HIDE DEF q
  <2> QED BY <2>3, <2>4, PacketKeepsTrue
<1>2. CASE WorkerStop
  BY <1>2, StopKeepsTrue
<1>3. CASE UNCHANGED allVars
  BY <1>3, StutterKeepsTrue
<1> QED
  BY <1>1, <1>2, <1>3 DEF WorkerNext

LEMMA AlwaysTrue == WorkerSpec => []IInv
BY InitTrue, StepKeepsTrue, PTL DEF WorkerSpec

-----------------------------------------------------------------------------
(* What the worker says of the recent past. *)

(* For any window, limits and sources: while packets come in order, a      *)
(* flood is reported exactly when the packets of the window pass the limit *)
(* and no report is younger than the interval: the ring of buckets, the    *)
(* sweeps and the refusals of AnomalyEngine lose none and invent none.     *)
THEOREM FloodsAlwaysTrue == WorkerSpec => []FloodsTrue
<1>1. IInv => FloodsTrue
  BY DEF IInv, SaidTrue
<1> QED
  BY <1>1, AlwaysTrue, PTL

(* And a scan exactly when the ports tried in the window, at one           *)
(* destination and in one protocol, are more than the limit, though ports  *)
(* are pruned once a second and destinations are forgotten.                *)
THEOREM ScansAlwaysTrue == WorkerSpec => []ScansTrue
<1>1. IInv => ScansTrue
  BY DEF IInv, SaidTrue
<1> QED
  BY <1>1, AlwaysTrue, PTL

(* A datagram UdpPairTracker takes for an answer answers one of the window *)
(* and, in order, an answer within the window is always known.             *)
THEOREM RepliesAlwaysKnown == WorkerSpec => []RepliesKnown
<1>1. IInv => RepliesKnown
  BY DEF IInv, SaidTrue
<1> QED
  BY <1>1, AlwaysTrue, PTL

(* Packets counted for the aggregator are reported at most once, and in    *)
(* order all of them are or wait to be, but those of a source forgotten    *)
(* after a window in which the worker admitted nothing.                    *)
THEOREM VolumeAlwaysReported == WorkerSpec => []VolumeReported
<1>1. IInv => VolumeReported
  BY AnomalyAssumption DEF IInv, TablesTrue, InSecond, Lost, VolumeReported, Ordered
<1> QED
  BY <1>1, AlwaysTrue, PTL

(* The tables never pass their bounds, whatever is refused; every datagram *)
(* DatagramFlows admits is in one record or in one conversation, in its    *)
(* own direction; and in order no silent conversation is left behind.      *)
THEOREM ConversationsAlwaysTrue == WorkerSpec => []ConversationsTrue
<1>1. ASSUME IInv
      PROVE  ConversationsTrue
  <2>1. TablesBounded /\ FlowsOK /\ Balanced /\ Quiet
    BY <1>1 DEF IInv, TablesTrue, FlowsTrue
  <2>2. D!ConversationsCounted
    <3>1. ASSUME NEW w \in DOMAIN counted
          PROVE  counted[w] = D!Or0(told, w) + D!Carried(flows, w)
      <4>1. PICK x, y : w = <<x, y>>
        BY <2>1 DEF FlowsOK
      <4>2. Ghosts /\ D!Or0(counted, w) = D!Or0(told, w) + D!Carried(flows, w)
        BY <2>1, <4>1, DatagramAssumption DEF Balanced
      <4> QED BY <4>2 DEF D!Or0
    <3> QED BY <3>1 DEF D!ConversationsCounted
  <2>3. ASSUME setting.late = 0
        PROVE  D!SilentAreSwept
    <3>1. ASSUME ~seen.refused, NEW k \in DOMAIN flows
          PROVE  ~(flows[k].last <= seen.at - Idle)
      <4>1. seen.at <= swept /\ flows[k].last > swept - Idle
        BY <2>1, <2>3, <3>1 DEF Quiet, Ordered
      <4>2. seen.at \in Nat /\ swept \in Nat /\ flows[k].last \in Nat /\ Idle \in Nat
        BY <2>1, DatagramAssumption DEF FlowsOK, IsFlow
      <4> QED BY <4>1, <4>2
    <3> QED BY <3>1 DEF D!SilentAreSwept, D!Silent
  <2>4. Cardinality(DOMAIN flows) <= MaxFlows
    BY <2>1 DEF FlowsOK
  <2> QED BY <2>1, <2>2, <2>3, <2>4, SameCount DEF ConversationsTrue
<1> QED
  BY <1>1, AlwaysTrue, PTL
=============================================================================
