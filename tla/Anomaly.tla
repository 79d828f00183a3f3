------------------------------ MODULE Anomaly ------------------------------
(***************************************************************************)
(* One worker's anomaly engine (src/engine.rs, AnomalyEngine and           *)
(* UdpPairTracker): a rate per source in a ring of one-second buckets,     *)
(* ports tried per source and destination, replies of UDP told from        *)
(* probes, and packets counted for the behaviour engine.  Every table is   *)
(* bounded: it is swept when full, and then refuses.                       *)
(***************************************************************************)
EXTENDS Integers, Sequences, FiniteSets, SequencesExt, Functions

CONSTANTS
  Settings,    \* what one start of the program may be configured with
  Times,       \* seconds a packet may carry
  None

Probes == {"tcp", "udp"}
IsPacket(p) ==
  /\ p = [src |-> p.src, sport |-> p.sport, dst |-> p.dst, dport |-> p.dport,
          proto |-> p.proto, syn |-> p.syn, t |-> p.t]
  /\ p.sport \in Nat /\ p.dport \in Nat /\ p.proto \in Probes \cup {"icmp"} /\ p.syn \in BOOLEAN

(* The interval between alerts is a second and the window, an option, ten: *)
(* no source is forgotten while an alert about it is to be held back.      *)
ASSUME AnomalyAssumption ==
  /\ Times \subseteq Nat /\ None \notin Int
  /\ \A s \in Settings :
       /\ s.window \in Nat \ {0} /\ s.gap \in 0 .. s.window
       /\ {s.floodLimit, s.scanLimit, s.maxSources, s.maxDsts, s.maxPairs, s.late, s.maxPackets} \subseteq Nat
       /\ s.viaObservations \in BOOLEAN
       /\ \A p \in s.packets : IsPacket(p)

VARIABLES
  setting,     \* the options in force
  stats,       \* source -> what is kept of it, of the sources tracked
  pairs,       \* UDP conversation and direction -> second it was last seen
  active,      \* volume_active: source -> times it is listed, to be reported
  latest, flushed,
  reported,    \* <<source, second>> -> packets reported to the aggregator
  log          \* packets so far, with what was made of each

vars == <<setting, stats, pairs, active, latest, flushed, reported, log>>

Put(f, k, v) == [x \in DOMAIN f \cup {k} |-> IF x = k THEN v ELSE f[x]]
Window == setting.window
Fresh(t, now) == t > now - Window

NewSource(now) ==
  [bucket |-> [i \in 0 .. Window - 1 |-> [sec |-> 0, n |-> 0]],
   dsts |-> <<>>, seen |-> now, flood |-> None, volSec |-> now, volume |-> 0]
NewDst == [ports |-> [x \in Probes |-> <<>>], pruned |-> [x \in Probes |-> 0], seen |-> 0, alert |-> None]

Init ==
  /\ setting \in Settings
  /\ stats = <<>> /\ pairs = <<>> /\ active = <<>>
  /\ latest = 0 /\ flushed = 0 /\ reported = <<>> /\ log = <<>>

(***************************************************************************)
(* UdpPairTracker.  The reply is looked up before anything is swept.       *)
(***************************************************************************)
Pair(p) == <<p.src, p.sport, p.dst, p.dport>>
Answered(p) == <<p.dst, p.dport, p.src, p.sport>>
(* A slip: an answer of any age.                                           *)
ReplyOfAnyAge(p) == p.proto = "udp" /\ p.dport # 0 /\ Answered(p) \in DOMAIN pairs
IsReply(p) ==
  /\ p.proto = "udp" /\ p.dport # 0
  /\ Answered(p) \in DOMAIN pairs /\ p.t - pairs[Answered(p)] <= Window

FreshPairs(f, now) == Restrict(f, {k \in DOMAIN f : Fresh(f[k], now)})
FullOfOthers(f, k, max) == Cardinality(DOMAIN f) >= max /\ k \notin DOMAIN f
MadeRoom(p) == IF FullOfOthers(pairs, Pair(p), setting.maxPairs) THEN FreshPairs(pairs, p.t) ELSE pairs
Recorded(p) == p.proto = "udp" /\ p.dport # 0 /\ ~FullOfOthers(MadeRoom(p), Pair(p), setting.maxPairs)

ObservePair(p, sweep) ==
  IF Recorded(p)
  THEN LET f == Put(MadeRoom(p), Pair(p), p.t)
       IN  pairs' = IF "pairs" \in sweep THEN FreshPairs(f, p.t) ELSE f
  ELSE pairs' = IF p.proto = "udp" /\ p.dport # 0 THEN MadeRoom(p) ELSE pairs

(***************************************************************************)
(* The rate of a source.                                                   *)
(***************************************************************************)
FreshSources(f, now) == Restrict(f, {s \in DOMAIN f : Fresh(f[s].seen, now)})
SourcesFor(p) ==
  IF FullOfOthers(stats, p.src, setting.maxSources) THEN FreshSources(stats, p.t) ELSE stats
Admitted(p) == ~FullOfOthers(SourcesFor(p), p.src, setting.maxSources)

Entry(p) == IF p.src \in DOMAIN SourcesFor(p) THEN SourcesFor(p)[p.src] ELSE NewSource(p.t)

(* A slip: a bucket reused for a later second keeps its count.             *)
BumpedOver(bucket, now) ==
  [bucket EXCEPT ![now % Window] = [sec |-> now, n |-> @.n + 1]]
Bumped(bucket, now) ==
  LET i == now % Window
  IN  [bucket EXCEPT ![i] = [sec |-> now, n |-> IF @.sec = now THEN @.n + 1 ELSE 1]]
SumOf(bucket, size, cutoff) ==
  LET sum[i \in 0 .. size] ==
        IF i = 0 THEN 0 ELSE sum[i - 1] + IF bucket[i - 1].sec > cutoff THEN bucket[i - 1].n ELSE 0
  IN  sum[size]
Total(bucket, now) == SumOf(bucket, Window, now - Window)

Gated(last, now) == last # None /\ now - last < setting.gap
Floods(st, p) ==
  /\ ~setting.viaObservations
  /\ Total(Bumped(st.bucket, p.t), p.t) > setting.floodLimit
  /\ ~Gated(st.flood, p.t)

(***************************************************************************)
(* Ports tried at a destination.                                           *)
(***************************************************************************)
Attempt(p) ==
  /\ p.dport # 0
  /\ \/ p.proto = "tcp" /\ p.syn
     \/ p.proto = "udp" /\ ~IsReply(p)

DstsFor(st, p) ==
  IF FullOfOthers(st.dsts, p.dst, setting.maxDsts) THEN FreshSources(st.dsts, p.t) ELSE st.dsts
DstAdmitted(st, p) == ~FullOfOthers(DstsFor(st, p), p.dst, setting.maxDsts)

(* A slip: ports are only pruned when a window has passed since the last.  *)
TouchedRarely(d, p) ==
  LET ports == Put(d.ports[p.proto], p.dport, p.t)
      prune == d.pruned[p.proto] + Window <= p.t
  IN  [seen |-> p.t, alert |-> d.alert,
       ports |-> [d.ports EXCEPT ![p.proto] = IF prune THEN FreshPairs(ports, p.t) ELSE ports],
       pruned |-> [d.pruned EXCEPT ![p.proto] = IF prune THEN p.t ELSE @]]
Touched(d, p) ==
  LET ports == Put(d.ports[p.proto], p.dport, p.t)
      prune == p.t > d.pruned[p.proto]
  IN  [seen |-> p.t, alert |-> d.alert,
       ports |-> [d.ports EXCEPT ![p.proto] = IF prune THEN FreshPairs(ports, p.t) ELSE ports],
       pruned |-> [d.pruned EXCEPT ![p.proto] = IF prune THEN p.t ELSE @]]
DstEntry(st, p) ==
  Touched(IF p.dst \in DOMAIN DstsFor(st, p) THEN DstsFor(st, p)[p.dst] ELSE NewDst, p)

Scans(d, p) == Cardinality(DOMAIN d.ports[p.proto]) > setting.scanLimit /\ ~Gated(d.alert, p.t)

(* What one packet does to the entry of its source, ports last.            *)
Counted(p) ==
  LET st == Entry(p)
  IN  [bucket |-> Bumped(st.bucket, p.t), dsts |-> st.dsts, seen |-> p.t,
       flood |-> IF Floods(st, p) THEN p.t ELSE st.flood,
       volSec |-> IF setting.viaObservations THEN p.t ELSE st.volSec,
       volume |-> IF ~setting.viaObservations THEN st.volume
                  ELSE IF st.volSec # p.t THEN 1 ELSE st.volume + 1]
Tries(p) == Attempt(p) /\ DstAdmitted(Counted(p), p)
ScanFound(p) == Tries(p) /\ Scans(DstEntry(Counted(p), p), p)
DstsAfter(p) ==
  LET st == Counted(p)
      d  == DstEntry(st, p)
  IN  IF ~Attempt(p) THEN st.dsts
      ELSE IF ~DstAdmitted(st, p) THEN DstsFor(st, p)
      ELSE Put(DstsFor(st, p), p.dst, IF Scans(d, p) THEN [d EXCEPT !.alert = p.t] ELSE d)
Probed(p) == [Counted(p) EXCEPT !.dsts = DstsAfter(p)]

(***************************************************************************)
(* Volume for the aggregator: a source's count leaves when its second      *)
(* ends, either with the source's next packet or with the flush that the   *)
(* worker makes after each packet, once a second.                          *)
(***************************************************************************)
Of(f, k) == IF k \in DOMAIN f THEN f[k] ELSE 0
Waiting(f, s, t) == IF s \in DOMAIN f THEN IF f[s].volSec = t THEN f[s].volume ELSE 0 ELSE 0

Due(p) == setting.viaObservations /\ Entry(p).volume > 0 /\ Entry(p).volSec # p.t

(* A slip: the count of the second that ended is left to the flush.        *)
LeftToFlush(p) == reported
ReportedBy(p) ==
  LET k == <<p.src, Entry(p).volSec>>
  IN  IF Due(p) THEN Put(reported, k, Of(reported, k) + Entry(p).volume) ELSE reported
ActiveAfter(p) ==
  IF setting.viaObservations /\ (Entry(p).volume = 0 \/ Due(p))
  THEN Put(active, p.src, Of(active, p.src) + 1) ELSE active

(* flush_volume over the sources listed: one listed twice is reported      *)
(* once, and then no longer listed.                                        *)
Ended(f, act, newest, all) ==
  {s \in DOMAIN act \cap DOMAIN f : f[s].volume > 0 /\ (all \/ f[s].volSec < newest)}
Still(f, act, gone) == Restrict(act, {s \in DOMAIN act \cap DOMAIN f : f[s].volume > 0 /\ s \notin gone})
Flushed(f, gone) == [s \in DOMAIN f |-> IF s \in gone THEN [f[s] EXCEPT !.volume = 0] ELSE f[s]]
FlushReport(f, r, gone) ==
  [k \in DOMAIN r \cup {<<s, f[s].volSec>> : s \in gone} |->
     Of(r, k) + IF k[1] \in gone THEN Waiting(f, k[1], k[2]) ELSE 0]

FlushVolume(f, act, r, newest, all) ==
  LET gone == Ended(f, act, newest, all)
  IN  /\ stats' = Flushed(f, gone)
      /\ active' = Still(f, act, gone)
      /\ reported' = FlushReport(f, r, gone)

(* take_observations: flushes when the newest second has moved on.         *)
TakeObservations(f, act, r, newest) ==
  IF setting.viaObservations /\ newest # flushed
  THEN flushed' = newest /\ FlushVolume(f, act, r, newest, FALSE)
  ELSE stats' = f /\ active' = act /\ reported' = r /\ UNCHANGED flushed

Noted(p, admitted) ==
  log' = Append(log, [p |-> p, reply |-> IsReply(p), recorded |-> Recorded(p), admitted |-> admitted,
                      flood |-> admitted /\ Floods(Entry(p), p),
                      probe |-> admitted /\ Tries(p), scan |-> admitted /\ ScanFound(p)])

(* A packet and the drain that follows it.  Every 4096 packets, by its own *)
(* count, a table is swept besides: whenever that falls, and never after a *)
(* refusal.                                                                *)
Sweeps == SUBSET {"pairs", "sources"}
Sources(p, sweep) ==
  LET all == Put(SourcesFor(p), p.src, Probed(p))
  IN  IF "sources" \in sweep /\ ~(Attempt(p) /\ ~Tries(p)) THEN FreshSources(all, p.t) ELSE all
Newest(p) == IF setting.viaObservations /\ p.t > latest THEN p.t ELSE latest

Observe(p, sweep) ==
  /\ Len(log) < setting.maxPackets
  /\ log # <<>> => p.t >= Last(log).p.t - setting.late
  /\ ObservePair(p, sweep)
  /\ Noted(p, Admitted(p))
  /\ IF Admitted(p)
     THEN latest' = Newest(p) /\ TakeObservations(Sources(p, sweep), ActiveAfter(p), ReportedBy(p), Newest(p))
     ELSE latest' = latest /\ TakeObservations(SourcesFor(p), active, reported, latest)
  /\ UNCHANGED setting

(* The worker stops: everything counted is reported.                       *)
FlushAll == FlushVolume(stats, active, reported, latest, TRUE) /\ UNCHANGED <<setting, pairs, log, latest, flushed>>

-----------------------------------------------------------------------------
Latest == Last(log)
Earlier == 1 .. Len(log) - 1
Within(e, p) == Fresh(e.p.t, p.t)
Lately(e, p) == p.t - e.p.t < setting.gap
Sent(s) == {i \in DOMAIN log : log[i].admitted /\ log[i].p.src = s}

(* A flood is reported exactly when the source's packets of the window     *)
(* pass the limit and no report of it is younger than the gap: the ring of *)
(* reused buckets, the sweeps and the refusals lose none and invent none.  *)
FloodsTrue ==
  log # <<>> /\ Latest.admitted /\ ~setting.viaObservations /\ setting.late = 0 =>
    LET p == Latest.p
    IN  Latest.flood <=>
          /\ Cardinality({i \in Sent(p.src) : Within(log[i], p)}) > setting.floodLimit
          /\ ~\E i \in Earlier : log[i].flood /\ log[i].p.src = p.src /\ Lately(log[i], p)

(* A scan is reported exactly when the attempts of the window, of one      *)
(* source at one destination and in one protocol, are at more ports than   *)
(* the limit: pruning once a second leaves no stale port to be counted,    *)
(* and a forgotten destination had none that still counts.                 *)
Alike(e, p) == e.p.src = p.src /\ e.p.dst = p.dst
Tried(p) ==
  {log[i].p.dport : i \in {j \in DOMAIN log :
     log[j].probe /\ Alike(log[j], p) /\ log[j].p.proto = p.proto /\ Within(log[j], p)}}
ScansTrue ==
  log # <<>> /\ Latest.probe /\ setting.late = 0 =>
    LET p == Latest.p
    IN  Latest.scan <=>
          /\ Cardinality(Tried(p)) > setting.scanLimit
          /\ ~\E i \in Earlier : log[i].scan /\ Alike(log[i], p) /\ Lately(log[i], p)

(* A datagram answers one that was recorded within the window, and one     *)
(* that was recorded less than a window ago is always known: only at       *)
(* exactly a window's age do the lookup and the sweep disagree.  Nobody is *)
(* answered at port 0.                                                     *)
Asked(p, age) ==
  \E i \in Earlier : log[i].recorded /\ Pair(log[i].p) = Answered(p) /\ p.t - log[i].p.t <= age
RepliesKnown ==
  log # <<>> =>
    LET p == Latest.p
    IN  /\ Latest.reply => Asked(p, Window)
        /\ p.proto = "udp" /\ p.dport # 0 /\ setting.late = 0 /\ Asked(p, Window - 1) => Latest.reply

(* Packets counted for the aggregator are reported once each, in their     *)
(* second, or wait to be; those of a source that made room for another are *)
(* lost only if the worker admitted nothing for a window after them: a     *)
(* packet refused does not move the engine's clock, nor flush.             *)
SentAt(s, t) == Cardinality({i \in Sent(s) : log[i].p.t = t})
Told(s, t) == Of(reported, <<s, t>>) + Waiting(stats, s, t)
AdmittedBetween(a, b) == \E i \in DOMAIN log : log[i].admitted /\ a < log[i].p.t /\ log[i].p.t < b
VolumeReported ==
  setting.viaObservations =>
    \A s \in {log[i].p.src : i \in DOMAIN log}, t \in Times :
      /\ Told(s, t) <= SentAt(s, t)
      /\ Told(s, t) < SentAt(s, t) /\ setting.late = 0 => ~AdmittedBetween(t, t + Window)

(* Tables stay within their bounds, whatever is refused.                   *)
TablesBounded ==
  /\ Cardinality(DOMAIN stats) <= setting.maxSources
  /\ Cardinality(DOMAIN pairs) <= setting.maxPairs
  /\ \A s \in DOMAIN stats : Cardinality(DOMAIN stats[s].dsts) <= setting.maxDsts

(* A source is listed once among those with packets to report.             *)
ListedOnce == \A s \in DOMAIN active : active[s] = 1
=============================================================================
