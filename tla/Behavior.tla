------------------------------ MODULE Behavior ------------------------------
(***************************************************************************)
(* The behaviour engine of src/behavior.rs: one thread that the workers    *)
(* send observations to, because no worker sees all of a source's traffic, *)
(* and that counts over windows by source, by pair and by domain.          *)
(*                                                                         *)
(* Observations come in the order the workers were scheduled in.  The      *)
(* thread holds them, for a moment in a live capture and to the end in a   *)
(* replay, and gives them to the engine in the order of their times.  An   *)
(* alert is a category here, of what the observation is about; whether     *)
(* its channel takes it is in Pipeline.                                    *)
(***************************************************************************)
EXTENDS Integers, Sequences, FiniteSets, FiniteSetsExt, SequencesExt, TLC

CONSTANTS
  None,          \* Option::None
  Groups,        \* addresses that are multicast or broadcast
  Name,          \* names asked for in DNS, each a sequence of labels
  Encoded,       \* labels that make a subdomain long and random
  NameMax,       \* DNS_NAME_MAX, in labels
  Limit,         \* the thresholds of BehaviorConfig; see Limits
  Window, FloodWindow, Interval, FloodInterval, BeaconInterval,
  Samples, MinGaps,        \* Periodicity's
  MaxSources, MaxPairs, MaxDomains, MaxPorts,
  LiveReorder,   \* LIVE_REORDER_SECS
  Times,         \* seconds an observation may carry
  Never, Forever,          \* i64::MIN and i64::MAX
  Settings       \* what the engine may be run on; see Setting

SourceAlerts == {"SCAN", "SWEEP", "FLOOD", "VOLUME", "RATIO"}
PairAlerts   == {"ATTEMPTS", "REFUSALS", "BEACON"}
DomainAlerts == {"LONG", "TUNNEL"}
Alerts == SourceAlerts \cup PairAlerts \cup DomainAlerts

Limits ==
  [scan : Nat, sweep : Nat, flood : Nat, bytes : Nat, ratioBytes : Nat, ratio : Nat,
   attempts : Nat, refusals : Nat, beaconMean : Nat, beaconSpread : Nat \X (Nat \ {0}),
   nameLen : Nat, tunnel : Nat]

Kinds == {"attempt", "refusal", "flow", "dns", "volume", "traffic"}
Observations ==
  [kind : Kinds, ts : Nat, src : Nat, dst : Nat, port : Nat, out : Nat, in : Nat,
   answered : BOOLEAN, name : {0} \cup DOMAIN Name]

(* Live or in a replay, and then holding so many (MAX_ORDERED); what is    *)
(* observed, at most how often, and how far behind the newest it may be.   *)
Setting ==
  [ordered : BOOLEAN, maxHeld : Nat \ {0}, shapes : SUBSET Observations, most : Nat, late : Nat]

ASSUME BehaviorAssumption ==
  /\ None \notin Nat /\ Groups \subseteq Nat
  /\ Name \in Seq(Seq(Nat)) /\ Encoded \subseteq Nat /\ NameMax \in Nat
  /\ Limit \in Limits /\ Limit.nameLen <= NameMax
  /\ Window \in Nat \ {0} /\ FloodWindow \in 1 .. Window
  /\ Interval \in 0 .. Window /\ FloodInterval \in 0 .. Window /\ BeaconInterval \in Nat
  /\ Samples \in Nat /\ MinGaps \in 1 .. Samples
  /\ {MaxSources, MaxDomains, MaxPorts, LiveReorder} \subseteq Nat /\ MaxPairs \in Nat \ {0}
  /\ Never \in Int /\ Forever \in Int /\ Times \subseteq 1 .. Forever - 1
  /\ \A t \in Times : t > Never
  /\ \A s \in Settings : s \in [ordered : BOOLEAN, maxHeld : Nat \ {0}, shapes : {s.shapes},
                                most : Nat, late : Nat] /\ s.shapes \subseteq Observations
  /\ \A s \in Settings : \A o \in s.shapes : o.kind = "dns" => o.name # 0

(* No name is longer than what is carried of one. *)
ASSUME NamesFit == \A n \in DOMAIN Name : Len(Name[n]) <= NameMax

VARIABLES
  setting,
  engine,      \* BehaviorEngine: its tables, when it swept, what it refused
  pc,          \* "open" while workers may send, then "done"
  held,        \* observations held back
  ready,       \* those let go of, in order, that the engine has yet to be given
  newest, oldestHeld,
  processed,   \* ghost: what the engine was given, in order, and the alerts
  flushed      \* ghost: the newest time held when all was let go of

vars == <<setting, engine, pc, held, ready, newest, oldestHeld, processed, flushed>>

(***************************************************************************)
(* The windows of src/window.rs that every detector is built from.  Each   *)
(* is a value, and each operation gives the value after it.                *)
(***************************************************************************)
Put(f, k, v) == [j \in DOMAIN f \cup {k} |-> IF j = k THEN v ELSE f[j]]

(* WindowSet: distinct keys, each with the time it was last seen.  It      *)
(* prunes itself once a second at most, and once full refuses new keys     *)
(* (and counts them, which here is whether there was one).                 *)
NewSet == [seen |-> <<>>, pruned |-> 0, refused |-> FALSE]

Distinct(w) == Cardinality(DOMAIN w.seen)

Pruned(w, now, span) ==
  IF now - w.pruned < 1 THEN w
  ELSE [w EXCEPT !.seen = Restrict(@, {k \in DOMAIN @ : @[k] > now - span}), !.pruned = now]

(* A slip: the set prunes itself only when it is full. *)
InsertedUnpruned(w, key, now, span, cap) ==
  LET p == IF Distinct(w) >= cap THEN Pruned(w, now, span) ELSE w
  IN  [p EXCEPT !.seen = Put(@, key, now)]

Inserted(w, key, now, span, cap) ==
  LET p == Pruned(w, now, span)
  IN  IF Distinct(p) >= cap /\ key \notin DOMAIN p.seen THEN [p EXCEPT !.refused = TRUE]
      ELSE [p EXCEPT !.seen = Put(@, key, now)]

(* RateWindow: an amount for each of the last seconds.  A second shares    *)
(* its bucket with those a span before and after, and takes it from them.  *)
Added(ring, now, amount, span) ==
  LET others == {s \in DOMAIN ring : s % span # now % span}
      had    == IF now \in DOMAIN ring THEN ring[now] ELSE 0
  IN  Put(Restrict(ring, others), now, had + amount)

Total(ring, now, span) ==
  SumFunctionOnSet(ring, {s \in DOMAIN ring : s > now - span})

(* AlertGate: the time of the last alert it let through. *)
Allows(last, now, interval) == last = None \/ now - last >= interval

(* Periodicity: the last gaps between occurrences.  An occurrence that is  *)
(* not after the last one leaves no gap.                                   *)
NewBeat == [last |-> None, gaps |-> <<>>]

LastOf(s, n) == SubSeq(s, (IF Len(s) > n THEN Len(s) - n ELSE 0) + 1, Len(s))

Beat(b, now, samples) ==
  IF b.last = None THEN [b EXCEPT !.last = now]
  ELSE IF now <= b.last THEN b
  ELSE [last |-> now, gaps |-> LastOf(Append(b.gaps, now - b.last), samples)]

(* The verdict on enough gaps: their mean is long enough, and the square   *)
(* of their deviation by the square of their mean is at most a ratio.      *)
Regular(gaps, least, minMean, ratio) ==
  LET n       == Len(gaps)
      sum     == FoldLeft(+, 0, gaps)
      squares == FoldLeft(LAMBDA q, g : q + g * g, 0, gaps)
  IN  /\ n >= least
      /\ sum >= minMean * n
      /\ ratio[2] * (n * squares - sum * sum) <= ratio[1] * sum * sum

-----------------------------------------------------------------------------
Init ==
  /\ setting \in Settings
  /\ engine = [sources |-> <<>>, pairs |-> <<>>, dns |-> <<>>, swept |-> 0, refused |-> {}]
  /\ pc = "open" /\ held = <<>> /\ ready = <<>>
  /\ newest = Never /\ oldestHeld = Forever
  /\ processed = <<>> /\ flushed = Never

-----------------------------------------------------------------------------
(* What an observation is. *)
Unanswered(o) == o.kind = "flow" /\ ~o.answered
Moving(o)     == o.kind \in {"flow", "traffic"} /\ o.dst \notin Groups
Starting(o)   == o.kind = "flow" /\ o.dst \notin Groups
OfSource(o)   == Unanswered(o) \/ Moving(o) \/ o.kind = "volume"
OfPair(o)     == o.kind \in {"attempt", "refusal"} \/ Starting(o)
Pair(o)       == <<o.src, o.dst, o.port>>

(* Observation::dns() and split_dns_name(): the last two labels of as much *)
(* of the name as is carried, and what is before them.                     *)
Carried(o) == SubSeq(Name[o.name], 1, IF Len(Name[o.name]) > NameMax THEN NameMax
                                      ELSE Len(Name[o.name]))
Parent(n) == LastOf(n, 2)
Sub(n)    == IF Len(n) > 2 THEN SubSeq(n, 1, Len(n) - 2) ELSE <<>>
Random(n) == \E i \in DOMAIN Sub(n) : Sub(n)[i] \in Encoded
Domain(o) == <<o.src, Parent(Carried(o))>>

-----------------------------------------------------------------------------
(* A table's entry for a key, made if there is room; what becomes of it;   *)
(* and the alerts it then calls for, those its gates allow being raised.   *)
IntervalOf(c) ==
  IF c = "FLOOD" THEN FloodInterval ELSE IF c = "BEACON" THEN BeaconInterval ELSE Interval

Refuses(table, key, cap) == key \notin DOMAIN table /\ Cardinality(DOMAIN table) >= cap

Refused(table, by) == [table |-> table, raised |-> {}, refused |-> {by}]
Unvisited(table)   == [table |-> table, raised |-> {}, refused |-> {}]

(* Whether one of the sets of an entry has refused a key. *)
Refusals(sets) == IF \E w \in sets : w.refused THEN {"sets"} ELSE {}

Entry(table, key, fresh, o) ==
  LET was == IF key \in DOMAIN table THEN table[key] ELSE fresh
  IN  [was EXCEPT !.seen = o.ts]

Visited(table, key, s, claims, sets, o) ==
  LET due   == {c \in claims : Allows(s.gates[c], o.ts, IntervalOf(c))}
      gates == [c \in DOMAIN s.gates |-> IF c \in due THEN o.ts ELSE s.gates[c]]
  IN  [table |-> Put(table, key, [s EXCEPT !.gates = gates]), raised |-> due, refused |-> Refusals(sets)]

-----------------------------------------------------------------------------
(* source(), on_failed_connection(), on_bytes(), on_volume(). *)
NewSource ==
  [ports |-> <<>>, any |-> NewSet, out |-> <<>>, in |-> <<>>, packets |-> <<>>,
   gates |-> [c \in SourceAlerts |-> None], seen |-> 0]

Probed(ports, o) ==
  LET w     == IF o.port \in DOMAIN ports THEN ports[o.port] ELSE NewSet
      after == Put(ports, o.port, Inserted(w, o.dst, o.ts, Window, MaxPairs))
  IN  IF Cardinality(DOMAIN after) > MaxPorts
        THEN Restrict(after, {p \in DOMAIN after : Distinct(after[p]) > 0}) ELSE after

SourceAfter(s, o) ==
  [s EXCEPT
     !.ports = IF Unanswered(o) THEN Probed(@, o) ELSE @,
     !.any   = IF Unanswered(o) THEN Inserted(@, o.dst, o.ts, Window, MaxPairs) ELSE @,
     !.out   = IF Moving(o) THEN Added(@, o.ts, o.out, Window) ELSE @,
     !.in    = IF Moving(o) THEN Added(@, o.ts, o.in, Window) ELSE @,
     !.packets = IF o.kind = "volume" THEN Added(@, o.ts, o.out, FloodWindow) ELSE @]

Lopsided(out, in) == out > Limit.ratioBytes /\ out > Limit.ratio * (IF in = 0 THEN 1 ELSE in)

SourceClaims(s, o) ==
  LET out == Total(s.out, o.ts, Window)
      in  == Total(s.in, o.ts, Window)
  IN  {c \in SourceAlerts :
         \/ c = "SCAN"   /\ Unanswered(o) /\ Distinct(s.ports[o.port]) > Limit.scan
         \/ c = "SWEEP"  /\ Unanswered(o) /\ Distinct(s.any) > Limit.sweep
         \/ c = "FLOOD"  /\ o.kind = "volume" /\ Total(s.packets, o.ts, FloodWindow) > Limit.flood
         \/ c = "VOLUME" /\ Moving(o) /\ out > Limit.bytes
         \/ c = "RATIO"  /\ Moving(o) /\ Lopsided(out, in)}

VisitSource(table, o) ==
  LET s == SourceAfter(Entry(table, o.src, NewSource, o), o)
  IN  IF ~OfSource(o) THEN Unvisited(table)
      ELSE IF Refuses(table, o.src, MaxSources) THEN Refused(table, "sources")
      ELSE Visited(table, o.src, s, SourceClaims(s, o), {s.any} \cup Range(s.ports), o)

(* pair(), on_auth(), on_auth_failure(), and on_flow() up to its volumes. *)
NewPair ==
  [attempts |-> <<>>, refusals |-> <<>>, beacon |-> NewBeat,
   gates |-> [c \in PairAlerts |-> None], seen |-> 0]

PairAfter(p, o) ==
  [p EXCEPT
     !.attempts = IF o.kind = "attempt" THEN Added(@, o.ts, 1, Window) ELSE @,
     !.refusals = IF o.kind = "refusal" THEN Added(@, o.ts, 1, Window) ELSE @,
     !.beacon   = IF o.kind = "flow" THEN Beat(@, o.ts, Samples) ELSE @]

Steady(gaps) == Regular(gaps, MinGaps, Limit.beaconMean, Limit.beaconSpread)

PairClaims(p, o) ==
  {c \in PairAlerts :
     \/ c = "ATTEMPTS" /\ o.kind = "attempt" /\ Total(p.attempts, o.ts, Window) > Limit.attempts
     \/ c = "REFUSALS" /\ o.kind = "refusal" /\ Total(p.refusals, o.ts, Window) > Limit.refusals
     \/ c = "BEACON"   /\ o.kind = "flow" /\ Steady(p.beacon.gaps)}

VisitPair(table, o) ==
  LET p == PairAfter(Entry(table, Pair(o), NewPair, o), o)
  IN  IF ~OfPair(o) THEN Unvisited(table)
      ELSE IF Refuses(table, Pair(o), MaxPairs) THEN Refused(table, "pairs")
      ELSE Visited(table, Pair(o), p, PairClaims(p, o), {}, o)

(* on_dns() *)
NewDomain == [subs |-> NewSet, gates |-> [c \in DomainAlerts |-> None], seen |-> 0]

DomainAfter(d, o) ==
  IF Random(Carried(o))
    THEN [d EXCEPT !.subs = Inserted(@, Sub(Carried(o)), o.ts, Window, MaxPairs)] ELSE d

DomainClaims(d, o) ==
  {c \in DomainAlerts :
     \/ c = "LONG"   /\ Len(Carried(o)) >= Limit.nameLen
     \/ c = "TUNNEL" /\ Random(Carried(o)) /\ Distinct(d.subs) > Limit.tunnel}

VisitDomain(table, o) ==
  LET d == DomainAfter(Entry(table, Domain(o), NewDomain, o), o)
  IN  IF o.kind # "dns" THEN Unvisited(table)
      ELSE IF Refuses(table, Domain(o), MaxDomains) THEN Refused(table, "dns")
      ELSE Visited(table, Domain(o), d, DomainClaims(d, o), {d.subs}, o)

-----------------------------------------------------------------------------
Live(table, now) == Restrict(table, {k \in DOMAIN table : table[k].seen > now - Window})

(* sweep(): once for each newer second, entries not seen for a window go.  *)
Swept(e, now) ==
  IF now <= e.swept THEN e
  ELSE [e EXCEPT !.sources = Live(@, now), !.pairs = Live(@, now), !.dns = Live(@, now),
                 !.swept = now]

(* observe(): the engine after an observation, and the alerts it raises.   *)
Observed(e, o) ==
  LET k == Swept(e, o.ts)
      s == VisitSource(k.sources, o)
      p == VisitPair(k.pairs, o)
      d == VisitDomain(k.dns, o)
  IN  [engine |->
         [sources |-> s.table, pairs |-> p.table, dns |-> d.table, swept |-> k.swept,
          refused |-> k.refused \cup s.refused \cup p.refused \cup d.refused],
       raised |-> s.raised \cup p.raised \cup d.raised]

-----------------------------------------------------------------------------
(* total_cmp(): time first, then every other field. *)
Tag == [attempt |-> 0, refusal |-> 1, flow |-> 2, dns |-> 3, volume |-> 4, traffic |-> 5]
SortKey(o) ==
  <<o.ts, Tag[o.kind], o.src, o.dst, o.port, o.out,
    IF o.kind = "flow" THEN 2 * o.in + (IF o.answered THEN 1 ELSE 0) ELSE o.in, o.name>>

Before(a, b) ==
  LET x == SortKey(a)
      y == SortKey(b)
  IN  \E i \in DOMAIN x : x[i] < y[i] /\ \A j \in 1 .. i - 1 : x[j] = y[j]

(* A sequence in every order there is. *)
Orders(hs) ==
  LET D == DOMAIN hs
  IN  {[i \in D |-> hs[p[i]]] : p \in {q \in [D -> D] : \A k \in D : \E i \in D : q[i] = k}}

(* A slip: ties of time are left in any order. *)
SortedByTime(hs) ==
  {s \in Orders(hs) : \A i, j \in DOMAIN s : i < j => s[i].obs.ts <= s[j].obs.ts}

(* sort_unstable_by(): equals may come out in either order. *)
Sorted(hs) == {s \in Orders(hs) : \A i, j \in DOMAIN s : i < j => ~Before(s[j].obs, s[i].obs)}

(* partition_point() and drain(): those that are due are let go of. *)
Divide(s, cutoff) ==
  \E n \in 0 .. Len(s) :
    /\ \A i \in DOMAIN s : s[i].obs.ts <= cutoff <=> i <= n
    /\ ready' = SubSeq(s, 1, n) /\ held' = SubSeq(s, n + 1, Len(s))

Later(a, b) == IF a > b THEN a ELSE b
Earlier(a, b) == IF a < b THEN a ELSE b
MinTs(hs) == IF hs = <<>> THEN Forever ELSE Min({hs[i].obs.ts : i \in DOMAIN hs})

(* The observations to come: a worker's clock is behind by `late` at most. *)
Mature == Max({0} \cup {h.obs.ts : h \in ToSet(held \o processed)}) - setting.late
Coming ==
  IF pc = "open" /\ ready = <<>> /\ Len(held) + Len(processed) < setting.most
    THEN {[s EXCEPT !.ts = t] : s \in setting.shapes, t \in {t \in Times : t >= Mature}}
    ELSE {}

(* Ghost: those after it may have been processed before it came. *)
Excused(o) == o.ts <= flushed \/ (~setting.ordered /\ o.ts <= newest - LiveReorder)
Marked(o) == [obs |-> o, excused |-> Excused(o)]

(* Live: an observation comes, and those a moment behind the newest go on. *)
Receive(o) ==
  LET all    == Append(held, Marked(o))
      oldest == Earlier(oldestHeld, o.ts)
      cutoff == Later(newest, o.ts) - LiveReorder
  IN  /\ ~setting.ordered
      /\ newest' = Later(newest, o.ts)
      /\ \/ /\ oldest > cutoff
            /\ held' = all /\ oldestHeld' = oldest
            /\ UNCHANGED ready
         \/ /\ oldest <= cutoff
            /\ \E s \in Sorted(all) : Divide(s, cutoff)
            /\ oldestHeld' = MinTs(held')
      /\ UNCHANGED <<setting, engine, pc, processed, flushed>>

(* A slip: a quiet moment lets go only of those that are due. *)
QuietDue ==
  /\ ~setting.ordered /\ pc = "open" /\ ready = <<>> /\ held # <<>>
  /\ \E s \in Sorted(held) : Divide(s, newest - LiveReorder)
  /\ oldestHeld' = MinTs(held')
  /\ UNCHANGED <<setting, engine, pc, newest, processed, flushed>>

(* Live: nothing has come for half a second, and all that is held goes on. *)
Quiet ==
  /\ ~setting.ordered /\ pc = "open" /\ ready = <<>> /\ held # <<>>
  /\ ready' \in Sorted(held)
  /\ held' = <<>> /\ oldestHeld' = Forever
  /\ flushed' = Later(flushed, newest)
  /\ UNCHANGED <<setting, engine, pc, newest, processed>>

(* In a replay: an observation is held, and all go on when there are many. *)
Hold(o) ==
  LET all == Append(held, Marked(o))
  IN  /\ setting.ordered
      /\ \/ /\ Len(all) < setting.maxHeld
            /\ held' = all
            /\ UNCHANGED <<ready, flushed>>
         \/ /\ Len(all) >= setting.maxHeld
            /\ ready' \in Sorted(all)
            /\ held' = <<>>
            /\ flushed' = Later(flushed, Max({all[i].obs.ts : i \in DOMAIN all}))
      /\ UNCHANGED <<setting, engine, pc, newest, oldestHeld, processed>>

(* The last worker has dropped its sender: the rest goes on. *)
Finish ==
  /\ pc = "open" /\ ready = <<>> /\ pc' = "done"
  /\ ready' \in Sorted(held)
  /\ held' = <<>> /\ oldestHeld' = Forever
  /\ UNCHANGED <<setting, engine, newest, processed, flushed>>

(* The engine is given the next observation. *)
Process ==
  LET r == Observed(engine, Head(ready).obs)
  IN  /\ ready # <<>> /\ ready' = Tail(ready)
      /\ engine' = r.engine
      /\ processed' = Append(processed, [obs |-> Head(ready).obs, excused |-> Head(ready).excused,
                                         raised |-> r.raised])
      /\ UNCHANGED <<setting, pc, held, newest, oldestHeld, flushed>>

Next ==
  \/ \E o \in Coming : Receive(o) \/ Hold(o)
  \/ Quiet \/ Finish \/ Process

Spec == Init /\ [][Next]_vars

(* recv_timeout() returns when nothing comes, a replay comes to the end of *)
(* its file, and the engine takes what it is given.                        *)
Given == ready # <<>> /\ ready' = Tail(ready)   \* a step of Process, and only one

FairSpec ==
  Spec /\ WF_vars(Quiet) /\ WF_ready(Given) /\ WF_vars(setting.ordered /\ Finish)

-----------------------------------------------------------------------------
(* What was observed up to an observation, read from all that was          *)
(* processed and not from any window.  What is said of the last one        *)
(* processed was said of each before when it was the last.                 *)
Obs(i) == processed[i].obs
Within(i, span) == {j \in 1 .. i : Obs(j).ts > Obs(i).ts - span /\ Obs(j).src = Obs(i).src}
InOrder(i) == \A a, b \in 1 .. i : a < b => Obs(a).ts <= Obs(b).ts

OutOf(S) == SumFunction([j \in S |-> Obs(j).out])
InOf(S)  == SumFunction([j \in S |-> Obs(j).in])

(* The gaps of the pair's connections. *)
Starts(S, pair) == {Obs(j).ts : j \in {j \in S : Starting(Obs(j)) /\ Pair(Obs(j)) = pair}}
Nth(times, n) == CHOOSE t \in {t \in times : Cardinality({s \in times : s < t}) = n - 1} : TRUE
Gaps(times) == [n \in 1 .. Cardinality(times) - 1 |-> Nth(times, n + 1) - Nth(times, n)]
GapsOf(i) == Gaps(Starts(1 .. i, Pair(Obs(i))))

(* What an alert says of the last window is so. *)
Fact(c, i) ==
  LET o == Obs(i)
      Hosts(S) == Cardinality({Obs(j).dst : j \in S})
      lost  == {j \in Within(i, Window) : Unanswered(Obs(j))}
      moved == {j \in Within(i, Window) : Moving(Obs(j))}
      Alike(kind) == {j \in Within(i, Window) : Obs(j).kind = kind /\ Pair(Obs(j)) = Pair(o)}
      bytes == OutOf(moved)
  IN  CASE c = "SCAN"   -> Unanswered(o) /\ Hosts({j \in lost : Obs(j).port = o.port}) > Limit.scan
        [] c = "SWEEP"  -> Unanswered(o) /\ Hosts(lost) > Limit.sweep
        [] c = "FLOOD"  -> /\ o.kind = "volume"
                           /\ OutOf({j \in Within(i, FloodWindow) : Obs(j).kind = "volume"}) > Limit.flood
        [] c = "VOLUME" -> Moving(o) /\ bytes > Limit.bytes
        [] c = "RATIO"  -> Moving(o) /\ Lopsided(bytes, InOf(moved))
        [] c = "ATTEMPTS" -> o.kind = "attempt" /\ Cardinality(Alike("attempt")) > Limit.attempts
        [] c = "REFUSALS" -> o.kind = "refusal" /\ Cardinality(Alike("refusal")) > Limit.refusals
        [] c = "LONG"   -> o.kind = "dns" /\ Len(Name[o.name]) >= Limit.nameLen
        [] c = "TUNNEL" -> /\ o.kind = "dns" /\ Random(Name[o.name])
                           /\ Cardinality({Sub(Name[Obs(j).name]) : j \in {j \in Within(i, Window) :
                                 /\ Obs(j).kind = "dns" /\ Random(Name[Obs(j).name])
                                 /\ Parent(Name[Obs(j).name]) = Parent(Name[o.name])}}) > Limit.tunnel
        [] c = "BEACON" -> /\ Starting(o)
                           /\ \E n \in MinGaps .. Samples :
                                n <= Len(GapsOf(i)) /\ Steady(LastOf(GapsOf(i), n))

(* The same, for a beacon whose every gap is shorter than the window.      *)
Noticeable(c, i) ==
  IF c # "BEACON" THEN Fact(c, i)
  ELSE /\ Starting(Obs(i))
       /\ \A g \in ToSet(LastOf(GapsOf(i), Samples)) : g < Window
       /\ Steady(LastOf(GapsOf(i), Samples))

(* Alerts of one category about one source, pair or domain, too near. *)
Repeats(c, j, i) ==
  /\ c \in processed[j].raised
  /\ Obs(j).src = Obs(i).src
  /\ c \in PairAlerts => Pair(Obs(j)) = Pair(Obs(i))
  /\ c \in DomainAlerts => Parent(Name[Obs(j).name]) = Parent(Name[Obs(i).name])
  /\ Obs(i).ts - Obs(j).ts < IntervalOf(c)

-----------------------------------------------------------------------------
Gated(gates) == \A c \in DOMAIN gates : gates[c] = None \/ gates[c] \in Times

TypeOK ==
  /\ setting \in Settings
  /\ pc \in {"open", "done"}
  /\ \A k \in DOMAIN engine.sources : Gated(engine.sources[k].gates)
  /\ \A k \in DOMAIN engine.pairs : Gated(engine.pairs[k].gates)
  /\ \A k \in DOMAIN engine.dns : Gated(engine.dns[k].gates)
  /\ Cardinality(DOMAIN engine.sources) <= MaxSources
  /\ Cardinality(DOMAIN engine.pairs) <= MaxPairs
  /\ Cardinality(DOMAIN engine.dns) <= MaxDomains
  /\ engine.refused \subseteq {"sources", "pairs", "dns", "sets"}
  /\ setting.ordered => Len(held) < setting.maxHeld
  /\ oldestHeld \in Times \cup {Forever}
  /\ ~setting.ordered => oldestHeld = MinTs(held)

(* An alert's words are true: while observations come in order, what it    *)
(* says of the last window is what was observed in it, and no alert of its *)
(* kind about the same thing came within its interval.  Where their table  *)
(* was full, what was refused may be missing from a ratio or a beacon.     *)
AlertsTrue ==
  LET i == Len(processed)
  IN  i > 0 /\ InOrder(i) =>
        \A c \in processed[i].raised :
          /\ \/ c = "RATIO" /\ "sources" \in engine.refused
             \/ c = "BEACON" /\ "pairs" \in engine.refused
             \/ Fact(c, i)
          /\ c # "BEACON" => \A j \in 1 .. i - 1 : ~Repeats(c, j, i)

(* No evidence is lost to pruning, sweeping or a bucket taken over: while  *)
(* observations come in order and no table or set has been full, an alert  *)
(* that is called for is raised, unless another was within its interval.   *)
NothingMissed ==
  LET i == Len(processed)
  IN  i > 0 /\ InOrder(i) /\ engine.refused = {} =>
        \A c \in Alerts \ processed[i].raised :
          Noticeable(c, i) => \E j \in 1 .. i - 1 : Repeats(c, j, i)

(* "Two runs that saw the same observations in different arrival orders    *)
(* sort to the same sequence", and live skew within the window is removed: *)
(* an observation comes after one that should follow it only if, when it   *)
(* came, it was behind by the window, or behind what was let go of before. *)
OrderKept ==
  \A i, j \in DOMAIN processed :
    i < j /\ Before(Obs(j), Obs(i)) => processed[j].excused

(* "Quiet: nothing more is coming to be ordered against": once the workers *)
(* have no more to send, what is held is processed.                        *)
HeldProcessed == held # <<>> ~> held = <<>> /\ ready = <<>>

(* The comment on sweep(): state is released "for keys not seen within the *)
(* window", so that a source seen within it is known.                      *)
KeptWhileRecent ==
  engine.refused = {} =>
    \A i \in DOMAIN processed :
      OfSource(Obs(i)) /\ Obs(i).ts > engine.swept - Window => Obs(i).src \in DOMAIN engine.sources

(* An alert is raised exactly when the window calls for it: what it says   *)
(* was observed, and what was observed is said.                            *)
AlertsExact == AlertsTrue /\ NothingMissed

(* The tables and what is held keep their bounds, and what is held is let  *)
(* go of in order.                                                         *)
HeldInOrder == TypeOK /\ OrderKept
=============================================================================
