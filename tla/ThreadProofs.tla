---------------------------- MODULE ThreadProofs ----------------------------
(***************************************************************************)
(* Two of the program's threads.  The behaviour engine's: whatever is sent *)
(* to it and whenever, its tables keep their bounds and it is given what   *)
(* was observed in order; and what its windows, gates, tables and sweep    *)
(* have left of what it was given is enough to raise an alert when all of  *)
(* it calls for one.  The reloader's, with those that read what it         *)
(* publishes: for any number of workers, edits and signals, and whatever   *)
(* the files' history, a reader that has seen a generation holds its       *)
(* publication or a later one, and nothing is judged by rules older than   *)
(* those in force when it came.                                            *)
(***************************************************************************)
EXTENDS Behavior, HotReload, FiniteSetTheorems, SequenceTheorems, WellFoundedInduction, TLAPS

-----------------------------------------------------------------------------
(* The behaviour engine's thread: what it holds, lets go of and is given,  *)
(* and its tables.                                                         *)

Stamped == {o \in Observations : o.ts \in Times /\ (o.kind = "dns" => o.name # 0)}
Holding == [obs : Stamped, excused : BOOLEAN]
Taken == [obs : Stamped, excused : BOOLEAN, raised : SUBSET Alerts]

(* Those the engine was given or is about to be. *)
Released == {Obs(i) : i \in DOMAIN processed} \cup {ready[i].obs : i \in DOMAIN ready}

HeldTyped ==
  /\ held \in Seq(Holding) /\ ready \in Seq(Holding)
  /\ processed \in Seq(Taken)
  /\ newest \in Int /\ flushed \in Int

(* A batch let go of is in order, and what came before it or may come      *)
(* after is in order with it or was marked when it came.                   *)
BatchOrdered == \A i, j \in DOMAIN ready : i < j => ~Before(ready[j].obs, ready[i].obs)
ReadyAfter ==
  \A i \in DOMAIN processed, j \in DOMAIN ready :
    Before(ready[j].obs, Obs(i)) => ready[j].excused
AfterReleased(hs) ==
  \A j \in DOMAIN hs : \A o \in Released : Before(hs[j].obs, o) => hs[j].excused
HeldAfter == AfterReleased(held)

(* What has been let go of is old enough that one to come before it would  *)
(* be marked.                                                              *)
AllGone == pc = "open" => \A o \in Released : Excused(o)
NewestSeen == ~setting.ordered => \A j \in DOMAIN held : held[j].obs.ts <= newest

OrderInv ==
  /\ HeldTyped /\ BatchOrdered /\ ReadyAfter /\ HeldAfter /\ AllGone /\ NewestSeen /\ OrderKept

-----------------------------------------------------------------------------
LEMMA TimesTyped == Forever \in Int /\ \A t \in Times : t \in Nat /\ t < Forever
<1>1. Forever \in Int /\ Times \subseteq 1 .. Forever - 1
  BY BehaviorAssumption, Zenon
<1> QED BY <1>1

(* Both windows have a length. *)
LEMMA WindowsTyped == Window \in Nat /\ FloodWindow \in Nat
<1>1. Window \in Nat \ {0} /\ FloodWindow \in 1 .. Window
  BY BehaviorAssumption, Zenon
<1> QED BY <1>1

LEMMA HeldStamped == \A h \in Holding : h.obs \in Stamped /\ h.obs \in Observations /\ h.obs.ts \in Times
BY DEF Holding, Stamped

LEMMA SettingTyped ==
  \A s \in Settings :
    /\ s.maxHeld \in Nat \ {0} /\ s.shapes \subseteq Observations
    /\ \A o \in s.shapes : o.kind = "dns" => o.name # 0
<1>1. \A s \in Settings : s \in [ordered : BOOLEAN, maxHeld : Nat \ {0}, shapes : {s.shapes},
                                 most : Nat, late : Nat] /\ s.shapes \subseteq Observations
  BY BehaviorAssumption, Zenon
<1>2. \A s \in Settings : \A o \in s.shapes : o.kind = "dns" => o.name # 0
  BY BehaviorAssumption, Zenon
<1>3. \A s \in Settings : s.maxHeld \in Nat \ {0}
  BY <1>1
<1> QED BY <1>1, <1>2, <1>3

LEMMA BeforeTs ==
  ASSUME NEW a \in Observations, NEW b \in Observations, Before(a, b)
  PROVE  a.ts <= b.ts
<1> DEFINE x == SortKey(a)
           y == SortKey(b)
<1>1. DOMAIN x = 1 .. 8 /\ x[1] = a.ts /\ y[1] = b.ts
  BY DEF SortKey
<1>2. a.ts \in Nat /\ b.ts \in Nat
  BY DEF Observations
<1>3. PICK i \in DOMAIN x : x[i] < y[i] /\ \A j \in 1 .. i - 1 : x[j] = y[j]
  BY DEF Before
<1> HIDE DEF x, y
<1>4. CASE i = 1
  BY <1>1, <1>2, <1>3, <1>4
<1>5. CASE i # 1
  BY <1>1, <1>2, <1>3, <1>5
<1> QED
  BY <1>4, <1>5

(* What sorting leaves: the same, and none before an earlier one. *)
LEMMA SortedIs ==
  ASSUME NEW hs \in Seq(Holding), NEW s \in Sorted(hs)
  PROVE  /\ s \in Seq(Holding) /\ Len(s) = Len(hs)
         /\ \A i, j \in DOMAIN s : i < j => ~Before(s[j].obs, s[i].obs)
         /\ \A i \in DOMAIN s : \E k \in DOMAIN hs : s[i] = hs[k]
         /\ \A k \in DOMAIN hs : \E i \in DOMAIN s : s[i] = hs[k]
<1>1. PICK p \in [DOMAIN hs -> DOMAIN hs] :
        /\ \A k \in DOMAIN hs : \E i \in DOMAIN hs : p[i] = k
        /\ s = [i \in DOMAIN hs |-> hs[p[i]]]
  BY DEF Sorted, Orders
<1>2. DOMAIN hs = 1 .. Len(hs) /\ Len(hs) \in Nat /\ \A i \in DOMAIN hs : hs[i] \in Holding
  OBVIOUS
<1>3. s \in [1 .. Len(hs) -> Holding]
  BY <1>1, <1>2
<1>4. s \in Seq(Holding) /\ Len(s) = Len(hs)
  BY <1>2, <1>3
<1>5. \A i, j \in DOMAIN s : i < j => ~Before(s[j].obs, s[i].obs)
  BY DEF Sorted
<1>6. \A k \in DOMAIN hs : \E i \in DOMAIN s : s[i] = hs[k]
  BY <1>1
<1> QED
  BY <1>1, <1>2, <1>4, <1>5, <1>6

(* What dividing leaves of a sequence: its beginning and its end. *)
LEMMA DivideIs ==
  ASSUME NEW s \in Seq(Holding), NEW cutoff, Divide(s, cutoff)
  PROVE  /\ ready' \in Seq(Holding) /\ held' \in Seq(Holding)
         /\ \A i \in DOMAIN ready' : i \in DOMAIN s /\ ready'[i] = s[i] /\ s[i].obs.ts <= cutoff
         /\ \A j \in DOMAIN held' : \E k \in DOMAIN s :
              held'[j] = s[k] /\ \A i \in DOMAIN ready' : i < k
<1>1. PICK n \in 0 .. Len(s) : /\ \A i \in DOMAIN s : s[i].obs.ts <= cutoff <=> i <= n
                               /\ ready' = SubSeq(s, 1, n) /\ held' = SubSeq(s, n + 1, Len(s))
  BY DEF Divide
<1>2. DOMAIN ready' = 1 .. n /\ \A i \in DOMAIN ready' : ready'[i] = s[i]
  BY <1>1
<1>3. \A j \in DOMAIN held' : j \in Nat \ {0} /\ j + n \in DOMAIN s /\ held'[j] = s[j + n]
  BY <1>1
<1>4. ready' \in Seq(Holding) /\ held' \in Seq(Holding)
  BY <1>1
<1>5. \A i \in DOMAIN ready' : i \in DOMAIN s /\ s[i].obs.ts <= cutoff
  BY <1>1, <1>2
<1>6. \A j \in DOMAIN held' : \A i \in DOMAIN ready' : i < j + n
  BY <1>1, <1>2, <1>3
<1> HIDE <1>1
<1> QED
  BY <1>2, <1>3, <1>4, <1>5, <1>6

-----------------------------------------------------------------------------
(* The engine's tables: each within its bound, every gate a time or none. *)

IsEntry(e, A) == "gates" \in DOMAIN e /\ e.gates \in [A -> {None} \cup Times]

IsTable(T, A, cap) ==
  /\ IsFiniteSet(DOMAIN T) /\ Cardinality(DOMAIN T) <= cap
  /\ \A k \in DOMAIN T : IsEntry(T[k], A)

Refusers == {"sources", "pairs", "dns", "sets"}

EngineTyped ==
  /\ DOMAIN engine = {"sources", "pairs", "dns", "swept", "refused"}
  /\ IsTable(engine.sources, SourceAlerts, MaxSources)
  /\ IsTable(engine.pairs, PairAlerts, MaxPairs)
  /\ IsTable(engine.dns, DomainAlerts, MaxDomains)
  /\ engine.refused \subseteq Refusers

LEMMA LiveIs ==
  ASSUME NEW T, NEW A, NEW cap \in Nat, NEW now, IsTable(T, A, cap)
  PROVE  IsTable(Live(T, now), A, cap)
<1> DEFINE kept == {k \in DOMAIN T : T[k].seen > now - Window}
<1>1. Live(T, now) = [k \in kept |-> T[k]]
  BY DEF Live, Restrict
<1>2. kept \in SUBSET DOMAIN T
  OBVIOUS
<1> HIDE DEF kept
<1>3. IsFiniteSet(kept) /\ Cardinality(kept) <= Cardinality(DOMAIN T)
  BY <1>2, FS_Subset DEF IsTable
<1>4. Cardinality(kept) \in Nat /\ Cardinality(DOMAIN T) \in Nat
  BY <1>3, FS_CardinalityType DEF IsTable
<1> QED
  BY <1>1, <1>2, <1>3, <1>4 DEF IsTable

LEMMA EntryIs ==
  ASSUME NEW T, NEW A, NEW cap, NEW key, NEW fresh, NEW o, IsTable(T, A, cap), IsEntry(fresh, A)
  PROVE  IsEntry(Entry(T, key, fresh, o), A)
<1> DEFINE was == IF key \in DOMAIN T THEN T[key] ELSE fresh
<1>1. IsEntry(was, A)
  BY DEF IsTable
<1> HIDE DEF was
<1>2. IsEntry([was EXCEPT !.seen = o.ts], A)
  BY <1>1 DEF IsEntry
<1> QED
  BY <1>2 DEF Entry, was

LEMMA VisitedIs ==
  ASSUME NEW T, NEW A, NEW cap \in Nat, NEW key, NEW s, NEW claims \in SUBSET A, NEW sets, NEW o \in Stamped,
         IsTable(T, A, cap), IsEntry(s, A), ~Refuses(T, key, cap)
  PROVE  /\ IsTable(Visited(T, key, s, claims, sets, o).table, A, cap)
         /\ Visited(T, key, s, claims, sets, o).raised \subseteq A
         /\ Visited(T, key, s, claims, sets, o).refused \subseteq Refusers
<1> DEFINE due   == {c \in claims : Allows(s.gates[c], o.ts, IntervalOf(c))}
           gates == [c \in DOMAIN s.gates |-> IF c \in due THEN o.ts ELSE s.gates[c]]
           e     == [s EXCEPT !.gates = gates]
           keys  == DOMAIN T \cup {key}
           after == Visited(T, key, s, claims, sets, o).table
<1>1. after = [k \in keys |-> IF k = key THEN e ELSE T[k]]
  BY DEF Visited, Put
<1>2. IsEntry(e, A)
  <2>1. gates \in [A -> {None} \cup Times]
    BY DEF IsEntry, Stamped
  <2> HIDE DEF gates
  <2> QED
    BY <2>1 DEF IsEntry
<1> HIDE DEF e, after
<1>3. \A k \in DOMAIN after : IsEntry(after[k], A)
  BY <1>1, <1>2 DEF IsTable
<1>4. IsFiniteSet(keys) /\ Cardinality(keys) <= cap
  <2>1. IsFiniteSet(DOMAIN T) /\ Cardinality(DOMAIN T) <= cap /\ Cardinality(DOMAIN T) \in Nat
    BY FS_CardinalityType DEF IsTable
  <2>2. /\ IsFiniteSet(keys)
        /\ Cardinality(keys) = Cardinality(DOMAIN T) + (IF key \in DOMAIN T THEN 0 ELSE 1)
    BY <2>1, FS_AddElement
  <2> QED
    BY <2>1, <2>2 DEF Refuses
<1>5. Visited(T, key, s, claims, sets, o).raised \subseteq A /\ Visited(T, key, s, claims, sets, o).refused \subseteq Refusers
  BY DEF Visited, Refusals, Refusers
<1> QED
  BY <1>1, <1>3, <1>4, <1>5 DEF IsTable, after

(* Each kind of visit leaves its table within its bound. *)
LEMMA VisitSourceIs ==
  ASSUME NEW T, NEW o \in Stamped, IsTable(T, SourceAlerts, MaxSources)
  PROVE  /\ IsTable(VisitSource(T, o).table, SourceAlerts, MaxSources)
         /\ VisitSource(T, o).raised \subseteq SourceAlerts /\ VisitSource(T, o).refused \subseteq Refusers
<1> DEFINE e == Entry(T, o.src, NewSource, o)
           s == SourceAfter(e, o)
<1>1. IsEntry(NewSource, SourceAlerts)
  BY DEF IsEntry, NewSource
<1>2. IsEntry(e, SourceAlerts)
  BY <1>1, EntryIs
<1>3. IsEntry(s, SourceAlerts)
  <2> HIDE DEF e
  <2> QED BY <1>2 DEF IsEntry, SourceAfter
<1>4. SourceClaims(s, o) \in SUBSET SourceAlerts
  BY DEF SourceClaims
<1>5. MaxSources \in Nat
  BY BehaviorAssumption
<1>6. CASE OfSource(o) /\ ~Refuses(T, o.src, MaxSources)
  <2> HIDE DEF s
  <2>1. /\ IsTable(Visited(T, o.src, s, SourceClaims(s, o), {s.any} \cup Range(s.ports), o).table, SourceAlerts, MaxSources)
        /\ Visited(T, o.src, s, SourceClaims(s, o), {s.any} \cup Range(s.ports), o).raised \subseteq SourceAlerts
        /\ Visited(T, o.src, s, SourceClaims(s, o), {s.any} \cup Range(s.ports), o).refused \subseteq Refusers
    BY <1>3, <1>4, <1>5, <1>6, VisitedIs
  <2> QED
    BY <1>6, <2>1 DEF VisitSource, s
<1>7. CASE ~(OfSource(o) /\ ~Refuses(T, o.src, MaxSources))
  BY <1>7 DEF VisitSource, Unvisited, Refused, Refusers
<1> QED
  BY <1>6, <1>7

LEMMA VisitPairIs ==
  ASSUME NEW T, NEW o \in Stamped, IsTable(T, PairAlerts, MaxPairs)
  PROVE  /\ IsTable(VisitPair(T, o).table, PairAlerts, MaxPairs)
         /\ VisitPair(T, o).raised \subseteq PairAlerts /\ VisitPair(T, o).refused \subseteq Refusers
<1> DEFINE e == Entry(T, Pair(o), NewPair, o)
           p == PairAfter(e, o)
<1>1. IsEntry(NewPair, PairAlerts)
  BY DEF IsEntry, NewPair
<1>2. IsEntry(e, PairAlerts)
  BY <1>1, EntryIs
<1>3. IsEntry(p, PairAlerts)
  <2> HIDE DEF e
  <2> QED BY <1>2 DEF IsEntry, PairAfter
<1>4. PairClaims(p, o) \in SUBSET PairAlerts
  BY DEF PairClaims
<1>5. MaxPairs \in Nat
  BY BehaviorAssumption
<1>6. CASE OfPair(o) /\ ~Refuses(T, Pair(o), MaxPairs)
  <2> HIDE DEF p
  <2>1. /\ IsTable(Visited(T, Pair(o), p, PairClaims(p, o), {}, o).table, PairAlerts, MaxPairs)
        /\ Visited(T, Pair(o), p, PairClaims(p, o), {}, o).raised \subseteq PairAlerts
        /\ Visited(T, Pair(o), p, PairClaims(p, o), {}, o).refused \subseteq Refusers
    BY <1>3, <1>4, <1>5, <1>6, VisitedIs
  <2> QED
    BY <1>6, <2>1 DEF VisitPair, p
<1>7. CASE ~(OfPair(o) /\ ~Refuses(T, Pair(o), MaxPairs))
  BY <1>7 DEF VisitPair, Unvisited, Refused, Refusers
<1> QED
  BY <1>6, <1>7

LEMMA VisitDomainIs ==
  ASSUME NEW T, NEW o \in Stamped, IsTable(T, DomainAlerts, MaxDomains)
  PROVE  /\ IsTable(VisitDomain(T, o).table, DomainAlerts, MaxDomains)
         /\ VisitDomain(T, o).raised \subseteq DomainAlerts /\ VisitDomain(T, o).refused \subseteq Refusers
<1> DEFINE e == Entry(T, Domain(o), NewDomain, o)
           d == DomainAfter(e, o)
<1>1. IsEntry(NewDomain, DomainAlerts)
  BY DEF IsEntry, NewDomain
<1>2. IsEntry(e, DomainAlerts)
  BY <1>1, EntryIs
<1>3. IsEntry(d, DomainAlerts)
  <2> HIDE DEF e
  <2> QED BY <1>2 DEF IsEntry, DomainAfter
<1>4. DomainClaims(d, o) \in SUBSET DomainAlerts
  BY DEF DomainClaims
<1>5. MaxDomains \in Nat
  BY BehaviorAssumption
<1>6. CASE o.kind = "dns" /\ ~Refuses(T, Domain(o), MaxDomains)
  <2> HIDE DEF d
  <2>1. /\ IsTable(Visited(T, Domain(o), d, DomainClaims(d, o), {d.subs}, o).table, DomainAlerts, MaxDomains)
        /\ Visited(T, Domain(o), d, DomainClaims(d, o), {d.subs}, o).raised \subseteq DomainAlerts
        /\ Visited(T, Domain(o), d, DomainClaims(d, o), {d.subs}, o).refused \subseteq Refusers
    BY <1>3, <1>4, <1>5, <1>6, VisitedIs
  <2> QED
    BY <1>6, <2>1 DEF VisitDomain, d
<1>7. CASE ~(o.kind = "dns" /\ ~Refuses(T, Domain(o), MaxDomains))
  BY <1>7 DEF VisitDomain, Unvisited, Refused, Refusers
<1> QED
  BY <1>6, <1>7

(* The engine is given one observation. *)
LEMMA ObservedIs ==
  ASSUME EngineTyped, NEW o \in Stamped, engine' = Observed(engine, o).engine
  PROVE  EngineTyped' /\ Observed(engine, o).raised \subseteq Alerts
<1> DEFINE k == Swept(engine, o.ts)
<1>1. /\ IsTable(k.sources, SourceAlerts, MaxSources) /\ IsTable(k.pairs, PairAlerts, MaxPairs)
      /\ IsTable(k.dns, DomainAlerts, MaxDomains) /\ k.refused \subseteq Refusers
  <2>1. CASE o.ts <= engine.swept
    BY <2>1 DEF Swept, EngineTyped
  <2>2. CASE ~(o.ts <= engine.swept)
    <3>1. /\ k.sources = Live(engine.sources, o.ts) /\ k.pairs = Live(engine.pairs, o.ts)
          /\ k.dns = Live(engine.dns, o.ts) /\ k.refused = engine.refused
      BY <2>2 DEF Swept, EngineTyped
    <3>2. MaxSources \in Nat /\ MaxPairs \in Nat /\ MaxDomains \in Nat
      BY BehaviorAssumption
    <3> HIDE DEF k
    <3> QED
      BY <3>1, <3>2, LiveIs DEF EngineTyped
  <2> QED
    BY <2>1, <2>2
<1> HIDE DEF k
<1> DEFINE s == VisitSource(k.sources, o)
           p == VisitPair(k.pairs, o)
           d == VisitDomain(k.dns, o)
<1>2. /\ IsTable(s.table, SourceAlerts, MaxSources) /\ IsTable(p.table, PairAlerts, MaxPairs)
      /\ IsTable(d.table, DomainAlerts, MaxDomains)
      /\ s.raised \subseteq SourceAlerts /\ p.raised \subseteq PairAlerts
      /\ d.raised \subseteq DomainAlerts
      /\ s.refused \subseteq Refusers /\ p.refused \subseteq Refusers /\ d.refused \subseteq Refusers
  BY <1>1, VisitSourceIs, VisitPairIs, VisitDomainIs
<1>raised. Observed(engine, o).raised \subseteq Alerts
  BY <1>2 DEF Observed, Alerts, k
<1> HIDE DEF s, p, d
<1>3. engine' = [sources |-> s.table, pairs |-> p.table, dns |-> d.table, swept |-> k.swept,
                 refused |-> k.refused \cup s.refused \cup p.refused \cup d.refused]
  BY DEF Observed, k, s, p, d
<1> QED
  BY <1>1, <1>2, <1>3, <1>raised DEF EngineTyped

-----------------------------------------------------------------------------
(* The least and the greatest time of what is held. *)

LEMMA LeastOf ==
  ASSUME NEW S \in SUBSET Nat, S # {}
  PROVE  \E m \in S : \A y \in S : m <= y
<1>1. PICK m \in S : \A y \in S : <<y, m>> \notin OpToRel(<, Nat)
  BY NatLessThanWellFounded, WFMin
<1>2. \A y \in S : ~(y < m)
  BY <1>1 DEF OpToRel
<1> QED
  BY <1>2

LEMMA GreatestOf ==
  ASSUME NEW S \in SUBSET Times, S # {}
  PROVE  Max(S) \in S /\ \A y \in S : y <= Max(S)
<1> DEFINE below == {Forever - t : t \in S}
<1>1. Forever \in Int /\ \A t \in Times : t \in Nat /\ t < Forever
  BY TimesTyped
<1>2. below \in SUBSET Nat /\ below # {}
  BY <1>1
<1> HIDE DEF below
<1>3. PICK m \in below : \A y \in below : m <= y
  BY <1>2, LeastOf
<1> USE DEF below
<1>4. PICK t \in S : m = Forever - t
  BY <1>3
<1>5. \A y \in S : y <= t
  <2> TAKE y \in S
  <2>1. m <= Forever - y
    BY <1>3
  <2> QED
    BY <1>1, <1>4, <2>1
<1> HIDE DEF below
<1>6. \A y \in S : t >= y
  BY <1>1, <1>5
<1>7. Max(S) \in S /\ \A y \in S : Max(S) >= y
  BY <1>6 DEF Max
<1> QED
  BY <1>1, <1>7

LEMMA MinTsIs ==
  ASSUME NEW hs \in Seq(Holding), hs # <<>>
  PROVE  /\ \E i \in DOMAIN hs : MinTs(hs) = hs[i].obs.ts
         /\ \A i \in DOMAIN hs : MinTs(hs) <= hs[i].obs.ts
         /\ MinTs(hs) \in Times
<1> DEFINE S == {hs[i].obs.ts : i \in DOMAIN hs}
<1>1. \A i \in DOMAIN hs : hs[i].obs.ts \in Times
  <2>1. \A i \in DOMAIN hs : hs[i] \in Holding
    OBVIOUS
  <2> QED
    BY <2>1, HeldStamped
<1>2. S \in SUBSET Nat /\ S # {} /\ S \subseteq Times
  <2>1. Times \subseteq Nat
    BY TimesTyped
  <2>2. DOMAIN hs # {}
    <3>1. Len(hs) \in Nat /\ Len(hs) # 0 /\ DOMAIN hs = 1 .. Len(hs)
      BY EmptySeq
    <3>2. 1 \in DOMAIN hs
      BY <3>1
    <3> QED
      BY <3>2
  <2> QED
    BY <1>1, <2>1, <2>2
<1>3. MinTs(hs) = Min(S)
  BY DEF MinTs
<1> HIDE DEF S
<1>4. Min(S) \in S /\ \A y \in S : Min(S) <= y
  BY <1>2, LeastOf DEF Min
<1> QED
  BY <1>2, <1>3, <1>4 DEF S

LEMMA MinTsAppend ==
  ASSUME NEW hs \in Seq(Holding), NEW h \in Holding
  PROVE  MinTs(Append(hs, h)) = Earlier(MinTs(hs), h.obs.ts)
<1> DEFINE all == Append(hs, h)
<1>1. all \in Seq(Holding) /\ all # <<>> /\ Len(hs) \in Nat
  OBVIOUS
<1>2. /\ DOMAIN all = DOMAIN hs \cup {Len(hs) + 1} /\ all[Len(hs) + 1] = h
      /\ \A i \in DOMAIN hs : all[i] = hs[i]
  OBVIOUS
<1> HIDE DEF all
<1>3. /\ \E i \in DOMAIN all : MinTs(all) = all[i].obs.ts
      /\ \A i \in DOMAIN all : MinTs(all) <= all[i].obs.ts
      /\ MinTs(all) \in Times
  BY <1>1, MinTsIs
<1>4. h.obs.ts \in Times /\ \A t \in Times : t \in Nat /\ t < Forever
  BY TimesTyped, HeldStamped
<1>5. CASE hs = <<>>
  <2>1. MinTs(hs) = Forever
    BY <1>5 DEF MinTs
  <2>2. MinTs(all) = h.obs.ts
    BY <1>2, <1>3, <1>5
  <2>3. Forever \in Int /\ h.obs.ts \in Nat /\ h.obs.ts < Forever
    BY <1>4, TimesTyped
  <2> QED
    BY <2>1, <2>2, <2>3 DEF Earlier, all
<1>6. CASE hs # <<>>
  <2>1. /\ \E i \in DOMAIN hs : MinTs(hs) = hs[i].obs.ts
        /\ \A i \in DOMAIN hs : MinTs(hs) <= hs[i].obs.ts
        /\ MinTs(hs) \in Times
    BY <1>6, MinTsIs
  <2>2. \A i \in DOMAIN hs : MinTs(all) <= hs[i].obs.ts
    BY <1>2, <1>3
  <2>3. MinTs(all) <= h.obs.ts /\ MinTs(all) <= MinTs(hs)
    BY <1>2, <1>3, <2>1, <2>2
  <2>4. MinTs(all) = h.obs.ts \/ MinTs(hs) <= MinTs(all)
    BY <1>2, <1>3, <2>1
  <2> QED
    BY <1>3, <1>4, <2>1, <2>3, <2>4 DEF Earlier, all
<1> QED
  BY <1>5, <1>6

-----------------------------------------------------------------------------
(* The inductive invariant. *)

OldestTrue ==
  /\ oldestHeld \in Times \cup {Forever}
  /\ ~setting.ordered => oldestHeld = MinTs(held)

HeldInv ==
  /\ OrderInv /\ EngineTyped /\ OldestTrue
  /\ setting \in Settings /\ pc \in {"open", "done"}
  /\ setting.ordered => Len(held) < setting.maxHeld

LEMMA HeldInvImplies == HeldInv => HeldInOrder
<1> SUFFICES ASSUME HeldInv PROVE HeldInOrder
  OBVIOUS
<1>1. /\ \A k \in DOMAIN engine.sources : Gated(engine.sources[k].gates)
      /\ \A k \in DOMAIN engine.pairs : Gated(engine.pairs[k].gates)
      /\ \A k \in DOMAIN engine.dns : Gated(engine.dns[k].gates)
  BY DEF HeldInv, EngineTyped, IsTable, IsEntry, Gated
<1> QED
  BY <1>1 DEF HeldInv, OrderInv, EngineTyped, IsTable, OldestTrue, HeldInOrder, TypeOK, Refusers

LEMMA InitHeldInv == Init => HeldInv
<1> SUFFICES ASSUME Init PROVE HeldInv
  OBVIOUS
<1>1. OrderInv
  <2>1. /\ Never \in Int /\ <<>> \in Seq(Holding) /\ <<>> \in Seq(Taken)
        /\ DOMAIN processed = {} /\ DOMAIN ready = {} /\ DOMAIN held = {}
    BY BehaviorAssumption DEF Init
  <2> QED
    BY <2>1 DEF Init, OrderInv, HeldTyped, BatchOrdered, ReadyAfter, HeldAfter, AfterReleased,
                Released, AllGone, NewestSeen, OrderKept
<1>2. EngineTyped
  <2>1. IsFiniteSet({}) /\ Cardinality({}) = 0
    BY FS_EmptySet
  <2>2. DOMAIN <<>> = {}
    OBVIOUS
  <2>3. MaxSources \in Nat /\ MaxPairs \in Nat /\ MaxDomains \in Nat
    BY BehaviorAssumption
  <2>4. \A A, cap : cap \in Nat => IsTable(<<>>, A, cap)
    BY <2>1, <2>2 DEF IsTable
  <2> QED
    BY <2>3, <2>4 DEF Init, EngineTyped
<1>3. OldestTrue
  BY DEF Init, OldestTrue, MinTs
<1>4. setting.ordered => Len(held) < setting.maxHeld
  <2>1. setting.maxHeld \in Nat \ {0}
    BY SettingTyped DEF Init
  <2>2. Len(held) = 0
    BY DEF Init
  <2> QED
    BY <2>1, <2>2
<1> QED
  BY <1>1, <1>2, <1>3, <1>4 DEF Init, HeldInv

-----------------------------------------------------------------------------
(* What comes, and what is let go of. *)

LEMMA ReleasedTyped ==
  ASSUME HeldTyped
  PROVE  Released \subseteq Stamped
<1>1. /\ \A i \in DOMAIN ready : ready[i] \in Holding
      /\ \A i \in DOMAIN processed : processed[i] \in Taken
  BY DEF HeldTyped
<1> QED
  BY <1>1 DEF Released, Holding, Taken, Obs

(* One that comes is after all that was let go of, or is marked. *)
LEMMA ComingIs ==
  ASSUME HeldInv, NEW o \in Coming
  PROVE  /\ o \in Stamped /\ pc = "open" /\ ready = <<>>
         /\ Marked(o) \in Holding /\ Marked(o).obs = o
         /\ Append(held, Marked(o)) \in Seq(Holding)
         /\ AfterReleased(Append(held, Marked(o)))
<1>1. pc = "open" /\ ready = <<>> /\ \E s \in setting.shapes, t \in Times : o = [s EXCEPT !.ts = t]
  BY DEF Coming
<1>2. o \in Stamped
  <2>1. PICK s \in setting.shapes, t \in Times : o = [s EXCEPT !.ts = t]
    BY <1>1
  <2>2. s \in Observations /\ t \in Nat
    BY TimesTyped, SettingTyped DEF HeldInv
  <2>3. o \in Observations /\ o.ts = t /\ o.kind = s.kind /\ o.name = s.name
    BY <2>1, <2>2 DEF Observations
  <2>4. s.kind = "dns" => s.name # 0
    BY SettingTyped DEF HeldInv
  <2> QED
    BY <2>3, <2>4 DEF Stamped
<1>3. Excused(o) \in BOOLEAN
  BY DEF Excused
<1>4. Marked(o) \in Holding /\ Marked(o).obs = o /\ Marked(o).excused = Excused(o)
  BY <1>2, <1>3, Zenon DEF Marked, Holding
<1>5. ASSUME NEW p \in Released, Before(o, p)
      PROVE  Excused(o)
  <2>1. p \in Observations /\ o \in Observations
    BY <1>2, ReleasedTyped DEF HeldInv, OrderInv, Stamped
  <2>2. o.ts <= p.ts
    BY <1>5, <2>1, BeforeTs
  <2>3. Excused(p)
    BY <1>1 DEF HeldInv, OrderInv, AllGone
  <2>4. o.ts \in Int /\ p.ts \in Int /\ flushed \in Int /\ newest \in Int /\ LiveReorder \in Int
    BY <2>1, BehaviorAssumption DEF HeldInv, OrderInv, HeldTyped, Observations
  <2> QED
    BY <2>2, <2>3, <2>4 DEF Excused
<1> DEFINE m == Marked(o)
           all == Append(held, m)
<1> HIDE DEF m
<1>6. held \in Seq(Holding) /\ m \in Holding
  BY <1>4 DEF m, HeldInv, OrderInv, HeldTyped
<1>7. all \in Seq(Holding)
  BY <1>6
<1>8. \A j \in DOMAIN all : all[j] = m \/ (j \in DOMAIN held /\ all[j] = held[j])
  BY <1>6
<1>9. AfterReleased(all)
  <2> HIDE DEF all
  <2>1. \A p \in Released : Before(m.obs, p) => m.excused
    BY <1>4, <1>5 DEF m
  <2>2. AfterReleased(held)
    BY DEF HeldInv, OrderInv, HeldAfter
  <2> QED
    BY <1>8, <2>1, <2>2 DEF AfterReleased
<1> QED
  BY <1>1, <1>2, <1>4, <1>7, <1>9 DEF m

(* A batch is let go of, the rest of it being held: the order is kept. *)
LEMMA ReleaseStep ==
  ASSUME HeldInv, ready = <<>>, NEW hs \in Seq(Holding), AfterReleased(hs), NEW s \in Sorted(hs),
         UNCHANGED <<setting, processed>>,
         \A i \in DOMAIN ready' : i \in DOMAIN s /\ ready'[i] = s[i],
         \A j \in DOMAIN held' : \E k \in DOMAIN s :
           held'[j] = s[k] /\ \A i \in DOMAIN ready' : i < k
  PROVE  /\ BatchOrdered' /\ ReadyAfter' /\ HeldAfter' /\ OrderKept'
         /\ Released' \subseteq Released \cup {s[i].obs : i \in DOMAIN s \cap DOMAIN ready'}
<1>1. /\ \A i, j \in DOMAIN s : i < j => ~Before(s[j].obs, s[i].obs)
      /\ \A i \in DOMAIN s : \E k \in DOMAIN hs : s[i] = hs[k]
  BY SortedIs
<1>2. AfterReleased(s)
  BY <1>1 DEF AfterReleased
<1>3. \A i \in DOMAIN processed : Obs(i)' = Obs(i) /\ Obs(i) \in Released
  BY DEF Obs, Released
<1>4. Released' \subseteq Released \cup {s[i].obs : i \in DOMAIN s \cap DOMAIN ready'}
  BY <1>3 DEF Released
<1>5. BatchOrdered'
  BY <1>1 DEF BatchOrdered
<1>6. ReadyAfter'
  BY <1>2, <1>3 DEF ReadyAfter, AfterReleased
<1>7. HeldAfter'
  <2> SUFFICES ASSUME NEW j \in DOMAIN held', NEW o \in Released', Before(held'[j].obs, o)
               PROVE  held'[j].excused
    BY DEF HeldAfter, AfterReleased
  <2>1. PICK k \in DOMAIN s : held'[j] = s[k] /\ \A i \in DOMAIN ready' : i < k
    OBVIOUS
  <2>2. CASE o \in Released
    BY <1>2, <2>1, <2>2 DEF AfterReleased
  <2>3. CASE o \notin Released
    <3>1. PICK i \in DOMAIN s \cap DOMAIN ready' : o = s[i].obs
      BY <1>4, <2>3
    <3> QED
      BY <1>1, <2>1, <3>1
  <2> QED
    BY <2>2, <2>3
<1>8. OrderKept'
  BY <1>3 DEF HeldInv, OrderInv, OrderKept
<1> QED
  BY <1>4, <1>5, <1>6, <1>7, <1>8

-----------------------------------------------------------------------------
(* The actions. *)

(* A quiet moment, the end, or a batch that is full: all that is held goes. *)
LEMMA AllReleased ==
  ASSUME HeldInv, ready = <<>>, NEW hs \in Seq(Holding), AfterReleased(hs), ready' \in Sorted(hs),
         held' = <<>>, UNCHANGED <<setting, engine, newest, processed>>, flushed' \in Int,
         pc' \in {"open", "done"}, oldestHeld' \in {oldestHeld, Forever},
         ~setting.ordered => oldestHeld' = Forever,
         pc' = "open" => /\ pc = "open" /\ flushed' >= flushed
                         /\ \A i \in DOMAIN hs : hs[i].obs.ts <= flushed'
  PROVE  HeldInv'
<1>1. /\ ready' \in Seq(Holding)
      /\ \A i \in DOMAIN ready' : \E k \in DOMAIN hs : ready'[i] = hs[k]
  BY SortedIs
<1>2. DOMAIN held' = {} /\ held' \in Seq(Holding) /\ Len(held') = 0
  BY EmptySeq
<1>3. /\ BatchOrdered' /\ ReadyAfter' /\ HeldAfter' /\ OrderKept'
      /\ Released' \subseteq Released \cup {ready'[i].obs : i \in DOMAIN ready'}
  BY <1>2, ReleaseStep
<1>4. HeldTyped' /\ NewestSeen'
  BY <1>1, <1>2 DEF HeldInv, OrderInv, HeldTyped, NewestSeen
<1>5. AllGone'
  <2> SUFFICES ASSUME pc' = "open", NEW o \in Released' PROVE Excused(o)'
    BY DEF AllGone
  <2>1. CASE o \in Released
    <3>1. Excused(o) /\ o.ts \in Int /\ flushed \in Int
      BY <2>1, ReleasedTyped DEF HeldInv, OrderInv, AllGone, HeldTyped, Stamped, Observations
    <3> QED
      BY <3>1 DEF Excused
  <2>2. CASE o \notin Released
    BY <1>1, <1>3, <2>2 DEF Excused
  <2> QED
    BY <2>1, <2>2
<1>6. EngineTyped' /\ OldestTrue'
  BY DEF HeldInv, EngineTyped, OldestTrue, MinTs
<1>7. setting.maxHeld \in Nat \ {0}
  BY SettingTyped DEF HeldInv
<1> QED
  BY <1>2, <1>3, <1>4, <1>5, <1>6, <1>7 DEF HeldInv, OrderInv

LEMMA ReceiveStep ==
  ASSUME HeldInv, NEW o \in Coming, Receive(o)
  PROVE  HeldInv'
<1> DEFINE all    == Append(held, Marked(o))
           oldest == Earlier(oldestHeld, o.ts)
           cutoff == Later(newest, o.ts) - LiveReorder
<1>1. /\ ~setting.ordered /\ newest' = Later(newest, o.ts)
      /\ UNCHANGED <<setting, engine, pc, processed, flushed>>
      /\ \/ held' = all /\ oldestHeld' = oldest /\ UNCHANGED ready
         \/ (\E s \in Sorted(all) : Divide(s, cutoff)) /\ oldestHeld' = MinTs(held')
  BY DEF Receive
<1>2. /\ o \in Stamped /\ pc = "open" /\ ready = <<>> /\ Marked(o) \in Holding /\ Marked(o).obs = o
      /\ all \in Seq(Holding) /\ AfterReleased(all)
  BY ComingIs
<1>3. o.ts \in Times /\ o.ts \in Int /\ newest \in Int /\ LiveReorder \in Int /\ flushed \in Int
  BY <1>2, BehaviorAssumption DEF HeldInv, OrderInv, HeldTyped, Stamped, Observations
<1>4. newest' \in Int /\ newest' >= newest /\ newest' >= o.ts /\ cutoff = newest' - LiveReorder
  BY <1>1, <1>3 DEF Later
<1>5. \A j \in DOMAIN all : all[j].obs.ts <= newest' /\ all[j] \in Holding
  <2>1. \A j \in DOMAIN held : held[j] \in Holding /\ held[j].obs.ts <= newest
    BY <1>1 DEF HeldInv, OrderInv, HeldTyped, NewestSeen
  <2>2. \A j \in DOMAIN held : held[j].obs.ts \in Int
    BY <2>1 DEF Holding, Stamped, Observations
  <2>3. \A j \in DOMAIN all : all[j] = Marked(o) \/ (j \in DOMAIN held /\ all[j] = held[j])
    BY <1>2 DEF HeldInv, OrderInv, HeldTyped
  <2> HIDE DEF all
  <2> QED
    BY <1>2, <1>3, <1>4, <2>1, <2>2, <2>3
<1>6. \A p \in Released : Excused(p)'
  <2> SUFFICES ASSUME NEW p \in Released PROVE Excused(p)'
    OBVIOUS
  <2>1. Excused(p) /\ p.ts \in Int
    BY <1>2, ReleasedTyped DEF HeldInv, OrderInv, AllGone, Stamped, Observations
  <2> QED
    BY <1>1, <1>3, <1>4, <2>1 DEF Excused
<1>7. EngineTyped'
  BY <1>1 DEF HeldInv, EngineTyped
<1> HIDE DEF all, cutoff
<1>8. CASE held' = all /\ oldestHeld' = oldest /\ UNCHANGED ready
  <2>1. Released' = Released
    BY <1>1, <1>8 DEF Released, Obs
  <2>2. HeldTyped' /\ NewestSeen' /\ AllGone'
    BY <1>1, <1>2, <1>3, <1>4, <1>5, <1>6, <1>8, <2>1
       DEF HeldInv, OrderInv, HeldTyped, NewestSeen, AllGone
  <2>3. HeldAfter'
    BY <1>2, <1>8, <2>1 DEF HeldAfter, AfterReleased
  <2>4. BatchOrdered' /\ ReadyAfter' /\ OrderKept'
    BY <1>1, <1>8 DEF HeldInv, OrderInv, BatchOrdered, ReadyAfter, OrderKept, Obs
  <2>5. OldestTrue'
    <3>1. oldestHeld = MinTs(held) /\ held \in Seq(Holding) /\ oldestHeld \in Times \cup {Forever}
      BY <1>1 DEF HeldInv, OldestTrue, OrderInv, HeldTyped
    <3>2. MinTs(all) = Earlier(MinTs(held), o.ts)
      BY <1>2, <3>1, MinTsAppend DEF all
    <3>3. oldest \in Times \cup {Forever}
      BY <1>3, <3>1 DEF Earlier
    <3> QED
      BY <1>8, <3>1, <3>2, <3>3 DEF OldestTrue
  <2> QED
    BY <1>1, <1>7, <2>2, <2>3, <2>4, <2>5 DEF HeldInv, OrderInv
<1>9. CASE (\E s \in Sorted(all) : Divide(s, cutoff)) /\ oldestHeld' = MinTs(held')
  <2>1. PICK s \in Sorted(all) : Divide(s, cutoff)
    BY <1>9
  <2>2. s \in Seq(Holding) /\ \A i \in DOMAIN s : \E k \in DOMAIN all : s[i] = all[k]
    BY <1>2, SortedIs
  <2>3. /\ ready' \in Seq(Holding) /\ held' \in Seq(Holding)
        /\ \A i \in DOMAIN ready' : i \in DOMAIN s /\ ready'[i] = s[i] /\ s[i].obs.ts <= cutoff
        /\ \A j \in DOMAIN held' : \E k \in DOMAIN s :
             held'[j] = s[k] /\ \A i \in DOMAIN ready' : i < k
    BY <2>1, <2>2, DivideIs
  <2>4. /\ BatchOrdered' /\ ReadyAfter' /\ HeldAfter' /\ OrderKept'
        /\ Released' \subseteq Released \cup {s[i].obs : i \in DOMAIN s \cap DOMAIN ready'}
    BY <1>1, <1>2, <2>3, ReleaseStep
  <2>5. HeldTyped' /\ NewestSeen'
    BY <1>1, <1>4, <1>5, <2>2, <2>3 DEF HeldInv, OrderInv, HeldTyped, NewestSeen
  <2>6. AllGone'
    <3> SUFFICES ASSUME NEW p \in Released' PROVE Excused(p)'
      BY DEF AllGone
    <3>1. CASE p \in Released
      BY <1>6, <3>1
    <3>2. CASE p \notin Released
      BY <1>1, <1>4, <2>3, <2>4, <3>2 DEF Excused
    <3> QED
      BY <3>1, <3>2
  <2>7. OldestTrue'
    <3>1. MinTs(held') \in Times \cup {Forever}
      <4>1. CASE held' = <<>>
        BY <4>1 DEF MinTs
      <4>2. CASE held' # <<>>
        BY <2>3, <4>2, MinTsIs
      <4> QED
        BY <4>1, <4>2
    <3>2. MinTs(held)' = MinTs(held')
      BY DEF MinTs
    <3> QED
      BY <1>9, <3>1, <3>2 DEF OldestTrue
  <2> QED
    BY <1>1, <1>7, <2>4, <2>5, <2>6, <2>7 DEF HeldInv, OrderInv
<1> QED
  BY <1>1, <1>8, <1>9 DEF all, cutoff

LEMMA HoldStep ==
  ASSUME HeldInv, NEW o \in Coming, Hold(o)
  PROVE  HeldInv'
<1> DEFINE all   == Append(held, Marked(o))
           times == {all[i].obs.ts : i \in DOMAIN all}
<1>1. /\ setting.ordered /\ UNCHANGED <<setting, engine, pc, newest, oldestHeld, processed>>
      /\ \/ Len(all) < setting.maxHeld /\ held' = all /\ UNCHANGED <<ready, flushed>>
         \/ ready' \in Sorted(all) /\ held' = <<>> /\ flushed' = Later(flushed, Max(times))
  BY DEF Hold
<1>2. /\ o \in Stamped /\ pc = "open" /\ ready = <<>>
      /\ all \in Seq(Holding) /\ AfterReleased(all) /\ 1 \in DOMAIN all
  <2>1. held \in Seq(Holding) /\ Marked(o) \in Holding
    BY ComingIs DEF HeldInv, OrderInv, HeldTyped
  <2>2. 1 \in DOMAIN all
    BY <2>1
  <2> QED
    BY <2>2, ComingIs
<1>3. flushed \in Int
  BY DEF HeldInv, OrderInv, HeldTyped
<1>4. CASE Len(all) < setting.maxHeld /\ held' = all /\ UNCHANGED <<ready, flushed>>
  <2> HIDE DEF all
  <2>1. Released' = Released
    BY <1>1, <1>4 DEF Released, Obs
  <2>2. HeldTyped' /\ NewestSeen' /\ AllGone' /\ HeldAfter'
    BY <1>1, <1>2, <1>4, <2>1
       DEF HeldInv, OrderInv, HeldTyped, NewestSeen, AllGone, HeldAfter, AfterReleased, Excused
  <2>3. BatchOrdered' /\ ReadyAfter' /\ OrderKept'
    BY <1>1, <1>4 DEF HeldInv, OrderInv, BatchOrdered, ReadyAfter, OrderKept, Obs
  <2>4. EngineTyped' /\ OldestTrue'
    BY <1>1 DEF HeldInv, EngineTyped, OldestTrue
  <2> QED
    BY <1>1, <1>4, <2>2, <2>3, <2>4 DEF HeldInv, OrderInv
<1>5. CASE ready' \in Sorted(all) /\ held' = <<>> /\ flushed' = Later(flushed, Max(times))
  <2>1. \A i \in DOMAIN all : all[i].obs.ts \in Times
    <3>1. \A i \in DOMAIN all : all[i] \in Holding
      BY <1>2
    <3> QED
      BY <3>1 DEF Holding, Stamped
  <2> HIDE DEF all
  <2>3. times \in SUBSET Times /\ times # {}
    BY <1>2, <2>1
  <2>4. \A i \in DOMAIN all : all[i].obs.ts \in times
    OBVIOUS
  <2> HIDE DEF times
  <2>5. Max(times) \in Times /\ \A t \in times : t <= Max(times)
    BY <2>3, GreatestOf
  <2>6. Times \subseteq Int
    BY TimesTyped
  <2>7. flushed' \in Int /\ flushed' >= flushed /\ \A i \in DOMAIN all : all[i].obs.ts <= flushed'
    <3>1. PICK m \in Int : m = Max(times) /\ \A i \in DOMAIN all : all[i].obs.ts <= m
      BY <2>4, <2>5, <2>6
    <3>2. flushed' = IF flushed > m THEN flushed ELSE m
      BY <1>5, <3>1 DEF Later
    <3>3. \A i \in DOMAIN all : all[i].obs.ts \in Int
      BY <2>1, <2>6
    <3> QED
      BY <1>3, <3>1, <3>2, <3>3
  <2>8. pc' \in {"open", "done"}
    BY <1>1, <1>2
  <2> QED
    BY <1>1, <1>2, <1>5, <2>7, <2>8, AllReleased
<1> QED
  BY <1>1, <1>4, <1>5

LEMMA QuietStep ==
  ASSUME HeldInv, Quiet
  PROVE  HeldInv'
<1>1. /\ ~setting.ordered /\ pc = "open" /\ ready = <<>> /\ ready' \in Sorted(held)
      /\ held' = <<>> /\ oldestHeld' = Forever /\ flushed' = Later(flushed, newest)
      /\ UNCHANGED <<setting, engine, pc, newest, processed>>
  BY DEF Quiet
<1>2. held \in Seq(Holding) /\ AfterReleased(held) /\ flushed \in Int /\ newest \in Int
  BY DEF HeldInv, OrderInv, HeldTyped, HeldAfter
<1>3. \A i \in DOMAIN held : held[i].obs.ts <= newest /\ held[i].obs.ts \in Int
  <2>1. \A i \in DOMAIN held : held[i] \in Holding
    BY <1>2
  <2> QED
    BY <1>1, <2>1 DEF HeldInv, OrderInv, NewestSeen, Holding, Stamped, Observations
<1>4. flushed' \in Int /\ flushed' >= flushed /\ \A i \in DOMAIN held : held[i].obs.ts <= flushed'
  BY <1>1, <1>2, <1>3 DEF Later
<1> QED
  BY <1>1, <1>2, <1>4, AllReleased

LEMMA FinishStep ==
  ASSUME HeldInv, Finish
  PROVE  HeldInv'
<1>1. /\ ready = <<>> /\ pc' = "done" /\ ready' \in Sorted(held)
      /\ held' = <<>> /\ oldestHeld' = Forever
      /\ UNCHANGED <<setting, engine, newest, processed, flushed>>
  BY DEF Finish
<1>2. held \in Seq(Holding) /\ AfterReleased(held) /\ flushed \in Int
  BY DEF HeldInv, OrderInv, HeldTyped, HeldAfter
<1> QED
  BY <1>1, <1>2, AllReleased

(* The first of a batch is given to the engine: nothing more is let go of. *)
LEMMA ProcessStep ==
  ASSUME HeldInv, Process
  PROVE  HeldInv'
<1> DEFINE h == Head(ready)
           r == Observed(engine, h.obs)
           t == [obs |-> h.obs, excused |-> h.excused, raised |-> r.raised]
<1>1. /\ ready # <<>> /\ ready' = Tail(ready)
      /\ engine' = r.engine /\ processed' = Append(processed, t)
      /\ UNCHANGED <<setting, pc, held, newest, oldestHeld, flushed>>
  BY DEF Process
<1>2. ready \in Seq(Holding) /\ processed \in Seq(Taken) /\ held \in Seq(Holding)
  BY DEF HeldInv, OrderInv, HeldTyped
<1>3. /\ h = ready[1] /\ 1 \in DOMAIN ready /\ h \in Holding /\ ready' \in Seq(Holding)
      /\ DOMAIN ready' = 1 .. Len(ready) - 1 /\ DOMAIN ready = 1 .. Len(ready) /\ Len(ready) \in Nat
      /\ \A i \in DOMAIN ready' : i + 1 \in DOMAIN ready /\ ready'[i] = ready[i + 1]
  BY <1>1, <1>2
<1>4. h.obs \in Stamped /\ h.excused \in BOOLEAN
  BY <1>3 DEF Holding
<1> HIDE DEF h
<1>5. EngineTyped' /\ r.raised \subseteq Alerts
  BY <1>1, <1>4, ObservedIs DEF HeldInv
<1>6. t \in Taken /\ t.obs = h.obs /\ t.excused = h.excused
  <2> HIDE DEF r
  <2> QED BY <1>4, <1>5 DEF Taken
<1> HIDE DEF t, r
<1>n. PICK n \in Nat : n = Len(processed)
  BY <1>2
<1>7. /\ processed' \in Seq(Taken) /\ DOMAIN processed = 1 .. n /\ DOMAIN processed' = 1 .. n + 1
      /\ processed'[n + 1] = t /\ \A i \in 1 .. n : processed'[i] = processed[i]
  BY <1>1, <1>2, <1>6, <1>n
<1>8. /\ Obs(n + 1)' = h.obs /\ \A i \in 1 .. n : Obs(i)' = Obs(i)
  BY <1>6, <1>7 DEF Obs
<1>9. Released' \subseteq Released
  <2> SUFFICES ASSUME NEW o \in Released' PROVE o \in Released
    OBVIOUS
  <2>1. CASE \E i \in DOMAIN processed' : o = Obs(i)'
    <3>1. PICK i \in 1 .. n + 1 : o = Obs(i)'
      BY <1>7, <2>1
    <3>2. CASE i = n + 1
      BY <1>3, <1>8, <3>1, <3>2 DEF Released
    <3>3. CASE i # n + 1
      <4>1. i \in 1 .. n
        BY <1>7, <3>3
      <4> QED
        BY <1>7, <1>8, <3>1, <4>1 DEF Released
    <3> QED
      BY <3>2, <3>3
  <2>2. CASE \E i \in DOMAIN ready' : o = ready'[i].obs
    BY <1>3, <2>2 DEF Released
  <2> QED
    BY <2>1, <2>2 DEF Released
<1>10. HeldTyped' /\ NewestSeen' /\ OldestTrue'
  BY <1>1, <1>3, <1>7 DEF HeldInv, OrderInv, HeldTyped, NewestSeen, OldestTrue, MinTs
<1>11. HeldAfter' /\ AllGone'
  BY <1>1, <1>9 DEF HeldInv, OrderInv, HeldAfter, AfterReleased, AllGone, Excused
<1>12. BatchOrdered'
  <2> SUFFICES ASSUME NEW i \in DOMAIN ready', NEW j \in DOMAIN ready', i < j
               PROVE  ~Before(ready'[j].obs, ready'[i].obs)
    BY DEF BatchOrdered
  <2>1. i + 1 < j + 1
    BY <1>3
  <2> QED
    BY <1>3, <2>1 DEF HeldInv, OrderInv, BatchOrdered
<1>13. ReadyAfter'
  <2> SUFFICES ASSUME NEW i \in DOMAIN processed', NEW j \in DOMAIN ready',
                      Before(ready'[j].obs, Obs(i)')
               PROVE  ready'[j].excused
    BY DEF ReadyAfter
  <2>1. CASE i = n + 1
    <3>1. 1 < j + 1 /\ j + 1 \in DOMAIN ready
      BY <1>3
    <3> QED
      BY <1>3, <1>8, <2>1, <3>1 DEF HeldInv, OrderInv, BatchOrdered
  <2>2. CASE i # n + 1
    <3>1. i \in DOMAIN processed /\ Obs(i)' = Obs(i)
      BY <1>7, <1>8, <2>2
    <3> QED
      BY <1>3, <3>1 DEF HeldInv, OrderInv, ReadyAfter
  <2> QED
    BY <2>1, <2>2
<1>14. OrderKept'
  <2> SUFFICES ASSUME NEW i \in 1 .. n + 1, NEW j \in 1 .. n + 1, i < j, Before(Obs(j)', Obs(i)')
               PROVE  processed'[j].excused
    BY <1>7 DEF OrderKept
  <2>1. i \in 1 .. n /\ i \in DOMAIN processed /\ Obs(i)' = Obs(i)
    BY <1>7, <1>8
  <2>2. CASE j = n + 1
    <3>1. ready[1].excused
      BY <1>3, <1>8, <2>1, <2>2 DEF HeldInv, OrderInv, ReadyAfter
    <3> QED
      BY <1>3, <1>6, <1>7, <2>2, <3>1
  <2>3. CASE j # n + 1
    <3>1. j \in DOMAIN processed /\ Obs(j)' = Obs(j) /\ processed'[j] = processed[j]
      BY <1>7, <1>8, <2>3
    <3> QED
      BY <2>1, <3>1 DEF HeldInv, OrderInv, OrderKept
  <2> QED
    BY <2>2, <2>3
<1> QED
  BY <1>1, <1>5, <1>10, <1>11, <1>12, <1>13, <1>14 DEF HeldInv, OrderInv

LEMMA NextHeldInv == HeldInv /\ [Next]_vars => HeldInv'
<1> SUFFICES ASSUME HeldInv, [Next]_vars PROVE HeldInv'
  OBVIOUS
<1>1. ASSUME NEW o \in Coming, Receive(o) PROVE HeldInv'
  BY <1>1, ReceiveStep
<1>2. ASSUME NEW o \in Coming, Hold(o) PROVE HeldInv'
  BY <1>2, HoldStep
<1>3. CASE Quiet
  BY <1>3, QuietStep
<1>4. CASE Finish
  BY <1>4, FinishStep
<1>5. CASE Process
  BY <1>5, ProcessStep
<1>6. CASE UNCHANGED vars
  <2>1. OrderInv'
    BY <1>6 DEF vars, HeldInv, OrderInv, HeldTyped, BatchOrdered, ReadyAfter, HeldAfter, AfterReleased,
                Released, AllGone, NewestSeen, OrderKept, Obs, Excused
  <2>2. EngineTyped' /\ OldestTrue'
    BY <1>6 DEF vars, HeldInv, EngineTyped, OldestTrue, MinTs
  <2> QED
    BY <1>6, <2>1, <2>2 DEF vars, HeldInv
<1> QED
  BY <1>1, <1>2, <1>3, <1>4, <1>5, <1>6 DEF Next

(* Live or in a replay, whatever the workers send and when they fall       *)
(* quiet: the tables keep their bounds, and an observation is given to the *)
(* engine after one that should follow it only if, when it came, it was    *)
(* behind what had been let go of.                                         *)
THEOREM ObservationsInOrder == Spec => []HeldInOrder
<1>1. Spec => []HeldInv
  BY InitHeldInv, NextHeldInv, PTL DEF Spec
<1> QED
  BY <1>1, HeldInvImplies, PTL

-----------------------------------------------------------------------------
(* Sums. A function that adds up every part of a set, in whichever order:  *)
(* there is one, and it is what the library's sum chooses.                 *)

Adds(f, S, g) ==
  /\ g \in [SUBSET S -> Nat] /\ g[{}] = 0
  /\ \A s \in SUBSET S : \A x \in s : g[s] = f[x] + g[s \ {x}]

LEMMA AddsMore ==
  ASSUME NEW f, NEW S, NEW x, x \notin S, \A y \in S \cup {x} : f[y] \in Nat, NEW g, Adds(f, S, g)
  PROVE  \E h : Adds(f, S \cup {x}, h)
<1> DEFINE h == [s \in SUBSET (S \cup {x}) |-> IF x \in s THEN f[x] + g[s \ {x}] ELSE g[s]]
<1>1. \A s \in SUBSET (S \cup {x}) : s \ {x} \in SUBSET S /\ (x \notin s => s \in SUBSET S)
  OBVIOUS
<1>2. h \in [SUBSET (S \cup {x}) -> Nat]
  <2> SUFFICES ASSUME NEW s \in SUBSET (S \cup {x})
               PROVE  (IF x \in s THEN f[x] + g[s \ {x}] ELSE g[s]) \in Nat
    OBVIOUS
  <2>1. g[s \ {x}] \in Nat /\ (x \notin s => g[s] \in Nat)
    BY <1>1 DEF Adds
  <2> QED BY <2>1
<1>3. h[{}] = 0
  BY DEF Adds
<1>4. ASSUME NEW s \in SUBSET (S \cup {x}), NEW y \in s
      PROVE  h[s] = f[y] + h[s \ {y}]
  <2>1. s \ {y} \in SUBSET (S \cup {x}) /\ s \ {x} \in SUBSET S
    OBVIOUS
  <2>2. CASE y = x
    BY <2>1, <2>2
  <2>3. CASE y # x /\ x \in s
    <3>1. h[s] = f[x] + g[s \ {x}] /\ h[s \ {y}] = f[x] + g[(s \ {y}) \ {x}]
      BY <2>1, <2>3
    <3>2. g[s \ {x}] = f[y] + g[(s \ {x}) \ {y}] /\ (s \ {y}) \ {x} = (s \ {x}) \ {y}
      BY <2>1, <2>3 DEF Adds
    <3>3. g[s \ {x}] \in Nat /\ g[(s \ {x}) \ {y}] \in Nat
      BY <2>1 DEF Adds
    <3>4. f[x] \in Nat /\ f[y] \in Nat
      OBVIOUS
    <3> DEFINE a == g[(s \ {x}) \ {y}]
    <3>5. h[s] = f[x] + (f[y] + a) /\ h[s \ {y}] = f[x] + a /\ a \in Nat
      BY <3>1, <3>2, <3>3
    <3> HIDE DEF a, h
    <3> QED BY <3>4, <3>5
  <2>4. CASE x \notin s
    BY <1>1, <2>1, <2>4 DEF Adds
  <2> QED BY <2>2, <2>3, <2>4
<1> HIDE DEF h
<1>5. Adds(f, S \cup {x}, h)
  BY <1>2, <1>3, <1>4 DEF Adds
<1> QED BY <1>5

LEMMA AddsExist ==
  ASSUME NEW f, NEW S, IsFiniteSet(S), \A y \in S : f[y] \in Nat
  PROVE  \E g : Adds(f, S, g)
<1> DEFINE bad == {n \in Nat : \E s \in SUBSET S : Cardinality(s) = n /\ ~ \E g : Adds(f, s, g)}
<1> SUFFICES ASSUME ~ \E g : Adds(f, S, g) PROVE FALSE
  OBVIOUS
<1>1. Cardinality(S) \in bad
  BY FS_CardinalityType
<1> HIDE DEF bad
<1>2. bad \in SUBSET Nat /\ bad # {}
  BY <1>1 DEF bad
<1>3. PICK m \in bad : \A n \in bad : m <= n
  BY <1>2, LeastOf
<1>4. PICK s \in SUBSET S : Cardinality(s) = m /\ ~ \E g : Adds(f, s, g)
  BY <1>3 DEF bad
<1>5. IsFiniteSet(s)
  BY FS_Subset
<1>6. s # {}
  <2> SUFFICES ASSUME s = {} PROVE FALSE
    OBVIOUS
  <2>1. Adds(f, {}, [r \in SUBSET {} |-> 0])
    BY DEF Adds
  <2> QED BY <1>4, <2>1
<1>7. PICK x : x \in s
  BY <1>6
<1>8. /\ IsFiniteSet(s \ {x}) /\ Cardinality(s \ {x}) = Cardinality(s) - 1
      /\ Cardinality(s \ {x}) \in Nat
  BY <1>5, <1>7, FS_RemoveElement, FS_CardinalityType
<1>9. PICK g : Adds(f, s \ {x}, g)
  <2>1. m - 1 \notin bad
    BY <1>2, <1>3
  <2> QED BY <1>4, <1>8, <2>1 DEF bad
<1>10. \E h : Adds(f, (s \ {x}) \cup {x}, h)
  BY <1>7, <1>9, AddsMore
<1>11. (s \ {x}) \cup {x} = s
  BY <1>7
<1> QED BY <1>4, <1>10, <1>11

Iterates(f, S, g) ==
  g = [s \in SUBSET S |->
         IF s = {} THEN 0 ELSE f[CHOOSE x \in s : TRUE] + g[s \ {CHOOSE x \in s : TRUE}]]

LEMMA SumIterates ==
  ASSUME NEW f, NEW S
  PROVE  SumFunctionOnSet(f, S) = (CHOOSE g : Iterates(f, S, g))[S]
BY DEF SumFunctionOnSet, FoldFunctionOnSet, MapThenFoldSet, Iterates

LEMMA SumAdds ==
  ASSUME NEW f, NEW S, IsFiniteSet(S), NEW g, Adds(f, S, g)
  PROVE  SumFunctionOnSet(f, S) = g[S]
<1>1. Iterates(f, S, g)
  <2>1. ASSUME NEW s \in SUBSET S
        PROVE  g[s] = IF s = {} THEN 0 ELSE f[CHOOSE x \in s : TRUE] + g[s \ {CHOOSE x \in s : TRUE}]
    <3>1. CASE s = {}
      BY <3>1 DEF Adds
    <3>2. CASE s # {}
      <4>1. (CHOOSE x \in s : TRUE) \in s
        BY <3>2
      <4> QED BY <3>2, <4>1 DEF Adds
    <3> QED BY <3>1, <3>2
  <2>2. g = [s \in SUBSET S |-> g[s]]
    BY DEF Adds
  <2> QED BY <2>1, <2>2 DEF Iterates
<1> DEFINE h == CHOOSE h : Iterates(f, S, h)
<1>2. Iterates(f, S, h)
  BY <1>1
<1> HIDE DEF h
<1> DEFINE bad == {n \in Nat : \E s \in SUBSET S : Cardinality(s) = n /\ h[s] # g[s]}
<1>3. h[S] = g[S]
  <2> SUFFICES ASSUME h[S] # g[S] PROVE FALSE
    OBVIOUS
  <2>1. Cardinality(S) \in bad
    BY FS_CardinalityType
  <2> HIDE DEF bad
  <2>2. bad \in SUBSET Nat /\ bad # {}
    BY <2>1 DEF bad
  <2>3. PICK m \in bad : \A n \in bad : m <= n
    BY <2>2, LeastOf
  <2>4. PICK s \in SUBSET S : Cardinality(s) = m /\ h[s] # g[s]
    BY <2>3 DEF bad
  <2>5. s # {}
    BY <1>1, <1>2, <2>4 DEF Iterates
  <2> DEFINE x == CHOOSE x \in s : TRUE
  <2>6. x \in s
    BY <2>5
  <2>7. h[s] = f[x] + h[s \ {x}] /\ g[s] = f[x] + g[s \ {x}]
    BY <1>1, <1>2, <2>5 DEF Iterates
  <2> HIDE DEF x
  <2>8. IsFiniteSet(s)
    BY FS_Subset
  <2>9. /\ Cardinality(s \ {x}) = Cardinality(s) - 1 /\ Cardinality(s \ {x}) \in Nat
    BY <2>6, <2>8, FS_RemoveElement, FS_CardinalityType
  <2>10. m - 1 \notin bad
    BY <2>2, <2>3
  <2>11. h[s \ {x}] = g[s \ {x}]
    BY <2>4, <2>9, <2>10 DEF bad
  <2> QED BY <2>4, <2>7, <2>11
<1> QED BY <1>3, SumIterates DEF h

(* A sum of a finite set is a number, nothing for nothing, grows by each   *)
(* part, and is the same of functions that agree on the set.               *)
Numbers(f, S) == IsFiniteSet(S) /\ \A y \in S : f[y] \in Nat

LEMMA SumTyped ==
  ASSUME NEW f, NEW S, Numbers(f, S)
  PROVE  SumFunctionOnSet(f, S) \in Nat
<1>1. PICK g : Adds(f, S, g)
  BY AddsExist DEF Numbers
<1>2. SumFunctionOnSet(f, S) = g[S]
  BY <1>1, SumAdds DEF Numbers
<1> QED BY <1>1, <1>2 DEF Adds

LEMMA SumNothing ==
  ASSUME NEW f
  PROVE  SumFunctionOnSet(f, {}) = 0
<1>1. Adds(f, {}, [r \in SUBSET {} |-> 0])
  BY DEF Adds
<1>2. IsFiniteSet({})
  BY FS_EmptySet
<1>3. SumFunctionOnSet(f, {}) = [r \in SUBSET {} |-> 0][{}]
  BY <1>1, <1>2, SumAdds
<1> QED BY <1>3

LEMMA SumSame ==
  ASSUME NEW f, NEW h, NEW S, Numbers(f, S), \A y \in S : h[y] = f[y]
  PROVE  SumFunctionOnSet(h, S) = SumFunctionOnSet(f, S)
<1>1. PICK g : Adds(f, S, g)
  BY AddsExist DEF Numbers
<1>2. Adds(h, S, g)
  BY <1>1 DEF Adds
<1> QED BY <1>1, <1>2, SumAdds DEF Numbers

LEMMA SumMore ==
  ASSUME NEW f, NEW S, NEW x, x \notin S, Numbers(f, S \cup {x})
  PROVE  /\ SumFunctionOnSet(f, S \cup {x}) = f[x] + SumFunctionOnSet(f, S)
         /\ Numbers(f, S)
<1> DEFINE U == S \cup {x}
<1>1. PICK g : Adds(f, U, g)
  BY AddsExist DEF Numbers
<1>2. S \in SUBSET U /\ x \in U /\ U \ {x} = S /\ IsFiniteSet(U)
  BY DEF Numbers
<1>3. IsFiniteSet(S)
  BY <1>2, FS_Subset
<1> DEFINE k == [s \in SUBSET S |-> g[s]]
<1>4. Adds(f, S, k)
  <2>1. k \in [SUBSET S -> Nat] /\ k[{}] = 0
    BY <1>1, <1>2 DEF Adds
  <2>2. ASSUME NEW s \in SUBSET S, NEW y \in s
        PROVE  k[s] = f[y] + k[s \ {y}]
    <3>1. s \in SUBSET U /\ s \ {y} \in SUBSET S
      BY <1>2
    <3>2. g[s] = f[y] + g[s \ {y}]
      BY <1>1, <3>1 DEF Adds
    <3> QED BY <3>1, <3>2
  <2> HIDE DEF k
  <2> QED BY <2>1, <2>2 DEF Adds
<1>5. SumFunctionOnSet(f, S) = g[S]
  <2>1. k[S] = g[S]
    OBVIOUS
  <2> HIDE DEF k
  <2> QED BY <1>3, <1>4, <2>1, SumAdds
<1>6. SumFunctionOnSet(f, U) = g[U]
  BY <1>1, <1>2, SumAdds
<1>7. g[U] = f[x] + g[S]
  <2>1. U \in SUBSET U
    OBVIOUS
  <2> HIDE DEF U
  <2> QED BY <1>1, <1>2, <2>1 DEF Adds
<1>8. Numbers(f, S)
  BY <1>3 DEF Numbers
<1> QED BY <1>5, <1>6, <1>7, <1>8

-----------------------------------------------------------------------------
(* A ring of seconds: it is typed, ends where time has come to, and from   *)
(* then on adds up to no more than is so, and to all of it where nothing   *)
(* was refused (`whole`).  What is so is a function of when it is asked.   *)

RingOK(ring, T, span, whole, G) ==
  /\ IsFiniteSet(DOMAIN ring)
  /\ \A s \in DOMAIN ring : s \in Nat /\ s <= T /\ ring[s] \in Nat
  /\ \A n \in Nat : n >= T => Total(ring, n, span) <= G[n] /\ (whole => Total(ring, n, span) = G[n])

Counting(ring, n, span) == {s \in DOMAIN ring : s > n - span}

LEMMA CountingIs ==
  ASSUME NEW ring, NEW n, NEW span, IsFiniteSet(DOMAIN ring), \A s \in DOMAIN ring : ring[s] \in Nat
  PROVE  Numbers(ring, Counting(ring, n, span)) /\ Total(ring, n, span) \in Nat
<1>1. Counting(ring, n, span) \in SUBSET DOMAIN ring
  BY DEF Counting
<1>2. Numbers(ring, Counting(ring, n, span))
  BY <1>1, FS_Subset DEF Numbers
<1> QED BY <1>2, SumTyped DEF Total, Counting

LEMMA TotalIs ==
  \A ring, n, span : Total(ring, n, span) = SumFunctionOnSet(ring, Counting(ring, n, span))
BY DEF Total, Counting

LEMMA LapApart ==
  ASSUME NEW s \in Nat, NEW now \in Nat, NEW span \in Nat \ {0}, s < now, s % span = now % span
  PROVE  s <= now - span
<1> DEFINE q == s \div span
           r == now \div span
<1>1. q \in Int /\ r \in Int /\ s = span * q + (s % span) /\ now = span * r + (now % span)
  OBVIOUS
<1> HIDE DEF q, r
<1>2. now - s = span * (r - q)
  BY <1>1
<1>3. r - q >= 1
  BY <1>1, <1>2
<1> QED BY <1>1, <1>2, <1>3

LEMMA RingAdded ==
  ASSUME NEW ring, NEW T \in Nat, NEW now \in Nat, T <= now, NEW span \in Nat \ {0}, NEW amount \in Nat,
         NEW whole, NEW G \in [Nat -> Nat], NEW H \in [Nat -> Nat], RingOK(ring, T, span, whole, G),
         \A n \in Nat : n >= now => H[n] = G[n] + (IF now > n - span THEN amount ELSE 0),
         NEW after, after = Added(ring, now, amount, span)
  PROVE  RingOK(after, now, span, whole, H)
<1> DEFINE others == {s \in DOMAIN ring : s % span # now % span}
           had    == IF now \in DOMAIN ring THEN ring[now] ELSE 0
<1>1. /\ DOMAIN after = others \cup {now} /\ after[now] = had + amount
      /\ \A s \in others : after[s] = ring[s] /\ s # now
  BY DEF Added, Put, Restrict
<1>2. had \in Nat
  BY DEF RingOK
<1> HIDE DEF had
<1>3. IsFiniteSet(DOMAIN after)
  <2>1. others \in SUBSET DOMAIN ring
    OBVIOUS
  <2> HIDE DEF others
  <2>2. IsFiniteSet(others)
    BY <2>1, FS_Subset DEF RingOK
  <2> QED BY <1>1, <2>2, FS_AddElement
<1>4. \A s \in DOMAIN after : s \in Nat /\ s <= now /\ after[s] \in Nat
  BY <1>1, <1>2 DEF RingOK
<1>5. ASSUME NEW n \in Nat, n >= now
      PROVE  Total(after, n, span) = Total(ring, n, span) + (IF now > n - span THEN amount ELSE 0)
  <2> DEFINE A == Counting(ring, n, span) \ {now}
  <2>1. Counting(after, n, span) \ {now} = A
    <3>1. ASSUME NEW s \in DOMAIN ring, s # now, s % span = now % span
          PROVE  ~(s > n - span)
      <4>1. s \in Nat /\ s < now
        BY <3>1 DEF RingOK
      <4> QED BY <1>5, <3>1, <4>1, LapApart
    <3> QED BY <1>1, <3>1 DEF Counting
  <2>2. Numbers(ring, Counting(ring, n, span)) /\ Numbers(after, Counting(after, n, span))
    BY <1>3, <1>4, CountingIs DEF RingOK
  <2> HIDE DEF A
  <2>3. /\ Numbers(ring, A)
        /\ Total(ring, n, span) =
             SumFunctionOnSet(ring, A) + (IF now > n - span THEN had ELSE 0)
    <3>1. CASE now \in Counting(ring, n, span)
      <4>1. now \notin A /\ A \cup {now} = Counting(ring, n, span) /\ had = ring[now] /\ now > n - span
        BY <3>1 DEF Counting, had, A
      <4>2. Numbers(ring, A) /\ SumFunctionOnSet(ring, A \cup {now}) = ring[now] + SumFunctionOnSet(ring, A)
        BY <2>2, <4>1, SumMore
      <4>3. SumFunctionOnSet(ring, A) \in Nat
        BY <4>2, SumTyped
      <4>4. Total(ring, n, span) = SumFunctionOnSet(ring, A \cup {now})
        BY <4>1, TotalIs
      <4> QED BY <1>2, <4>1, <4>2, <4>3, <4>4
    <3>2. CASE now \notin Counting(ring, n, span)
      <4>1. A = Counting(ring, n, span) /\ (now > n - span => had = 0)
        BY <3>2 DEF Counting, had, A
      <4>2. SumFunctionOnSet(ring, A) \in Nat
        BY <2>2, <4>1, SumTyped
      <4> QED BY <2>2, <4>1, <4>2 DEF Total, Counting
    <3> QED BY <3>1, <3>2
  <2>4. SumFunctionOnSet(after, A) = SumFunctionOnSet(ring, A)
    <3>1. \A s \in A : after[s] = ring[s]
      BY <1>1, <2>1 DEF Counting
    <3> QED BY <2>3, <3>1, SumSame
  <2>5. Total(after, n, span) =
          SumFunctionOnSet(after, A) + (IF now > n - span THEN had + amount ELSE 0)
    <3>1. SumFunctionOnSet(after, A) \in Nat
      BY <2>3, <2>4, SumTyped
    <3>2. CASE now > n - span
      <4>1. now \notin A /\ A \cup {now} = Counting(after, n, span)
        BY <1>1, <2>1, <3>2 DEF Counting
      <4>2. SumFunctionOnSet(after, A \cup {now}) = after[now] + SumFunctionOnSet(after, A)
        BY <2>2, <4>1, SumMore
      <4>3. Total(after, n, span) = SumFunctionOnSet(after, A \cup {now})
        BY <4>1, TotalIs
      <4> QED BY <1>1, <1>2, <3>1, <3>2, <4>2, <4>3
    <3>3. CASE ~(now > n - span)
      <4>1. A = Counting(after, n, span)
        BY <2>1, <3>3 DEF Counting
      <4> QED BY <3>1, <3>3, <4>1 DEF Total, Counting
    <3> QED BY <3>2, <3>3
  <2>6. SumFunctionOnSet(ring, A) \in Nat
    BY <2>3, SumTyped
  <2> QED BY <1>2, <2>3, <2>4, <2>5, <2>6
<1>6. ASSUME NEW n \in Nat, n >= now
      PROVE  Total(after, n, span) <= H[n] /\ (whole => Total(after, n, span) = H[n])
  <2>1. Total(ring, n, span) <= G[n] /\ (whole => Total(ring, n, span) = G[n])
    BY <1>6 DEF RingOK
  <2>2. H[n] = G[n] + (IF now > n - span THEN amount ELSE 0) /\ G[n] \in Nat
    BY <1>6
  <2>3. Total(ring, n, span) \in Nat
    BY CountingIs DEF RingOK
  <2>4. Total(after, n, span) = Total(ring, n, span) + (IF now > n - span THEN amount ELSE 0)
    BY <1>5, <1>6
  <2> HIDE DEF RingOK
  <2> QED BY <2>1, <2>2, <2>3, <2>4
<1> QED BY <1>3, <1>4, <1>6 DEF RingOK

LEMMA RingStands ==
  ASSUME NEW ring, NEW T \in Nat, NEW now \in Nat, T <= now, NEW span \in Nat, NEW whole, NEW later, later => whole,
         NEW G \in [Nat -> Nat], NEW H \in [Nat -> Nat], RingOK(ring, T, span, whole, G),
         \A n \in Nat : n >= now => G[n] <= H[n] /\ (later => H[n] = G[n])
  PROVE  RingOK(ring, now, span, later, H)
<1>1. \A s \in DOMAIN ring : s \in Nat /\ s <= now /\ ring[s] \in Nat
  BY DEF RingOK
<1>2. ASSUME NEW n \in Nat, n >= now
      PROVE  Total(ring, n, span) <= H[n] /\ (later => Total(ring, n, span) = H[n])
  <2>1. Total(ring, n, span) <= G[n] /\ (whole => Total(ring, n, span) = G[n])
    BY <1>2 DEF RingOK
  <2>2. Total(ring, n, span) \in Nat
    BY CountingIs DEF RingOK
  <2> QED BY <1>2, <2>1, <2>2
<1> QED BY <1>1, <1>2 DEF RingOK

LEMMA RingFresh ==
  ASSUME NEW now \in Nat, NEW span \in Nat, NEW whole, NEW H \in [Nat -> Nat],
         whole => \A n \in Nat : n >= now => H[n] = 0
  PROVE  RingOK(<<>>, now, span, whole, H)
<1>1. DOMAIN <<>> = {} /\ IsFiniteSet({})
  BY FS_EmptySet
<1>2. \A n : Counting(<<>>, n, span) = {}
  BY <1>1 DEF Counting
<1>3. \A n : Total(<<>>, n, span) = 0
  BY <1>2, SumNothing DEF Total, Counting
<1> QED BY <1>1, <1>3 DEF RingOK

-----------------------------------------------------------------------------
(* A set of keys, each with a time: what it has was seen then, and it has  *)
(* all that was seen in the last span, unless something was refused.  What *)
(* was seen is a set H of keys with times.                                 *)

SetOK(w, H, T, span, whole) ==
  /\ DOMAIN w = {"seen", "pruned", "refused"}
  /\ IsFiniteSet(DOMAIN w.seen)
  /\ w.pruned \in Nat /\ w.pruned <= T
  /\ \A k \in DOMAIN w.seen :
       /\ <<k, w.seen[k]>> \in H /\ w.seen[k] \in Nat /\ w.seen[k] <= T
       /\ w.seen[k] > w.pruned - span
  /\ whole /\ ~w.refused =>
       \A k : \A t \in Nat : <<k, t>> \in H /\ t > T - span => k \in DOMAIN w.seen /\ w.seen[k] >= t

(* It was pruned in this second and has something. *)
Fresh(w, now, span) ==
  DOMAIN w.seen # {} /\ \A k \in DOMAIN w.seen : w.seen[k] > now - span

LEMMA SetPruned ==
  ASSUME NEW w, NEW H, NEW T \in Nat, NEW span \in Nat, NEW whole, SetOK(w, H, T, span, whole),
         NEW now \in Nat, T <= now, NEW p, p = Pruned(w, now, span)
  PROVE  /\ SetOK(p, H, now, span, whole) /\ p.refused = w.refused
         /\ \A k \in DOMAIN p.seen : p.seen[k] > now - span
<1> USE DEF SetOK
<1>1. CASE now - w.pruned < 1
  <2>1. w.pruned = now /\ T = now /\ p = w
    BY <1>1 DEF Pruned
  <2> QED BY <2>1
<1>2. CASE ~(now - w.pruned < 1)
  <2> DEFINE kept == {k \in DOMAIN w.seen : w.seen[k] > now - span}
  <2>1. /\ p.seen = [k \in kept |-> w.seen[k]] /\ p.pruned = now /\ p.refused = w.refused
        /\ DOMAIN p = {"seen", "pruned", "refused"}
    BY <1>2 DEF Pruned, Restrict
  <2>2. IsFiniteSet(kept)
    <3>1. kept \in SUBSET DOMAIN w.seen
      OBVIOUS
    <3> HIDE DEF kept
    <3> QED BY <3>1, FS_Subset
  <2>3. \A k \in DOMAIN p.seen : k \in DOMAIN w.seen /\ p.seen[k] = w.seen[k] /\ w.seen[k] > now - span
    BY <2>1
  <2>4. \A k \in DOMAIN w.seen : w.seen[k] > now - span => k \in DOMAIN p.seen /\ p.seen[k] = w.seen[k]
    BY <2>1
  <2>5. IsFiniteSet(DOMAIN p.seen)
    BY <2>1, <2>2
  <2>6. \A k \in DOMAIN p.seen :
          /\ <<k, p.seen[k]>> \in H /\ p.seen[k] \in Nat /\ p.seen[k] <= now
          /\ p.seen[k] > p.pruned - span
    BY <2>1, <2>3
  <2>7. ASSUME whole, ~p.refused, NEW k, NEW t \in Nat, <<k, t>> \in H, t > now - span
        PROVE  k \in DOMAIN p.seen /\ p.seen[k] >= t
    <3>1. t > T - span /\ ~w.refused
      BY <2>1, <2>7
    <3>2. k \in DOMAIN w.seen /\ w.seen[k] >= t /\ w.seen[k] \in Nat
      BY <2>7, <3>1
    <3> QED BY <2>4, <2>7, <3>2
  <2> HIDE DEF kept
  <2> QED BY <2>1, <2>3, <2>5, <2>6, <2>7
<1> QED BY <1>1, <1>2

LEMMA SetInserted ==
  ASSUME NEW w, NEW H, NEW T \in Nat, NEW span \in Nat \ {0}, NEW whole, SetOK(w, H, T, span, whole),
         NEW now \in Nat, T <= now, NEW key, NEW cap \in Nat \ {0},
         NEW after, after = Inserted(w, key, now, span, cap)
  PROVE  SetOK(after, H \cup {<<key, now>>}, now, span, whole) /\ Fresh(after, now, span)
<1> DEFINE p == Pruned(w, now, span)
           put == Put(p.seen, key, now)
           J == H \cup {<<key, now>>}
<1>1. /\ SetOK(p, H, now, span, whole) /\ p.refused = w.refused
      /\ \A k \in DOMAIN p.seen : p.seen[k] > now - span
  BY SetPruned
<1> HIDE DEF p
<1>2. CASE Distinct(p) >= cap /\ key \notin DOMAIN p.seen
  <2>1. /\ after.seen = p.seen /\ after.pruned = p.pruned /\ after.refused
        /\ DOMAIN after = {"seen", "pruned", "refused"}
    BY <1>1, <1>2 DEF Inserted, p, SetOK
  <2>2. DOMAIN p.seen # {}
    <3>1. Cardinality({}) = 0
      BY FS_EmptySet
    <3> QED BY <1>2, <3>1 DEF Distinct
  <2> QED BY <1>1, <2>1, <2>2 DEF SetOK, Fresh
<1>3. CASE ~(Distinct(p) >= cap /\ key \notin DOMAIN p.seen)
  <2>1. /\ after.seen = put /\ after.pruned = p.pruned /\ after.refused = p.refused
        /\ DOMAIN after = {"seen", "pruned", "refused"}
    BY <1>1, <1>3 DEF Inserted, p, SetOK
  <2>2. /\ DOMAIN put = DOMAIN p.seen \cup {key} /\ put[key] = now
        /\ \A k \in DOMAIN p.seen : k # key => put[k] = p.seen[k]
    BY DEF Put
  <2> HIDE DEF put
  <2>3. IsFiniteSet(DOMAIN put)
    BY <1>1, <2>2, FS_AddElement DEF SetOK
  <2>4. p.pruned \in Nat /\ p.pruned <= now
    BY <1>1 DEF SetOK
  <2>5. ASSUME NEW k \in DOMAIN put
        PROVE  /\ <<k, put[k]>> \in J /\ put[k] \in Nat /\ put[k] <= now
               /\ put[k] > p.pruned - span /\ put[k] > now - span
    <3>1. CASE k = key
      BY <2>2, <2>4, <3>1
    <3>2. CASE k # key
      BY <1>1, <2>2, <3>2 DEF SetOK
    <3> QED BY <3>1, <3>2
  <2>6. ASSUME whole, ~p.refused, NEW k, NEW t \in Nat, <<k, t>> \in J, t > now - span
        PROVE  k \in DOMAIN put /\ put[k] >= t
    <3>1. CASE <<k, t>> = <<key, now>>
      BY <2>2, <3>1
    <3>2. CASE <<k, t>> \in H
      <4>1. k \in DOMAIN p.seen /\ p.seen[k] >= t /\ p.seen[k] <= now /\ p.seen[k] \in Nat
        BY <1>1, <2>6, <3>2 DEF SetOK
      <4> QED BY <2>2, <4>1
    <3> QED BY <2>6, <3>1, <3>2
  <2> QED BY <2>1, <2>2, <2>3, <2>4, <2>5, <2>6 DEF SetOK, Fresh
<1> QED BY <1>2, <1>3

LEMMA SetStands ==
  ASSUME NEW w, NEW H, NEW T \in Nat, NEW span \in Nat, NEW whole, SetOK(w, H, T, span, whole),
         NEW now \in Nat, T <= now, NEW later, later => whole, NEW J, H \subseteq J, later => J = H
  PROVE  SetOK(w, J, now, span, later)
<1>1. \A k \in DOMAIN w.seen : <<k, w.seen[k]>> \in J /\ w.seen[k] \in Nat /\ w.seen[k] <= now
  BY DEF SetOK
<1>2. ASSUME later, ~w.refused, NEW k, NEW t \in Nat, <<k, t>> \in J, t > now - span
      PROVE  k \in DOMAIN w.seen /\ w.seen[k] >= t
  <2>1. t > T - span
    BY <1>2
  <2> QED BY <1>2, <2>1 DEF SetOK
<1>3. w.pruned <= now
  BY DEF SetOK
<1> QED BY <1>1, <1>2, <1>3 DEF SetOK

LEMMA SetFresh ==
  ASSUME NEW T \in Nat, NEW span \in Nat, NEW whole, NEW H,
         whole => \A k : \A t \in Nat : <<k, t>> \in H => t <= T - span
  PROVE  SetOK(NewSet, H, T, span, whole)
<1>1. /\ DOMAIN NewSet = {"seen", "pruned", "refused"} /\ DOMAIN NewSet.seen = {} /\ NewSet.pruned = 0
  BY DEF NewSet
<1>2. IsFiniteSet({})
  BY FS_EmptySet
<1> QED BY <1>1, <1>2 DEF SetOK

(* How many it then has. *)
Lists(R, H, now, span) ==
  IsFiniteSet(R) /\ \A k : k \in R <=> \E t \in Nat : <<k, t>> \in H /\ t > now - span

LEMMA SetCounts ==
  ASSUME NEW w, NEW H, NEW now \in Nat, NEW span \in Nat, NEW whole,
         SetOK(w, H, now, span, whole), Fresh(w, now, span),
         NEW R, Lists(R, H, now, span)
  PROVE  /\ Distinct(w) \in Nat /\ Cardinality(R) \in Nat /\ Distinct(w) <= Cardinality(R)
         /\ whole /\ ~w.refused => Distinct(w) = Cardinality(R)
<1> USE DEF Lists
<1>1. DOMAIN w.seen \in SUBSET R
  BY DEF SetOK, Fresh
<1>2. whole /\ ~w.refused => R \subseteq DOMAIN w.seen
  BY DEF SetOK
<1>3. whole /\ ~w.refused => R = DOMAIN w.seen
  BY <1>1, <1>2
<1>4. Cardinality(DOMAIN w.seen) <= Cardinality(R)
  BY <1>1, FS_Subset
<1> QED BY <1>1, <1>3, <1>4, FS_Subset, FS_CardinalityType DEF Distinct

-----------------------------------------------------------------------------
(* A gate: it has the time of an alert that was raised, and, where alerts  *)
(* are spaced, of the last raised within the interval.                     *)

AlertGateOK(last, R, T, interval, spaced) ==
  /\ last # None => last \in R
  /\ \A r \in R : r \in Nat /\ r <= T
  /\ spaced => \A r \in R : r > T - interval => last # None /\ last >= r

LEMMA AlertGateStep ==
  ASSUME NEW last, NEW R, NEW T \in Nat, NEW interval \in Nat, NEW spaced \in BOOLEAN, AlertGateOK(last, R, T, interval, spaced),
         NEW now \in Nat, T <= now, NEW due \in BOOLEAN,
         NEW last2, last2 = IF due THEN now ELSE last, NEW R2, R2 = IF due THEN R \cup {now} ELSE R
  PROVE  AlertGateOK(last2, R2, now, interval, spaced)
<1>1. CASE due
  <2>1. last2 = now /\ R2 = R \cup {now} /\ now # None
    BY <1>1, BehaviorAssumption
  <2>2. \A r \in R2 : r \in Nat /\ r <= now
    BY <2>1 DEF AlertGateOK
  <2> QED BY <2>1, <2>2 DEF AlertGateOK
<1>2. CASE ~due
  <2>1. \A r \in R : r > now - interval => r > T - interval
    BY DEF AlertGateOK
  <2>2. \A r \in R : r \in Nat /\ r <= now
    BY DEF AlertGateOK
  <2>3. last2 = last /\ R2 = R
    BY <1>2
  <2> QED BY <2>1, <2>2, <2>3 DEF AlertGateOK
<1> QED BY <1>1, <1>2

LEMMA AlertGateLets ==
  ASSUME NEW last, NEW R, NEW T \in Nat, NEW interval \in Nat, NEW spaced \in BOOLEAN, AlertGateOK(last, R, T, interval, spaced),
         NEW now \in Nat, T <= now
  PROVE  /\ ~Allows(last, now, interval) => \E r \in R : now - r < interval
         /\ Allows(last, now, interval) /\ spaced => \A r \in R : ~(now - r < interval)
<1>1. last # None => last \in Nat
  BY DEF AlertGateOK
<1>2. ~Allows(last, now, interval) => \E r \in R : now - r < interval
  BY <1>1 DEF AlertGateOK, Allows
<1>3. ASSUME Allows(last, now, interval), spaced, NEW r \in R
      PROVE  ~(now - r < interval)
  <2>1. r \in Nat /\ (r > T - interval => last # None /\ last >= r)
    BY <1>3 DEF AlertGateOK
  <2> QED BY <1>1, <1>3, <2>1 DEF Allows
<1> QED BY <1>2, <1>3

LEMMA AlertGateFresh ==
  ASSUME NEW R, NEW T \in Nat, NEW interval \in Nat, NEW spaced \in BOOLEAN,
         \A r \in R : r \in Nat /\ r <= T /\ (spaced => r <= T - interval)
  PROVE  AlertGateOK(None, R, T, interval, spaced)
<1>1. spaced => \A r \in R : ~(r > T - interval)
  OBVIOUS
<1> QED BY <1>1 DEF AlertGateOK

-----------------------------------------------------------------------------
(* The gaps between times. *)

LEMMA BelowLast ==
  ASSUME NEW S \in SUBSET Nat, IsFiniteSet(S), NEW m \in S, \A s \in S : s <= m
  PROVE  /\ Nth(S, Cardinality(S)) = m
         /\ \A x \in S : Cardinality({s \in S : s < x}) = Cardinality(S) - 1 => x = m
<1>0. Cardinality(S) \in Nat /\ Cardinality(S \ {m}) = Cardinality(S) - 1 /\ IsFiniteSet(S \ {m})
  BY FS_CardinalityType, FS_RemoveElement
<1>1. Cardinality({s \in S : s < m}) = Cardinality(S) - 1
  <2>1. \A s \in S : s < m <=> s # m
    <3> TAKE s \in S
    <3>1. s \in Nat /\ m \in Nat /\ s <= m
      OBVIOUS
    <3> QED BY <3>1
  <2>2. {s \in S : s < m} = S \ {m}
    BY <2>1
  <2> QED BY <1>0, <2>2
<1>2. ASSUME NEW x \in S, x # m
      PROVE  Cardinality({s \in S : s < x}) # Cardinality(S) - 1
  <2> DEFINE B == {s \in S : s < x}
             C == (S \ {m}) \ {x}
  <2>1. B \in SUBSET C
    OBVIOUS
  <2>2. Cardinality(C) = (Cardinality(S) - 1) - 1 /\ IsFiniteSet(C) /\ Cardinality(C) \in Nat
    <3>1. x \in S \ {m}
      BY <1>2
    <3>2. IsFiniteSet(C) /\ Cardinality(C) = Cardinality(S \ {m}) - 1
      BY <1>0, <3>1, FS_RemoveElement
    <3> QED BY <1>0, <3>2, FS_CardinalityType
  <2> HIDE DEF B, C
  <2>3. Cardinality(B) <= Cardinality(C) /\ Cardinality(B) \in Nat
    BY <2>1, <2>2, FS_Subset, FS_CardinalityType
  <2>4. Cardinality(B) # Cardinality(S) - 1
    BY <1>0, <2>2, <2>3
  <2> QED BY <2>4 DEF B
<1>3. {t \in S : Cardinality({s \in S : s < t}) = Cardinality(S) - 1} = {m}
  BY <1>1, <1>2
<1>4. Nth(S, Cardinality(S)) \in {m}
  BY <1>3 DEF Nth
<1> QED BY <1>2, <1>4

LEMMA NthMore ==
  ASSUME NEW S \in SUBSET Nat, IsFiniteSet(S), NEW t \in Nat, \A s \in S : s < t
  PROVE  /\ Cardinality(S \cup {t}) = Cardinality(S) + 1
         /\ Nth(S \cup {t}, Cardinality(S) + 1) = t
         /\ \A n \in 1 .. Cardinality(S) : Nth(S \cup {t}, n) = Nth(S, n)
<1> DEFINE U == S \cup {t}
<1>1. IsFiniteSet(U) /\ Cardinality(U) = Cardinality(S) + 1 /\ Cardinality(S) \in Nat
  <2>1. t \notin S
    OBVIOUS
  <2> QED BY <2>1, FS_AddElement, FS_CardinalityType
<1>2. t \in U /\ U \in SUBSET Nat /\ \A s \in U : s <= t
  OBVIOUS
<1>3. {s \in U : s < t} = S /\ \A x \in S : {s \in U : s < x} = {s \in S : s < x}
  <2>1. \A x \in S : x < t /\ ~(t < x)
    OBVIOUS
  <2>2. ~(t < t)
    OBVIOUS
  <2>3. \A s : s \in {r \in U : r < t} <=> s \in S
    BY <2>1, <2>2
  <2>4. ASSUME NEW x \in S
        PROVE  {s \in U : s < x} = {s \in S : s < x}
    BY <2>1
  <2> QED BY <2>3, <2>4
<1>u. U = S \cup {t}
  OBVIOUS
<1> HIDE DEF U
<1>4. Nth(U, Cardinality(S) + 1) = t
  BY <1>1, <1>2, BelowLast
<1>5. ASSUME NEW n \in 1 .. Cardinality(S)
      PROVE  Nth(U, n) = Nth(S, n)
  <2>1. {x \in U : Cardinality({s \in U : s < x}) = n - 1} = {x \in S : Cardinality({s \in S : s < x}) = n - 1}
    <3>1. Cardinality({s \in U : s < t}) # n - 1
      BY <1>1, <1>3, <1>5
    <3>2. \A x \in S : Cardinality({s \in U : s < x}) = Cardinality({s \in S : s < x})
      BY <1>3
    <3> QED BY <3>1, <3>2, <1>u
  <2> QED BY <2>1 DEF Nth
<1> QED BY <1>1, <1>4, <1>5, <1>u

LEMMA GapsTyped ==
  ASSUME NEW S \in SUBSET Nat, IsFiniteSet(S), S # {}
  PROVE  /\ Gaps(S) \in Seq(Range(Gaps(S))) /\ Len(Gaps(S)) = Cardinality(S) - 1
         /\ DOMAIN Gaps(S) = 1 .. Cardinality(S) - 1 /\ Cardinality(S) - 1 \in Nat
<1>1. Cardinality(S) \in Nat /\ Cardinality(S) # 0
  BY FS_CardinalityType, FS_EmptySet
<1> DEFINE k == Cardinality(S) - 1
           V == Range(Gaps(S))
<1>2. k \in Nat
  BY <1>1
<1>3. DOMAIN Gaps(S) = 1 .. k /\ Gaps(S) = [n \in 1 .. k |-> Gaps(S)[n]]
  BY DEF Gaps
<1>4. \A n \in 1 .. k : Gaps(S)[n] \in V
  BY <1>3 DEF Range
<1> HIDE DEF V, k
<1>5. Gaps(S) \in [1 .. k -> V]
  BY <1>3, <1>4
<1>6. Gaps(S) \in Seq(V) /\ Len(Gaps(S)) = k
  BY <1>2, <1>5
<1> QED BY <1>2, <1>3, <1>6 DEF V, k

(* A time after all of them adds the gap to the last of them. *)
LEMMA GapsMore ==
  ASSUME NEW S \in SUBSET Nat, IsFiniteSet(S), NEW m \in S, \A s \in S : s <= m, NEW t \in Nat, m < t
  PROVE  /\ Gaps(S \cup {t}) = Append(Gaps(S), t - m)
         /\ Cardinality(S \cup {t}) = Cardinality(S) + 1
<1> DEFINE U == S \cup {t}
           c == Cardinality(S)
<1>1. \A s \in S : s < t
  OBVIOUS
<1>2. /\ Cardinality(U) = c + 1 /\ Nth(U, c + 1) = t
      /\ \A n \in 1 .. c : Nth(U, n) = Nth(S, n)
  BY <1>1, NthMore
<1>3. Nth(S, c) = m
  BY BelowLast
<1>4. c \in Nat /\ c # 0 /\ c - 1 \in Nat
  <2>1. c \in Nat /\ (c = 0 => S = {})
    BY FS_CardinalityType, FS_EmptySet
  <2> HIDE DEF c
  <2> QED BY <2>1
<1>5. Gaps(U) = [n \in 1 .. (c + 1) - 1 |-> Nth(U, n + 1) - Nth(U, n)]
  BY <1>2 DEF Gaps
<1>6. Gaps(S) = [n \in 1 .. c - 1 |-> Nth(S, n + 1) - Nth(S, n)]
  BY DEF Gaps
<1>7. Len(Gaps(S)) = c - 1 /\ Gaps(S) \in Seq(Range(Gaps(S)))
  BY GapsTyped
<1> HIDE DEF U, c
<1>8. \A n \in 1 .. c - 1 : n \in 1 .. c /\ n + 1 \in 1 .. c
  BY <1>4
<1>9. Append(Gaps(S), t - m) = [n \in 1 .. c |-> IF n = c THEN t - m ELSE Gaps(S)[n]]
  BY <1>4, <1>7
<1>10. \A n \in 1 .. c : Nth(U, n + 1) - Nth(U, n) = IF n = c THEN t - m ELSE Gaps(S)[n]
  <2> TAKE n \in 1 .. c
  <2>1. CASE n = c
    BY <1>2, <1>3, <1>4, <2>1
  <2>2. CASE n # c
    <3>1. n \in 1 .. c - 1
      BY <1>4, <2>2
    <3> QED BY <1>2, <1>6, <1>8, <2>2, <3>1
  <2> QED BY <2>1, <2>2
<1>11. (c + 1) - 1 = c
  BY <1>4
<1> QED BY <1>2, <1>5, <1>9, <1>10, <1>11 DEF U, c

(* The last of a sequence. *)
Least2(a, b) == IF a < b THEN a ELSE b

LEMMA LastOfIs ==
  ASSUME NEW V, NEW s \in Seq(V), NEW n \in Nat
  PROVE  /\ LastOf(s, n) \in Seq(V) /\ Len(LastOf(s, n)) = Least2(n, Len(s))
         /\ \A i \in 1 .. Least2(n, Len(s)) : LastOf(s, n)[i] = s[Len(s) - Least2(n, Len(s)) + i]
<1> DEFINE m == Least2(n, Len(s))
           first == (IF Len(s) > n THEN Len(s) - n ELSE 0) + 1
<1>1. Len(s) \in Nat /\ \A i \in 1 .. Len(s) : s[i] \in V
  OBVIOUS
<1>2. m \in Nat /\ m <= Len(s) /\ first = Len(s) - m + 1 /\ first \in Nat \ {0}
  BY <1>1 DEF Least2
<1>3. LastOf(s, n) = SubSeq(s, first, Len(s))
  BY DEF LastOf
<1> HIDE DEF m, first
<1>4. \A i \in first .. Len(s) : s[i] \in V
  BY <1>1, <1>2
<1>5. /\ SubSeq(s, first, Len(s)) \in Seq(V)
      /\ Len(SubSeq(s, first, Len(s))) = IF first <= Len(s) THEN Len(s) - first + 1 ELSE 0
      /\ \A i \in 1 .. Len(s) - first + 1 : SubSeq(s, first, Len(s))[i] = s[first + i - 1]
  BY <1>1, <1>2, <1>4, SubSeqProperties
<1>6. Len(s) - first + 1 = m /\ \A i \in 1 .. m : first + i - 1 = Len(s) - m + i
  BY <1>1, <1>2
<1>7. LastOf(s, n) \in Seq(V) /\ Len(LastOf(s, n)) = m
  BY <1>1, <1>2, <1>3, <1>5
<1>8. \A i \in 1 .. m : LastOf(s, n)[i] = s[Len(s) - m + i]
  BY <1>3, <1>5, <1>6
<1> QED BY <1>7, <1>8 DEF m

LEMMA LastOfAppend ==
  ASSUME NEW V, NEW s \in Seq(V), NEW d \in V, NEW n \in Nat, n <= Len(s), NEW k \in Nat
  PROVE  LastOf(Append(LastOf(s, n), d), k) = LastOf(Append(s, d), Least2(n + 1, k))
<1> DEFINE t == LastOf(s, n)
           a == Append(t, d)
           b == Append(s, d)
           m == Least2(k, n + 1)
<1>1. Len(s) \in Nat /\ Least2(n, Len(s)) = n
  BY DEF Least2
<1>is. /\ t \in Seq(V) /\ Len(t) = Least2(n, Len(s))
      /\ \A i \in 1 .. Least2(n, Len(s)) : t[i] = s[Len(s) - Least2(n, Len(s)) + i]
  BY LastOfIs
<1>2. t \in Seq(V) /\ Len(t) = n /\ \A i \in 1 .. n : t[i] = s[Len(s) - n + i]
  BY <1>1, <1>is
<1> HIDE DEF t
<1>3. /\ a \in Seq(V) /\ Len(a) = n + 1 /\ a[n + 1] = d /\ \A i \in 1 .. n : a[i] = t[i]
  BY <1>2
<1>4. /\ b \in Seq(V) /\ Len(b) = Len(s) + 1 /\ b[Len(s) + 1] = d /\ \A i \in 1 .. Len(s) : b[i] = s[i]
  BY <1>1
<1> HIDE DEF a, b
<1>5. m \in Nat /\ m <= n + 1 /\ Least2(n + 1, k) = m /\ Least2(m, Len(b)) = m
  BY <1>1, <1>4 DEF Least2
<1> HIDE DEF m
<1>6. /\ LastOf(a, k) \in Seq(V) /\ Len(LastOf(a, k)) = m
      /\ \A i \in 1 .. m : LastOf(a, k)[i] = a[n + 1 - m + i]
  <2>1. Least2(k, Len(a)) = m /\ Len(a) = n + 1
    BY <1>3 DEF m
  <2>2. a \in Seq(V)
    BY <1>3
  <2>3. /\ LastOf(a, k) \in Seq(V) /\ Len(LastOf(a, k)) = Least2(k, Len(a))
        /\ \A i \in 1 .. Least2(k, Len(a)) : LastOf(a, k)[i] = a[Len(a) - Least2(k, Len(a)) + i]
    BY <2>2, LastOfIs
  <2> QED BY <2>1, <2>3
<1>7. /\ LastOf(b, m) \in Seq(V) /\ Len(LastOf(b, m)) = m
      /\ \A i \in 1 .. m : LastOf(b, m)[i] = b[Len(s) + 1 - m + i]
  <2>1. /\ LastOf(b, m) \in Seq(V) /\ Len(LastOf(b, m)) = Least2(m, Len(b))
        /\ \A i \in 1 .. Least2(m, Len(b)) : LastOf(b, m)[i] = b[Len(b) - Least2(m, Len(b)) + i]
    BY <1>4, <1>5, LastOfIs
  <2>2. \A i \in 1 .. m : Len(b) - m + i = Len(s) + 1 - m + i
    BY <1>1, <1>4, <1>5
  <2> QED BY <1>5, <2>1, <2>2
<1>8. ASSUME NEW i \in 1 .. m
      PROVE  a[n + 1 - m + i] = b[Len(s) + 1 - m + i]
  <2>1. CASE i = m
    <3>1. n + 1 - m + i = n + 1 /\ Len(s) + 1 - m + i = Len(s) + 1
      BY <1>1, <1>5, <2>1
    <3> QED BY <1>3, <1>4, <3>1
  <2>2. CASE i # m
    <3> DEFINE j == n + 1 - m + i
    <3>1. j \in 1 .. n /\ Len(s) - n + j = Len(s) + 1 - m + i /\ Len(s) - n + j \in 1 .. Len(s)
      BY <1>1, <1>5, <2>2
    <3> HIDE DEF j
    <3>2. a[j] = s[Len(s) - n + j]
      BY <1>2, <1>3, <3>1
    <3>3. b[Len(s) - n + j] = s[Len(s) - n + j]
      BY <1>4, <3>1
    <3> QED BY <3>1, <3>2, <3>3 DEF j
  <2> QED BY <2>1, <2>2
<1>9. LastOf(a, k) = LastOf(b, m)
  <2> DEFINE x == LastOf(a, k)
             y == LastOf(b, m)
  <2>1. x \in Seq(V) /\ y \in Seq(V) /\ Len(x) = Len(y)
    BY <1>6, <1>7
  <2>2. ASSUME NEW i \in 1 .. Len(x) PROVE x[i] = y[i]
    BY <1>6, <1>7, <1>8
  <2> HIDE DEF x, y
  <2>3. x = y
    BY <2>1, <2>2, SeqEqual
  <2> QED BY <2>3 DEF x, y
<1> QED BY <1>5, <1>9 DEF a, b, t

(* All of it, when as much as all is asked for. *)
LEMMA LastOfAll ==
  ASSUME NEW V, NEW s \in Seq(V), NEW n \in Nat, n >= Len(s)
  PROVE  LastOf(s, n) = LastOf(s, Len(s))
<1>1. ~(Len(s) > n) /\ ~(Len(s) > Len(s))
  OBVIOUS
<1> QED BY <1>1 DEF LastOf

LEMMA LastIn ==
  ASSUME NEW S \in SUBSET Nat, S # {}, IsFiniteSet(S), NEW T \in Nat, \A s \in S : s <= T
  PROVE  \E m \in S : \A s \in S : s <= m
<1> DEFINE D == {T - s : s \in S}
<1>1. D \in SUBSET Nat /\ D # {}
  <2>1. \A s \in S : T - s \in Nat
    <3> TAKE s \in S
    <3>1. s \in Nat /\ s <= T
      OBVIOUS
    <3> QED BY <3>1
  <2> QED BY <2>1
<1> HIDE DEF D
<1>2. PICK d \in D : \A e \in D : d <= e
  BY <1>1, LeastOf
<1>3. PICK m \in S : d = T - m
  BY DEF D
<1>4. \A s \in S : d <= T - s
  BY <1>2 DEF D
<1>5. \A s \in S : s <= m
  <2> TAKE s \in S
  <2>1. T - m <= T - s /\ s \in Nat /\ m \in Nat
    BY <1>3, <1>4
  <2> QED BY <2>1
<1> QED BY <1>5

(* A beat's gaps are the last of the gaps of a set of times: as many as it *)
(* samples, or as there are, or back to one as long as the window.         *)
BeatOK(b, S, T, whole) ==
  whole =>
    /\ DOMAIN b = {"last", "gaps"}
    /\ b.last = None => b.gaps = <<>> /\ \A s \in S : s <= T - Window
    /\ b.last # None =>
         /\ b.last \in S /\ \A s \in S : s <= b.last
         /\ \E n \in 0 .. Samples :
              /\ n <= Len(Gaps(S)) /\ b.gaps = LastOf(Gaps(S), n)
              /\ n < Samples /\ n < Len(Gaps(S)) =>
                   Gaps(S)[Len(Gaps(S)) - n] \in Nat /\ Gaps(S)[Len(Gaps(S)) - n] >= Window

LEMMA BeatStep ==
  ASSUME NEW b, NEW S \in SUBSET Nat, IsFiniteSet(S), NEW T \in Nat, NEW whole \in BOOLEAN, BeatOK(b, S, T, whole),
         NEW now \in Nat, T <= now, \A s \in S : s <= T, NEW b2, b2 = Beat(b, now, Samples)
  PROVE  BeatOK(b2, S \cup {now}, now, whole)
<1> SUFFICES ASSUME whole PROVE BeatOK(b2, S \cup {now}, now, whole)
  BY DEF BeatOK
<1> DEFINE U == S \cup {now}
<1>0. Samples \in Nat /\ Window \in Nat \ {0} /\ now # None
  BY BehaviorAssumption
<1>1. DOMAIN b = {"last", "gaps"}
  BY DEF BeatOK
<1>2. CASE b.last = None
  <2>1. b2.last = now /\ b2.gaps = <<>> /\ DOMAIN b2 = {"last", "gaps"}
    BY <1>1, <1>2 DEF Beat, BeatOK
  <2>2. U # {} /\ U \in SUBSET Nat /\ IsFiniteSet(U) /\ b2.last \in U /\ \A s \in U : s <= b2.last
    <3>1. \A s \in S : s \in Nat /\ s <= now
      <4> TAKE s \in S
      <4>1. s \in Nat /\ s <= T
        OBVIOUS
      <4> QED BY <4>1
    <3>2. IsFiniteSet(U)
      BY FS_AddElement
    <3>3. b2.last \in U /\ now \in Nat
      BY <2>1
    <3>4. \A s \in U : s \in Nat /\ s <= now
      BY <3>1
    <3> QED BY <2>1, <3>2, <3>3, <3>4
  <2>3. Gaps(U) \in Seq(Range(Gaps(U))) /\ Len(Gaps(U)) \in Nat
    BY <2>2, GapsTyped
  <2>4. LastOf(Gaps(U), 0) = <<>>
    <3>1. Least2(0, Len(Gaps(U))) = 0
      BY <2>3 DEF Least2
    <3>2. LastOf(Gaps(U), 0) \in Seq(Range(Gaps(U))) /\ Len(LastOf(Gaps(U), 0)) = 0
      BY <2>3, <3>1, LastOfIs
    <3> QED BY <3>2
  <2>5. ASSUME 0 < Len(Gaps(U))
        PROVE  Gaps(U)[Len(Gaps(U))] \in Nat /\ Gaps(U)[Len(Gaps(U))] >= Window
    <3>1. S # {}
      <4> SUFFICES ASSUME S = {} PROVE FALSE
        OBVIOUS
      <4>1. Cardinality(U) = 1 /\ Len(Gaps(U)) = Cardinality(U) - 1
        <5>1. U = {now} /\ Cardinality({now}) = 1
          BY FS_Singleton
        <5>2. Len(Gaps(U)) = Cardinality(U) - 1
          BY <2>2, GapsTyped
        <5> QED BY <5>1, <5>2
      <4> QED BY <2>5, <4>1
    <3>2. PICK m \in S : \A s \in S : s <= m
      BY <3>1, LastIn
    <3>3. m <= T - Window
      BY <1>2 DEF BeatOK
    <3>4. m < now
      BY <1>0, <3>3
    <3>5. Gaps(U) = Append(Gaps(S), now - m)
      BY <3>2, <3>4, GapsMore
    <3>6. Gaps(S) \in Seq(Range(Gaps(S)))
      BY <3>1, GapsTyped
    <3>7. Gaps(U)[Len(Gaps(U))] = now - m
      BY <3>5, <3>6
    <3> QED BY <1>0, <3>3, <3>4, <3>7
  <2> HIDE DEF U
  <2>6. /\ 0 \in 0 .. Samples /\ 0 <= Len(Gaps(U)) /\ b2.gaps = LastOf(Gaps(U), 0)
        /\ Len(Gaps(U)) - 0 = Len(Gaps(U))
    BY <1>0, <2>1, <2>3, <2>4
  <2>7. b2.last # None
    BY <1>0, <2>1
  <2>8. \E n \in 0 .. Samples :
              /\ n <= Len(Gaps(U)) /\ b2.gaps = LastOf(Gaps(U), n)
              /\ n < Samples /\ n < Len(Gaps(U)) =>
                   Gaps(U)[Len(Gaps(U)) - n] \in Nat /\ Gaps(U)[Len(Gaps(U)) - n] >= Window
    BY <2>5, <2>6
  <2> QED BY <2>1, <2>2, <2>7, <2>8 DEF BeatOK, U
<1>3. CASE b.last # None /\ now <= b.last
  <2>1. b2 = b /\ b.last \in S /\ b.last <= T
    BY <1>3 DEF Beat, BeatOK
  <2>2. b.last = now
    <3>1. b.last \in Nat
      BY <2>1
    <3> QED BY <1>3, <2>1, <3>1
  <2>3. S \cup {now} = S
    BY <2>1, <2>2
  <2> QED BY <1>3, <2>1, <2>3 DEF BeatOK
<1>4. CASE b.last # None /\ ~(now <= b.last)
  <2> DEFINE m == b.last
             d == now - m
  <2>1. m \in S /\ (\A s \in S : s <= m) /\ m < now /\ S # {}
    <3>1. m \in S /\ \A s \in S : s <= m
      BY <1>4 DEF BeatOK
    <3>2. m \in Nat
      BY <3>1
    <3> QED BY <1>4, <3>1, <3>2
  <2>2. /\ b2.last = now /\ b2.gaps = LastOf(Append(b.gaps, d), Samples) /\ DOMAIN b2 = {"last", "gaps"}
    BY <1>4 DEF Beat
  <2> HIDE DEF m, d
  <2>3. Gaps(U) = Append(Gaps(S), d)
    BY <2>1, GapsMore DEF d
  <2>4. Gaps(S) \in Seq(Range(Gaps(S)))
    BY <2>1, GapsTyped
  <2> DEFINE V == Range(Gaps(S)) \cup {d}
             G == Gaps(S)
  <2>5. G \in Seq(V) /\ d \in V /\ Len(G) \in Nat
    BY <2>4
  <2>6. PICK n \in 0 .. Samples :
              /\ n <= Len(G) /\ b.gaps = LastOf(G, n)
              /\ n < Samples /\ n < Len(G) =>
                   G[Len(G) - n] \in Nat /\ G[Len(G) - n] >= Window
    BY <1>4 DEF BeatOK
  <2> HIDE DEF V, G
  <2> DEFINE k == Least2(n + 1, Samples)
  <2>7. b2.gaps = LastOf(Append(G, d), k)
    BY <1>0, <2>2, <2>5, <2>6, LastOfAppend
  <2>8. k \in 0 .. Samples /\ k <= Len(G) + 1 /\ (k < Samples => k = n + 1)
    BY <1>0, <2>5, <2>6 DEF Least2
  <2> HIDE DEF k
  <2>9. Len(Append(G, d)) = Len(G) + 1 /\ \A i \in 1 .. Len(G) : Append(G, d)[i] = G[i]
    BY <2>5
  <2>10. ASSUME k < Samples, k < Len(G) + 1
         PROVE  Append(G, d)[Len(G) + 1 - k] \in Nat /\ Append(G, d)[Len(G) + 1 - k] >= Window
    <3>1. k = n + 1 /\ n < Samples /\ n < Len(G) /\ Len(G) + 1 - k = Len(G) - n /\ Len(G) - n \in 1 .. Len(G)
      BY <1>0, <2>5, <2>6, <2>8, <2>10
    <3> QED BY <2>6, <2>9, <3>1
  <2>11. Gaps(U) = Append(G, d)
    BY <2>3 DEF G
  <2>12. /\ b2.last \in U /\ \A s \in U : s <= b2.last
    BY <2>1, <2>2
  <2>13. b2.last # None
    BY <1>0, <2>2
  <2> HIDE DEF U
  <2>14. \E j \in 0 .. Samples :
              /\ j <= Len(Gaps(U)) /\ b2.gaps = LastOf(Gaps(U), j)
              /\ j < Samples /\ j < Len(Gaps(U)) =>
                   Gaps(U)[Len(Gaps(U)) - j] \in Nat /\ Gaps(U)[Len(Gaps(U)) - j] >= Window
    BY <2>7, <2>8, <2>9, <2>10, <2>11
  <2> QED BY <2>2, <2>12, <2>13, <2>14 DEF BeatOK, U
<1> QED BY <1>2, <1>3, <1>4

LEMMA BeatStands ==
  ASSUME NEW b, NEW S \in SUBSET Nat, NEW T \in Nat, NEW whole, BeatOK(b, S, T, whole),
         NEW now \in Nat, T <= now, NEW later, later => whole, NEW U, later => U = S
  PROVE  BeatOK(b, U, now, later)
<1> SUFFICES ASSUME later PROVE BeatOK(b, S, now, later)
  BY DEF BeatOK
<1>1. BeatOK(b, S, T, TRUE)
  BY DEF BeatOK
<1>2. \A s \in S : s <= T - Window => s <= now - Window
  <2>1. Window \in Nat
    BY WindowsTyped
  <2>2. ASSUME NEW s \in S, s <= T - Window PROVE s <= now - Window
    BY <2>1, <2>2
  <2> QED BY <2>2
<1> QED BY <1>1, <1>2 DEF BeatOK

LEMMA BeatFresh ==
  ASSUME NEW S, NEW T \in Nat, NEW whole, whole => \A s \in S : s <= T - Window
  PROVE  BeatOK(NewBeat, S, T, whole)
BY DEF BeatOK, NewBeat

(* What is regular in a beat is in the gaps, and the other way round where *)
(* no gap is as long as the window.                                        *)
LEMMA BeatSays ==
  ASSUME NEW b, NEW S \in SUBSET Nat, IsFiniteSet(S), NEW T \in Nat, BeatOK(b, S, T, TRUE), b.last # None
  PROVE  /\ Steady(b.gaps) => \E n \in MinGaps .. Samples : n <= Len(Gaps(S)) /\ Steady(LastOf(Gaps(S), n))
         /\ Steady(LastOf(Gaps(S), Samples)) /\ (\A g \in ToSet(LastOf(Gaps(S), Samples)) : g < Window)
              => Steady(b.gaps)
<1> DEFINE G == Gaps(S)
<1>0. Samples \in Nat /\ MinGaps \in Nat /\ Window \in Nat
  BY BehaviorAssumption
<1>1. S # {} /\ G \in Seq(Range(G)) /\ Len(G) \in Nat
  <2>1. S # {}
    BY DEF BeatOK
  <2> QED BY <2>1, GapsTyped
<1>2. PICK n \in 0 .. Samples :
              /\ n <= Len(G) /\ b.gaps = LastOf(G, n)
              /\ n < Samples /\ n < Len(G) =>
                   G[Len(G) - n] \in Nat /\ G[Len(G) - n] >= Window
  BY DEF BeatOK
<1> HIDE DEF G
<1>3. Len(b.gaps) = n
  <2>1. Least2(n, Len(G)) = n
    BY <1>1, <1>2 DEF Least2
  <2> QED BY <1>1, <1>2, <2>1, LastOfIs
<1>4. Steady(b.gaps) => Len(b.gaps) >= MinGaps
  BY DEF Steady, Regular
<1>5. Steady(b.gaps) => n \in MinGaps .. Samples
  BY <1>0, <1>3, <1>4
<1>6. ASSUME \A g \in ToSet(LastOf(G, Samples)) : g < Window
      PROVE  LastOf(G, Samples) = b.gaps
  <2>1. CASE n = Samples
    BY <1>2, <2>1
  <2>2. CASE n = Len(G)
    BY <1>0, <1>1, <1>2, <2>2, LastOfAll
  <2>3. CASE n # Samples /\ n # Len(G)
    <3> DEFINE m == Least2(Samples, Len(G))
               i == m - n
    <3>1. i \in 1 .. m /\ Len(G) - m + i = Len(G) - n /\ n < Samples /\ n < Len(G)
      BY <1>0, <1>1, <1>2, <2>3 DEF Least2
    <3>2. LastOf(G, Samples)[i] = G[Len(G) - m + i] /\ Len(LastOf(G, Samples)) = m /\ LastOf(G, Samples) \in Seq(Range(G))
      BY <1>0, <1>1, <3>1, LastOfIs
    <3> HIDE DEF m, i
    <3>3. G[Len(G) - n] \in ToSet(LastOf(G, Samples))
      BY <3>1, <3>2 DEF ToSet
    <3> QED BY <1>0, <1>2, <1>6, <3>1, <3>3
  <2> QED BY <2>1, <2>2, <2>3
<1> QED BY <1>2, <1>5, <1>6 DEF G

-----------------------------------------------------------------------------
(* What the engine was given, as a sequence h, and what of it is about the *)
(* key k of a table: which observations, when they were, and when alerts   *)
(* of a category were raised.                                              *)

At(h, j) == h[j].obs
TableKinds == {"source", "pair", "domain"}
KeyIn(kind, o) ==
  IF kind = "source" THEN o.src ELSE IF kind = "pair" THEN Pair(o) ELSE <<o.src, Parent(Name[o.name])>>
Relevant(kind, o) ==
  IF kind = "source" THEN OfSource(o) ELSE IF kind = "pair" THEN OfPair(o) ELSE o.kind = "dns"
AlertsOf(kind) ==
  IF kind = "source" THEN SourceAlerts ELSE IF kind = "pair" THEN PairAlerts ELSE DomainAlerts
TableName(kind) == IF kind = "source" THEN "sources" ELSE IF kind = "pair" THEN "pairs" ELSE "dns"
Fresh0(kind) == IF kind = "source" THEN NewSource ELSE IF kind = "pair" THEN NewPair ELSE NewDomain

Mine(kind, h, k) == {j \in DOMAIN h : KeyIn(kind, At(h, j)) = k}
TimesOf(h, E) == {At(h, j).ts : j \in E}
SeenAt(kind, h, k) == TimesOf(h, {j \in Mine(kind, h, k) : Relevant(kind, At(h, j))})
RaisedAt(kind, h, k, c) == TimesOf(h, {j \in Mine(kind, h, k) : c \in h[j].raised})

History(h) ==
  /\ IsFiniteSet(DOMAIN h) /\ DOMAIN h \subseteq Nat
  /\ \A j \in DOMAIN h : h[j].obs \in Stamped /\ h[j].raised \subseteq Alerts
Grows(h, x, h2, i) ==
  /\ History(h) /\ History(h2)
  /\ i \notin DOMAIN h /\ DOMAIN h2 = DOMAIN h \cup {i} /\ h2[i] = x
  /\ \A j \in DOMAIN h : h2[j] = h[j]

LEMMA HistoryIs == \A h \in Seq(Taken) : History(h) /\ DOMAIN h = 1 .. Len(h)
<1> SUFFICES ASSUME NEW h \in Seq(Taken) PROVE History(h) /\ DOMAIN h = 1 .. Len(h)
  OBVIOUS
<1>1. Len(h) \in Nat /\ DOMAIN h = 1 .. Len(h)
  OBVIOUS
<1>2. IsFiniteSet(1 .. Len(h))
  BY <1>1, FS_Interval
<1>3. \A j \in DOMAIN h : h[j] \in Taken
  OBVIOUS
<1>4. \A j \in DOMAIN h : h[j].obs \in Stamped /\ h[j].raised \subseteq Alerts
  BY <1>3 DEF Taken
<1> QED BY <1>1, <1>2, <1>4 DEF History

LEMMA AppendGrows ==
  ASSUME NEW h \in Seq(Taken), NEW x \in Taken, NEW h2, h2 = Append(h, x)
  PROVE  Grows(h, x, h2, Len(h) + 1) /\ h2 \in Seq(Taken) /\ Len(h2) = Len(h) + 1
<1>1. Len(h) \in Nat /\ DOMAIN h = 1 .. Len(h)
  OBVIOUS
<1>2. /\ h2 \in Seq(Taken) /\ Len(h2) = Len(h) + 1 /\ DOMAIN h2 = 1 .. Len(h) + 1
      /\ h2[Len(h) + 1] = x /\ \A j \in DOMAIN h : h2[j] = h[j]
  OBVIOUS
<1>3. History(h) /\ History(h2)
  BY <1>2, HistoryIs
<1> QED BY <1>1, <1>2, <1>3 DEF Grows

LEMMA StampedTimes == \A o \in Stamped : o.ts \in Times /\ o.ts \in Nat
BY TimesTyped DEF Stamped

(* Sums over what was observed in the last span, as functions of when. *)
After(h, E, from) == {j \in E : At(h, j).ts > from}
SumsOver(h, v, E, span) == [n \in Nat |-> SumFunctionOnSet(v, After(h, E, n - span))]
CountOver(h, E, span) == [n \in Nat |-> Cardinality(After(h, E, n - span))]
Outs(h) == [j \in DOMAIN h |-> At(h, j).out]
Ins(h)  == [j \in DOMAIN h |-> At(h, j).in]

LEMMA AfterFinite ==
  ASSUME NEW h, History(h), NEW E \in SUBSET DOMAIN h
  PROVE  \A from : IsFiniteSet(After(h, E, from)) /\ After(h, E, from) \in SUBSET DOMAIN h
<1>1. \A from : After(h, E, from) \in SUBSET DOMAIN h
  BY DEF After
<1> QED BY <1>1, FS_Subset DEF History

LEMMA SumsTyped ==
  ASSUME NEW h, History(h), NEW v \in [DOMAIN h -> Nat], NEW E \in SUBSET DOMAIN h, NEW span \in Nat
  PROVE  /\ SumsOver(h, v, E, span) \in [Nat -> Nat]
         /\ \A n \in Nat : Numbers(v, After(h, E, n - span))
<1>1. \A n \in Nat : Numbers(v, After(h, E, n - span))
  BY AfterFinite DEF Numbers
<1>2. \A n \in Nat : SumFunctionOnSet(v, After(h, E, n - span)) \in Nat
  BY <1>1, SumTyped
<1> QED BY <1>1, <1>2 DEF SumsOver

LEMMA CountTyped ==
  ASSUME NEW h, History(h), NEW E \in SUBSET DOMAIN h, NEW span \in Nat
  PROVE  CountOver(h, E, span) \in [Nat -> Nat]
<1>1. \A n \in Nat : Cardinality(After(h, E, n - span)) \in Nat
  BY AfterFinite, FS_CardinalityType
<1> QED BY <1>1 DEF CountOver

LEMMA AfterGrown ==
  ASSUME NEW h, NEW x, NEW h2, NEW i, Grows(h, x, h2, i), NEW E \in SUBSET DOMAIN h
  PROVE  \A from :
           /\ After(h2, E, from) = After(h, E, from)
           /\ After(h2, E \cup {i}, from) =
                IF x.obs.ts > from THEN After(h, E, from) \cup {i} ELSE After(h, E, from)
<1>1. /\ At(h2, i) = x.obs /\ \A j \in E : At(h2, j) = At(h, j)
  BY DEF Grows, At
<1> QED BY <1>1 DEF After

Steps(G, H, E, E2, i, at, amount, span) ==
  /\ E2 = E => H = G
  /\ E2 = E \cup {i} => \A n \in Nat : H[n] = G[n] + (IF at > n - span THEN amount ELSE 0)

LEMMA SumsGrown ==
  ASSUME NEW h, NEW x, NEW h2, NEW i, Grows(h, x, h2, i),
         NEW v \in [DOMAIN h -> Nat], NEW v2 \in [DOMAIN h2 -> Nat], \A j \in DOMAIN h : v2[j] = v[j],
         NEW E \in SUBSET DOMAIN h, NEW span \in Nat, NEW E2
  PROVE  Steps(SumsOver(h, v, E, span), SumsOver(h2, v2, E2, span), E, E2, i, x.obs.ts, v2[i], span)
<1>h. History(h)
  BY DEF Grows
<1>g. \A from : /\ After(h2, E, from) = After(h, E, from)
                /\ After(h2, E \cup {i}, from) =
                     IF x.obs.ts > from THEN After(h, E, from) \cup {i} ELSE After(h, E, from)
  BY AfterGrown
<1>1. ASSUME NEW n \in Nat
      PROVE  SumFunctionOnSet(v2, After(h, E, n - span)) = SumFunctionOnSet(v, After(h, E, n - span))
  <2>1. Numbers(v, After(h, E, n - span))
    BY <1>h, SumsTyped
  <2>2. \A j \in After(h, E, n - span) : v2[j] = v[j]
    BY DEF After
  <2> QED BY <2>1, <2>2, SumSame
<1>2. \A n \in Nat : After(h2, E, n - span) = After(h, E, n - span)
  BY <1>g
<1>3. E2 = E => SumsOver(h2, v2, E2, span) = SumsOver(h, v, E, span)
  BY <1>1, <1>2 DEF SumsOver
<1>4. ASSUME E2 = E \cup {i}, NEW n \in Nat
      PROVE  SumsOver(h2, v2, E2, span)[n] = SumsOver(h, v, E, span)[n] + (IF x.obs.ts > n - span THEN v2[i] ELSE 0)
  <2> DEFINE A == After(h, E, n - span)
  <2>1. /\ SumsOver(h2, v2, E2, span)[n] = SumFunctionOnSet(v2, After(h2, E2, n - span))
        /\ SumsOver(h, v, E, span)[n] = SumFunctionOnSet(v, A)
    BY DEF SumsOver
  <2>2. After(h2, E2, n - span) = IF x.obs.ts > n - span THEN A \cup {i} ELSE A
    BY <1>4, <1>g
  <2>3. SumFunctionOnSet(v, A) \in Nat /\ SumFunctionOnSet(v2, A) = SumFunctionOnSet(v, A)
    BY <1>1, <1>h, SumsTyped, SumTyped
  <2>4. CASE x.obs.ts > n - span
    <3>1. i \notin A /\ i \in DOMAIN h2 /\ A \cup {i} \in SUBSET DOMAIN h2 /\ IsFiniteSet(A \cup {i})
      BY AfterFinite, FS_AddElement DEF Grows
    <3>2. Numbers(v2, A \cup {i})
      BY <3>1 DEF Numbers
    <3> HIDE DEF A
    <3>3. SumFunctionOnSet(v2, A \cup {i}) = v2[i] + SumFunctionOnSet(v2, A)
      BY <3>1, <3>2, SumMore
    <3>4. v2[i] \in Nat
      BY <3>1
    <3> QED BY <2>1, <2>2, <2>3, <2>4, <3>3, <3>4
  <2>5. CASE ~(x.obs.ts > n - span)
    <3> HIDE DEF A
    <3> QED BY <2>1, <2>2, <2>3, <2>5
  <2> QED BY <2>4, <2>5
<1> QED BY <1>3, <1>4 DEF Steps

LEMMA CountGrown ==
  ASSUME NEW h, NEW x, NEW h2, NEW i, Grows(h, x, h2, i),
         NEW E \in SUBSET DOMAIN h, NEW span \in Nat, NEW E2
  PROVE  Steps(CountOver(h, E, span), CountOver(h2, E2, span), E, E2, i, x.obs.ts, 1, span)
<1>h. History(h)
  BY DEF Grows
<1>g. \A from : /\ After(h2, E, from) = After(h, E, from)
                /\ After(h2, E \cup {i}, from) =
                     IF x.obs.ts > from THEN After(h, E, from) \cup {i} ELSE After(h, E, from)
  BY AfterGrown
<1>1. \A n \in Nat : After(h2, E, n - span) = After(h, E, n - span)
  BY <1>g
<1>2. E2 = E => CountOver(h2, E2, span) = CountOver(h, E, span)
  BY <1>1 DEF CountOver
<1>3. ASSUME E2 = E \cup {i}, NEW n \in Nat
      PROVE  CountOver(h2, E2, span)[n] = CountOver(h, E, span)[n] + (IF x.obs.ts > n - span THEN 1 ELSE 0)
  <2> DEFINE A == After(h, E, n - span)
  <2>1. /\ CountOver(h2, E2, span)[n] = Cardinality(After(h2, E2, n - span))
        /\ CountOver(h, E, span)[n] = Cardinality(A)
    BY DEF CountOver
  <2>2. After(h2, E2, n - span) = IF x.obs.ts > n - span THEN A \cup {i} ELSE A
    BY <1>3, <1>g
  <2>3. i \notin A /\ IsFiniteSet(A)
    BY AfterFinite DEF Grows
  <2> HIDE DEF A
  <2>4. Cardinality(A \cup {i}) = Cardinality(A) + 1 /\ Cardinality(A) \in Nat
    BY <2>3, FS_AddElement, FS_CardinalityType
  <2> QED BY <2>1, <2>2, <2>4
<1> QED BY <1>2, <1>3 DEF Steps

(* A ring whose evidence does not grow, or grows where something has been  *)
(* refused; one that takes what its evidence grows by; and one that is new *)
(* where all its evidence is old.                                          *)
GrownBy(E2, E, i, later) == E2 = E \/ (E2 = E \cup {i} /\ ~later)

LEMMA RingSumsStand ==
  ASSUME NEW h, NEW x, NEW h2, NEW i, Grows(h, x, h2, i),
         NEW v \in [DOMAIN h -> Nat], NEW v2 \in [DOMAIN h2 -> Nat], \A j \in DOMAIN h : v2[j] = v[j],
         NEW E \in SUBSET DOMAIN h, NEW E2 \in SUBSET DOMAIN h2, NEW span \in Nat,
         NEW T \in Nat, NEW now \in Nat, T <= now, NEW whole \in BOOLEAN, NEW later \in BOOLEAN, later => whole,
         GrownBy(E2, E, i, later),
         NEW ring, RingOK(ring, T, span, whole, SumsOver(h, v, E, span))
  PROVE  RingOK(ring, now, span, later, SumsOver(h2, v2, E2, span))
<1> DEFINE G == SumsOver(h, v, E, span)
           H == SumsOver(h2, v2, E2, span)
<1>1. History(h) /\ History(h2)
  BY DEF Grows
<1>2. G \in [Nat -> Nat] /\ H \in [Nat -> Nat]
  BY <1>1, SumsTyped
<1>3. Steps(G, H, E, E2, i, x.obs.ts, v2[i], span)
  BY SumsGrown
<1>5. v2[i] \in Nat
  BY DEF Grows
<1> HIDE DEF G, H
<1>6. \A n \in Nat : n >= now => G[n] <= H[n] /\ (later => H[n] = G[n])
  BY <1>2, <1>3, <1>5 DEF GrownBy, Steps
<1>7. RingOK(ring, T, span, whole, G)
  BY DEF G
<1>8. RingOK(ring, now, span, later, H)
  BY <1>2, <1>6, <1>7, RingStands
<1> QED BY <1>8 DEF H

LEMMA RingSumsAdded ==
  ASSUME NEW h, NEW x, NEW h2, NEW i, Grows(h, x, h2, i),
         NEW v \in [DOMAIN h -> Nat], NEW v2 \in [DOMAIN h2 -> Nat], \A j \in DOMAIN h : v2[j] = v[j],
         NEW E \in SUBSET DOMAIN h, NEW E2, E2 = E \cup {i}, NEW span \in Nat \ {0},
         NEW T \in Nat, NEW now \in Nat, T <= now, x.obs.ts = now,
         NEW whole \in BOOLEAN, NEW later \in BOOLEAN, later => whole,
         NEW ring, RingOK(ring, T, span, whole, SumsOver(h, v, E, span)),
         NEW after, after = Added(ring, now, v2[i], span)
  PROVE  RingOK(after, now, span, later, SumsOver(h2, v2, E2, span))
<1> DEFINE G == SumsOver(h, v, E, span)
           H == SumsOver(h2, v2, E2, span)
<1>1. History(h) /\ History(h2) /\ E2 \in SUBSET DOMAIN h2 /\ i \in DOMAIN h2
  BY DEF Grows
<1>2. G \in [Nat -> Nat] /\ H \in [Nat -> Nat]
  BY <1>1, SumsTyped
<1>3. \A n \in Nat : H[n] = G[n] + (IF now > n - span THEN v2[i] ELSE 0)
  <2>1. Steps(G, H, E, E2, i, x.obs.ts, v2[i], span)
    BY SumsGrown
  <2> HIDE DEF G, H
  <2> QED BY <2>1 DEF Steps
<1>4. v2[i] \in Nat
  BY <1>1
<1> HIDE DEF G, H
<1>5. RingOK(ring, T, span, whole, G)
  BY DEF G
<1>6. RingOK(after, now, span, whole, H)
  BY <1>2, <1>3, <1>4, <1>5, RingAdded
<1>7. RingOK(after, now, span, later, H)
  BY <1>6 DEF RingOK
<1> QED BY <1>7 DEF H

LEMMA RingCountStands ==
  ASSUME NEW h, NEW x, NEW h2, NEW i, Grows(h, x, h2, i),
         NEW E \in SUBSET DOMAIN h, NEW E2 \in SUBSET DOMAIN h2, NEW span \in Nat,
         NEW T \in Nat, NEW now \in Nat, T <= now, NEW whole \in BOOLEAN, NEW later \in BOOLEAN, later => whole,
         GrownBy(E2, E, i, later),
         NEW ring, RingOK(ring, T, span, whole, CountOver(h, E, span))
  PROVE  RingOK(ring, now, span, later, CountOver(h2, E2, span))
<1> DEFINE G == CountOver(h, E, span)
           H == CountOver(h2, E2, span)
<1>1. History(h) /\ History(h2)
  BY DEF Grows
<1>2. G \in [Nat -> Nat] /\ H \in [Nat -> Nat]
  BY <1>1, CountTyped
<1>3. Steps(G, H, E, E2, i, x.obs.ts, 1, span)
  BY CountGrown
<1> HIDE DEF G, H
<1>6. \A n \in Nat : n >= now => G[n] <= H[n] /\ (later => H[n] = G[n])
  BY <1>2, <1>3 DEF GrownBy, Steps
<1>7. RingOK(ring, T, span, whole, G)
  BY DEF G
<1>8. RingOK(ring, now, span, later, H)
  BY <1>2, <1>6, <1>7, RingStands
<1> QED BY <1>8 DEF H

LEMMA RingCountAdded ==
  ASSUME NEW h, NEW x, NEW h2, NEW i, Grows(h, x, h2, i),
         NEW E \in SUBSET DOMAIN h, NEW E2, E2 = E \cup {i}, NEW span \in Nat \ {0},
         NEW T \in Nat, NEW now \in Nat, T <= now, x.obs.ts = now,
         NEW whole \in BOOLEAN, NEW later \in BOOLEAN, later => whole,
         NEW ring, RingOK(ring, T, span, whole, CountOver(h, E, span)),
         NEW after, after = Added(ring, now, 1, span)
  PROVE  RingOK(after, now, span, later, CountOver(h2, E2, span))
<1> DEFINE G == CountOver(h, E, span)
           H == CountOver(h2, E2, span)
<1>1. History(h) /\ History(h2) /\ E2 \in SUBSET DOMAIN h2
  BY DEF Grows
<1>2. G \in [Nat -> Nat] /\ H \in [Nat -> Nat] /\ 1 \in Nat
  BY <1>1, CountTyped
<1>3. \A n \in Nat : H[n] = G[n] + (IF now > n - span THEN 1 ELSE 0)
  <2>1. Steps(G, H, E, E2, i, x.obs.ts, 1, span)
    BY CountGrown
  <2> HIDE DEF G, H
  <2> QED BY <2>1 DEF Steps
<1> HIDE DEF G, H
<1>5. RingOK(ring, T, span, whole, G)
  BY DEF G
<1>6. RingOK(after, now, span, whole, H)
  BY <1>2, <1>3, <1>5, RingAdded
<1>7. RingOK(after, now, span, later, H)
  BY <1>6 DEF RingOK
<1> QED BY <1>7 DEF H

LEMMA NoneAfter ==
  ASSUME NEW h, History(h), NEW E \in SUBSET DOMAIN h, NEW now \in Nat, NEW span \in Nat, span <= Window,
         \A j \in E : At(h, j).ts <= now - Window
  PROVE  \A n \in Nat : n >= now => After(h, E, n - span) = {}
<1> SUFFICES ASSUME NEW n \in Nat, n >= now, NEW j \in E
             PROVE  ~(At(h, j).ts > n - span)
  BY DEF After
<1>1. At(h, j).ts \in Nat /\ At(h, j).ts <= now - Window /\ Window \in Nat
  BY StampedTimes, BehaviorAssumption DEF History, At
<1> QED BY <1>1

LEMMA RingSumsFresh ==
  ASSUME NEW h, History(h), NEW v \in [DOMAIN h -> Nat], NEW E \in SUBSET DOMAIN h, NEW now \in Nat,
         NEW span \in Nat, span <= Window, NEW whole \in BOOLEAN,
         whole => \A j \in E : At(h, j).ts <= now - Window
  PROVE  RingOK(<<>>, now, span, whole, SumsOver(h, v, E, span))
<1>1. SumsOver(h, v, E, span) \in [Nat -> Nat]
  BY SumsTyped
<1>2. ASSUME whole, NEW n \in Nat, n >= now
      PROVE  SumsOver(h, v, E, span)[n] = 0
  <2>1. After(h, E, n - span) = {}
    BY <1>2, NoneAfter
  <2> QED BY <2>1, SumNothing DEF SumsOver
<1> QED BY <1>1, <1>2, RingFresh

LEMMA RingCountFresh ==
  ASSUME NEW h, History(h), NEW E \in SUBSET DOMAIN h, NEW now \in Nat,
         NEW span \in Nat, span <= Window, NEW whole \in BOOLEAN,
         whole => \A j \in E : At(h, j).ts <= now - Window
  PROVE  RingOK(<<>>, now, span, whole, CountOver(h, E, span))
<1>1. CountOver(h, E, span) \in [Nat -> Nat]
  BY CountTyped
<1>2. ASSUME whole, NEW n \in Nat, n >= now
      PROVE  CountOver(h, E, span)[n] = 0
  <2>1. After(h, E, n - span) = {}
    BY <1>2, NoneAfter
  <2> QED BY <2>1, FS_EmptySet DEF CountOver
<1> QED BY <1>1, <1>2, RingFresh

-----------------------------------------------------------------------------
(* What an entry of each table has is what was observed of its key, to the *)
(* time T: where its table has refused nothing, all of it.                 *)

Whole(kind, refused) == TableName(kind) \notin refused
Full(kind, refused)  == Whole(kind, refused) /\ "sets" \notin refused
Unrefused(w, refused) == "sets" \notin refused => ~w.refused

HostsIn(h, E) == {<<At(h, j).dst, At(h, j).ts>> : j \in E}
SubsIn(h, E)  == {<<Sub(Name[At(h, j).name]), At(h, j).ts>> : j \in E}

Moved(h, k)   == {j \in Mine("source", h, k) : Moving(At(h, j))}
Volumes(h, k) == {j \in Mine("source", h, k) : At(h, j).kind = "volume"}
Losses(h, k)  == {j \in Mine("source", h, k) : Unanswered(At(h, j))}
LossesAt(h, k, p) == {j \in Losses(h, k) : At(h, j).port = p}
OfKind(h, k, kind) == {j \in Mine("pair", h, k) : At(h, j).kind = kind}
Started(h, k) == {j \in Mine("pair", h, k) : Starting(At(h, j))}
Asked(h, k)   == {j \in Mine("domain", h, k) : At(h, j).kind = "dns" /\ Random(Name[At(h, j).name])}

SetFor(ports, p) == IF p \in DOMAIN ports THEN ports[p] ELSE NewSet

PortOK(ports, p, h, k, T, refused) ==
  /\ SetOK(SetFor(ports, p), HostsIn(h, LossesAt(h, k, p)), T, Window, Full("source", refused))
  /\ p \in DOMAIN ports => DOMAIN ports[p].seen # {} /\ Unrefused(ports[p], refused)

SourceIs(e, k, h, T, refused) ==
  /\ DOMAIN e = {"ports", "any", "out", "in", "packets", "gates", "seen"}
  /\ RingOK(e.out, T, Window, Whole("source", refused), SumsOver(h, Outs(h), Moved(h, k), Window))
  /\ RingOK(e.in, T, Window, Whole("source", refused), SumsOver(h, Ins(h), Moved(h, k), Window))
  /\ RingOK(e.packets, T, FloodWindow, Whole("source", refused),
            SumsOver(h, Outs(h), Volumes(h, k), FloodWindow))
  /\ SetOK(e.any, HostsIn(h, Losses(h, k)), T, Window, Full("source", refused)) /\ Unrefused(e.any, refused)
  /\ \A p : PortOK(e.ports, p, h, k, T, refused)

PairIs(e, k, h, T, refused) ==
  /\ DOMAIN e = {"attempts", "refusals", "beacon", "gates", "seen"}
  /\ RingOK(e.attempts, T, Window, Whole("pair", refused), CountOver(h, OfKind(h, k, "attempt"), Window))
  /\ RingOK(e.refusals, T, Window, Whole("pair", refused), CountOver(h, OfKind(h, k, "refusal"), Window))
  /\ BeatOK(e.beacon, TimesOf(h, Started(h, k)), T, Whole("pair", refused))

DomainIs(e, k, h, T, refused) ==
  /\ DOMAIN e = {"subs", "gates", "seen"}
  /\ SetOK(e.subs, SubsIn(h, Asked(h, k)), T, Window, Full("domain", refused)) /\ Unrefused(e.subs, refused)

EntryIs0(kind, e, k, h, T, refused) ==
  IF kind = "source" THEN SourceIs(e, k, h, T, refused)
  ELSE IF kind = "pair" THEN PairIs(e, k, h, T, refused) ELSE DomainIs(e, k, h, T, refused)

-----------------------------------------------------------------------------
(* How the evidence of a key grows. *)
More(E2, E, i, yes) == E2 = IF yes THEN E \cup {i} ELSE E

LEMMA MineGrown ==
  ASSUME NEW h, NEW x, NEW h2, NEW i, Grows(h, x, h2, i), NEW kind, NEW k
  PROVE  /\ Mine(kind, h, k) \in SUBSET DOMAIN h /\ Mine(kind, h2, k) \in SUBSET DOMAIN h2
         /\ More(Mine(kind, h2, k), Mine(kind, h, k), i, KeyIn(kind, x.obs) = k)
         /\ i \notin Mine(kind, h, k) /\ At(h2, i) = x.obs /\ h2[i] = x
         /\ \A j \in Mine(kind, h, k) : h2[j] = h[j] /\ At(h2, j) = At(h, j)
BY DEF Grows, Mine, At, More

EvidenceGrows(h, x, h2, i, k) ==
  /\ More(Moved(h2, k), Moved(h, k), i, KeyIn("source", x.obs) = k /\ Moving(x.obs))
  /\ More(Volumes(h2, k), Volumes(h, k), i, KeyIn("source", x.obs) = k /\ x.obs.kind = "volume")
  /\ More(Losses(h2, k), Losses(h, k), i, KeyIn("source", x.obs) = k /\ Unanswered(x.obs))
  /\ \A p : More(LossesAt(h2, k, p), LossesAt(h, k, p), i,
                 KeyIn("source", x.obs) = k /\ Unanswered(x.obs) /\ x.obs.port = p)
  /\ \A kd : More(OfKind(h2, k, kd), OfKind(h, k, kd), i, KeyIn("pair", x.obs) = k /\ x.obs.kind = kd)
  /\ More(Started(h2, k), Started(h, k), i, KeyIn("pair", x.obs) = k /\ Starting(x.obs))
  /\ More(Asked(h2, k), Asked(h, k), i,
          KeyIn("domain", x.obs) = k /\ x.obs.kind = "dns" /\ Random(Name[x.obs.name]))

LEMMA EvidenceGrown ==
  ASSUME NEW h, NEW x, NEW h2, NEW i, Grows(h, x, h2, i), NEW k
  PROVE  EvidenceGrows(h, x, h2, i, k)
<1>1. \A kind : /\ More(Mine(kind, h2, k), Mine(kind, h, k), i, KeyIn(kind, x.obs) = k)
                /\ i \notin Mine(kind, h, k) /\ At(h2, i) = x.obs
                /\ \A j \in Mine(kind, h, k) : At(h2, j) = At(h, j)
  BY MineGrown
<1>2. More(Losses(h2, k), Losses(h, k), i, KeyIn("source", x.obs) = k /\ Unanswered(x.obs))
  BY <1>1 DEF Losses, More
<1>3. \A p : More(LossesAt(h2, k, p), LossesAt(h, k, p), i,
                 KeyIn("source", x.obs) = k /\ Unanswered(x.obs) /\ x.obs.port = p)
  BY <1>1 DEF LossesAt, Losses, More
<1>4. More(Moved(h2, k), Moved(h, k), i, KeyIn("source", x.obs) = k /\ Moving(x.obs))
  BY <1>1 DEF Moved, More
<1>5. More(Volumes(h2, k), Volumes(h, k), i, KeyIn("source", x.obs) = k /\ x.obs.kind = "volume")
  BY <1>1 DEF Volumes, More
<1>6. \A kd : More(OfKind(h2, k, kd), OfKind(h, k, kd), i, KeyIn("pair", x.obs) = k /\ x.obs.kind = kd)
  BY <1>1 DEF OfKind, More
<1>7. More(Started(h2, k), Started(h, k), i, KeyIn("pair", x.obs) = k /\ Starting(x.obs))
  BY <1>1 DEF Started, More
<1>8. More(Asked(h2, k), Asked(h, k), i,
          KeyIn("domain", x.obs) = k /\ x.obs.kind = "dns" /\ Random(Name[x.obs.name]))
  BY <1>1 DEF Asked, More
<1> QED BY <1>2, <1>3, <1>4, <1>5, <1>6, <1>7, <1>8 DEF EvidenceGrows

ImagesOver(h, h2, E, i, o) ==
  /\ TimesOf(h2, E) = TimesOf(h, E) /\ TimesOf(h2, E \cup {i}) = TimesOf(h, E) \cup {o.ts}
  /\ HostsIn(h2, E) = HostsIn(h, E)
  /\ HostsIn(h2, E \cup {i}) = HostsIn(h, E) \cup {<<o.dst, o.ts>>}
  /\ SubsIn(h2, E) = SubsIn(h, E)
  /\ SubsIn(h2, E \cup {i}) = SubsIn(h, E) \cup {<<Sub(Name[o.name]), o.ts>>}

LEMMA ImagesGrown ==
  ASSUME NEW h, NEW x, NEW h2, NEW i, Grows(h, x, h2, i), NEW E \in SUBSET DOMAIN h
  PROVE  ImagesOver(h, h2, E, i, x.obs)
<1>1. At(h2, i) = x.obs /\ \A j \in E : At(h2, j) = At(h, j)
  BY DEF Grows, At
<1>2. TimesOf(h2, E) = TimesOf(h, E) /\ HostsIn(h2, E) = HostsIn(h, E) /\ SubsIn(h2, E) = SubsIn(h, E)
  BY <1>1 DEF TimesOf, HostsIn, SubsIn
<1>3. TimesOf(h2, E \cup {i}) = TimesOf(h2, E) \cup {x.obs.ts}
  BY <1>1 DEF TimesOf
<1>4. HostsIn(h2, E \cup {i}) = HostsIn(h2, E) \cup {<<x.obs.dst, x.obs.ts>>}
  BY <1>1 DEF HostsIn
<1>5. SubsIn(h2, E \cup {i}) = SubsIn(h2, E) \cup {<<Sub(Name[x.obs.name]), x.obs.ts>>}
  BY <1>1 DEF SubsIn
<1> QED BY <1>2, <1>3, <1>4, <1>5 DEF ImagesOver

LEMMA EvidenceIn ==
  ASSUME NEW h, NEW k
  PROVE  /\ Moved(h, k) \in SUBSET DOMAIN h /\ Volumes(h, k) \in SUBSET DOMAIN h
         /\ Losses(h, k) \in SUBSET DOMAIN h /\ \A p : LossesAt(h, k, p) \in SUBSET DOMAIN h
         /\ \A kd : OfKind(h, k, kd) \in SUBSET DOMAIN h
         /\ Started(h, k) \in SUBSET DOMAIN h /\ Asked(h, k) \in SUBSET DOMAIN h
BY DEF Moved, Volumes, Losses, LossesAt, OfKind, Started, Asked, Mine

(* All of it is among what makes an entry seen. *)
LEMMA EvidenceSeen ==
  ASSUME NEW h, NEW k
  PROVE  /\ \A j \in Moved(h, k) \cup Volumes(h, k) \cup Losses(h, k) : At(h, j).ts \in SeenAt("source", h, k)
         /\ \A j \in OfKind(h, k, "attempt") \cup OfKind(h, k, "refusal") \cup Started(h, k) :
              At(h, j).ts \in SeenAt("pair", h, k)
         /\ \A j \in Asked(h, k) : At(h, j).ts \in SeenAt("domain", h, k)
<1>1. \A j \in Moved(h, k) \cup Volumes(h, k) \cup Losses(h, k) : At(h, j).ts \in SeenAt("source", h, k)
  BY DEF Moved, Volumes, Losses, SeenAt, TimesOf, Relevant, OfSource
<1>2. \A j \in OfKind(h, k, "attempt") \cup OfKind(h, k, "refusal") \cup Started(h, k) :
              At(h, j).ts \in SeenAt("pair", h, k)
  BY DEF OfKind, Started, SeenAt, TimesOf, Relevant, OfPair
<1>3. \A j \in Asked(h, k) : At(h, j).ts \in SeenAt("domain", h, k)
  BY DEF Asked, SeenAt, TimesOf, Relevant
<1> QED BY <1>1, <1>2, <1>3

-----------------------------------------------------------------------------
(* An entry stands when what comes is not about it, or was refused.        *)

LEMMA WholeFalls ==
  ASSUME NEW R, NEW R2, R \subseteq R2
  PROVE  /\ \A kind : /\ Whole(kind, R2) \in BOOLEAN /\ Whole(kind, R) \in BOOLEAN
                      /\ Full(kind, R2) \in BOOLEAN /\ Full(kind, R) \in BOOLEAN
                      /\ Whole(kind, R2) => Whole(kind, R)
                      /\ Full(kind, R2) => Full(kind, R) /\ Whole(kind, R2)
         /\ \A w : Unrefused(w, R) => Unrefused(w, R2)
BY DEF Whole, Full, Unrefused

LEMMA ImagesStand ==
  ASSUME NEW h, NEW x, NEW h2, NEW i, Grows(h, x, h2, i), NEW E \in SUBSET DOMAIN h, NEW E2, NEW later,
         GrownBy(E2, E, i, later)
  PROVE  /\ TimesOf(h, E) \subseteq TimesOf(h2, E2) /\ (later => TimesOf(h2, E2) = TimesOf(h, E))
         /\ HostsIn(h, E) \subseteq HostsIn(h2, E2) /\ (later => HostsIn(h2, E2) = HostsIn(h, E))
         /\ SubsIn(h, E) \subseteq SubsIn(h2, E2) /\ (later => SubsIn(h2, E2) = SubsIn(h, E))
<1>1. ImagesOver(h, h2, E, i, x.obs)
  BY ImagesGrown
<1>2. CASE E2 = E
  BY <1>1, <1>2 DEF ImagesOver
<1>3. CASE E2 = E \cup {i} /\ ~later
  BY <1>1, <1>3 DEF ImagesOver
<1> QED BY <1>2, <1>3 DEF GrownBy

LEMMA MoreIn ==
  ASSUME NEW h, NEW x, NEW h2, NEW i, Grows(h, x, h2, i), NEW E \in SUBSET DOMAIN h, NEW E2,
         NEW yes \in BOOLEAN, More(E2, E, i, yes), NEW later \in BOOLEAN, yes => ~later
  PROVE  GrownBy(E2, E, i, later) /\ E2 \in SUBSET DOMAIN h2
BY DEF Grows, More, GrownBy

LEMMA FieldsTyped ==
  ASSUME NEW h, NEW x, NEW h2, NEW i, Grows(h, x, h2, i)
  PROVE  /\ Outs(h) \in [DOMAIN h -> Nat] /\ Outs(h2) \in [DOMAIN h2 -> Nat]
         /\ Ins(h) \in [DOMAIN h -> Nat] /\ Ins(h2) \in [DOMAIN h2 -> Nat]
         /\ \A j \in DOMAIN h : Outs(h2)[j] = Outs(h)[j] /\ Ins(h2)[j] = Ins(h)[j]
         /\ Outs(h2)[i] = x.obs.out /\ Ins(h2)[i] = x.obs.in
<1>1. \A o \in Stamped : o.out \in Nat /\ o.in \in Nat
  BY DEF Stamped, Observations
<1>2. \A g : History(g) => Outs(g) \in [DOMAIN g -> Nat] /\ Ins(g) \in [DOMAIN g -> Nat]
  BY <1>1 DEF History, Outs, Ins, At
<1>3. /\ \A j \in DOMAIN h : Outs(h2)[j] = Outs(h)[j] /\ Ins(h2)[j] = Ins(h)[j]
      /\ Outs(h2)[i] = x.obs.out /\ Ins(h2)[i] = x.obs.in
  BY DEF Grows, Outs, Ins, At
<1> QED BY <1>2, <1>3 DEF Grows

LEMMA ObsBoolean ==
  \A o : /\ Moving(o) \in BOOLEAN /\ Unanswered(o) \in BOOLEAN /\ Starting(o) \in BOOLEAN
         /\ Random(Name[o.name]) \in BOOLEAN
BY DEF Moving, Unanswered, Starting, Random

LEMMA PortStands ==
  ASSUME NEW h, NEW x, NEW h2, NEW i, Grows(h, x, h2, i), NEW k, NEW p, NEW ports,
         NEW T \in Nat, NEW now \in Nat, T <= now, NEW R, NEW R2, R \subseteq R2,
         PortOK(ports, p, h, k, T, R),
         KeyIn("source", x.obs) = k /\ Unanswered(x.obs) /\ x.obs.port = p => ~Whole("source", R2)
  PROVE  PortOK(ports, p, h2, k, now, R2)
<1> DEFINE E == LossesAt(h, k, p)
           E2 == LossesAt(h2, k, p)
           later == Full("source", R2)
<1>w. /\ later \in BOOLEAN /\ Full("source", R) \in BOOLEAN /\ (later => Full("source", R) /\ Whole("source", R2))
      /\ \A w : Unrefused(w, R) => Unrefused(w, R2)
  BY WholeFalls
<1>1. More(E2, E, i, KeyIn("source", x.obs) = k /\ Unanswered(x.obs) /\ x.obs.port = p) /\ E \in SUBSET DOMAIN h
  BY EvidenceGrown, EvidenceIn DEF EvidenceGrows
<1>2. GrownBy(E2, E, i, later)
  <2> HIDE DEF E, E2
  <2> DEFINE yes == KeyIn("source", x.obs) = k /\ Unanswered(x.obs) /\ x.obs.port = p
  <2>1. yes \in BOOLEAN /\ (yes => ~later)
    BY <1>w, ObsBoolean
  <2>2. More(E2, E, i, yes) /\ E \in SUBSET DOMAIN h
    BY <1>1
  <2> HIDE DEF yes, later
  <2> QED BY <2>1, <2>2, <1>w, MoreIn
<1>3. HostsIn(h, E) \subseteq HostsIn(h2, E2) /\ (later => HostsIn(h2, E2) = HostsIn(h, E))
  BY <1>1, <1>2, ImagesStand
<1>4. SetOK(SetFor(ports, p), HostsIn(h, E), T, Window, Full("source", R)) /\ Window \in Nat
  BY BehaviorAssumption DEF PortOK
<1>5. SetOK(SetFor(ports, p), HostsIn(h2, E2), now, Window, later)
  <2> HIDE DEF E, E2, later
  <2> QED BY <1>w, <1>3, <1>4, SetStands
<1> QED BY <1>5, <1>w DEF PortOK

LEMMA SourceStands ==
  ASSUME NEW h, NEW x, NEW h2, NEW i, Grows(h, x, h2, i), NEW k, NEW e,
         NEW T \in Nat, NEW now \in Nat, T <= now, NEW R, NEW R2, R \subseteq R2,
         SourceIs(e, k, h, T, R),
         KeyIn("source", x.obs) = k /\ OfSource(x.obs) => ~Whole("source", R2)
  PROVE  SourceIs(e, k, h2, now, R2)
<1> DEFINE later == Whole("source", R2)
           full == Full("source", R2)
<1>w. /\ later \in BOOLEAN /\ Whole("source", R) \in BOOLEAN /\ (later => Whole("source", R))
      /\ full \in BOOLEAN /\ Full("source", R) \in BOOLEAN /\ (full => Full("source", R) /\ later)
      /\ \A w : Unrefused(w, R) => Unrefused(w, R2)
  BY WholeFalls
<1>s. Window \in Nat /\ FloodWindow \in Nat
  BY WindowsTyped
<1>e. EvidenceGrows(h, x, h2, i, k)
  BY EvidenceGrown
<1>n. /\ KeyIn("source", x.obs) = k /\ Moving(x.obs) => ~later
      /\ KeyIn("source", x.obs) = k /\ x.obs.kind = "volume" => ~later
      /\ KeyIn("source", x.obs) = k /\ Unanswered(x.obs) => ~later
  BY DEF OfSource
<1>v. /\ Outs(h) \in [DOMAIN h -> Nat] /\ Outs(h2) \in [DOMAIN h2 -> Nat]
      /\ Ins(h) \in [DOMAIN h -> Nat] /\ Ins(h2) \in [DOMAIN h2 -> Nat]
      /\ \A j \in DOMAIN h : Outs(h2)[j] = Outs(h)[j] /\ Ins(h2)[j] = Ins(h)[j]
  BY FieldsTyped
<1>1. GrownBy(Moved(h2, k), Moved(h, k), i, later) /\ Moved(h, k) \in SUBSET DOMAIN h /\ Moved(h2, k) \in SUBSET DOMAIN h2
  <2> DEFINE yes == KeyIn("source", x.obs) = k /\ Moving(x.obs)
  <2>1. yes \in BOOLEAN /\ (yes => ~later) /\ More(Moved(h2, k), Moved(h, k), i, yes)
    BY <1>n, <1>e, ObsBoolean DEF EvidenceGrows
  <2> HIDE DEF yes, later
  <2> QED BY <2>1, <1>w, MoreIn, EvidenceIn
<1>2. GrownBy(Volumes(h2, k), Volumes(h, k), i, later) /\ Volumes(h, k) \in SUBSET DOMAIN h /\ Volumes(h2, k) \in SUBSET DOMAIN h2
  <2> DEFINE yes == KeyIn("source", x.obs) = k /\ x.obs.kind = "volume"
  <2>1. yes \in BOOLEAN /\ (yes => ~later) /\ More(Volumes(h2, k), Volumes(h, k), i, yes)
    BY <1>n, <1>e DEF EvidenceGrows
  <2> HIDE DEF yes, later
  <2> QED BY <2>1, <1>w, MoreIn, EvidenceIn
<1>3. GrownBy(Losses(h2, k), Losses(h, k), i, full) /\ Losses(h, k) \in SUBSET DOMAIN h
  <2> DEFINE yes == KeyIn("source", x.obs) = k /\ Unanswered(x.obs)
  <2>1. yes \in BOOLEAN /\ (yes => ~full) /\ More(Losses(h2, k), Losses(h, k), i, yes)
    BY <1>n, <1>e, <1>w, ObsBoolean DEF EvidenceGrows
  <2> HIDE DEF yes, later, full
  <2> QED BY <2>1, <1>w, MoreIn, EvidenceIn
<1>4. RingOK(e.out, now, Window, later, SumsOver(h2, Outs(h2), Moved(h2, k), Window))
  <2>1. RingOK(e.out, T, Window, Whole("source", R), SumsOver(h, Outs(h), Moved(h, k), Window))
    BY DEF SourceIs
  <2> HIDE DEF later
  <2> QED BY <2>1, <1>w, <1>s, <1>v, <1>1, RingSumsStand
<1>5. RingOK(e.in, now, Window, later, SumsOver(h2, Ins(h2), Moved(h2, k), Window))
  <2>1. RingOK(e.in, T, Window, Whole("source", R), SumsOver(h, Ins(h), Moved(h, k), Window))
    BY DEF SourceIs
  <2> HIDE DEF later
  <2> QED BY <2>1, <1>w, <1>s, <1>v, <1>1, RingSumsStand
<1>6. RingOK(e.packets, now, FloodWindow, later, SumsOver(h2, Outs(h2), Volumes(h2, k), FloodWindow))
  <2>1. RingOK(e.packets, T, FloodWindow, Whole("source", R), SumsOver(h, Outs(h), Volumes(h, k), FloodWindow))
    BY DEF SourceIs
  <2> HIDE DEF later
  <2> QED BY <2>1, <1>w, <1>s, <1>v, <1>2, RingSumsStand
<1>7. SetOK(e.any, HostsIn(h2, Losses(h2, k)), now, Window, full) /\ Unrefused(e.any, R2)
  <2>1. SetOK(e.any, HostsIn(h, Losses(h, k)), T, Window, Full("source", R)) /\ Unrefused(e.any, R)
    BY DEF SourceIs
  <2> HIDE DEF full
  <2>2. HostsIn(h, Losses(h, k)) \subseteq HostsIn(h2, Losses(h2, k))
        /\ (full => HostsIn(h2, Losses(h2, k)) = HostsIn(h, Losses(h, k)))
    BY <1>3, ImagesStand
  <2>3. SetOK(e.any, HostsIn(h2, Losses(h2, k)), now, Window, full)
    BY <2>1, <2>2, <1>w, <1>s, SetStands
  <2> QED BY <2>1, <2>3, <1>w
<1>8. \A p : PortOK(e.ports, p, h2, k, now, R2)
  <2> SUFFICES ASSUME NEW p PROVE PortOK(e.ports, p, h2, k, now, R2)
    OBVIOUS
  <2>1. PortOK(e.ports, p, h, k, T, R)
    BY DEF SourceIs
  <2> QED BY <2>1, <1>n, PortStands
<1>9. DOMAIN e = {"ports", "any", "out", "in", "packets", "gates", "seen"}
  BY DEF SourceIs
<1> QED BY <1>4, <1>5, <1>6, <1>7, <1>8, <1>9 DEF SourceIs

LEMMA PairStands ==
  ASSUME NEW h, NEW x, NEW h2, NEW i, Grows(h, x, h2, i), NEW k, NEW e,
         NEW T \in Nat, NEW now \in Nat, T <= now, NEW R, NEW R2, R \subseteq R2,
         PairIs(e, k, h, T, R),
         KeyIn("pair", x.obs) = k /\ OfPair(x.obs) => ~Whole("pair", R2)
  PROVE  PairIs(e, k, h2, now, R2)
<1> DEFINE later == Whole("pair", R2)
<1>w. later \in BOOLEAN /\ Whole("pair", R) \in BOOLEAN /\ (later => Whole("pair", R))
  BY WholeFalls
<1>s. Window \in Nat
  BY WindowsTyped
<1>e. EvidenceGrows(h, x, h2, i, k)
  BY EvidenceGrown
<1>1. ASSUME NEW kd \in {"attempt", "refusal"}
      PROVE  /\ GrownBy(OfKind(h2, k, kd), OfKind(h, k, kd), i, later)
             /\ OfKind(h, k, kd) \in SUBSET DOMAIN h /\ OfKind(h2, k, kd) \in SUBSET DOMAIN h2
  <2> DEFINE yes == KeyIn("pair", x.obs) = k /\ x.obs.kind = kd
  <2>1. yes \in BOOLEAN /\ (yes => ~later)
    BY DEF OfPair
  <2>2. More(OfKind(h2, k, kd), OfKind(h, k, kd), i, yes)
    BY <1>e DEF EvidenceGrows
  <2> HIDE DEF yes, later
  <2>3. OfKind(h, k, kd) \in SUBSET DOMAIN h
    BY EvidenceIn
  <2>4. later \in BOOLEAN
    BY <1>w
  <2>5. GrownBy(OfKind(h2, k, kd), OfKind(h, k, kd), i, later) /\ OfKind(h2, k, kd) \in SUBSET DOMAIN h2
    BY <2>1, <2>2, <2>3, <2>4, MoreIn
  <2> QED BY <2>3, <2>5
<1>2. GrownBy(Started(h2, k), Started(h, k), i, later) /\ Started(h, k) \in SUBSET DOMAIN h
  <2> DEFINE yes == KeyIn("pair", x.obs) = k /\ Starting(x.obs)
  <2>1. yes \in BOOLEAN /\ (yes => ~later)
    BY ObsBoolean DEF OfPair
  <2>2. More(Started(h2, k), Started(h, k), i, yes)
    BY <1>e DEF EvidenceGrows
  <2> HIDE DEF yes, later
  <2>3. Started(h, k) \in SUBSET DOMAIN h
    BY EvidenceIn
  <2>4. later \in BOOLEAN
    BY <1>w
  <2>5. GrownBy(Started(h2, k), Started(h, k), i, later)
    BY <2>1, <2>2, <2>3, <2>4, MoreIn
  <2> QED BY <2>3, <2>5
<1>3. RingOK(e.attempts, now, Window, later, CountOver(h2, OfKind(h2, k, "attempt"), Window))
  <2>1. RingOK(e.attempts, T, Window, Whole("pair", R), CountOver(h, OfKind(h, k, "attempt"), Window))
    BY DEF PairIs
  <2> HIDE DEF later
  <2> QED BY <2>1, <1>w, <1>s, <1>1, RingCountStands
<1>4. RingOK(e.refusals, now, Window, later, CountOver(h2, OfKind(h2, k, "refusal"), Window))
  <2>1. RingOK(e.refusals, T, Window, Whole("pair", R), CountOver(h, OfKind(h, k, "refusal"), Window))
    BY DEF PairIs
  <2> HIDE DEF later
  <2> QED BY <2>1, <1>w, <1>s, <1>1, RingCountStands
<1>5. BeatOK(e.beacon, TimesOf(h2, Started(h2, k)), now, later)
  <2>1. BeatOK(e.beacon, TimesOf(h, Started(h, k)), T, Whole("pair", R))
    BY DEF PairIs
  <2>2. TimesOf(h, Started(h, k)) \in SUBSET Nat
    BY <1>2, StampedTimes DEF TimesOf, Grows, History, At
  <2> HIDE DEF later
  <2>3. /\ TimesOf(h, Started(h, k)) \subseteq TimesOf(h2, Started(h2, k))
        /\ later => TimesOf(h2, Started(h2, k)) = TimesOf(h, Started(h, k))
    BY <1>2, ImagesStand
  <2> QED BY <2>1, <2>2, <2>3, <1>w, BeatStands
<1>6. DOMAIN e = {"attempts", "refusals", "beacon", "gates", "seen"}
  BY DEF PairIs
<1> QED BY <1>3, <1>4, <1>5, <1>6 DEF PairIs

LEMMA DomainStands ==
  ASSUME NEW h, NEW x, NEW h2, NEW i, Grows(h, x, h2, i), NEW k, NEW e,
         NEW T \in Nat, NEW now \in Nat, T <= now, NEW R, NEW R2, R \subseteq R2,
         DomainIs(e, k, h, T, R),
         KeyIn("domain", x.obs) = k /\ x.obs.kind = "dns" => ~Whole("domain", R2)
  PROVE  DomainIs(e, k, h2, now, R2)
<1> DEFINE full == Full("domain", R2)
<1>w. /\ full \in BOOLEAN /\ Full("domain", R) \in BOOLEAN /\ (full => Full("domain", R) /\ Whole("domain", R2))
      /\ \A w : Unrefused(w, R) => Unrefused(w, R2)
  BY WholeFalls
<1>s. Window \in Nat
  BY WindowsTyped
<1>2. GrownBy(Asked(h2, k), Asked(h, k), i, full) /\ Asked(h, k) \in SUBSET DOMAIN h
  <2> DEFINE yes == KeyIn("domain", x.obs) = k /\ x.obs.kind = "dns" /\ Random(Name[x.obs.name])
  <2>1. yes \in BOOLEAN /\ (yes => ~full)
    BY <1>w, ObsBoolean
  <2>2. More(Asked(h2, k), Asked(h, k), i, yes)
    BY EvidenceGrown DEF EvidenceGrows
  <2> HIDE DEF yes, full
  <2> QED BY <2>1, <2>2, <1>w, MoreIn, EvidenceIn
<1>3. SetOK(e.subs, SubsIn(h, Asked(h, k)), T, Window, Full("domain", R)) /\ Unrefused(e.subs, R)
      /\ DOMAIN e = {"subs", "gates", "seen"}
  BY DEF DomainIs
<1> HIDE DEF full
<1>4. SubsIn(h, Asked(h, k)) \subseteq SubsIn(h2, Asked(h2, k))
      /\ (full => SubsIn(h2, Asked(h2, k)) = SubsIn(h, Asked(h, k)))
  BY <1>2, ImagesStand
<1>5. SetOK(e.subs, SubsIn(h2, Asked(h2, k)), now, Window, full)
  BY <1>3, <1>4, <1>w, <1>s, SetStands
<1> QED BY <1>3, <1>5, <1>w DEF DomainIs, full

LEMMA EntryStands ==
  ASSUME NEW h, NEW x, NEW h2, NEW i, Grows(h, x, h2, i), NEW kind \in TableKinds, NEW k, NEW e,
         NEW T \in Nat, NEW now \in Nat, T <= now, NEW R, NEW R2, R \subseteq R2,
         EntryIs0(kind, e, k, h, T, R),
         KeyIn(kind, x.obs) = k /\ Relevant(kind, x.obs) => ~Whole(kind, R2)
  PROVE  EntryIs0(kind, e, k, h2, now, R2)
<1>1. CASE kind = "source"
  <2>1. SourceIs(e, k, h, T, R) /\ (KeyIn("source", x.obs) = k /\ OfSource(x.obs) => ~Whole("source", R2))
    BY <1>1 DEF EntryIs0, Relevant
  <2>2. SourceIs(e, k, h2, now, R2)
    BY <2>1, SourceStands
  <2> QED BY <1>1, <2>2 DEF EntryIs0
<1>2. CASE kind = "pair"
  <2>1. PairIs(e, k, h, T, R) /\ (KeyIn("pair", x.obs) = k /\ OfPair(x.obs) => ~Whole("pair", R2))
    BY <1>2 DEF EntryIs0, Relevant
  <2>2. PairIs(e, k, h2, now, R2)
    BY <2>1, PairStands
  <2> QED BY <1>2, <2>2 DEF EntryIs0
<1>3. CASE kind = "domain"
  <2>1. DomainIs(e, k, h, T, R) /\ (KeyIn("domain", x.obs) = k /\ x.obs.kind = "dns" => ~Whole("domain", R2))
    BY <1>3 DEF EntryIs0, Relevant
  <2>2. DomainIs(e, k, h2, now, R2)
    BY <2>1, DomainStands
  <2> QED BY <1>3, <2>2 DEF EntryIs0
<1> QED BY <1>1, <1>2, <1>3 DEF TableKinds

(* A new entry has all there is of a key not seen for a window.            *)
LEMMA SourceFresh ==
  ASSUME NEW h, History(h), NEW k, NEW now \in Nat, NEW R,
         Whole("source", R) => \A t \in SeenAt("source", h, k) : t <= now - Window
  PROVE  SourceIs(NewSource, k, h, now, R)
<1> DEFINE whole == Whole("source", R)
           full == Full("source", R)
<1>w. whole \in BOOLEAN /\ full \in BOOLEAN /\ (full => whole)
  BY WholeFalls
<1>s. Window \in Nat /\ FloodWindow \in Nat /\ FloodWindow <= Window
  BY BehaviorAssumption
<1>v. Outs(h) \in [DOMAIN h -> Nat] /\ Ins(h) \in [DOMAIN h -> Nat]
  <2>1. \A o \in Stamped : o.out \in Nat /\ o.in \in Nat
    BY DEF Stamped, Observations
  <2> QED BY <2>1 DEF History, Outs, Ins, At
<1>i. /\ Moved(h, k) \in SUBSET DOMAIN h /\ Volumes(h, k) \in SUBSET DOMAIN h
      /\ Losses(h, k) \in SUBSET DOMAIN h /\ \A p : LossesAt(h, k, p) \in SUBSET DOMAIN h
  BY EvidenceIn
<1>t. \A j \in Moved(h, k) \cup Volumes(h, k) \cup Losses(h, k) : At(h, j).ts \in SeenAt("source", h, k)
  BY EvidenceSeen
<1> HIDE DEF whole, full
<1>o. whole => \A t \in SeenAt("source", h, k) : t <= now - Window
  BY DEF whole
<1>1. whole => \A j \in Moved(h, k) : At(h, j).ts <= now - Window
  BY <1>o, <1>t
<1>2. whole => \A j \in Volumes(h, k) : At(h, j).ts <= now - Window
  BY <1>o, <1>t
<1>3. ASSUME NEW E \in SUBSET Losses(h, k)
      PROVE  SetOK(NewSet, HostsIn(h, E), now, Window, full)
  <2>1. full => \A j \in E : At(h, j).ts <= now - Window
    BY <1>o, <1>t, <1>w
  <2>2. \A a : \A t \in Nat : <<a, t>> \in HostsIn(h, E) => \E j \in E : t = At(h, j).ts
    BY DEF HostsIn
  <2>3. full => \A a : \A t \in Nat : <<a, t>> \in HostsIn(h, E) => t <= now - Window
    BY <2>1, <2>2
  <2> QED BY <2>3, <1>s, SetFresh
<1>4. /\ NewSource.out = <<>> /\ NewSource.in = <<>> /\ NewSource.packets = <<>> /\ NewSource.any = NewSet
      /\ NewSource.ports = <<>>
      /\ DOMAIN NewSource = {"ports", "any", "out", "in", "packets", "gates", "seen"}
  BY DEF NewSource
<1>5. RingOK(NewSource.out, now, Window, whole, SumsOver(h, Outs(h), Moved(h, k), Window))
  BY <1>1, <1>4, <1>w, <1>s, <1>v, <1>i, RingSumsFresh
<1>6. RingOK(NewSource.in, now, Window, whole, SumsOver(h, Ins(h), Moved(h, k), Window))
  BY <1>1, <1>4, <1>w, <1>s, <1>v, <1>i, RingSumsFresh
<1>7. RingOK(NewSource.packets, now, FloodWindow, whole, SumsOver(h, Outs(h), Volumes(h, k), FloodWindow))
  BY <1>2, <1>4, <1>w, <1>s, <1>v, <1>i, RingSumsFresh
<1>8. SetOK(NewSource.any, HostsIn(h, Losses(h, k)), now, Window, full) /\ Unrefused(NewSource.any, R)
  BY <1>3, <1>4 DEF Unrefused, NewSet
<1>9. \A p : PortOK(NewSource.ports, p, h, k, now, R)
  <2> SUFFICES ASSUME NEW p PROVE PortOK(NewSource.ports, p, h, k, now, R)
    OBVIOUS
  <2>1. LossesAt(h, k, p) \in SUBSET Losses(h, k)
    BY DEF LossesAt
  <2>2. p \notin DOMAIN NewSource.ports
    BY <1>4
  <2> QED BY <2>1, <2>2, <1>3 DEF PortOK, SetFor, full
<1> QED BY <1>4, <1>5, <1>6, <1>7, <1>8, <1>9 DEF SourceIs, whole, full

LEMMA PairFresh ==
  ASSUME NEW h, History(h), NEW k, NEW now \in Nat, NEW R,
         Whole("pair", R) => \A t \in SeenAt("pair", h, k) : t <= now - Window
  PROVE  PairIs(NewPair, k, h, now, R)
<1> DEFINE whole == Whole("pair", R)
<1>w. whole \in BOOLEAN
  BY WholeFalls
<1>s. Window \in Nat
  BY WindowsTyped
<1>i. \A kd : OfKind(h, k, kd) \in SUBSET DOMAIN h
  BY EvidenceIn
<1>t. \A j \in OfKind(h, k, "attempt") \cup OfKind(h, k, "refusal") \cup Started(h, k) :
              At(h, j).ts \in SeenAt("pair", h, k)
  BY EvidenceSeen
<1> HIDE DEF whole
<1>o. whole => \A t \in SeenAt("pair", h, k) : t <= now - Window
  BY DEF whole
<1>1. whole => \A j \in OfKind(h, k, "attempt") : At(h, j).ts <= now - Window
  BY <1>o, <1>t
<1>2. whole => \A j \in OfKind(h, k, "refusal") : At(h, j).ts <= now - Window
  BY <1>o, <1>t
<1>3. whole => \A t \in TimesOf(h, Started(h, k)) : t <= now - Window
  BY <1>o, <1>t DEF TimesOf
<1>4. /\ NewPair.attempts = <<>> /\ NewPair.refusals = <<>> /\ NewPair.beacon = NewBeat
      /\ DOMAIN NewPair = {"attempts", "refusals", "beacon", "gates", "seen"}
  BY DEF NewPair
<1>5. RingOK(NewPair.attempts, now, Window, whole, CountOver(h, OfKind(h, k, "attempt"), Window))
  BY <1>1, <1>4, <1>w, <1>s, <1>i, RingCountFresh
<1>6. RingOK(NewPair.refusals, now, Window, whole, CountOver(h, OfKind(h, k, "refusal"), Window))
  BY <1>2, <1>4, <1>w, <1>s, <1>i, RingCountFresh
<1>7. BeatOK(NewPair.beacon, TimesOf(h, Started(h, k)), now, whole)
  BY <1>3, <1>4, BeatFresh
<1> QED BY <1>4, <1>5, <1>6, <1>7 DEF PairIs, whole

LEMMA DomainFresh ==
  ASSUME NEW h, History(h), NEW k, NEW now \in Nat, NEW R,
         Whole("domain", R) => \A t \in SeenAt("domain", h, k) : t <= now - Window
  PROVE  DomainIs(NewDomain, k, h, now, R)
<1> DEFINE full == Full("domain", R)
           E == Asked(h, k)
<1>w. full => Whole("domain", R)
  BY WholeFalls
<1>1. full => \A j \in E : At(h, j).ts <= now - Window
  BY <1>w, EvidenceSeen
<1>2. \A a : \A t \in Nat : <<a, t>> \in SubsIn(h, E) => \E j \in E : t = At(h, j).ts
  BY DEF SubsIn
<1> HIDE DEF full, E
<1>3. full => \A a : \A t \in Nat : <<a, t>> \in SubsIn(h, E) => t <= now - Window
  BY <1>1, <1>2
<1>4. SetOK(NewSet, SubsIn(h, E), now, Window, full)
  BY <1>3, SetFresh, BehaviorAssumption
<1>5. NewDomain.subs = NewSet /\ DOMAIN NewDomain = {"subs", "gates", "seen"} /\ ~NewSet.refused
  BY DEF NewDomain, NewSet
<1> QED BY <1>4, <1>5 DEF DomainIs, Unrefused, full, E

LEMMA EntryFresh ==
  ASSUME NEW h, History(h), NEW kind \in TableKinds, NEW k, NEW now \in Nat, NEW R,
         Whole(kind, R) => \A t \in SeenAt(kind, h, k) : t <= now - Window
  PROVE  EntryIs0(kind, Fresh0(kind), k, h, now, R)
<1>1. CASE kind = "source"
  <2>1. SourceIs(NewSource, k, h, now, R)
    BY <1>1, SourceFresh
  <2> QED BY <1>1, <2>1 DEF EntryIs0, Fresh0
<1>2. CASE kind = "pair"
  <2>1. PairIs(NewPair, k, h, now, R)
    BY <1>2, PairFresh
  <2> QED BY <1>2, <2>1 DEF EntryIs0, Fresh0
<1>3. CASE kind = "domain"
  <2>1. DomainIs(NewDomain, k, h, now, R)
    BY <1>3, DomainFresh
  <2> QED BY <1>3, <2>1 DEF EntryIs0, Fresh0
<1> QED BY <1>1, <1>2, <1>3 DEF TableKinds

(* What an entry has does not depend on its gates, nor on when it was seen. *)
LEMMA EntryRests ==
  ASSUME NEW kind \in TableKinds, NEW e, NEW f, DOMAIN f = DOMAIN e,
         \A d \in DOMAIN e \ {"gates", "seen"} : f[d] = e[d],
         NEW k, NEW h, NEW T, NEW R, EntryIs0(kind, e, k, h, T, R)
  PROVE  EntryIs0(kind, f, k, h, T, R)
<1>1. CASE kind = "source"
  <2>1. SourceIs(e, k, h, T, R)
    BY <1>1 DEF EntryIs0
  <2>2. f.ports = e.ports /\ f.any = e.any /\ f.out = e.out /\ f.in = e.in /\ f.packets = e.packets
    BY <2>1 DEF SourceIs
  <2>3. SourceIs(f, k, h, T, R)
    BY <2>1, <2>2 DEF SourceIs
  <2> QED BY <1>1, <2>3 DEF EntryIs0
<1>2. CASE kind = "pair"
  <2>1. PairIs(e, k, h, T, R)
    BY <1>2 DEF EntryIs0
  <2>2. f.attempts = e.attempts /\ f.refusals = e.refusals /\ f.beacon = e.beacon
    BY <2>1 DEF PairIs
  <2>3. PairIs(f, k, h, T, R)
    BY <2>1, <2>2 DEF PairIs
  <2> QED BY <1>2, <2>3 DEF EntryIs0
<1>3. CASE kind = "domain"
  <2>1. DomainIs(e, k, h, T, R)
    BY <1>3 DEF EntryIs0
  <2>2. f.subs = e.subs
    BY <2>1 DEF DomainIs
  <2>3. DomainIs(f, k, h, T, R)
    BY <2>1, <2>2 DEF DomainIs
  <2> QED BY <1>3, <2>3 DEF EntryIs0
<1> QED BY <1>1, <1>2, <1>3 DEF TableKinds

-----------------------------------------------------------------------------
(* An entry that is visited takes what has come.                           *)

PortsPut(ports2, ports, q, w) ==
  /\ DOMAIN ports2 = DOMAIN ports \cup {q}
  /\ \A p \in DOMAIN ports \cup {q} : ports2[p] = IF p = q THEN w ELSE ports[p]

(* A source's sets for ports each have something: none is dropped.         *)
LEMMA ProbedIs ==
  ASSUME NEW ports, NEW o,
         NEW w, w = Inserted(SetFor(ports, o.port), o.dst, o.ts, Window, MaxPairs),
         DOMAIN w.seen # {} /\ IsFiniteSet(DOMAIN w.seen),
         \A p \in DOMAIN ports : DOMAIN ports[p].seen # {} /\ IsFiniteSet(DOMAIN ports[p].seen)
  PROVE  PortsPut(Probed(ports, o), ports, o.port, w)
<1> DEFINE after == Put(ports, o.port, w)
<1>1. Put(ports, o.port, Inserted(IF o.port \in DOMAIN ports THEN ports[o.port] ELSE NewSet, o.dst, o.ts, Window, MaxPairs)) = after
  BY DEF SetFor
<1>2. /\ DOMAIN after = DOMAIN ports \cup {o.port}
      /\ \A p \in DOMAIN ports \cup {o.port} : after[p] = IF p = o.port THEN w ELSE ports[p]
  BY DEF Put
<1> HIDE DEF after
<1>3. \A p \in DOMAIN after : DOMAIN after[p].seen # {} /\ IsFiniteSet(DOMAIN after[p].seen)
  BY <1>2
<1>4. \A p \in DOMAIN after : Distinct(after[p]) > 0
  BY <1>3, FS_EmptySet, FS_CardinalityType DEF Distinct
<1>5. {p \in DOMAIN after : Distinct(after[p]) > 0} = DOMAIN after
  BY <1>4
<1>6. \/ Probed(ports, o) = after
      \/ Probed(ports, o) = Restrict(after, DOMAIN after)
  BY <1>1, <1>5 DEF Probed
<1>7. /\ DOMAIN Restrict(after, DOMAIN after) = DOMAIN after
      /\ \A p \in DOMAIN after : Restrict(after, DOMAIN after)[p] = after[p]
  BY DEF Restrict
<1> QED BY <1>2, <1>6, <1>7 DEF PortsPut

Images(h, h2, E, E2, o, yes) ==
  /\ TimesOf(h2, E2) = IF yes THEN TimesOf(h, E) \cup {o.ts} ELSE TimesOf(h, E)
  /\ HostsIn(h2, E2) = IF yes THEN HostsIn(h, E) \cup {<<o.dst, o.ts>>} ELSE HostsIn(h, E)
  /\ SubsIn(h2, E2) = IF yes THEN SubsIn(h, E) \cup {<<Sub(Name[o.name]), o.ts>>} ELSE SubsIn(h, E)

LEMMA ImagesMore ==
  ASSUME NEW h, NEW x, NEW h2, NEW i, Grows(h, x, h2, i), NEW E \in SUBSET DOMAIN h, NEW E2, NEW yes \in BOOLEAN,
         More(E2, E, i, yes)
  PROVE  Images(h, h2, E, E2, x.obs, yes)
<1>1. ImagesOver(h, h2, E, i, x.obs)
  BY ImagesGrown
<1>2. CASE yes
  BY <1>1, <1>2 DEF More, Images, ImagesOver
<1>3. CASE ~yes
  BY <1>1, <1>3 DEF More, Images, ImagesOver
<1> QED BY <1>2, <1>3

LEMMA PortsVisited ==
  ASSUME NEW h, NEW x, NEW h2, NEW i, Grows(h, x, h2, i), NEW k, k = KeyIn("source", x.obs), NEW ports,
         NEW T \in Nat, NEW now \in Nat, T <= now, x.obs.ts = now, NEW R, NEW R2, R \subseteq R2,
         \A p : PortOK(ports, p, h, k, T, R), Unanswered(x.obs),
         NEW ports2, ports2 = Probed(ports, x.obs), \A p \in DOMAIN ports2 : Unrefused(ports2[p], R2)
  PROVE  /\ \A p : PortOK(ports2, p, h2, k, now, R2)
         /\ x.obs.port \in DOMAIN ports2 /\ Fresh(ports2[x.obs.port], now, Window)
<1> DEFINE q == x.obs.port
           w == Inserted(SetFor(ports, q), x.obs.dst, now, Window, MaxPairs)
           full == Full("source", R)
           later == Full("source", R2)
           H(p) == HostsIn(h, LossesAt(h, k, p))
           J(p) == HostsIn(h2, LossesAt(h2, k, p))
<1>w. later => full
  BY WholeFalls
<1>s. Window \in Nat \ {0} /\ Window \in Nat /\ MaxPairs \in Nat \ {0}
  BY BehaviorAssumption
<1>1. \A p : SetOK(SetFor(ports, p), H(p), T, Window, full)
  BY DEF PortOK
<1>2. \A p \in DOMAIN ports : DOMAIN ports[p].seen # {}
  BY DEF PortOK
<1>3. \A p : More(LossesAt(h2, k, p), LossesAt(h, k, p), i, q = p) /\ LossesAt(h, k, p) \in SUBSET DOMAIN h
  BY EvidenceGrown, EvidenceIn DEF EvidenceGrows
<1>i. \A p : J(p) = IF q = p THEN H(p) \cup {<<x.obs.dst, now>>} ELSE H(p)
  <2> SUFFICES ASSUME NEW p PROVE J(p) = IF q = p THEN H(p) \cup {<<x.obs.dst, now>>} ELSE H(p)
    OBVIOUS
  <2>1. Images(h, h2, LossesAt(h, k, p), LossesAt(h2, k, p), x.obs, q = p)
    BY <1>3, ImagesMore
  <2> QED BY <2>1 DEF Images
<1>4. J(q) = H(q) \cup {<<x.obs.dst, now>>}
  BY <1>i
<1>5. \A p : p # q => J(p) = H(p)
  BY <1>i
<1> HIDE DEF H, J, full, later
<1>6. SetOK(w, H(q) \cup {<<x.obs.dst, now>>}, now, Window, full) /\ Fresh(w, now, Window)
  <2>1. SetOK(SetFor(ports, q), H(q), T, Window, full)
    BY <1>1
  <2> QED BY <2>1, <1>s, SetInserted
<1>7. DOMAIN w.seen # {} /\ IsFiniteSet(DOMAIN w.seen)
  BY <1>6 DEF Fresh, SetOK
<1>8. \A p \in DOMAIN ports : DOMAIN ports[p].seen # {} /\ IsFiniteSet(DOMAIN ports[p].seen)
  BY <1>1, <1>2 DEF SetFor, SetOK
<1>9. /\ DOMAIN ports2 = DOMAIN ports \cup {q}
      /\ \A p \in DOMAIN ports \cup {q} : ports2[p] = IF p = q THEN w ELSE ports[p]
  <2>1. w = Inserted(SetFor(ports, x.obs.port), x.obs.dst, x.obs.ts, Window, MaxPairs)
    OBVIOUS
  <2> HIDE DEF w
  <2>2. PortsPut(Probed(ports, x.obs), ports, x.obs.port, w)
    BY <2>1, <1>7, <1>8, ProbedIs
  <2> QED BY <2>2 DEF PortsPut
<1> HIDE DEF w
<1>10. ASSUME NEW p PROVE PortOK(ports2, p, h2, k, now, R2)
  <2>1. CASE p = q
    <3>1. SetFor(ports2, p) = w /\ ports2[p] = w /\ p \in DOMAIN ports2
      BY <1>9, <2>1 DEF SetFor
    <3>2. SetOK(w, J(p), now, Window, full)
      BY <1>4, <1>6, <2>1
    <3>3. SetOK(w, J(p), now, Window, later)
      BY <3>2, <1>w, <1>s, SetStands
    <3> QED BY <3>1, <3>3, <1>7 DEF PortOK, J, later
  <2>2. CASE p # q
    <3>1. SetFor(ports2, p) = SetFor(ports, p)
      BY <1>9, <2>2 DEF SetFor
    <3>2. J(p) = H(p)
      BY <1>5, <2>2
    <3>3. SetOK(SetFor(ports, p), J(p), now, Window, later)
      BY <3>2, <1>1, <1>w, <1>s, SetStands
    <3>4. p \in DOMAIN ports2 => DOMAIN ports2[p].seen # {} /\ Unrefused(ports2[p], R2)
      BY <1>8, <1>9, <2>2
    <3> QED BY <3>1, <3>3, <3>4 DEF PortOK, J, later
  <2> QED BY <2>1, <2>2
<1>11. q \in DOMAIN ports2 /\ Fresh(ports2[q], now, Window)
  BY <1>6, <1>9
<1> QED BY <1>10, <1>11

LEMMA RefusalsSay ==
  ASSUME NEW sets, NEW R2, Refusals(sets) \subseteq R2
  PROVE  \A w \in sets : Unrefused(w, R2)
BY DEF Refusals, Unrefused

LEMMA SourceVisited ==
  ASSUME NEW h, NEW x, NEW h2, NEW i, Grows(h, x, h2, i), NEW k, k = KeyIn("source", x.obs), NEW e,
         NEW T \in Nat, NEW now \in Nat, T <= now, x.obs.ts = now, NEW R, NEW R2, R \subseteq R2,
         SourceIs(e, k, h, T, R),
         NEW e2, e2 = SourceAfter(e, x.obs), Refusals({e2.any} \cup Range(e2.ports)) \subseteq R2
  PROVE  /\ SourceIs(e2, k, h2, now, R2)
         /\ Unanswered(x.obs) => /\ Fresh(e2.any, now, Window) /\ x.obs.port \in DOMAIN e2.ports
                                 /\ Fresh(e2.ports[x.obs.port], now, Window)
<1> DEFINE o == x.obs
           later == Whole("source", R2)
           full == Full("source", R2)
<1>w. /\ later \in BOOLEAN /\ Whole("source", R) \in BOOLEAN /\ (later => Whole("source", R))
      /\ full \in BOOLEAN /\ Full("source", R) \in BOOLEAN /\ (full => Full("source", R) /\ later)
  BY WholeFalls
<1>s. /\ Window \in Nat /\ FloodWindow \in Nat /\ Window \in Nat \ {0} /\ FloodWindow \in Nat \ {0}
      /\ MaxPairs \in Nat \ {0}
  BY BehaviorAssumption
<1>e. EvidenceGrows(h, x, h2, i, k)
  BY EvidenceGrown
<1>i. /\ Moved(h, k) \in SUBSET DOMAIN h /\ Volumes(h, k) \in SUBSET DOMAIN h
      /\ Losses(h, k) \in SUBSET DOMAIN h /\ \A p : LossesAt(h, k, p) \in SUBSET DOMAIN h
      /\ Moved(h2, k) \in SUBSET DOMAIN h2 /\ Volumes(h2, k) \in SUBSET DOMAIN h2
  BY EvidenceIn
<1>v. /\ Outs(h) \in [DOMAIN h -> Nat] /\ Outs(h2) \in [DOMAIN h2 -> Nat]
      /\ Ins(h) \in [DOMAIN h -> Nat] /\ Ins(h2) \in [DOMAIN h2 -> Nat]
      /\ \A j \in DOMAIN h : Outs(h2)[j] = Outs(h)[j] /\ Ins(h2)[j] = Ins(h)[j]
      /\ Outs(h2)[i] = o.out /\ Ins(h2)[i] = o.in
  BY FieldsTyped
<1>d. DOMAIN e = {"ports", "any", "out", "in", "packets", "gates", "seen"}
  BY DEF SourceIs
<1>f. /\ DOMAIN e2 = {"ports", "any", "out", "in", "packets", "gates", "seen"}
      /\ e2.ports = IF Unanswered(o) THEN Probed(e.ports, o) ELSE e.ports
      /\ e2.any = IF Unanswered(o) THEN Inserted(e.any, o.dst, o.ts, Window, MaxPairs) ELSE e.any
      /\ e2.out = IF Moving(o) THEN Added(e.out, o.ts, o.out, Window) ELSE e.out
      /\ e2.in = IF Moving(o) THEN Added(e.in, o.ts, o.in, Window) ELSE e.in
      /\ e2.packets = IF o.kind = "volume" THEN Added(e.packets, o.ts, o.out, FloodWindow) ELSE e.packets
  BY <1>d DEF SourceAfter
<1>u. Unrefused(e2.any, R2) /\ \A p \in DOMAIN e2.ports : Unrefused(e2.ports[p], R2)
  <2>1. \A w \in {e2.any} \cup Range(e2.ports) : Unrefused(w, R2)
    BY RefusalsSay
  <2> QED BY <2>1 DEF Range
<1>1. /\ More(Moved(h2, k), Moved(h, k), i, Moving(o))
      /\ More(Volumes(h2, k), Volumes(h, k), i, o.kind = "volume")
      /\ More(Losses(h2, k), Losses(h, k), i, Unanswered(o))
  BY <1>e DEF EvidenceGrows, More
<1>2. /\ RingOK(e2.out, now, Window, later, SumsOver(h2, Outs(h2), Moved(h2, k), Window))
      /\ RingOK(e2.in, now, Window, later, SumsOver(h2, Ins(h2), Moved(h2, k), Window))
  <2>1. /\ RingOK(e.out, T, Window, Whole("source", R), SumsOver(h, Outs(h), Moved(h, k), Window))
        /\ RingOK(e.in, T, Window, Whole("source", R), SumsOver(h, Ins(h), Moved(h, k), Window))
    BY DEF SourceIs
  <2> HIDE DEF later
  <2>2. CASE Moving(o)
    <3>1. /\ Moved(h2, k) = Moved(h, k) \cup {i}
          /\ e2.out = Added(e.out, now, Outs(h2)[i], Window) /\ e2.in = Added(e.in, now, Ins(h2)[i], Window)
      BY <1>1, <1>f, <1>v, <2>2 DEF More
    <3>2. RingOK(e2.out, now, Window, later, SumsOver(h2, Outs(h2), Moved(h2, k), Window))
      BY <2>1, <3>1, <1>w, <1>s, <1>v, <1>i, RingSumsAdded
    <3>3. RingOK(e2.in, now, Window, later, SumsOver(h2, Ins(h2), Moved(h2, k), Window))
      BY <2>1, <3>1, <1>w, <1>s, <1>v, <1>i, RingSumsAdded
    <3> QED BY <3>2, <3>3
  <2>3. CASE ~Moving(o)
    <3>1. GrownBy(Moved(h2, k), Moved(h, k), i, later) /\ e2.out = e.out /\ e2.in = e.in
      BY <1>1, <1>f, <2>3 DEF More, GrownBy
    <3>2. RingOK(e2.out, now, Window, later, SumsOver(h2, Outs(h2), Moved(h2, k), Window))
      BY <2>1, <3>1, <1>w, <1>s, <1>v, <1>i, RingSumsStand
    <3>3. RingOK(e2.in, now, Window, later, SumsOver(h2, Ins(h2), Moved(h2, k), Window))
      BY <2>1, <3>1, <1>w, <1>s, <1>v, <1>i, RingSumsStand
    <3> QED BY <3>2, <3>3
  <2> QED BY <2>2, <2>3
<1>3. RingOK(e2.packets, now, FloodWindow, later, SumsOver(h2, Outs(h2), Volumes(h2, k), FloodWindow))
  <2>1. RingOK(e.packets, T, FloodWindow, Whole("source", R), SumsOver(h, Outs(h), Volumes(h, k), FloodWindow))
    BY DEF SourceIs
  <2> HIDE DEF later
  <2>2. CASE o.kind = "volume"
    <3>1. Volumes(h2, k) = Volumes(h, k) \cup {i} /\ e2.packets = Added(e.packets, now, Outs(h2)[i], FloodWindow)
      BY <1>1, <1>f, <1>v, <2>2 DEF More
    <3> QED BY <2>1, <3>1, <1>w, <1>s, <1>v, <1>i, RingSumsAdded
  <2>3. CASE o.kind # "volume"
    <3>1. GrownBy(Volumes(h2, k), Volumes(h, k), i, later) /\ e2.packets = e.packets
      BY <1>1, <1>f, <2>3 DEF More, GrownBy
    <3> QED BY <2>1, <3>1, <1>w, <1>s, <1>v, <1>i, RingSumsStand
  <2> QED BY <2>2, <2>3
<1>4. /\ SetOK(e2.any, HostsIn(h2, Losses(h2, k)), now, Window, full)
      /\ Unanswered(o) => Fresh(e2.any, now, Window)
  <2>1. SetOK(e.any, HostsIn(h, Losses(h, k)), T, Window, Full("source", R))
    BY DEF SourceIs
  <2> HIDE DEF full
  <2>2. CASE Unanswered(o)
    <3>1. Losses(h2, k) = Losses(h, k) \cup {i} /\ e2.any = Inserted(e.any, o.dst, now, Window, MaxPairs)
      BY <1>1, <1>f, <2>2 DEF More
    <3>2. HostsIn(h2, Losses(h2, k)) = HostsIn(h, Losses(h, k)) \cup {<<o.dst, now>>}
      <4>1. ImagesOver(h, h2, Losses(h, k), i, x.obs)
        BY <1>i, ImagesGrown
      <4> QED BY <3>1, <4>1, <1>s DEF ImagesOver
    <3> DEFINE H == HostsIn(h, Losses(h, k))
               J == HostsIn(h2, Losses(h2, k))
    <3> HIDE DEF H, J
    <3>3. SetOK(e2.any, H \cup {<<o.dst, now>>}, now, Window, Full("source", R)) /\ Fresh(e2.any, now, Window)
      BY <2>1, <3>1, <1>s, SetInserted DEF H
    <3>4. SetOK(e2.any, J, now, Window, Full("source", R))
      BY <3>2, <3>3 DEF H, J
    <3>5. SetOK(e2.any, J, now, Window, full)
      BY <3>4, <1>w, <1>s, SetStands
    <3> QED BY <3>3, <3>5 DEF J
  <2>3. CASE ~Unanswered(o)
    <3>1. Losses(h2, k) = Losses(h, k) /\ e2.any = e.any
      BY <1>1, <1>f, <2>3 DEF More
    <3>2. HostsIn(h2, Losses(h2, k)) = HostsIn(h, Losses(h, k))
      <4>1. More(Losses(h2, k), Losses(h, k), i, FALSE)
        BY <3>1 DEF More
      <4>2. Images(h, h2, Losses(h, k), Losses(h2, k), o, FALSE)
        BY <4>1, <1>i, ImagesMore
      <4> QED BY <4>2 DEF Images
    <3>3. SetOK(e2.any, HostsIn(h2, Losses(h2, k)), now, Window, full)
      BY <2>1, <3>1, <3>2, <1>w, <1>s, SetStands
    <3> QED BY <3>3, <2>3
  <2> QED BY <2>2, <2>3
<1>5. /\ \A p : PortOK(e2.ports, p, h2, k, now, R2)
      /\ Unanswered(o) => o.port \in DOMAIN e2.ports /\ Fresh(e2.ports[o.port], now, Window)
  <2>1. \A p : PortOK(e.ports, p, h, k, T, R)
    BY DEF SourceIs
  <2>2. CASE Unanswered(o)
    <3>1. e2.ports = Probed(e.ports, o)
      BY <1>f, <2>2
    <3> QED BY <3>1, <2>1, <2>2, <1>u, PortsVisited
  <2>3. CASE ~Unanswered(o)
    <3>1. e2.ports = e.ports
      BY <1>f, <2>3
    <3>2. ASSUME NEW p PROVE PortOK(e.ports, p, h2, k, now, R2)
      BY <2>1, <2>3, PortStands
    <3> QED BY <3>1, <3>2, <2>3
  <2> QED BY <2>2, <2>3
<1>6. SourceIs(e2, k, h2, now, R2)
  BY <1>f, <1>2, <1>3, <1>4, <1>5, <1>u DEF SourceIs
<1> QED BY <1>4, <1>5, <1>6

LEMMA PairVisited ==
  ASSUME NEW h, NEW x, NEW h2, NEW i, Grows(h, x, h2, i), NEW k, k = KeyIn("pair", x.obs), NEW e,
         NEW T \in Nat, NEW now \in Nat, T <= now, x.obs.ts = now, NEW R, NEW R2, R \subseteq R2,
         \A j \in DOMAIN h : At(h, j).ts <= T,
         PairIs(e, k, h, T, R), OfPair(x.obs), NEW e2, e2 = PairAfter(e, x.obs)
  PROVE  /\ PairIs(e2, k, h2, now, R2)
         /\ x.obs.kind = "flow" /\ Whole("pair", R2) => e2.beacon.last # None
<1> DEFINE o == x.obs
           later == Whole("pair", R2)
<1>w. later \in BOOLEAN /\ Whole("pair", R) \in BOOLEAN /\ (later => Whole("pair", R))
  BY WholeFalls
<1>s. Window \in Nat /\ Window \in Nat \ {0} /\ None \notin Nat
  BY BehaviorAssumption
<1>e. EvidenceGrows(h, x, h2, i, k)
  BY EvidenceGrown
<1>i. /\ \A kd : OfKind(h, k, kd) \in SUBSET DOMAIN h /\ OfKind(h2, k, kd) \in SUBSET DOMAIN h2
      /\ Started(h, k) \in SUBSET DOMAIN h
  BY EvidenceIn
<1>d. DOMAIN e = {"attempts", "refusals", "beacon", "gates", "seen"}
  BY DEF PairIs
<1>f. /\ DOMAIN e2 = {"attempts", "refusals", "beacon", "gates", "seen"}
      /\ e2.attempts = IF o.kind = "attempt" THEN Added(e.attempts, o.ts, 1, Window) ELSE e.attempts
      /\ e2.refusals = IF o.kind = "refusal" THEN Added(e.refusals, o.ts, 1, Window) ELSE e.refusals
      /\ e2.beacon = IF o.kind = "flow" THEN Beat(e.beacon, o.ts, Samples) ELSE e.beacon
  BY <1>d DEF PairAfter
<1>g. Starting(o) \in BOOLEAN /\ (o.kind = "flow" <=> Starting(o))
  BY DEF OfPair, Starting
<1>1. /\ \A kd : More(OfKind(h2, k, kd), OfKind(h, k, kd), i, o.kind = kd)
      /\ More(Started(h2, k), Started(h, k), i, Starting(o))
  BY <1>e DEF EvidenceGrows, More
<1>2. RingOK(e2.attempts, now, Window, later, CountOver(h2, OfKind(h2, k, "attempt"), Window))
  <2>1. RingOK(e.attempts, T, Window, Whole("pair", R), CountOver(h, OfKind(h, k, "attempt"), Window))
    BY DEF PairIs
  <2> HIDE DEF later
  <2>2. CASE o.kind = "attempt"
    <3>1. OfKind(h2, k, "attempt") = OfKind(h, k, "attempt") \cup {i} /\ e2.attempts = Added(e.attempts, now, 1, Window)
      BY <1>1, <1>f, <2>2 DEF More
    <3> QED BY <2>1, <3>1, <1>w, <1>s, <1>i, RingCountAdded
  <2>3. CASE o.kind # "attempt"
    <3>1. GrownBy(OfKind(h2, k, "attempt"), OfKind(h, k, "attempt"), i, later) /\ e2.attempts = e.attempts
      BY <1>1, <1>f, <2>3 DEF More, GrownBy
    <3> QED BY <2>1, <3>1, <1>w, <1>s, <1>i, RingCountStands
  <2> QED BY <2>2, <2>3
<1>3. RingOK(e2.refusals, now, Window, later, CountOver(h2, OfKind(h2, k, "refusal"), Window))
  <2>1. RingOK(e.refusals, T, Window, Whole("pair", R), CountOver(h, OfKind(h, k, "refusal"), Window))
    BY DEF PairIs
  <2> HIDE DEF later
  <2>2. CASE o.kind = "refusal"
    <3>1. OfKind(h2, k, "refusal") = OfKind(h, k, "refusal") \cup {i} /\ e2.refusals = Added(e.refusals, now, 1, Window)
      BY <1>1, <1>f, <2>2 DEF More
    <3> QED BY <2>1, <3>1, <1>w, <1>s, <1>i, RingCountAdded
  <2>3. CASE o.kind # "refusal"
    <3>1. GrownBy(OfKind(h2, k, "refusal"), OfKind(h, k, "refusal"), i, later) /\ e2.refusals = e.refusals
      BY <1>1, <1>f, <2>3 DEF More, GrownBy
    <3> QED BY <2>1, <3>1, <1>w, <1>s, <1>i, RingCountStands
  <2> QED BY <2>2, <2>3
<1>4. BeatOK(e2.beacon, TimesOf(h2, Started(h2, k)), now, later)
  <2> DEFINE S == TimesOf(h, Started(h, k))
             U == TimesOf(h2, Started(h2, k))
  <2>1. BeatOK(e.beacon, S, T, Whole("pair", R))
    BY DEF PairIs
  <2>2. S \in SUBSET Nat /\ \A s \in S : s <= T
    BY <1>i, StampedTimes DEF TimesOf, Grows, History, At
  <2>3. IsFiniteSet(S)
    <3>1. IsFiniteSet(Started(h, k))
      BY <1>i, FS_Subset DEF Grows, History
    <3> DEFINE f == [j \in Started(h, k) |-> At(h, j).ts]
    <3>2. f \in Surjection(Started(h, k), S)
      BY DEF Surjection, TimesOf
    <3> HIDE DEF f
    <3> QED BY <3>1, <3>2, FS_Surjection
  <2>4. U = IF Starting(o) THEN S \cup {now} ELSE S
    <3>1. Images(h, h2, Started(h, k), Started(h2, k), o, Starting(o))
      BY <1>1, <1>i, <1>g, ImagesMore
    <3> QED BY <3>1 DEF Images
  <2> HIDE DEF S, U, later
  <2>5. CASE Starting(o)
    <3>1. e2.beacon = Beat(e.beacon, now, Samples) /\ U = S \cup {now} /\ U \in SUBSET Nat
      BY <1>f, <1>g, <2>2, <2>4, <2>5
    <3>2. BeatOK(e2.beacon, U, now, Whole("pair", R))
      BY <1>w, <2>1, <2>2, <2>3, <3>1, BeatStep
    <3>3. BeatOK(e2.beacon, U, now, later)
      BY <1>w, <3>2 DEF BeatOK
    <3> QED BY <3>3 DEF U
  <2>6. CASE ~Starting(o)
    <3>1. e2.beacon = e.beacon /\ U = S
      BY <1>f, <1>g, <2>4, <2>6
    <3>2. BeatOK(e2.beacon, U, now, later)
      BY <1>w, <2>1, <2>2, <3>1, BeatStands
    <3> QED BY <3>2 DEF U
  <2> QED BY <2>5, <2>6, <1>g
<1>5. o.kind = "flow" /\ later => e2.beacon.last # None
  <2> SUFFICES ASSUME o.kind = "flow", later PROVE e2.beacon.last # None
    OBVIOUS
  <2>1. DOMAIN e.beacon = {"last", "gaps"}
    BY <1>w DEF PairIs, BeatOK
  <2> QED BY <2>1, <1>f, <1>s DEF Beat
<1> QED BY <1>f, <1>2, <1>3, <1>4, <1>5 DEF PairIs

LEMMA DomainVisited ==
  ASSUME NEW h, NEW x, NEW h2, NEW i, Grows(h, x, h2, i), NEW k, k = KeyIn("domain", x.obs), NEW e,
         NEW T \in Nat, NEW now \in Nat, T <= now, x.obs.ts = now, NEW R, NEW R2, R \subseteq R2,
         DomainIs(e, k, h, T, R), x.obs.kind = "dns", Carried(x.obs) = Name[x.obs.name],
         NEW e2, e2 = DomainAfter(e, x.obs), Refusals({e2.subs}) \subseteq R2
  PROVE  /\ DomainIs(e2, k, h2, now, R2)
         /\ Random(Name[x.obs.name]) => Fresh(e2.subs, now, Window)
<1> DEFINE full == Full("domain", R2)
           sub == Sub(Name[x.obs.name])
           H == SubsIn(h, Asked(h, k))
           J == SubsIn(h2, Asked(h2, k))
<1>w. full => Full("domain", R)
  BY WholeFalls
<1>s. Window \in Nat /\ Window \in Nat \ {0} /\ MaxPairs \in Nat \ {0}
  BY BehaviorAssumption
<1>1. More(Asked(h2, k), Asked(h, k), i, Random(Name[x.obs.name])) /\ Asked(h, k) \in SUBSET DOMAIN h
  <2>1. EvidenceGrows(h, x, h2, i, k) /\ Asked(h, k) \in SUBSET DOMAIN h
    BY EvidenceGrown, EvidenceIn
  <2> QED BY <2>1 DEF EvidenceGrows, More
<1>2. J = IF Random(Name[x.obs.name]) THEN H \cup {<<sub, now>>} ELSE H
  <2>1. Images(h, h2, Asked(h, k), Asked(h2, k), x.obs, Random(Name[x.obs.name]))
    BY <1>1, ObsBoolean, ImagesMore
  <2> QED BY <2>1 DEF Images
<1>3. SetOK(e.subs, H, T, Window, Full("domain", R)) /\ DOMAIN e = {"subs", "gates", "seen"}
      /\ Unrefused(e.subs, R)
  BY DEF DomainIs
<1>4. /\ DOMAIN e2 = {"subs", "gates", "seen"}
      /\ e2.subs = IF Random(Name[x.obs.name]) THEN Inserted(e.subs, sub, now, Window, MaxPairs) ELSE e.subs
  BY <1>3 DEF DomainAfter
<1>5. Unrefused(e2.subs, R2)
  BY RefusalsSay
<1> HIDE DEF full, H, J
<1>6. SetOK(e2.subs, J, now, Window, full) /\ (Random(Name[x.obs.name]) => Fresh(e2.subs, now, Window))
  <2>1. CASE Random(Name[x.obs.name])
    <3>1. e2.subs = Inserted(e.subs, sub, now, Window, MaxPairs) /\ J = H \cup {<<sub, now>>}
      BY <1>2, <1>4, <2>1
    <3>2. SetOK(e2.subs, H \cup {<<sub, now>>}, now, Window, Full("domain", R)) /\ Fresh(e2.subs, now, Window)
      BY <3>1, <1>3, <1>s, SetInserted
    <3>3. SetOK(e2.subs, J, now, Window, full)
      BY <3>1, <3>2, <1>w, <1>s, SetStands
    <3> QED BY <3>2, <3>3
  <2>2. CASE ~Random(Name[x.obs.name])
    <3>1. e2.subs = e.subs /\ J = H
      BY <1>2, <1>4, <2>2
    <3>2. SetOK(e2.subs, J, now, Window, full)
      BY <3>1, <1>3, <1>w, <1>s, SetStands
    <3> QED BY <3>2, <2>2
  <2> QED BY <2>1, <2>2
<1> QED BY <1>4, <1>5, <1>6 DEF DomainIs, full, J

-----------------------------------------------------------------------------
(* The same of any of the three tables.                                    *)

AfterOf(kind, e, o) ==
  IF kind = "source" THEN SourceAfter(e, o) ELSE IF kind = "pair" THEN PairAfter(e, o) ELSE DomainAfter(e, o)
SetsOf(kind, e) ==
  IF kind = "source" THEN {e.any} \cup Range(e.ports) ELSE IF kind = "pair" THEN {} ELSE {e.subs}
ClaimsOf(kind, e, o) ==
  IF kind = "source" THEN SourceClaims(e, o) ELSE IF kind = "pair" THEN PairClaims(e, o) ELSE DomainClaims(e, o)
VisitOf(kind, tab, o) ==
  IF kind = "source" THEN VisitSource(tab, o) ELSE IF kind = "pair" THEN VisitPair(tab, o) ELSE VisitDomain(tab, o)

(* What an entry has of now. *)
Current(kind, e, o, now, R) ==
  /\ kind = "source" /\ Unanswered(o) =>
       /\ Fresh(e.any, now, Window) /\ o.port \in DOMAIN e.ports /\ Fresh(e.ports[o.port], now, Window)
  /\ kind = "pair" /\ o.kind = "flow" /\ Whole("pair", R) => e.beacon.last # None
  /\ kind = "domain" /\ Random(Name[o.name]) => Fresh(e.subs, now, Window)

UpTo(h, T) == \A j \in DOMAIN h : At(h, j).ts <= T

LEMMA EntryVisited ==
  ASSUME NEW h, NEW x, NEW h2, NEW i, Grows(h, x, h2, i), NEW kind \in TableKinds, NEW k, k = KeyIn(kind, x.obs), NEW e,
         NEW T \in Nat, NEW now \in Nat, T <= now, x.obs.ts = now, NEW R, NEW R2, R \subseteq R2, UpTo(h, T),
         EntryIs0(kind, e, k, h, T, R), Relevant(kind, x.obs), kind = "domain" => Carried(x.obs) = Name[x.obs.name],
         NEW s, s = AfterOf(kind, e, x.obs), Refusals(SetsOf(kind, s)) \subseteq R2
  PROVE  EntryIs0(kind, s, k, h2, now, R2) /\ Current(kind, s, x.obs, now, R2)
<1>1. CASE kind = "source"
  <2>1. /\ SourceIs(e, k, h, T, R) /\ k = KeyIn("source", x.obs) /\ s = SourceAfter(e, x.obs)
        /\ Refusals({s.any} \cup Range(s.ports)) \subseteq R2
    BY <1>1 DEF EntryIs0, AfterOf, SetsOf
  <2>2. /\ SourceIs(s, k, h2, now, R2)
        /\ Unanswered(x.obs) => /\ Fresh(s.any, now, Window) /\ x.obs.port \in DOMAIN s.ports
                                /\ Fresh(s.ports[x.obs.port], now, Window)
    BY <2>1, SourceVisited
  <2> QED BY <1>1, <2>2 DEF EntryIs0, Current
<1>2. CASE kind = "pair"
  <2>1. /\ PairIs(e, k, h, T, R) /\ k = KeyIn("pair", x.obs) /\ s = PairAfter(e, x.obs)
        /\ OfPair(x.obs) /\ \A j \in DOMAIN h : At(h, j).ts <= T
    BY <1>2 DEF EntryIs0, AfterOf, Relevant, UpTo
  <2>2. /\ PairIs(s, k, h2, now, R2)
        /\ x.obs.kind = "flow" /\ Whole("pair", R2) => s.beacon.last # None
    BY <2>1, PairVisited
  <2> QED BY <1>2, <2>2 DEF EntryIs0, Current
<1>3. CASE kind = "domain"
  <2>1. /\ DomainIs(e, k, h, T, R) /\ k = KeyIn("domain", x.obs) /\ s = DomainAfter(e, x.obs)
        /\ x.obs.kind = "dns" /\ Refusals({s.subs}) \subseteq R2
    BY <1>3 DEF EntryIs0, AfterOf, Relevant, SetsOf
  <2>2. /\ DomainIs(s, k, h2, now, R2)
        /\ Random(Name[x.obs.name]) => Fresh(s.subs, now, Window)
    BY <2>1, <1>3, DomainVisited
  <2> QED BY <1>3, <2>2 DEF EntryIs0, Current
<1> QED BY <1>1, <1>2, <1>3 DEF TableKinds

LEMMA EntryFields ==
  ASSUME NEW kind \in TableKinds, NEW e, NEW k, NEW h, NEW T, NEW R, EntryIs0(kind, e, k, h, T, R)
  PROVE  "gates" \in DOMAIN e /\ "seen" \in DOMAIN e
BY DEF TableKinds, EntryIs0, SourceIs, PairIs, DomainIs

LEMMA AfterKeeps ==
  ASSUME NEW kind \in TableKinds, NEW e, NEW k, NEW h, NEW T, NEW R, EntryIs0(kind, e, k, h, T, R), NEW o
  PROVE  AfterOf(kind, e, o).gates = e.gates /\ AfterOf(kind, e, o).seen = e.seen
<1>1. "gates" \in DOMAIN e /\ "seen" \in DOMAIN e
  BY EntryFields
<1>2. SourceAfter(e, o).gates = e.gates /\ SourceAfter(e, o).seen = e.seen
  BY <1>1 DEF SourceAfter
<1>3. PairAfter(e, o).gates = e.gates /\ PairAfter(e, o).seen = e.seen
  BY <1>1 DEF PairAfter
<1>4. DomainAfter(e, o).gates = e.gates /\ DomainAfter(e, o).seen = e.seen
  BY <1>1 DEF DomainAfter
<1> QED BY <1>2, <1>3, <1>4 DEF AfterOf

-----------------------------------------------------------------------------
(* The gates of an entry. *)
GatesOK(kind, g, k, h, T) ==
  /\ DOMAIN g = AlertsOf(kind)
  /\ \A c \in AlertsOf(kind) :
       AlertGateOK(g[c], RaisedAt(kind, h, k, c), T, IntervalOf(c), c # "BEACON")

LEMMA IntervalsFit ==
  \A c : IntervalOf(c) \in Nat /\ (c # "BEACON" => IntervalOf(c) <= Window)
<1>1. /\ Interval \in Nat /\ FloodInterval \in Nat /\ BeaconInterval \in Nat /\ Window \in Nat
      /\ Interval <= Window /\ FloodInterval <= Window
  BY BehaviorAssumption
<1> QED BY <1>1 DEF IntervalOf

RaisedMore(kind, h, h2, k, x) ==
  \A c : RaisedAt(kind, h2, k, c) =
           IF KeyIn(kind, x.obs) = k /\ c \in x.raised THEN RaisedAt(kind, h, k, c) \cup {x.obs.ts}
           ELSE RaisedAt(kind, h, k, c)
SeenMore(kind, h, h2, k, x) ==
  SeenAt(kind, h2, k) =
    IF KeyIn(kind, x.obs) = k /\ Relevant(kind, x.obs) THEN SeenAt(kind, h, k) \cup {x.obs.ts} ELSE SeenAt(kind, h, k)

LEMMA SightingsGrown ==
  ASSUME NEW h, NEW x, NEW h2, NEW i, Grows(h, x, h2, i), NEW kind, NEW k
  PROVE  RaisedMore(kind, h, h2, k, x) /\ SeenMore(kind, h, h2, k, x)
<1>1. /\ Mine(kind, h, k) \in SUBSET DOMAIN h
      /\ More(Mine(kind, h2, k), Mine(kind, h, k), i, KeyIn(kind, x.obs) = k)
      /\ i \notin Mine(kind, h, k) /\ At(h2, i) = x.obs /\ h2[i] = x
      /\ \A j \in Mine(kind, h, k) : h2[j] = h[j] /\ At(h2, j) = At(h, j)
  BY MineGrown
<1> DEFINE E(c) == {j \in Mine(kind, h, k) : c \in h[j].raised}
           E2(c) == {j \in Mine(kind, h2, k) : c \in h2[j].raised}
           F == {j \in Mine(kind, h, k) : Relevant(kind, At(h, j))}
           F2 == {j \in Mine(kind, h2, k) : Relevant(kind, At(h2, j))}
<1>2. ASSUME NEW c
      PROVE  RaisedAt(kind, h2, k, c) =
               IF KeyIn(kind, x.obs) = k /\ c \in x.raised THEN RaisedAt(kind, h, k, c) \cup {x.obs.ts}
               ELSE RaisedAt(kind, h, k, c)
  <2>1. E(c) \in SUBSET DOMAIN h /\ More(E2(c), E(c), i, KeyIn(kind, x.obs) = k /\ c \in x.raised)
    BY <1>1 DEF More
  <2>2. RaisedAt(kind, h, k, c) = TimesOf(h, E(c)) /\ RaisedAt(kind, h2, k, c) = TimesOf(h2, E2(c))
    BY DEF RaisedAt
  <2> HIDE DEF E, E2
  <2>3. Images(h, h2, E(c), E2(c), x.obs, KeyIn(kind, x.obs) = k /\ c \in x.raised)
    BY <2>1, ImagesMore
  <2> QED BY <2>2, <2>3 DEF Images
<1>3. SeenMore(kind, h, h2, k, x)
  <2> DEFINE yes == KeyIn(kind, x.obs) = k /\ Relevant(kind, x.obs)
  <2>0. yes \in BOOLEAN
    BY DEF Relevant, OfSource, OfPair, Starting, Moving, Unanswered
  <2>1. F \in SUBSET DOMAIN h /\ More(F2, F, i, yes)
    BY <1>1 DEF More
  <2>2. SeenAt(kind, h, k) = TimesOf(h, F) /\ SeenAt(kind, h2, k) = TimesOf(h2, F2)
    BY DEF SeenAt
  <2> HIDE DEF F, F2, yes
  <2>3. Images(h, h2, F, F2, x.obs, yes)
    BY <2>0, <2>1, ImagesMore
  <2> QED BY <2>2, <2>3 DEF Images, SeenMore, yes
<1> QED BY <1>2, <1>3 DEF RaisedMore

LEMMA GatesStep ==
  ASSUME NEW h, NEW x, NEW h2, NEW i, Grows(h, x, h2, i), NEW kind, NEW k, NEW g,
         NEW T \in Nat, NEW now \in Nat, T <= now, x.obs.ts = now, GatesOK(kind, g, k, h, T),
         NEW g2, DOMAIN g2 = AlertsOf(kind),
         \A c \in AlertsOf(kind) : g2[c] = IF KeyIn(kind, x.obs) = k /\ c \in x.raised THEN now ELSE g[c]
  PROVE  GatesOK(kind, g2, k, h2, now)
<1> SUFFICES ASSUME NEW c \in AlertsOf(kind)
             PROVE  AlertGateOK(g2[c], RaisedAt(kind, h2, k, c), now, IntervalOf(c), c # "BEACON")
  BY DEF GatesOK
<1> DEFINE due == KeyIn(kind, x.obs) = k /\ c \in x.raised
           R == RaisedAt(kind, h, k, c)
           Q == RaisedAt(kind, h2, k, c)
           spaced == c # "BEACON"
<1>1. due \in BOOLEAN /\ g2[c] = IF due THEN now ELSE g[c]
  OBVIOUS
<1>2. Q = IF due THEN R \cup {now} ELSE R
  BY SightingsGrown DEF RaisedMore
<1>3. AlertGateOK(g[c], R, T, IntervalOf(c), spaced) /\ spaced \in BOOLEAN /\ IntervalOf(c) \in Nat
  BY IntervalsFit DEF GatesOK
<1> HIDE DEF due, R, Q, spaced
<1>4. AlertGateOK(g2[c], Q, now, IntervalOf(c), spaced)
  BY <1>1, <1>2, <1>3, AlertGateStep
<1> QED BY <1>4 DEF Q, spaced

LEMMA GatesLater ==
  ASSUME NEW h, NEW kind, NEW k, NEW g, NEW T \in Nat, NEW now \in Nat, T <= now, GatesOK(kind, g, k, h, T)
  PROVE  GatesOK(kind, g, k, h, now)
<1> SUFFICES ASSUME NEW c \in AlertsOf(kind)
             PROVE  AlertGateOK(g[c], RaisedAt(kind, h, k, c), now, IntervalOf(c), c # "BEACON")
  BY DEF GatesOK
<1>1. AlertGateOK(g[c], RaisedAt(kind, h, k, c), T, IntervalOf(c), c # "BEACON") /\ IntervalOf(c) \in Nat
  BY IntervalsFit DEF GatesOK
<1> QED BY <1>1 DEF AlertGateOK

LEMMA GatesFresh ==
  ASSUME NEW h, History(h), NEW kind \in TableKinds, NEW k, NEW now \in Nat,
         \A c \in AlertsOf(kind) : \A r \in RaisedAt(kind, h, k, c) : r <= now - Window
  PROVE  GatesOK(kind, Fresh0(kind).gates, k, h, now)
<1>1. Fresh0(kind).gates = [c \in AlertsOf(kind) |-> None]
  BY DEF Fresh0, AlertsOf, TableKinds, NewSource, NewPair, NewDomain
<1> SUFFICES ASSUME NEW c \in AlertsOf(kind)
             PROVE  AlertGateOK(None, RaisedAt(kind, h, k, c), now, IntervalOf(c), c # "BEACON")
  BY <1>1 DEF GatesOK
<1>2. \A r \in RaisedAt(kind, h, k, c) : r \in Nat
  BY StampedTimes DEF RaisedAt, TimesOf, Mine, History, At
<1>3. Window \in Nat /\ IntervalOf(c) \in Nat /\ (c # "BEACON" => IntervalOf(c) <= Window)
  BY IntervalsFit, BehaviorAssumption
<1>4. \A r \in RaisedAt(kind, h, k, c) : r \in Nat /\ r <= now /\ (c # "BEACON" => r <= now - IntervalOf(c))
  BY <1>2, <1>3
<1> QED BY <1>3, <1>4, AlertGateFresh

-----------------------------------------------------------------------------
(* A table: its entries are right at T, and it has all that was seen in    *)
(* the window before now.                                                  *)
Latest(tab, k, now) == IF k \in DOMAIN tab THEN tab[k].seen ELSE now - Window

Aged(kind, tab, k, h, now, R) ==
  /\ k \in DOMAIN tab => tab[k].seen \in Nat /\ tab[k].seen <= now
  /\ \A c \in AlertsOf(kind) : \A r \in RaisedAt(kind, h, k, c) : r <= Latest(tab, k, now)
  /\ Whole(kind, R) => \A t \in SeenAt(kind, h, k) : t <= Latest(tab, k, now)

EntryOK(kind, e, k, h, T, R) == EntryIs0(kind, e, k, h, T, R) /\ GatesOK(kind, e.gates, k, h, T)

TableOK(kind, tab, h, T, now, R) ==
  /\ \A k \in DOMAIN tab : EntryOK(kind, tab[k], k, h, T, R)
  /\ \A k : Aged(kind, tab, k, h, now, R)

SweptTable(tab, T, now) == IF now <= T THEN tab ELSE Live(tab, now)

LEMMA TableSwept ==
  ASSUME NEW kind \in TableKinds, NEW tab, NEW h, History(h), NEW T \in Nat, NEW now \in Nat, T <= now, NEW R,
         TableOK(kind, tab, h, T, T, R)
  PROVE  TableOK(kind, SweptTable(tab, T, now), h, T, now, R)
<1> DEFINE t2 == Live(tab, now)
<1>s. Window \in Nat
  BY WindowsTyped
<1>1. CASE now <= T
  BY <1>1 DEF SweptTable
<1>2. CASE T < now
  <2>1. /\ DOMAIN t2 \subseteq DOMAIN tab /\ \A k \in DOMAIN t2 : t2[k] = tab[k]
        /\ \A k \in DOMAIN tab \ DOMAIN t2 : ~(tab[k].seen > now - Window)
    BY DEF Live, Restrict
  <2> HIDE DEF t2
  <2>2. \A k \in DOMAIN t2 : EntryOK(kind, t2[k], k, h, T, R)
    BY <2>1 DEF TableOK
  <2>3. ASSUME NEW k PROVE Aged(kind, t2, k, h, now, R)
    <3>1. Aged(kind, tab, k, h, T, R)
      BY DEF TableOK
    <3>2. /\ \A c \in AlertsOf(kind) : \A r \in RaisedAt(kind, h, k, c) : r \in Nat
          /\ \A t \in SeenAt(kind, h, k) : t \in Nat
      BY StampedTimes DEF RaisedAt, SeenAt, TimesOf, Mine, History, At
    <3>3. CASE k \in DOMAIN t2
      <4>1. Latest(t2, k, now) = Latest(tab, k, T) /\ k \in DOMAIN tab /\ t2[k] = tab[k]
        BY <2>1, <3>3 DEF Latest
      <4> QED BY <3>1, <3>3, <4>1 DEF Aged
    <3>4. CASE k \in DOMAIN tab \ DOMAIN t2
      <4>1. /\ Latest(tab, k, T) = tab[k].seen /\ Latest(t2, k, now) = now - Window
            /\ tab[k].seen \in Nat /\ tab[k].seen <= now - Window /\ now - Window \in Int
        BY <2>1, <3>1, <3>4, <1>s DEF Latest, Aged
      <4> QED BY <3>1, <3>2, <3>4, <4>1 DEF Aged
    <3>5. CASE k \notin DOMAIN tab
      <4>1. /\ Latest(tab, k, T) = T - Window /\ Latest(t2, k, now) = now - Window /\ k \notin DOMAIN t2
            /\ T - Window \in Int /\ now - Window \in Int /\ T - Window <= now - Window
        BY <2>1, <3>5, <1>s DEF Latest
      <4> QED BY <3>1, <3>2, <4>1 DEF Aged
    <3> QED BY <3>3, <3>4, <3>5
  <2> QED BY <2>2, <2>3, <1>2 DEF TableOK, SweptTable, t2
<1> QED BY <1>1, <1>2

(* What a visit comes to. *)
VisitedAs(kind, v, tab, o, e, s) ==
  /\ e = Entry(tab, KeyIn(kind, o), Fresh0(kind), o)
  /\ s = AfterOf(kind, e, o)
  /\ v = Visited(tab, KeyIn(kind, o), s, ClaimsOf(kind, s, o), SetsOf(kind, s), o)

LEMMA VisitCases ==
  ASSUME NEW kind \in TableKinds, NEW tab, NEW o, kind = "domain" => (o.kind = "dns" => Carried(o) = Name[o.name]),
         NEW v, v = VisitOf(kind, tab, o)
  PROVE  \/ ~Relevant(kind, o) /\ v = Unvisited(tab)
         \/ Relevant(kind, o) /\ v = Refused(tab, TableName(kind))
         \/ Relevant(kind, o) /\ \E e, s : VisitedAs(kind, v, tab, o, e, s)
<1>1. CASE kind = "source"
  <2> DEFINE s == SourceAfter(Entry(tab, o.src, NewSource, o), o)
  <2>1. /\ v = IF ~OfSource(o) THEN Unvisited(tab)
               ELSE IF Refuses(tab, o.src, MaxSources) THEN Refused(tab, "sources")
               ELSE Visited(tab, o.src, s, SourceClaims(s, o), {s.any} \cup Range(s.ports), o)
        /\ KeyIn(kind, o) = o.src /\ Fresh0(kind) = NewSource /\ TableName(kind) = "sources"
        /\ Relevant(kind, o) = OfSource(o)
    BY <1>1 DEF VisitOf, VisitSource, KeyIn, Fresh0, TableName, Relevant
  <2>2. /\ s = AfterOf(kind, Entry(tab, o.src, NewSource, o), o) /\ SetsOf(kind, s) = {s.any} \cup Range(s.ports)
        /\ ClaimsOf(kind, s, o) = SourceClaims(s, o)
    BY <1>1 DEF AfterOf, SetsOf, ClaimsOf
  <2> HIDE DEF s
  <2>3. OfSource(o) /\ ~Refuses(tab, o.src, MaxSources)
          => VisitedAs(kind, v, tab, o, Entry(tab, o.src, NewSource, o), s)
    BY <2>1, <2>2 DEF VisitedAs
  <2> QED BY <2>1, <2>3
<1>2. CASE kind = "pair"
  <2> DEFINE s == PairAfter(Entry(tab, Pair(o), NewPair, o), o)
  <2>1. /\ v = IF ~OfPair(o) THEN Unvisited(tab)
               ELSE IF Refuses(tab, Pair(o), MaxPairs) THEN Refused(tab, "pairs")
               ELSE Visited(tab, Pair(o), s, PairClaims(s, o), {}, o)
        /\ KeyIn(kind, o) = Pair(o) /\ Fresh0(kind) = NewPair /\ TableName(kind) = "pairs"
        /\ Relevant(kind, o) = OfPair(o)
    BY <1>2 DEF VisitOf, VisitPair, KeyIn, Fresh0, TableName, Relevant
  <2>2. /\ s = AfterOf(kind, Entry(tab, Pair(o), NewPair, o), o) /\ SetsOf(kind, s) = {}
        /\ ClaimsOf(kind, s, o) = PairClaims(s, o)
    BY <1>2 DEF AfterOf, SetsOf, ClaimsOf
  <2> HIDE DEF s
  <2>3. OfPair(o) /\ ~Refuses(tab, Pair(o), MaxPairs)
          => VisitedAs(kind, v, tab, o, Entry(tab, Pair(o), NewPair, o), s)
    BY <2>1, <2>2 DEF VisitedAs
  <2> QED BY <2>1, <2>3
<1>3. CASE kind = "domain"
  <2>0. o.kind = "dns" => Domain(o) = KeyIn(kind, o)
    BY <1>3 DEF Domain, KeyIn
  <2> DEFINE s == DomainAfter(Entry(tab, Domain(o), NewDomain, o), o)
  <2>1. /\ v = IF o.kind # "dns" THEN Unvisited(tab)
               ELSE IF Refuses(tab, Domain(o), MaxDomains) THEN Refused(tab, "dns")
               ELSE Visited(tab, Domain(o), s, DomainClaims(s, o), {s.subs}, o)
        /\ Fresh0(kind) = NewDomain /\ TableName(kind) = "dns"
        /\ Relevant(kind, o) = (o.kind = "dns")
    BY <1>3 DEF VisitOf, VisitDomain, Fresh0, TableName, Relevant
  <2>2. /\ s = AfterOf(kind, Entry(tab, Domain(o), NewDomain, o), o) /\ SetsOf(kind, s) = {s.subs}
        /\ ClaimsOf(kind, s, o) = DomainClaims(s, o)
    BY <1>3 DEF AfterOf, SetsOf, ClaimsOf
  <2> HIDE DEF s
  <2>3. o.kind = "dns" /\ ~Refuses(tab, Domain(o), MaxDomains)
          => VisitedAs(kind, v, tab, o, Entry(tab, KeyIn(kind, o), NewDomain, o), s)
    BY <2>0, <2>1, <2>2 DEF VisitedAs
  <2> QED BY <2>1, <2>3
<1> QED BY <1>1, <1>2, <1>3 DEF TableKinds

(* What was told, and what was not. *)
Told(kind, v, h, h2, o, now, R2, s) ==
  /\ EntryIs0(kind, s, KeyIn(kind, o), h2, now, R2) /\ Current(kind, s, o, now, R2)
  /\ GatesOK(kind, s.gates, KeyIn(kind, o), h, now)
  /\ v.raised = {c \in ClaimsOf(kind, s, o) : Allows(s.gates[c], now, IntervalOf(c))}
  /\ \A w \in SetsOf(kind, s) : Unrefused(w, R2)
Outcome(kind, v, h, h2, o, now, R2) ==
  \/ v.raised = {} /\ (Relevant(kind, o) => ~Whole(kind, R2))
  \/ Relevant(kind, o) /\ \E s : Told(kind, v, h, h2, o, now, R2, s)

Taking(kind, tab, h, x, h2, i, T, now, R, R2, v) ==
  /\ kind \in TableKinds /\ Grows(h, x, h2, i) /\ T \in Nat /\ now \in Nat /\ T <= now /\ x.obs.ts = now
  /\ R \subseteq R2 /\ UpTo(h, T) /\ TableOK(kind, tab, h, T, now, R)
  /\ kind = "domain" => (x.obs.kind = "dns" => Carried(x.obs) = Name[x.obs.name])
  /\ v = VisitOf(kind, tab, x.obs) /\ v.refused \subseteq R2 /\ x.raised \cap AlertsOf(kind) = v.raised

(* The entries of other keys, and all of them when there was no visit. *)
LEMMA OthersStand ==
  ASSUME NEW kind, NEW tab, NEW h, NEW x, NEW h2, NEW i, NEW T, NEW now, NEW R, NEW R2, NEW v,
         Taking(kind, tab, h, x, h2, i, T, now, R, R2, v), NEW k,
         \/ KeyIn(kind, x.obs) # k
         \/ v.raised = {} /\ (Relevant(kind, x.obs) => ~Whole(kind, R2))
  PROVE  /\ k \in DOMAIN tab => EntryOK(kind, tab[k], k, h2, now, R2)
         /\ Aged(kind, tab, k, h2, now, R2)
<1> USE DEF Taking
<1>1. \A c \in AlertsOf(kind) : ~(KeyIn(kind, x.obs) = k /\ c \in x.raised)
  OBVIOUS
<1>2. \A c \in AlertsOf(kind) : RaisedAt(kind, h2, k, c) = RaisedAt(kind, h, k, c)
  <2>1. RaisedMore(kind, h, h2, k, x)
    BY SightingsGrown
  <2> QED BY <1>1, <2>1 DEF RaisedMore
<1>3. Whole(kind, R2) => SeenAt(kind, h2, k) = SeenAt(kind, h, k) /\ Whole(kind, R)
  <2>1. SeenMore(kind, h, h2, k, x)
    BY SightingsGrown
  <2> QED BY <2>1, WholeFalls DEF SeenMore
<1>4. Aged(kind, tab, k, h2, now, R2)
  <2>1. Aged(kind, tab, k, h, now, R)
    BY DEF TableOK
  <2> QED BY <1>2, <1>3, <2>1 DEF Aged
<1>5. ASSUME k \in DOMAIN tab PROVE EntryOK(kind, tab[k], k, h2, now, R2)
  <2>1. EntryIs0(kind, tab[k], k, h, T, R) /\ GatesOK(kind, tab[k].gates, k, h, T)
    BY <1>5 DEF TableOK, EntryOK
  <2>2. KeyIn(kind, x.obs) = k /\ Relevant(kind, x.obs) => ~Whole(kind, R2)
    OBVIOUS
  <2>3. EntryIs0(kind, tab[k], k, h2, now, R2)
    BY <2>1, <2>2, EntryStands
  <2>4. DOMAIN tab[k].gates = AlertsOf(kind)
    BY <2>1 DEF GatesOK
  <2>5. GatesOK(kind, tab[k].gates, k, h2, now)
    BY <1>1, <2>1, <2>4, GatesStep
  <2> QED BY <2>3, <2>5 DEF EntryOK
<1> QED BY <1>4, <1>5

(* The entry that is visited, before it takes what has come. *)
LEMMA EntryReady ==
  ASSUME NEW kind \in TableKinds, NEW tab, NEW h, History(h), NEW T \in Nat, NEW now \in Nat, T <= now, NEW R,
         TableOK(kind, tab, h, T, now, R), NEW o, o.ts = now, NEW k, NEW e, e = Entry(tab, k, Fresh0(kind), o)
  PROVE  /\ e.seen = now
         /\ \E U \in {T, now} : EntryIs0(kind, e, k, h, U, R)
         /\ GatesOK(kind, e.gates, k, h, now)
<1> DEFINE was == IF k \in DOMAIN tab THEN tab[k] ELSE Fresh0(kind)
<1>1. \E U \in {T, now} : EntryIs0(kind, was, k, h, U, R) /\ GatesOK(kind, was.gates, k, h, now)
  <2>1. CASE k \in DOMAIN tab
    <3>1. EntryIs0(kind, tab[k], k, h, T, R) /\ GatesOK(kind, tab[k].gates, k, h, T)
      BY <2>1 DEF TableOK, EntryOK
    <3>2. GatesOK(kind, tab[k].gates, k, h, now)
      BY <3>1, GatesLater
    <3> QED BY <2>1, <3>1, <3>2
  <2>2. CASE k \notin DOMAIN tab
    <3>1. /\ \A c \in AlertsOf(kind) : \A r \in RaisedAt(kind, h, k, c) : r <= now - Window
          /\ Whole(kind, R) => \A t \in SeenAt(kind, h, k) : t <= now - Window
      BY <2>2 DEF TableOK, Aged, Latest
    <3>2. EntryIs0(kind, Fresh0(kind), k, h, now, R)
      BY <3>1, EntryFresh
    <3>3. GatesOK(kind, Fresh0(kind).gates, k, h, now)
      BY <3>1, GatesFresh
    <3> QED BY <2>2, <3>2, <3>3
  <2> QED BY <2>1, <2>2
<1>2. PICK U \in {T, now} : EntryIs0(kind, was, k, h, U, R) /\ GatesOK(kind, was.gates, k, h, now)
  BY <1>1
<1>3. "gates" \in DOMAIN was /\ "seen" \in DOMAIN was
  BY <1>2, EntryFields
<1>4. e = [was EXCEPT !.seen = now]
  BY DEF Entry
<1> HIDE DEF was
<1>5. /\ DOMAIN e = DOMAIN was /\ \A d \in DOMAIN was \ {"gates", "seen"} : e[d] = was[d]
      /\ e.seen = now /\ e.gates = was.gates
  BY <1>3, <1>4
<1>6. EntryIs0(kind, e, k, h, U, R)
  BY <1>2, <1>5, EntryRests
<1> QED BY <1>2, <1>5, <1>6

LEMMA TableTaken ==
  ASSUME NEW kind, NEW tab, NEW h, NEW x, NEW h2, NEW i, NEW T, NEW now, NEW R, NEW R2, NEW v,
         Taking(kind, tab, h, x, h2, i, T, now, R, R2, v)
  PROVE  TableOK(kind, v.table, h2, now, now, R2) /\ Outcome(kind, v, h, h2, x.obs, now, R2)
<1> DEFINE o == x.obs
           key == KeyIn(kind, o)
<1>t. /\ kind \in TableKinds /\ Grows(h, x, h2, i) /\ T \in Nat /\ now \in Nat /\ T <= now /\ x.obs.ts = now
      /\ R \subseteq R2 /\ UpTo(h, T) /\ TableOK(kind, tab, h, T, now, R)
      /\ kind = "domain" => (x.obs.kind = "dns" => Carried(x.obs) = Name[x.obs.name])
      /\ v = VisitOf(kind, tab, x.obs) /\ v.refused \subseteq R2 /\ x.raised \cap AlertsOf(kind) = v.raised
      /\ History(h)
  BY DEF Taking, Grows
<1>u. ASSUME NEW k, k # key
      PROVE  (k \in DOMAIN tab => EntryOK(kind, tab[k], k, h2, now, R2)) /\ Aged(kind, tab, k, h2, now, R2)
  <2>1. KeyIn(kind, x.obs) # k
    BY <1>u
  <2> QED BY <2>1, OthersStand
<1>1. \/ ~Relevant(kind, o) /\ v = Unvisited(tab)
      \/ Relevant(kind, o) /\ v = Refused(tab, TableName(kind))
      \/ Relevant(kind, o) /\ \E e, s : VisitedAs(kind, v, tab, o, e, s)
  BY <1>t, VisitCases
<1>2. ASSUME v.raised = {}, v.table = tab, Relevant(kind, o) => ~Whole(kind, R2)
      PROVE  TableOK(kind, v.table, h2, now, now, R2) /\ Outcome(kind, v, h, h2, x.obs, now, R2)
  <2>1. ASSUME NEW k PROVE (k \in DOMAIN tab => EntryOK(kind, tab[k], k, h2, now, R2)) /\ Aged(kind, tab, k, h2, now, R2)
    BY <1>2, OthersStand
  <2> QED BY <1>2, <2>1 DEF TableOK, Outcome
<1>3. CASE ~Relevant(kind, o) /\ v = Unvisited(tab)
  BY <1>2, <1>3 DEF Unvisited
<1>4. CASE Relevant(kind, o) /\ v = Refused(tab, TableName(kind))
  BY <1>2, <1>4, <1>t DEF Refused, Whole
<1>5. ASSUME Relevant(kind, o), NEW e, NEW s, VisitedAs(kind, v, tab, o, e, s)
      PROVE  TableOK(kind, v.table, h2, now, now, R2) /\ Outcome(kind, v, h, h2, x.obs, now, R2)
  <2> DEFINE due == {c \in ClaimsOf(kind, s, o) : Allows(s.gates[c], o.ts, IntervalOf(c))}
             gates == [c \in DOMAIN s.gates |-> IF c \in due THEN o.ts ELSE s.gates[c]]
             f == [s EXCEPT !.gates = gates]
  <2>1. /\ e = Entry(tab, key, Fresh0(kind), o) /\ s = AfterOf(kind, e, o)
        /\ v.table = Put(tab, key, f) /\ v.raised = due /\ v.refused = Refusals(SetsOf(kind, s))
    BY <1>5 DEF VisitedAs, Visited
  <2>2. /\ e.seen = now
        /\ \E U \in {T, now} : EntryIs0(kind, e, key, h, U, R)
        /\ GatesOK(kind, e.gates, key, h, now)
    BY <1>t, <2>1, EntryReady
  <2>3. PICK U \in {T, now} : EntryIs0(kind, e, key, h, U, R)
    BY <2>2
  <2>4. U \in Nat /\ U <= now /\ UpTo(h, U)
    <3>1. \A j \in DOMAIN h : At(h, j).ts \in Nat
      BY <1>t, StampedTimes DEF History, At
    <3> QED BY <1>t, <3>1 DEF UpTo
  <2>5. s.gates = e.gates /\ s.seen = now
    BY <1>t, <2>1, <2>2, <2>3, AfterKeeps
  <2>6. EntryIs0(kind, s, key, h2, now, R2) /\ Current(kind, s, o, now, R2)
    <3>1. Refusals(SetsOf(kind, s)) \subseteq R2 /\ (kind = "domain" => Carried(x.obs) = Name[x.obs.name])
      BY <1>t, <1>5, <2>1 DEF Relevant
    <3> HIDE DEF due, gates, f
    <3> QED BY <1>t, <1>5, <2>1, <2>3, <2>4, <3>1, EntryVisited
  <2>7. GatesOK(kind, s.gates, key, h, now)
    BY <2>2, <2>5
  <2>8. Outcome(kind, v, h, h2, x.obs, now, R2)
    <3>1. \A w \in SetsOf(kind, s) : Unrefused(w, R2)
      BY <1>t, <2>1, RefusalsSay
    <3>2. v.raised = {c \in ClaimsOf(kind, s, o) : Allows(s.gates[c], now, IntervalOf(c))}
      BY <1>t, <2>1
    <3>3. Told(kind, v, h, h2, o, now, R2, s)
      BY <2>6, <2>7, <3>1, <3>2 DEF Told
    <3> QED BY <1>5, <3>3 DEF Outcome
  <2>9. "gates" \in DOMAIN s /\ "seen" \in DOMAIN s
    BY <1>t, <2>6, EntryFields
  <2>10. /\ DOMAIN f = DOMAIN s /\ \A d \in DOMAIN s \ {"gates", "seen"} : f[d] = s[d]
         /\ f.seen = now /\ f.gates = gates
    <3> HIDE DEF gates
    <3> QED BY <2>5, <2>9
  <2>11. EntryIs0(kind, f, key, h2, now, R2)
    <3> HIDE DEF f
    <3> QED BY <1>t, <2>6, <2>10, EntryRests
  <2>12. GatesOK(kind, gates, key, h2, now)
    <3>1. DOMAIN s.gates = AlertsOf(kind)
      BY <2>7 DEF GatesOK
    <3>2. \A c \in AlertsOf(kind) : c \in due <=> c \in x.raised
      BY <1>t, <2>1
    <3> HIDE DEF due
    <3>3. DOMAIN gates = AlertsOf(kind)
      BY <3>1
    <3>4. \A c \in AlertsOf(kind) : gates[c] = IF KeyIn(kind, x.obs) = key /\ c \in x.raised THEN now ELSE s.gates[c]
      BY <1>t, <3>1, <3>2
    <3> HIDE DEF gates
    <3> QED BY <1>t, <2>7, <3>3, <3>4, GatesStep
  <2>13. EntryOK(kind, f, key, h2, now, R2)
    BY <2>10, <2>11, <2>12 DEF EntryOK
  <2> HIDE DEF due, gates, f
  <2>14. DOMAIN v.table = DOMAIN tab \cup {key} /\ v.table[key] = f /\ \A k \in DOMAIN tab \ {key} : v.table[k] = tab[k]
    BY <2>1 DEF Put
  <2>15. ASSUME NEW k \in DOMAIN v.table PROVE EntryOK(kind, v.table[k], k, h2, now, R2)
    <3>1. CASE k = key
      BY <3>1, <2>13, <2>14
    <3>2. CASE k # key
      <4>1. k \in DOMAIN tab /\ v.table[k] = tab[k]
        BY <3>2, <2>14
      <4> QED BY <4>1, <1>u, <3>2
    <3> QED BY <3>1, <3>2
  <2>16. ASSUME NEW k PROVE Aged(kind, v.table, k, h2, now, R2)
    <3>1. CASE k = key
      <4>1. Latest(v.table, k, now) = now /\ k \in DOMAIN v.table /\ v.table[k].seen = now
        BY <2>10, <2>14, <3>1 DEF Latest
      <4>2. /\ \A c \in AlertsOf(kind) : \A r \in RaisedAt(kind, h2, k, c) : r <= now
            /\ \A t \in SeenAt(kind, h2, k) : t <= now
        <5>1. \A j \in DOMAIN h2 : At(h2, j).ts <= now
          <6>1. \A j \in DOMAIN h : At(h, j).ts \in Nat /\ At(h, j).ts <= T
            BY <1>t, StampedTimes DEF History, At, UpTo
          <6> QED BY <1>t, <6>1 DEF Grows, At
        <5> QED BY <5>1 DEF RaisedAt, SeenAt, TimesOf, Mine
      <4> QED BY <1>t, <4>1, <4>2 DEF Aged
    <3>2. CASE k # key
      <4>1. Aged(kind, tab, k, h2, now, R2)
        BY <1>u, <3>2
      <4>2. Latest(v.table, k, now) = Latest(tab, k, now)
        BY <2>14, <3>2 DEF Latest
      <4>3. k \in DOMAIN v.table => k \in DOMAIN tab /\ v.table[k] = tab[k]
        BY <2>14, <3>2
      <4> QED BY <4>1, <4>2, <4>3 DEF Aged
    <3> QED BY <3>1, <3>2
  <2> QED BY <2>8, <2>15, <2>16 DEF TableOK
<1> QED BY <1>1, <1>3, <1>4, <1>5

-----------------------------------------------------------------------------
(* The engine, while observations come in order.                           *)
InOrderOf(h) == \A a, b \in DOMAIN h : a < b => At(h, a).ts <= At(h, b).ts

EngineTrue(e, h) ==
  InOrderOf(h) =>
    /\ e.swept \in Nat /\ UpTo(h, e.swept)
    /\ e.swept # 0 => \E j \in DOMAIN h : At(h, j).ts = e.swept
    /\ TableOK("source", e.sources, h, e.swept, e.swept, e.refused)
    /\ TableOK("pair", e.pairs, h, e.swept, e.swept, e.refused)
    /\ TableOK("domain", e.dns, h, e.swept, e.swept, e.refused)

Judged(h, x, h2, R2) ==
  \A kind \in TableKinds : \E v : /\ x.raised \cap AlertsOf(kind) = v.raised
                                  /\ Outcome(kind, v, h, h2, x.obs, x.obs.ts, R2)

LEMMA CarriedIs == \A o \in Stamped : o.kind = "dns" => Carried(o) = Name[o.name]
<1> SUFFICES ASSUME NEW o \in Stamped, o.kind = "dns" PROVE Carried(o) = Name[o.name]
  OBVIOUS
<1>1. o.name \in DOMAIN Name
  BY DEF Stamped, Observations
<1>2. Name \in Seq(Seq(Nat)) /\ NameMax \in Nat /\ Len(Name[o.name]) <= NameMax
  BY <1>1, BehaviorAssumption, NamesFit
<1>3. Name[o.name] \in Seq(Nat)
  BY <1>1, <1>2
<1> DEFINE s == Name[o.name]
<1> HIDE DEF s
<1>4. s \in Seq(Nat) /\ Len(s) <= NameMax /\ Len(s) \in Nat
  BY <1>2, <1>3 DEF s
<1>5. SubSeq(s, 1, Len(s)) = s
  BY <1>4
<1>6. ~(Len(s) > NameMax)
  BY <1>2, <1>4
<1> QED BY <1>5, <1>6 DEF Carried, s

LEMMA EngineStep ==
  ASSUME NEW h \in Seq(Taken), NEW x \in Taken, NEW h2, h2 = Append(h, x), NEW e,
         DOMAIN e = {"sources", "pairs", "dns", "swept", "refused"}, EngineTrue(e, h),
         NEW r, r = Observed(e, x.obs), x.raised = r.raised,
         VisitSource(Swept(e, x.obs.ts).sources, x.obs).raised \subseteq SourceAlerts,
         VisitPair(Swept(e, x.obs.ts).pairs, x.obs).raised \subseteq PairAlerts,
         VisitDomain(Swept(e, x.obs.ts).dns, x.obs).raised \subseteq DomainAlerts,
         InOrderOf(h2)
  PROVE  EngineTrue(r.engine, h2) /\ Judged(h, x, h2, r.engine.refused)
<1> DEFINE i == Len(h) + 1
           o == x.obs
           now == o.ts
           T == e.swept
           R == e.refused
           R2 == r.engine.refused
           k == Swept(e, now)
           vs == VisitSource(k.sources, o)
           vp == VisitPair(k.pairs, o)
           vd == VisitDomain(k.dns, o)
<1>1. Grows(h, x, h2, i) /\ i \in Nat /\ \A j \in DOMAIN h : j < i
  <2>1. Grows(h, x, h2, i)
    BY AppendGrows
  <2>2. i \in Nat /\ \A j \in DOMAIN h : j < i
    OBVIOUS
  <2> QED BY <2>1, <2>2
<1>2. o \in Stamped /\ now \in Nat /\ x.raised \subseteq Alerts
  BY StampedTimes DEF Taken
<1>3. /\ InOrderOf(h) /\ \A j \in DOMAIN h : At(h, j).ts <= now
  <2>1. /\ DOMAIN h2 = DOMAIN h \cup {i} /\ At(h2, i) = o /\ \A j \in DOMAIN h : At(h2, j) = At(h, j)
    BY <1>1 DEF Grows, At
  <2> HIDE DEF i
  <2> QED BY <1>1, <2>1 DEF InOrderOf
<1>4. /\ T \in Nat /\ UpTo(h, T)
      /\ T # 0 => \E j \in DOMAIN h : At(h, j).ts = T
      /\ TableOK("source", e.sources, h, T, T, R)
      /\ TableOK("pair", e.pairs, h, T, T, R)
      /\ TableOK("domain", e.dns, h, T, T, R)
  BY <1>3 DEF EngineTrue
<1>5. T <= now
  BY <1>2, <1>3, <1>4
<1>6. /\ k.sources = SweptTable(e.sources, T, now) /\ k.pairs = SweptTable(e.pairs, T, now)
      /\ k.dns = SweptTable(e.dns, T, now) /\ k.refused = R /\ k.swept = now
  <2>1. CASE now <= T
    <3>1. now = T
      BY <1>2, <1>4, <1>5, <2>1
    <3> QED BY <2>1, <3>1 DEF Swept, SweptTable
  <2>2. CASE ~(now <= T)
    BY <2>2 DEF Swept, SweptTable
  <2> QED BY <2>1, <2>2
<1> HIDE DEF k
<1>7. /\ r.engine = [sources |-> vs.table, pairs |-> vp.table, dns |-> vd.table, swept |-> now,
                     refused |-> R \cup vs.refused \cup vp.refused \cup vd.refused]
      /\ r.raised = vs.raised \cup vp.raised \cup vd.raised
  BY <1>6 DEF Observed, k
<1>8. vs.raised \subseteq SourceAlerts /\ vp.raised \subseteq PairAlerts /\ vd.raised \subseteq DomainAlerts
  BY DEF k
<1>9. /\ vs = VisitOf("source", k.sources, o) /\ vp = VisitOf("pair", k.pairs, o) /\ vd = VisitOf("domain", k.dns, o)
  BY DEF VisitOf
<1> HIDE DEF vs, vp, vd
<1>10. /\ R \subseteq R2 /\ vs.refused \subseteq R2 /\ vp.refused \subseteq R2 /\ vd.refused \subseteq R2
       /\ r.engine.sources = vs.table /\ r.engine.pairs = vp.table /\ r.engine.dns = vd.table
       /\ r.engine.swept = now
  BY <1>7
<1>11. /\ x.raised \cap AlertsOf("source") = vs.raised /\ x.raised \cap AlertsOf("pair") = vp.raised
       /\ x.raised \cap AlertsOf("domain") = vd.raised
  BY <1>7, <1>8 DEF AlertsOf, SourceAlerts, PairAlerts, DomainAlerts
<1>c. o.kind = "dns" => Carried(o) = Name[o.name]
  BY <1>2, CarriedIs
<1>h. History(h)
  BY <1>1 DEF Grows
<1> HIDE DEF i, T, R, R2
<1>12. TableOK("source", k.sources, h, T, now, R) /\ TableOK("pair", k.pairs, h, T, now, R)
       /\ TableOK("domain", k.dns, h, T, now, R)
  <2>1. {"source", "pair", "domain"} \subseteq TableKinds
    BY DEF TableKinds
  <2>2. TableOK("source", k.sources, h, T, now, R)
    BY <1>2, <1>4, <1>5, <1>6, <1>h, <2>1, TableSwept
  <2>3. TableOK("pair", k.pairs, h, T, now, R)
    BY <1>2, <1>4, <1>5, <1>6, <1>h, <2>1, TableSwept
  <2>4. TableOK("domain", k.dns, h, T, now, R)
    BY <1>2, <1>4, <1>5, <1>6, <1>h, <2>1, TableSwept
  <2> QED BY <2>2, <2>3, <2>4
<1>13. /\ Taking("source", k.sources, h, x, h2, i, T, now, R, R2, vs)
       /\ Taking("pair", k.pairs, h, x, h2, i, T, now, R, R2, vp)
       /\ Taking("domain", k.dns, h, x, h2, i, T, now, R, R2, vd)
  BY <1>1, <1>2, <1>4, <1>5, <1>9, <1>10, <1>11, <1>12, <1>c DEF Taking, TableKinds
<1>14. TableOK("source", vs.table, h2, now, now, R2) /\ Outcome("source", vs, h, h2, x.obs, now, R2)
  BY <1>13, TableTaken
<1>15. TableOK("pair", vp.table, h2, now, now, R2) /\ Outcome("pair", vp, h, h2, x.obs, now, R2)
  BY <1>13, TableTaken
<1>16. TableOK("domain", vd.table, h2, now, now, R2) /\ Outcome("domain", vd, h, h2, x.obs, now, R2)
  BY <1>13, TableTaken
<1>17. Judged(h, x, h2, R2)
  BY <1>11, <1>14, <1>15, <1>16 DEF Judged, TableKinds
<1>18. EngineTrue(r.engine, h2)
  <2>1. \A j \in DOMAIN h2 : At(h2, j).ts <= now
    BY <1>1, <1>2, <1>3 DEF Grows, At
  <2>2. UpTo(h2, now) /\ \E j \in DOMAIN h2 : At(h2, j).ts = now
    BY <1>1, <2>1 DEF Grows, At, UpTo
  <2> QED BY <1>2, <1>10, <1>14, <1>15, <1>16, <2>2 DEF EngineTrue, R2
<1> QED BY <1>17, <1>18 DEF R2

-----------------------------------------------------------------------------
(* The invariant: the engine is true to what it was given, and what was    *)
(* said of the last observation was said by it.                            *)
LastJudged ==
  LET i == Len(processed)
  IN  i > 0 /\ InOrderOf(processed) =>
        \E h : /\ Grows(h, processed[i], processed, i)
               /\ Judged(h, processed[i], processed, engine.refused)

ExactInv == HeldInv /\ EngineTrue(engine, processed) /\ LastJudged

LEMMA InitExactInv == Init => ExactInv
<1> SUFFICES ASSUME Init PROVE ExactInv
  OBVIOUS
<1>1. DOMAIN processed = {} /\ Len(processed) = 0 /\ DOMAIN <<>> = {}
  BY DEF Init
<1>2. \A kind, k : SeenAt(kind, processed, k) = {} /\ \A c : RaisedAt(kind, processed, k, c) = {}
  BY <1>1 DEF SeenAt, RaisedAt, TimesOf, Mine
<1>3. \A kind, R : TableOK(kind, <<>>, processed, 0, 0, R)
  BY <1>1, <1>2 DEF TableOK, Aged
<1>4. EngineTrue(engine, processed)
  BY <1>1, <1>3 DEF Init, EngineTrue, UpTo
<1> QED BY <1>1, <1>4, InitHeldInv DEF ExactInv, LastJudged

LEMMA NextExactInv == ExactInv /\ [Next]_vars => ExactInv'
<1> SUFFICES ASSUME ExactInv, [Next]_vars PROVE ExactInv'
  OBVIOUS
<1>1. HeldInv /\ HeldInv'
  BY NextHeldInv DEF ExactInv
<1>2. ASSUME UNCHANGED <<engine, processed>> PROVE ExactInv'
  <2>1. EngineTrue(engine, processed)' /\ LastJudged'
    BY <1>2 DEF ExactInv, LastJudged
  <2> QED BY <1>1, <2>1 DEF ExactInv
<1>3. CASE Process
  <2> DEFINE b == Head(ready)
             r == Observed(engine, b.obs)
             x == [obs |-> b.obs, excused |-> b.excused, raised |-> r.raised]
  <2>1. engine' = r.engine /\ processed' = Append(processed, x) /\ ready # <<>>
    BY <1>3 DEF Process
  <2>2. ready \in Seq(Holding) /\ processed \in Seq(Taken) /\ EngineTyped
    BY <1>1 DEF HeldInv, OrderInv, HeldTyped
  <2>3. b \in Holding
    BY <2>1, <2>2
  <2> HIDE DEF b
  <2>4. b.obs \in Stamped /\ b.excused \in BOOLEAN
    BY <2>3 DEF Holding
  <2>5. /\ VisitSource(Swept(engine, b.obs.ts).sources, b.obs).raised \subseteq SourceAlerts
        /\ VisitPair(Swept(engine, b.obs.ts).pairs, b.obs).raised \subseteq PairAlerts
        /\ VisitDomain(Swept(engine, b.obs.ts).dns, b.obs).raised \subseteq DomainAlerts
    BY DEF VisitSource, VisitPair, VisitDomain, Visited, Unvisited, Refused, SourceClaims, PairClaims, DomainClaims
  <2>6. r.raised \subseteq Alerts
    BY <2>5 DEF Observed, Alerts
  <2>7. x \in Taken /\ x.obs = b.obs /\ x.raised = r.raised
    BY <2>4, <2>6 DEF Taken
  <2>8. DOMAIN engine = {"sources", "pairs", "dns", "swept", "refused"} /\ EngineTrue(engine, processed)
    BY <2>2 DEF EngineTyped, ExactInv
  <2> DEFINE h2 == Append(processed, x)
  <2>9. h2 \in Seq(Taken) /\ Len(h2) = Len(processed) + 1 /\ Grows(processed, x, h2, Len(processed) + 1)
    <3> HIDE DEF x
    <3> QED BY <2>2, <2>7, AppendGrows
  <2> HIDE DEF x, r
  <2>10. InOrderOf(h2) => EngineTrue(r.engine, h2) /\ Judged(processed, x, h2, r.engine.refused)
    BY <2>2, <2>5, <2>7, <2>8, EngineStep DEF r
  <2>11. h2[Len(h2)] = x
    BY <2>9 DEF Grows
  <2> HIDE DEF h2
  <2>12. processed' = h2
    BY <2>1 DEF h2
  <2>13. EngineTrue(engine, processed)'
    BY <2>1, <2>10, <2>12 DEF EngineTrue
  <2>14. LastJudged'
    <3>1. InOrderOf(h2) => \E h : Grows(h, h2[Len(h2)], h2, Len(h2)) /\ Judged(h, h2[Len(h2)], h2, r.engine.refused)
      BY <2>9, <2>10, <2>11
    <3> QED BY <2>1, <2>12, <3>1 DEF LastJudged
  <2> QED BY <1>1, <2>13, <2>14 DEF ExactInv
<1>4. CASE ~Process
  <2>1. UNCHANGED <<engine, processed>>
    BY <1>4 DEF Next, Receive, Hold, Quiet, Finish, vars
  <2> QED BY <2>1, <1>2
<1> QED BY <1>3, <1>4

-----------------------------------------------------------------------------
(* What was observed up to the last observation, in the words of the       *)
(* properties and in those of the entries.                                 *)
LastIs(i, o) ==
  /\ processed \in Seq(Taken) /\ i = Len(processed) /\ i > 0 /\ o = Obs(i)

LEMMA LastTyped ==
  ASSUME NEW i, NEW o, LastIs(i, o)
  PROVE  /\ History(processed) /\ DOMAIN processed = 1 .. i /\ i \in DOMAIN processed /\ i \in Nat
         /\ \A j : Obs(j) = At(processed, j)
         /\ o \in Stamped /\ o.ts \in Nat
<1>1. History(processed) /\ DOMAIN processed = 1 .. Len(processed)
  BY HistoryIs DEF LastIs
<1>2. Len(processed) \in Nat
  BY DEF LastIs
<1>3. \A j : Obs(j) = At(processed, j)
  BY DEF Obs, At
<1>4. DOMAIN processed = 1 .. i /\ i \in Nat /\ i \in DOMAIN processed
  BY <1>1, <1>2 DEF LastIs
<1>5. o \in Stamped
  BY <1>1, <1>4 DEF LastIs, History, Obs
<1> QED BY <1>1, <1>3, <1>4, <1>5, StampedTimes

LEMMA SourceWindows ==
  ASSUME NEW i, NEW o, LastIs(i, o)
  PROVE  /\ {j \in Within(i, Window) : Unanswered(Obs(j))}
              = After(processed, Losses(processed, o.src), o.ts - Window)
         /\ {j \in {j \in Within(i, Window) : Unanswered(Obs(j))} : Obs(j).port = o.port}
              = After(processed, LossesAt(processed, o.src, o.port), o.ts - Window)
         /\ {j \in Within(i, Window) : Moving(Obs(j))}
              = After(processed, Moved(processed, o.src), o.ts - Window)
         /\ {j \in Within(i, FloodWindow) : Obs(j).kind = "volume"}
              = After(processed, Volumes(processed, o.src), o.ts - FloodWindow)
<1>1. /\ DOMAIN processed = 1 .. i /\ o = Obs(i) /\ \A j : Obs(j) = At(processed, j)
  BY LastTyped DEF LastIs
<1>2. \A j, k : j \in Mine("source", processed, k) <=> j \in 1 .. i /\ Obs(j).src = k
  BY <1>1 DEF Mine, KeyIn
<1>3. \A j, span : j \in Within(i, span) <=> j \in Mine("source", processed, o.src) /\ At(processed, j).ts > o.ts - span
  BY <1>1, <1>2 DEF Within
<1>4. {j \in Within(i, Window) : Unanswered(Obs(j))} = After(processed, Losses(processed, o.src), o.ts - Window)
  BY <1>1, <1>3 DEF After, Losses
<1>5. {j \in {j \in Within(i, Window) : Unanswered(Obs(j))} : Obs(j).port = o.port}
              = After(processed, LossesAt(processed, o.src, o.port), o.ts - Window)
  BY <1>1, <1>3 DEF After, LossesAt, Losses
<1>6. {j \in Within(i, Window) : Moving(Obs(j))} = After(processed, Moved(processed, o.src), o.ts - Window)
  BY <1>1, <1>3 DEF After, Moved
<1>7. {j \in Within(i, FloodWindow) : Obs(j).kind = "volume"}
              = After(processed, Volumes(processed, o.src), o.ts - FloodWindow)
  BY <1>1, <1>3 DEF After, Volumes
<1> QED BY <1>4, <1>5, <1>6, <1>7

LEMMA OtherWindows ==
  ASSUME NEW i, NEW o, LastIs(i, o)
  PROVE  /\ \A kd : {j \in Within(i, Window) : Obs(j).kind = kd /\ Pair(Obs(j)) = Pair(o)}
                      = After(processed, OfKind(processed, Pair(o), kd), o.ts - Window)
         /\ {j \in Within(i, Window) :
               /\ Obs(j).kind = "dns" /\ Random(Name[Obs(j).name])
               /\ Parent(Name[Obs(j).name]) = Parent(Name[o.name])}
              = After(processed, Asked(processed, KeyIn("domain", o)), o.ts - Window)
         /\ Starts(1 .. i, Pair(o)) = TimesOf(processed, Started(processed, Pair(o)))
<1>1. /\ DOMAIN processed = 1 .. i /\ o = Obs(i) /\ \A j : Obs(j) = At(processed, j)
  BY LastTyped DEF LastIs
<1>2. \A j : j \in Mine("pair", processed, Pair(o)) <=> j \in 1 .. i /\ Pair(Obs(j)) = Pair(o)
  BY <1>1 DEF Mine, KeyIn
<1>3. \A j : j \in Mine("domain", processed, KeyIn("domain", o)) <=>
               j \in 1 .. i /\ Obs(j).src = o.src /\ Parent(Name[Obs(j).name]) = Parent(Name[o.name])
  BY <1>1 DEF Mine, KeyIn
<1>4. \A j : j \in Within(i, Window) <=> j \in 1 .. i /\ Obs(j).ts > o.ts - Window /\ Obs(j).src = o.src
  BY <1>1 DEF Within
<1>5. \A j : Pair(Obs(j)) = Pair(o) => Obs(j).src = o.src
  BY DEF Pair
<1>6. ASSUME NEW kd
      PROVE  {j \in Within(i, Window) : Obs(j).kind = kd /\ Pair(Obs(j)) = Pair(o)}
                      = After(processed, OfKind(processed, Pair(o), kd), o.ts - Window)
  BY <1>1, <1>2, <1>4, <1>5 DEF After, OfKind
<1>7. {j \in Within(i, Window) :
               /\ Obs(j).kind = "dns" /\ Random(Name[Obs(j).name])
               /\ Parent(Name[Obs(j).name]) = Parent(Name[o.name])}
              = After(processed, Asked(processed, KeyIn("domain", o)), o.ts - Window)
  BY <1>1, <1>3, <1>4 DEF After, Asked
<1>8. Starts(1 .. i, Pair(o)) = TimesOf(processed, Started(processed, Pair(o)))
  <2>1. {j \in 1 .. i : Starting(Obs(j)) /\ Pair(Obs(j)) = Pair(o)} = Started(processed, Pair(o))
    BY <1>1, <1>2 DEF Started
  <2> QED BY <1>1, <2>1 DEF Starts, TimesOf
<1> QED BY <1>6, <1>7, <1>8

LEMMA SumsSaid ==
  ASSUME NEW i, NEW o, LastIs(i, o), NEW E \in SUBSET DOMAIN processed, NEW from
  PROVE  /\ OutOf(After(processed, E, from)) = SumFunctionOnSet(Outs(processed), After(processed, E, from))
         /\ InOf(After(processed, E, from)) = SumFunctionOnSet(Ins(processed), After(processed, E, from))
<1> DEFINE S == After(processed, E, from)
<1>1. History(processed) /\ \A j : Obs(j) = At(processed, j)
  BY LastTyped
<1>2. IsFiniteSet(S) /\ S \in SUBSET DOMAIN processed
  BY <1>1, AfterFinite
<1>3. \A p \in Stamped : p.out \in Nat /\ p.in \in Nat
  BY DEF Stamped, Observations
<1> HIDE DEF S
<1>4. /\ Numbers(Outs(processed), S) /\ Numbers(Ins(processed), S)
      /\ \A j \in S : Outs(processed)[j] = Obs(j).out /\ Ins(processed)[j] = Obs(j).in
  BY <1>1, <1>2, <1>3 DEF Numbers, Outs, Ins, History, At
<1> DEFINE f == [j \in S |-> Obs(j).out]
           g == [j \in S |-> Obs(j).in]
<1>5. \A d : SumFunction(d) = SumFunctionOnSet(d, DOMAIN d)
  BY DEF SumFunction, SumFunctionOnSet, FoldFunction
<1>6. /\ DOMAIN f = S /\ DOMAIN g = S /\ \A j \in S : f[j] = Outs(processed)[j] /\ g[j] = Ins(processed)[j]
  BY <1>4
<1>7. OutOf(S) = SumFunction(f) /\ InOf(S) = SumFunction(g)
  BY DEF OutOf, InOf
<1> HIDE DEF f, g
<1>8. SumFunction(f) = SumFunctionOnSet(f, S) /\ SumFunction(g) = SumFunctionOnSet(g, S)
  BY <1>5, <1>6
<1>9. SumFunctionOnSet(f, S) = SumFunctionOnSet(Outs(processed), S)
  BY <1>4, <1>6, SumSame
<1>10. SumFunctionOnSet(g, S) = SumFunctionOnSet(Ins(processed), S)
  BY <1>4, <1>6, SumSame
<1> QED BY <1>7, <1>8, <1>9, <1>10 DEF S

LEMMA RingSays ==
  ASSUME NEW ring, NEW now \in Nat, NEW span \in Nat, NEW whole, NEW G \in [Nat -> Nat],
         RingOK(ring, now, span, whole, G)
  PROVE  /\ Total(ring, now, span) \in Nat /\ G[now] \in Nat /\ Total(ring, now, span) <= G[now]
         /\ whole => Total(ring, now, span) = G[now]
<1>1. IsFiniteSet(DOMAIN ring) /\ \A s \in DOMAIN ring : ring[s] \in Nat
  BY DEF RingOK
<1>2. Total(ring, now, span) \in Nat
  BY <1>1, CountingIs
<1> QED BY <1>2 DEF RingOK

LEMMA LimitTyped ==
  /\ Limit.scan \in Nat /\ Limit.sweep \in Nat /\ Limit.flood \in Nat /\ Limit.bytes \in Nat
  /\ Limit.attempts \in Nat /\ Limit.refusals \in Nat /\ Limit.tunnel \in Nat
BY BehaviorAssumption DEF Limits

(* The hosts, and the subdomains, a set has are those of the last window. *)
LEMMA HostsSaid ==
  ASSUME NEW i, NEW o, LastIs(i, o), NEW E \in SUBSET DOMAIN processed, NEW w, NEW whole,
         SetOK(w, HostsIn(processed, E), o.ts, Window, whole), Fresh(w, o.ts, Window),
         NEW Q, Q = {Obs(j).dst : j \in After(processed, E, o.ts - Window)}
  PROVE  /\ Distinct(w) \in Nat /\ Cardinality(Q) \in Nat /\ Distinct(w) <= Cardinality(Q)
         /\ whole /\ ~w.refused => Distinct(w) = Cardinality(Q)
<1> DEFINE S == After(processed, E, o.ts - Window)
           f == [j \in S |-> Obs(j).dst]
<1>1. History(processed) /\ (\A j : Obs(j) = At(processed, j)) /\ o.ts \in Nat /\ Window \in Nat
  BY LastTyped, BehaviorAssumption
<1>2. IsFiniteSet(S) /\ S \in SUBSET DOMAIN processed
  BY <1>1, AfterFinite
<1>3. \A j \in DOMAIN processed : At(processed, j).ts \in Nat
  BY <1>1, StampedTimes DEF History, At
<1>4. \A k : k \in Q <=> \E t \in Nat : <<k, t>> \in HostsIn(processed, E) /\ t > o.ts - Window
  BY <1>1, <1>3 DEF HostsIn, After
<1>5. f \in Surjection(S, Q)
  BY DEF Surjection
<1> HIDE DEF S, f
<1>6. IsFiniteSet(Q)
  BY <1>2, <1>5, FS_Surjection
<1> DEFINE H == HostsIn(processed, E)
           now == o.ts
<1>7. /\ SetOK(w, H, now, Window, whole) /\ Fresh(w, now, Window) /\ now \in Nat /\ Window \in Nat
      /\ Lists(Q, H, now, Window)
  BY <1>1, <1>4, <1>6 DEF Lists
<1> HIDE DEF H, now
<1> QED BY <1>7, SetCounts

LEMMA SubsSaid ==
  ASSUME NEW i, NEW o, LastIs(i, o), NEW E \in SUBSET DOMAIN processed, NEW w, NEW whole,
         SetOK(w, SubsIn(processed, E), o.ts, Window, whole), Fresh(w, o.ts, Window),
         NEW Q, Q = {Sub(Name[Obs(j).name]) : j \in After(processed, E, o.ts - Window)}
  PROVE  /\ Distinct(w) \in Nat /\ Cardinality(Q) \in Nat /\ Distinct(w) <= Cardinality(Q)
         /\ whole /\ ~w.refused => Distinct(w) = Cardinality(Q)
<1> DEFINE S == After(processed, E, o.ts - Window)
           f == [j \in S |-> Sub(Name[Obs(j).name])]
<1>1. History(processed) /\ (\A j : Obs(j) = At(processed, j)) /\ o.ts \in Nat /\ Window \in Nat
  BY LastTyped, BehaviorAssumption
<1>2. IsFiniteSet(S) /\ S \in SUBSET DOMAIN processed
  BY <1>1, AfterFinite
<1>3. \A j \in DOMAIN processed : At(processed, j).ts \in Nat
  BY <1>1, StampedTimes DEF History, At
<1>4. \A k : k \in Q <=> \E t \in Nat : <<k, t>> \in SubsIn(processed, E) /\ t > o.ts - Window
  BY <1>1, <1>3 DEF SubsIn, After
<1>5. f \in Surjection(S, Q)
  BY DEF Surjection
<1> HIDE DEF S, f
<1>6. IsFiniteSet(Q)
  BY <1>2, <1>5, FS_Surjection
<1> DEFINE H == SubsIn(processed, E)
           now == o.ts
<1>7. /\ SetOK(w, H, now, Window, whole) /\ Fresh(w, now, Window) /\ now \in Nat /\ Window \in Nat
      /\ Lists(Q, H, now, Window)
  BY <1>1, <1>4, <1>6 DEF Lists
<1> HIDE DEF H, now
<1> QED BY <1>7, SetCounts

(* What an entry claims is so, and what is so it claims. *)
Says(c, i, claims, R) ==
  /\ c \in claims => \/ c = "RATIO" /\ "sources" \in R
                     \/ c = "BEACON" /\ "pairs" \in R
                     \/ Fact(c, i)
  /\ R = {} /\ Noticeable(c, i) => c \in claims

LEMMA SourceSays ==
  ASSUME NEW i, NEW o, LastIs(i, o), NEW s, NEW R, SourceIs(s, o.src, processed, o.ts, R),
         Current("source", s, o, o.ts, R)
  PROVE  \A c \in SourceAlerts : Says(c, i, SourceClaims(s, o), R)
<1> DEFINE k == o.src
           now == o.ts
           lost == {j \in Within(i, Window) : Unanswered(Obs(j))}
           here == {j \in lost : Obs(j).port = o.port}
           moved == {j \in Within(i, Window) : Moving(Obs(j))}
           vols == {j \in Within(i, FloodWindow) : Obs(j).kind = "volume"}
           whole == Whole("source", R)
           claims == SourceClaims(s, o)
<1>t. /\ History(processed) /\ now \in Nat /\ o = Obs(i)
      /\ Window \in Nat /\ FloodWindow \in Nat
  BY LastTyped, BehaviorAssumption DEF LastIs
<1>w. R = {} => whole /\ Full("source", R)
  BY DEF Whole, Full
<1>i. /\ Moved(processed, k) \in SUBSET DOMAIN processed /\ Volumes(processed, k) \in SUBSET DOMAIN processed
      /\ Losses(processed, k) \in SUBSET DOMAIN processed
      /\ LossesAt(processed, k, o.port) \in SUBSET DOMAIN processed
  BY EvidenceIn
<1>e. /\ lost = After(processed, Losses(processed, k), now - Window)
      /\ here = After(processed, LossesAt(processed, k, o.port), now - Window)
      /\ moved = After(processed, Moved(processed, k), now - Window)
      /\ vols = After(processed, Volumes(processed, k), now - FloodWindow)
  BY SourceWindows
<1>v. Outs(processed) \in [DOMAIN processed -> Nat] /\ Ins(processed) \in [DOMAIN processed -> Nat]
  <2>1. \A p \in Stamped : p.out \in Nat /\ p.in \in Nat
    BY DEF Stamped, Observations
  <2> QED BY <1>t, <2>1 DEF History, Outs, Ins, At
<1> HIDE DEF lost, here, moved, vols, whole, k
<1>1. /\ Total(s.out, now, Window) \in Nat /\ OutOf(moved) \in Nat /\ Total(s.out, now, Window) <= OutOf(moved)
      /\ whole => Total(s.out, now, Window) = OutOf(moved)
  <2> DEFINE G == SumsOver(processed, Outs(processed), Moved(processed, k), Window)
  <2>1. RingOK(s.out, now, Window, whole, G)
    BY DEF SourceIs, whole, k
  <2>2. G \in [Nat -> Nat]
    BY <1>t, <1>v, <1>i, SumsTyped
  <2>3. G[now] = SumFunctionOnSet(Outs(processed), After(processed, Moved(processed, k), now - Window))
    BY <1>t DEF SumsOver
  <2>4. G[now] = OutOf(moved)
    BY <1>e, <1>i, <2>3, SumsSaid
  <2> HIDE DEF G
  <2> QED BY <1>t, <2>1, <2>2, <2>4, RingSays
<1>2. whole => Total(s.in, now, Window) = InOf(moved)
  <2> DEFINE G == SumsOver(processed, Ins(processed), Moved(processed, k), Window)
  <2>1. RingOK(s.in, now, Window, whole, G)
    BY DEF SourceIs, whole, k
  <2>2. G \in [Nat -> Nat]
    BY <1>t, <1>v, <1>i, SumsTyped
  <2>3. G[now] = SumFunctionOnSet(Ins(processed), After(processed, Moved(processed, k), now - Window))
    BY <1>t DEF SumsOver
  <2>4. G[now] = InOf(moved)
    BY <1>e, <1>i, <2>3, SumsSaid
  <2> HIDE DEF G
  <2>5. /\ Total(s.in, now, Window) \in Nat /\ G[now] \in Nat /\ Total(s.in, now, Window) <= G[now]
        /\ whole => Total(s.in, now, Window) = G[now]
    BY <1>t, <2>1, <2>2, RingSays
  <2> QED BY <2>4, <2>5
<1>3. /\ Total(s.packets, now, FloodWindow) \in Nat /\ OutOf(vols) \in Nat /\ Total(s.packets, now, FloodWindow) <= OutOf(vols)
      /\ whole => Total(s.packets, now, FloodWindow) = OutOf(vols)
  <2> DEFINE G == SumsOver(processed, Outs(processed), Volumes(processed, k), FloodWindow)
  <2>1. RingOK(s.packets, now, FloodWindow, whole, G)
    BY DEF SourceIs, whole, k
  <2>2. G \in [Nat -> Nat]
    BY <1>t, <1>v, <1>i, SumsTyped
  <2>3. G[now] = SumFunctionOnSet(Outs(processed), After(processed, Volumes(processed, k), now - FloodWindow))
    BY <1>t DEF SumsOver
  <2>4. G[now] = OutOf(vols)
    BY <1>e, <1>i, <2>3, SumsSaid
  <2> HIDE DEF G
  <2> QED BY <1>t, <2>1, <2>2, <2>4, RingSays
<1> DEFINE HostsLost == Cardinality({Obs(j).dst : j \in lost})
           HostsHere == Cardinality({Obs(j).dst : j \in here})
<1>4. Unanswered(o) => /\ Distinct(s.any) \in Nat /\ HostsLost \in Nat /\ Distinct(s.any) <= HostsLost
                       /\ R = {} => Distinct(s.any) = HostsLost
  <2> SUFFICES ASSUME Unanswered(o)
               PROVE  /\ Distinct(s.any) \in Nat /\ HostsLost \in Nat /\ Distinct(s.any) <= HostsLost
                      /\ R = {} => Distinct(s.any) = HostsLost
    OBVIOUS
  <2>1. /\ SetOK(s.any, HostsIn(processed, Losses(processed, k)), o.ts, Window, Full("source", R))
        /\ Unrefused(s.any, R) /\ Fresh(s.any, o.ts, Window)
    BY DEF SourceIs, Current, k
  <2> DEFINE Q == {Obs(j).dst : j \in After(processed, Losses(processed, k), o.ts - Window)}
  <2>2. HostsLost = Cardinality(Q)
    BY <1>e
  <2> HIDE DEF HostsLost
  <2>3. /\ Distinct(s.any) \in Nat /\ Cardinality(Q) \in Nat /\ Distinct(s.any) <= Cardinality(Q)
        /\ Full("source", R) /\ ~s.any.refused => Distinct(s.any) = Cardinality(Q)
    <3> DEFINE E == Losses(processed, k)
               w == s.any
               all == Full("source", R)
    <3>1. /\ E \in SUBSET DOMAIN processed /\ SetOK(w, HostsIn(processed, E), o.ts, Window, all)
          /\ Fresh(w, o.ts, Window) /\ Q = {Obs(j).dst : j \in After(processed, E, o.ts - Window)}
      BY <1>i, <2>1
    <3> HIDE DEF E, w, all, Q
    <3>2. /\ Distinct(w) \in Nat /\ Cardinality(Q) \in Nat /\ Distinct(w) <= Cardinality(Q)
          /\ all /\ ~w.refused => Distinct(w) = Cardinality(Q)
      BY <3>1, HostsSaid
    <3> QED BY <3>2 DEF w, all
  <2> HIDE DEF Q
  <2> QED BY <1>w, <2>1, <2>2, <2>3 DEF Unrefused
<1>5. Unanswered(o) => /\ Distinct(s.ports[o.port]) \in Nat /\ HostsHere \in Nat /\ Distinct(s.ports[o.port]) <= HostsHere
                       /\ R = {} => Distinct(s.ports[o.port]) = HostsHere
  <2> SUFFICES ASSUME Unanswered(o)
               PROVE  /\ Distinct(s.ports[o.port]) \in Nat /\ HostsHere \in Nat /\ Distinct(s.ports[o.port]) <= HostsHere
                      /\ R = {} => Distinct(s.ports[o.port]) = HostsHere
    OBVIOUS
  <2> DEFINE w == s.ports[o.port]
  <2>0. PortOK(s.ports, o.port, processed, k, o.ts, R) /\ o.port \in DOMAIN s.ports /\ Fresh(w, o.ts, Window)
    BY DEF SourceIs, Current, k
  <2>1. /\ SetOK(w, HostsIn(processed, LossesAt(processed, k, o.port)), o.ts, Window, Full("source", R))
        /\ Unrefused(w, R) /\ Fresh(w, o.ts, Window)
    BY <2>0 DEF PortOK, SetFor
  <2> HIDE DEF w
  <2> DEFINE Q == {Obs(j).dst : j \in After(processed, LossesAt(processed, k, o.port), o.ts - Window)}
  <2>2. HostsHere = Cardinality(Q)
    BY <1>e
  <2> HIDE DEF HostsHere
  <2>3. /\ Distinct(w) \in Nat /\ Cardinality(Q) \in Nat /\ Distinct(w) <= Cardinality(Q)
        /\ Full("source", R) /\ ~w.refused => Distinct(w) = Cardinality(Q)
    <3> DEFINE E == LossesAt(processed, k, o.port)
               all == Full("source", R)
    <3>1. /\ E \in SUBSET DOMAIN processed /\ SetOK(w, HostsIn(processed, E), o.ts, Window, all)
          /\ Fresh(w, o.ts, Window) /\ Q = {Obs(j).dst : j \in After(processed, E, o.ts - Window)}
      BY <1>i, <2>1
    <3> HIDE DEF E, all, Q
    <3>2. /\ Distinct(w) \in Nat /\ Cardinality(Q) \in Nat /\ Distinct(w) <= Cardinality(Q)
          /\ all /\ ~w.refused => Distinct(w) = Cardinality(Q)
      BY <3>1, HostsSaid
    <3> QED BY <3>2 DEF all
  <2> HIDE DEF Q
  <2>4. /\ Distinct(w) \in Nat /\ HostsHere \in Nat /\ Distinct(w) <= HostsHere
        /\ R = {} => Distinct(w) = HostsHere
    BY <1>w, <2>1, <2>2, <2>3 DEF Unrefused
  <2> QED BY <2>4 DEF w
<1>6. /\ Limit.scan \in Nat /\ Limit.sweep \in Nat /\ Limit.flood \in Nat /\ Limit.bytes \in Nat
  BY LimitTyped
<1>f. /\ Fact("SCAN", i) <=> Unanswered(o) /\ HostsHere > Limit.scan
      /\ Fact("SWEEP", i) <=> Unanswered(o) /\ HostsLost > Limit.sweep
      /\ Fact("FLOOD", i) <=> o.kind = "volume" /\ OutOf(vols) > Limit.flood
      /\ Fact("VOLUME", i) <=> Moving(o) /\ OutOf(moved) > Limit.bytes
      /\ Fact("RATIO", i) <=> Moving(o) /\ Lopsided(OutOf(moved), InOf(moved))
  BY <1>t DEF Fact, lost, here, vols, moved
<1>c. /\ "SCAN" \in claims <=> Unanswered(o) /\ Distinct(s.ports[o.port]) > Limit.scan
      /\ "SWEEP" \in claims <=> Unanswered(o) /\ Distinct(s.any) > Limit.sweep
      /\ "FLOOD" \in claims <=> o.kind = "volume" /\ Total(s.packets, now, FloodWindow) > Limit.flood
      /\ "VOLUME" \in claims <=> Moving(o) /\ Total(s.out, now, Window) > Limit.bytes
      /\ "RATIO" \in claims <=> Moving(o) /\ Lopsided(Total(s.out, now, Window), Total(s.in, now, Window))
  BY DEF SourceClaims, SourceAlerts
<1> HIDE DEF HostsLost, HostsHere, claims, now
<1>7. /\ "SCAN" \in claims => Fact("SCAN", i)
      /\ R = {} /\ Fact("SCAN", i) => "SCAN" \in claims
  BY <1>5, <1>6, <1>f, <1>c
<1>8. /\ "SWEEP" \in claims => Fact("SWEEP", i)
      /\ R = {} /\ Fact("SWEEP", i) => "SWEEP" \in claims
  BY <1>4, <1>6, <1>f, <1>c
<1>9. /\ "FLOOD" \in claims => Fact("FLOOD", i)
      /\ R = {} /\ Fact("FLOOD", i) => "FLOOD" \in claims
  BY <1>3, <1>6, <1>w, <1>f, <1>c
<1>10. /\ "VOLUME" \in claims => Fact("VOLUME", i)
       /\ R = {} /\ Fact("VOLUME", i) => "VOLUME" \in claims
  BY <1>1, <1>6, <1>w, <1>f, <1>c
<1>11. /\ "RATIO" \in claims => "sources" \in R \/ Fact("RATIO", i)
       /\ R = {} /\ Fact("RATIO", i) => "RATIO" \in claims
  <2>1. "sources" \notin R => whole
    BY DEF whole, Whole, TableName
  <2> QED BY <1>1, <1>2, <1>w, <1>f, <1>c, <2>1
<1>12. \A c \in SourceAlerts : Noticeable(c, i) => Fact(c, i)
  BY DEF Noticeable, SourceAlerts
<1>13. ASSUME NEW c \in SourceAlerts PROVE Says(c, i, claims, R)
  BY <1>7, <1>8, <1>9, <1>10, <1>11, <1>12 DEF Says, SourceAlerts
<1> QED BY <1>13 DEF claims

(* The same of pairs, of domains, and so of an entry of any table. *)
LEMMA PairSays ==
  ASSUME NEW i, NEW o, LastIs(i, o), OfPair(o), NEW s, NEW R, PairIs(s, Pair(o), processed, o.ts, R),
         Current("pair", s, o, o.ts, R)
  PROVE  \A c \in PairAlerts : Says(c, i, PairClaims(s, o), R)
<1> DEFINE k == Pair(o)
           now == o.ts
           whole == Whole("pair", R)
           alike(kd) == {j \in Within(i, Window) : Obs(j).kind = kd /\ Pair(Obs(j)) = Pair(o)}
           S == TimesOf(processed, Started(processed, k))
           claims == PairClaims(s, o)
<1>t. /\ History(processed) /\ now \in Nat /\ o = Obs(i) /\ Window \in Nat
  BY LastTyped, BehaviorAssumption DEF LastIs
<1>w. ("pairs" \notin R <=> whole) /\ whole \in BOOLEAN /\ (R = {} => whole)
  BY DEF Whole, TableName
<1>i. (\A kd : OfKind(processed, k, kd) \in SUBSET DOMAIN processed) /\ Started(processed, k) \in SUBSET DOMAIN processed
  BY EvidenceIn
<1>e. /\ \A kd : alike(kd) = After(processed, OfKind(processed, k, kd), now - Window)
      /\ Starts(1 .. i, Pair(o)) = S
  BY OtherWindows
<1> HIDE DEF alike, whole, k
<1>1. /\ Total(s.attempts, now, Window) \in Nat /\ Cardinality(alike("attempt")) \in Nat
      /\ Total(s.attempts, now, Window) <= Cardinality(alike("attempt"))
      /\ whole => Total(s.attempts, now, Window) = Cardinality(alike("attempt"))
  <2> DEFINE G == CountOver(processed, OfKind(processed, k, "attempt"), Window)
  <2>1. RingOK(s.attempts, now, Window, whole, G)
    BY DEF PairIs, whole, k
  <2>2. G \in [Nat -> Nat]
    BY <1>t, <1>i, CountTyped
  <2>3. G[now] = Cardinality(alike("attempt"))
    BY <1>t, <1>e DEF CountOver
  <2> HIDE DEF G
  <2>4. /\ Total(s.attempts, now, Window) \in Nat /\ G[now] \in Nat /\ Total(s.attempts, now, Window) <= G[now]
        /\ whole => Total(s.attempts, now, Window) = G[now]
    BY <1>t, <2>1, <2>2, RingSays
  <2> QED BY <2>3, <2>4
<1>2. /\ Total(s.refusals, now, Window) \in Nat /\ Cardinality(alike("refusal")) \in Nat
      /\ Total(s.refusals, now, Window) <= Cardinality(alike("refusal"))
      /\ whole => Total(s.refusals, now, Window) = Cardinality(alike("refusal"))
  <2> DEFINE G == CountOver(processed, OfKind(processed, k, "refusal"), Window)
  <2>1. RingOK(s.refusals, now, Window, whole, G)
    BY DEF PairIs, whole, k
  <2>2. G \in [Nat -> Nat]
    BY <1>t, <1>i, CountTyped
  <2>3. G[now] = Cardinality(alike("refusal"))
    BY <1>t, <1>e DEF CountOver
  <2> HIDE DEF G
  <2>4. /\ Total(s.refusals, now, Window) \in Nat /\ G[now] \in Nat /\ Total(s.refusals, now, Window) <= G[now]
        /\ whole => Total(s.refusals, now, Window) = G[now]
    BY <1>t, <2>1, <2>2, RingSays
  <2> QED BY <2>3, <2>4
<1>3. whole /\ o.kind = "flow" =>
        /\ Steady(s.beacon.gaps) => \E n \in MinGaps .. Samples : n <= Len(Gaps(S)) /\ Steady(LastOf(Gaps(S), n))
        /\ Steady(LastOf(Gaps(S), Samples)) /\ (\A g \in ToSet(LastOf(Gaps(S), Samples)) : g < Window)
              => Steady(s.beacon.gaps)
  <2> SUFFICES ASSUME whole, o.kind = "flow"
               PROVE  /\ Steady(s.beacon.gaps) => \E n \in MinGaps .. Samples : n <= Len(Gaps(S)) /\ Steady(LastOf(Gaps(S), n))
                      /\ Steady(LastOf(Gaps(S), Samples)) /\ (\A g \in ToSet(LastOf(Gaps(S), Samples)) : g < Window)
                            => Steady(s.beacon.gaps)
    OBVIOUS
  <2>1. BeatOK(s.beacon, S, now, TRUE)
    <3>1. BeatOK(s.beacon, S, now, whole)
      BY DEF PairIs, whole, k
    <3> QED BY <3>1 DEF BeatOK
  <2>2. s.beacon.last # None
    BY DEF Current, whole
  <2>3. S \in SUBSET Nat
    BY <1>t, <1>i, StampedTimes DEF TimesOf, History, At
  <2>4. IsFiniteSet(S)
    <3>1. IsFiniteSet(Started(processed, k))
      BY <1>t, <1>i, FS_Subset DEF History
    <3> DEFINE f == [j \in Started(processed, k) |-> At(processed, j).ts]
    <3>2. f \in Surjection(Started(processed, k), S)
      BY DEF Surjection, TimesOf
    <3> HIDE DEF f
    <3> QED BY <3>1, <3>2, FS_Surjection
  <2> HIDE DEF S
  <2> QED BY <1>t, <2>1, <2>2, <2>3, <2>4, BeatSays
<1>g. GapsOf(i) = Gaps(S)
  BY <1>t, <1>e DEF GapsOf
<1>4. Limit.attempts \in Nat /\ Limit.refusals \in Nat
  BY LimitTyped
<1>5. o.kind = "flow" <=> Starting(o)
  BY DEF OfPair, Starting
<1> HIDE DEF S
<1>f. /\ Fact("ATTEMPTS", i) <=> o.kind = "attempt" /\ Cardinality(alike("attempt")) > Limit.attempts
      /\ Fact("REFUSALS", i) <=> o.kind = "refusal" /\ Cardinality(alike("refusal")) > Limit.refusals
      /\ Fact("BEACON", i) <=> /\ Starting(o)
                               /\ \E n \in MinGaps .. Samples : n <= Len(Gaps(S)) /\ Steady(LastOf(Gaps(S), n))
      /\ Noticeable("BEACON", i) <=> /\ Starting(o)
                                     /\ \A g \in ToSet(LastOf(Gaps(S), Samples)) : g < Window
                                     /\ Steady(LastOf(Gaps(S), Samples))
  <2>1. /\ Fact("ATTEMPTS", i) <=> o.kind = "attempt" /\ Cardinality(alike("attempt")) > Limit.attempts
        /\ Fact("REFUSALS", i) <=> o.kind = "refusal" /\ Cardinality(alike("refusal")) > Limit.refusals
    BY <1>t DEF Fact, alike
  <2>2. Fact("BEACON", i) <=> /\ Starting(o)
                              /\ \E n \in MinGaps .. Samples : n <= Len(Gaps(S)) /\ Steady(LastOf(Gaps(S), n))
    BY <1>t, <1>g DEF Fact
  <2>3. Noticeable("BEACON", i) <=> /\ Starting(o)
                                    /\ \A g \in ToSet(LastOf(Gaps(S), Samples)) : g < Window
                                    /\ Steady(LastOf(Gaps(S), Samples))
    BY <1>t, <1>g DEF Noticeable
  <2> QED BY <2>1, <2>2, <2>3
<1>c. /\ "ATTEMPTS" \in claims <=> o.kind = "attempt" /\ Total(s.attempts, now, Window) > Limit.attempts
      /\ "REFUSALS" \in claims <=> o.kind = "refusal" /\ Total(s.refusals, now, Window) > Limit.refusals
      /\ "BEACON" \in claims <=> o.kind = "flow" /\ Steady(s.beacon.gaps)
  BY DEF PairClaims, PairAlerts
<1> HIDE DEF claims, now
<1>7. /\ "ATTEMPTS" \in claims => Fact("ATTEMPTS", i)
      /\ R = {} /\ Fact("ATTEMPTS", i) => "ATTEMPTS" \in claims
  BY <1>1, <1>4, <1>w, <1>f, <1>c
<1>8. /\ "REFUSALS" \in claims => Fact("REFUSALS", i)
      /\ R = {} /\ Fact("REFUSALS", i) => "REFUSALS" \in claims
  BY <1>2, <1>4, <1>w, <1>f, <1>c
<1>9. /\ "BEACON" \in claims => "pairs" \in R \/ Fact("BEACON", i)
      /\ R = {} /\ Noticeable("BEACON", i) => "BEACON" \in claims
  BY <1>3, <1>5, <1>w, <1>f, <1>c
<1>10. \A c \in {"ATTEMPTS", "REFUSALS"} : Noticeable(c, i) => Fact(c, i)
  BY DEF Noticeable
<1>11. ASSUME NEW c \in PairAlerts PROVE Says(c, i, claims, R)
  BY <1>7, <1>8, <1>9, <1>10 DEF Says, PairAlerts
<1> QED BY <1>11 DEF claims

LEMMA DomainSays ==
  ASSUME NEW i, NEW o, LastIs(i, o), o.kind = "dns", NEW s, NEW R, DomainIs(s, KeyIn("domain", o), processed, o.ts, R),
         Current("domain", s, o, o.ts, R)
  PROVE  \A c \in DomainAlerts : Says(c, i, DomainClaims(s, o), R)
<1> DEFINE k == KeyIn("domain", o)
           asked == {j \in Within(i, Window) :
                       /\ Obs(j).kind = "dns" /\ Random(Name[Obs(j).name])
                       /\ Parent(Name[Obs(j).name]) = Parent(Name[o.name])}
           Q == {Sub(Name[Obs(j).name]) : j \in asked}
           claims == DomainClaims(s, o)
<1>t. o \in Stamped /\ o = Obs(i) /\ o.ts \in Nat
  BY LastTyped DEF LastIs
<1>c. Carried(o) = Name[o.name]
  BY <1>t, CarriedIs
<1>w. R = {} => Full("domain", R)
  BY DEF Whole, Full
<1>i. Asked(processed, k) \in SUBSET DOMAIN processed
  BY EvidenceIn
<1>e. asked = After(processed, Asked(processed, k), o.ts - Window)
  BY OtherWindows
<1>1. Random(Name[o.name]) => /\ Distinct(s.subs) \in Nat /\ Cardinality(Q) \in Nat /\ Distinct(s.subs) <= Cardinality(Q)
                              /\ R = {} => Distinct(s.subs) = Cardinality(Q)
  <2> SUFFICES ASSUME Random(Name[o.name])
               PROVE  /\ Distinct(s.subs) \in Nat /\ Cardinality(Q) \in Nat /\ Distinct(s.subs) <= Cardinality(Q)
                      /\ R = {} => Distinct(s.subs) = Cardinality(Q)
    OBVIOUS
  <2>1. /\ SetOK(s.subs, SubsIn(processed, Asked(processed, k)), o.ts, Window, Full("domain", R))
        /\ Unrefused(s.subs, R) /\ Fresh(s.subs, o.ts, Window)
    BY DEF DomainIs, Current, k
  <2>2. Q = {Sub(Name[Obs(j).name]) : j \in After(processed, Asked(processed, k), o.ts - Window)}
    BY <1>e
  <2> HIDE DEF Q, k
  <2>3. /\ Distinct(s.subs) \in Nat /\ Cardinality(Q) \in Nat /\ Distinct(s.subs) <= Cardinality(Q)
        /\ Full("domain", R) /\ ~s.subs.refused => Distinct(s.subs) = Cardinality(Q)
    BY <1>i, <2>1, <2>2, SubsSaid
  <2> QED BY <1>w, <2>1, <2>3 DEF Unrefused
<1>2. Limit.tunnel \in Nat
  BY LimitTyped
<1>f. /\ Fact("LONG", i) <=> Len(Name[o.name]) >= Limit.nameLen
      /\ Fact("TUNNEL", i) <=> Random(Name[o.name]) /\ Cardinality(Q) > Limit.tunnel
  BY <1>t DEF Fact
<1>g. /\ "LONG" \in claims <=> Len(Name[o.name]) >= Limit.nameLen
      /\ "TUNNEL" \in claims <=> Random(Name[o.name]) /\ Distinct(s.subs) > Limit.tunnel
  BY <1>c DEF DomainClaims, DomainAlerts
<1> HIDE DEF claims, Q
<1>3. /\ "LONG" \in claims => Fact("LONG", i)
      /\ R = {} /\ Fact("LONG", i) => "LONG" \in claims
  BY <1>f, <1>g
<1>4. /\ "TUNNEL" \in claims => Fact("TUNNEL", i)
      /\ R = {} /\ Fact("TUNNEL", i) => "TUNNEL" \in claims
  BY <1>1, <1>2, <1>f, <1>g
<1>5. \A c \in DomainAlerts : Noticeable(c, i) => Fact(c, i)
  BY DEF Noticeable, DomainAlerts
<1>6. ASSUME NEW c \in DomainAlerts PROVE Says(c, i, claims, R)
  BY <1>3, <1>4, <1>5 DEF Says, DomainAlerts
<1> QED BY <1>6 DEF claims

LEMMA EntrySays ==
  ASSUME NEW i, NEW o, LastIs(i, o), NEW kind \in TableKinds, Relevant(kind, o), NEW s, NEW R,
         EntryIs0(kind, s, KeyIn(kind, o), processed, o.ts, R), Current(kind, s, o, o.ts, R)
  PROVE  \A c \in AlertsOf(kind) : Says(c, i, ClaimsOf(kind, s, o), R)
<1>1. CASE kind = "source"
  <2>1. SourceIs(s, o.src, processed, o.ts, R) /\ Current("source", s, o, o.ts, R)
    BY <1>1 DEF EntryIs0, KeyIn
  <2>2. \A c \in SourceAlerts : Says(c, i, SourceClaims(s, o), R)
    BY <2>1, SourceSays
  <2> QED BY <1>1, <2>2 DEF AlertsOf, ClaimsOf
<1>2. CASE kind = "pair"
  <2>1. PairIs(s, Pair(o), processed, o.ts, R) /\ Current("pair", s, o, o.ts, R) /\ OfPair(o)
    BY <1>2 DEF EntryIs0, KeyIn, Relevant
  <2>2. \A c \in PairAlerts : Says(c, i, PairClaims(s, o), R)
    BY <2>1, PairSays
  <2> QED BY <1>2, <2>2 DEF AlertsOf, ClaimsOf
<1>3. CASE kind = "domain"
  <2>1. DomainIs(s, KeyIn("domain", o), processed, o.ts, R) /\ Current("domain", s, o, o.ts, R) /\ o.kind = "dns"
    BY <1>3 DEF EntryIs0, Relevant
  <2>2. \A c \in DomainAlerts : Says(c, i, DomainClaims(s, o), R)
    BY <2>1, DomainSays
  <2> QED BY <1>3, <2>2 DEF AlertsOf, ClaimsOf
<1> QED BY <1>1, <1>2, <1>3 DEF TableKinds

-----------------------------------------------------------------------------
(* An alert of one table's, repeated, is of the same key.                  *)
LEMMA RepeatsOf ==
  ASSUME NEW i, NEW o, LastIs(i, o), NEW kind \in TableKinds, NEW c \in AlertsOf(kind), NEW j
  PROVE  Repeats(c, j, i) <=> /\ c \in processed[j].raised
                              /\ KeyIn(kind, Obs(j)) = KeyIn(kind, o)
                              /\ o.ts - Obs(j).ts < IntervalOf(c)
<1>1. o = Obs(i) /\ \A a : Pair(Obs(a)) = Pair(o) => Obs(a).src = o.src
  BY DEF LastIs, Pair
<1>2. CASE kind = "source"
  BY <1>1, <1>2 DEF Repeats, AlertsOf, KeyIn, SourceAlerts, PairAlerts, DomainAlerts
<1>3. CASE kind = "pair"
  BY <1>1, <1>3 DEF Repeats, AlertsOf, KeyIn, SourceAlerts, PairAlerts, DomainAlerts
<1>4. CASE kind = "domain"
  BY <1>1, <1>4 DEF Repeats, AlertsOf, KeyIn, SourceAlerts, PairAlerts, DomainAlerts
<1> QED BY <1>2, <1>3, <1>4 DEF TableKinds

(* What is no concern of a table's calls for none of its alerts. *)
LEMMA UnconcernedSilent ==
  ASSUME NEW i, NEW o, LastIs(i, o), NEW kind \in TableKinds, ~Relevant(kind, o), NEW c \in AlertsOf(kind)
  PROVE  ~Noticeable(c, i)
<1>1. o = Obs(i)
  BY DEF LastIs
<1>2. CASE kind = "source"
  BY <1>1, <1>2 DEF Noticeable, Fact, AlertsOf, SourceAlerts, Relevant, OfSource
<1>3. CASE kind = "pair"
  BY <1>1, <1>3 DEF Noticeable, Fact, AlertsOf, PairAlerts, Relevant, OfPair
<1>4. CASE kind = "domain"
  BY <1>1, <1>4 DEF Noticeable, Fact, AlertsOf, DomainAlerts, Relevant
<1> QED BY <1>2, <1>3, <1>4 DEF TableKinds

(* The alerts raised before about what the last observation is about. *)
LEMMA RepeatsRaised ==
  ASSUME NEW i, NEW o, LastIs(i, o), NEW kind \in TableKinds, NEW c \in AlertsOf(kind),
         NEW h, Grows(h, processed[i], processed, i)
  PROVE  (\E j \in 1 .. i - 1 : Repeats(c, j, i))
            <=> \E r \in RaisedAt(kind, h, KeyIn(kind, o), c) : o.ts - r < IntervalOf(c)
<1>1. DOMAIN processed = 1 .. i /\ i \in Nat /\ \A j : Obs(j) = At(processed, j)
  BY LastTyped
<1>2. DOMAIN h = 1 .. i - 1
  <2>1. DOMAIN h = (1 .. i) \ {i}
    BY <1>1 DEF Grows
  <2> QED BY <1>1, <2>1
<1>3. \A j \in DOMAIN h : h[j] = processed[j] /\ At(h, j) = Obs(j)
  BY <1>1 DEF Grows, At
<1>4. \A j : Repeats(c, j, i) <=> /\ c \in processed[j].raised
                                  /\ KeyIn(kind, Obs(j)) = KeyIn(kind, o)
                                  /\ o.ts - Obs(j).ts < IntervalOf(c)
  BY RepeatsOf
<1> QED BY <1>2, <1>3, <1>4 DEF RaisedAt, TimesOf, Mine

(* What was said of the last observation, and what was not. *)
LEMMA AlertJudged ==
  ASSUME NEW i, NEW o, LastIs(i, o), NEW kind \in TableKinds, NEW c \in AlertsOf(kind),
         NEW h, Grows(h, processed[i], processed, i), NEW R, Judged(h, processed[i], processed, R)
  PROVE  /\ c \in processed[i].raised =>
              /\ \/ c = "RATIO" /\ "sources" \in R
                 \/ c = "BEACON" /\ "pairs" \in R
                 \/ Fact(c, i)
              /\ c # "BEACON" => \A j \in 1 .. i - 1 : ~Repeats(c, j, i)
         /\ R = {} /\ c \notin processed[i].raised /\ Noticeable(c, i) =>
              \E j \in 1 .. i - 1 : Repeats(c, j, i)
<1> DEFINE k == KeyIn(kind, o)
           raised == processed[i].raised
<1>1. processed[i].obs = o /\ o.ts \in Nat
  BY LastTyped DEF LastIs, Obs
<1>2. PICK v : /\ raised \cap AlertsOf(kind) = v.raised
               /\ Outcome(kind, v, h, processed, o, o.ts, R)
  BY <1>1 DEF Judged
<1>3. c \in raised <=> c \in v.raised
  BY <1>2
<1>4. (\E j \in 1 .. i - 1 : Repeats(c, j, i))
         <=> \E r \in RaisedAt(kind, h, k, c) : o.ts - r < IntervalOf(c)
  BY RepeatsRaised
<1> HIDE DEF raised, k
<1>5. CASE v.raised = {} /\ (Relevant(kind, o) => ~Whole(kind, R))
  <2>1. R = {} => ~Noticeable(c, i)
    BY <1>5, UnconcernedSilent DEF Whole
  <2> QED BY <1>3, <1>5, <2>1 DEF raised
<1>6. ASSUME Relevant(kind, o), NEW s, Told(kind, v, h, processed, o, o.ts, R, s)
      PROVE  /\ c \in raised =>
                  /\ \/ c = "RATIO" /\ "sources" \in R
                     \/ c = "BEACON" /\ "pairs" \in R
                     \/ Fact(c, i)
                  /\ c # "BEACON" => \A j \in 1 .. i - 1 : ~Repeats(c, j, i)
             /\ R = {} /\ c \notin raised /\ Noticeable(c, i) =>
                  \E j \in 1 .. i - 1 : Repeats(c, j, i)
  <2> DEFINE claims == ClaimsOf(kind, s, o)
             last == s.gates[c]
             past == RaisedAt(kind, h, k, c)
             span == IntervalOf(c)
  <2>1. Says(c, i, claims, R)
    <3>1. EntryIs0(kind, s, KeyIn(kind, o), processed, o.ts, R) /\ Current(kind, s, o, o.ts, R)
      BY <1>6 DEF Told
    <3> QED BY <1>6, <3>1, EntrySays
  <2>2. AlertGateOK(last, past, o.ts, span, c # "BEACON") /\ span \in Nat
    BY <1>6, IntervalsFit DEF Told, GatesOK, k
  <2>3. c \in raised <=> c \in claims /\ Allows(last, o.ts, span)
    BY <1>3, <1>6 DEF Told
  <2> HIDE DEF claims, last, past, span
  <2>4. /\ ~Allows(last, o.ts, span) => \E r \in past : o.ts - r < span
        /\ Allows(last, o.ts, span) /\ c # "BEACON" => \A r \in past : ~(o.ts - r < span)
    <3> DEFINE spaced == c # "BEACON"
               now == o.ts
    <3>1. AlertGateOK(last, past, now, span, spaced) /\ span \in Nat /\ spaced \in BOOLEAN /\ now \in Nat /\ now <= now
      BY <1>1, <2>2
    <3> HIDE DEF spaced, now
    <3>2. /\ ~Allows(last, now, span) => \E r \in past : now - r < span
          /\ Allows(last, now, span) /\ spaced => \A r \in past : ~(now - r < span)
      BY <3>1, AlertGateLets
    <3> QED BY <3>2 DEF spaced, now
  <2>5. (\E j \in 1 .. i - 1 : Repeats(c, j, i)) <=> \E r \in past : o.ts - r < span
    BY <1>4 DEF past, span
  <2>6. /\ c \in claims => \/ c = "RATIO" /\ "sources" \in R
                           \/ c = "BEACON" /\ "pairs" \in R
                           \/ Fact(c, i)
        /\ R = {} /\ Noticeable(c, i) => c \in claims
    BY <2>1 DEF Says
  <2> QED BY <2>3, <2>4, <2>5, <2>6
<1> QED BY <1>2, <1>5, <1>6 DEF Outcome, raised

LEMMA ExactInvImplies == ExactInv => AlertsExact
<1> SUFFICES ASSUME ExactInv PROVE AlertsExact
  OBVIOUS
<1> DEFINE i == Len(processed)
           o == Obs(i)
           R == engine.refused
<1>1. processed \in Seq(Taken)
  BY DEF ExactInv, HeldInv, OrderInv, HeldTyped
<1>2. DOMAIN processed = 1 .. i /\ i \in Nat
  BY <1>1
<1>3. ASSUME i > 0, InOrder(i)
      PROVE  /\ processed[i].raised \subseteq Alerts
             /\ \E h : Grows(h, processed[i], processed, i) /\ Judged(h, processed[i], processed, R)
  <2>1. \A j : Obs(j) = At(processed, j)
    BY DEF Obs, At
  <2>2. InOrderOf(processed)
    BY <1>2, <1>3, <2>1 DEF InOrderOf, InOrder
  <2>3. processed[i].raised \subseteq Alerts
    <3>1. History(processed) /\ i \in DOMAIN processed
      BY <1>1, <1>2, <1>3, HistoryIs
    <3> QED BY <3>1 DEF History
  <2> QED BY <1>3, <2>2, <2>3 DEF ExactInv, LastJudged
<1>4. ASSUME i > 0 PROVE LastIs(i, o)
  BY <1>1, <1>4 DEF LastIs
<1>5. \A c \in Alerts : \E kind \in TableKinds : c \in AlertsOf(kind)
  BY DEF Alerts, TableKinds, AlertsOf
<1> HIDE DEF i, o, R
<1>6. ASSUME i > 0, InOrder(i), NEW c \in Alerts
      PROVE  /\ c \in processed[i].raised =>
                  /\ \/ c = "RATIO" /\ "sources" \in R
                     \/ c = "BEACON" /\ "pairs" \in R
                     \/ Fact(c, i)
                  /\ c # "BEACON" => \A j \in 1 .. i - 1 : ~Repeats(c, j, i)
             /\ R = {} /\ c \notin processed[i].raised /\ Noticeable(c, i) =>
                  \E j \in 1 .. i - 1 : Repeats(c, j, i)
  <2>1. PICK h : Grows(h, processed[i], processed, i) /\ Judged(h, processed[i], processed, R)
    BY <1>3, <1>6
  <2>2. PICK kind \in TableKinds : c \in AlertsOf(kind)
    BY <1>5
  <2>3. LastIs(i, o)
    BY <1>4, <1>6
  <2> QED BY <2>1, <2>2, <2>3, AlertJudged
<1>7. AlertsTrue
  <2>1. i > 0 /\ InOrder(i) =>
          \A c \in processed[i].raised :
            /\ \/ c = "RATIO" /\ "sources" \in R
               \/ c = "BEACON" /\ "pairs" \in R
               \/ Fact(c, i)
            /\ c # "BEACON" => \A j \in 1 .. i - 1 : ~Repeats(c, j, i)
    BY <1>3, <1>6
  <2> QED BY <2>1 DEF AlertsTrue, i, R
<1>8. NothingMissed
  <2>1. i > 0 /\ InOrder(i) /\ R = {} =>
          \A c \in Alerts \ processed[i].raised :
            Noticeable(c, i) => \E j \in 1 .. i - 1 : Repeats(c, j, i)
    BY <1>6
  <2> QED BY <2>1 DEF NothingMissed, i, R
<1> QED BY <1>7, <1>8 DEF AlertsExact

(* Of any sequence of observations that is in order, over any number of    *)
(* sources, pairs and domains and with tables and sets of any size: what   *)
(* an alert of behavior.rs says of the last window was so, alerts of one   *)
(* kind about one thing are an interval apart, and while no table or set   *)
(* has been full none that the window calls for is missed.                 *)
THEOREM AlertsAlwaysExact == Spec => []AlertsExact
<1>1. Init => ExactInv
  BY InitExactInv
<1>2. ExactInv /\ [Next]_vars => ExactInv'
  BY NextExactInv
<1>3. ExactInv => AlertsExact
  BY ExactInvImplies
<1> QED BY <1>1, <1>2, <1>3, PTL DEF Spec

-----------------------------------------------------------------------------
(* Hot reload: the parts of the inductive invariant. *)

BumpOf(f) == IF f = "rules" THEN "bumpRules" ELSE "bumpIntel"

(* store() puts the value in the slot first: the generation never runs     *)
(* ahead of the publications, and is behind only within a store().         *)
Stored ==
  \A f \in Files : gen[f] >= 1 /\ gen[f] = slot[f].n + (IF rpc = BumpOf(f) THEN 0 ELSE 1)

(* A generation read is one that was reached, and within get() it is the   *)
(* slot's or an earlier one.                                               *)
Reached ==
  \A w \in Workers :
    /\ \A f \in Files : asof[w][f] <= gen[f]
    /\ wpc[w] = "load" => asof[w]["rules"] <= got[w] /\ got[w] <= gen["rules"]
    /\ wpc[w] = "take" => got[w] <= gen["intel"]

(* From its refresh on, a packet has rules no older than itself. *)
RulesTaken ==
  \A w \in Workers :
    wpc[w] \in {"intel", "get", "take", "install", "inspect"} =>
      cached[w]["rules"].val.n + 1 >= asof[w]["rules"]

(* The gate marks a generation before it loads the slot. *)
GateMarked ==
  /\ gasof <= gen["rules"] /\ ggen <= gen["rules"]
  /\ gpc = "load" => gasof <= ggen

CachesKept == \A w \in Workers, f \in Files : cached[w][f].val.n + 1 >= cached[w][f].gen
GateKept   == gpc # "load" => gcur.n + 1 >= ggen
GateFresh  == gpc = "judge" => gcur.n + 1 >= gasof

WorkersInv == CachesKept /\ Reached /\ RulesTaken
GateInv    == GateMarked /\ GateKept /\ GateFresh

ReloadInv == ReloadTypeOK /\ Stored /\ WorkersInv /\ GateInv
-----------------------------------------------------------------------------
(* The invariant contains what the runs check. *)
LEMMA ReloadInvImplies == ReloadInv => ReadersCurrent
BY DEF ReloadInv, ReadersCurrent, WorkersInv, GateInv, CachesKept, GateKept, GateFresh, RulesTaken,
       GenerationKept, RulesFresh, Files

LEMMA InitReloadInv == ReloadInit => ReloadInv
<1> SUFFICES ASSUME ReloadInit PROVE ReloadInv
  OBVIOUS
<1>1. ReloadTypeOK
  BY DEF ReloadInit, ReloadTypeOK, Value, First, Flags
<1>2. Stored
  BY DEF ReloadInit, Stored, BumpOf, First, Files
<1>3. WorkersInv
  BY DEF ReloadInit, WorkersInv, CachesKept, Reached, RulesTaken, First, Files
<1>4. GateInv
  BY DEF ReloadInit, GateInv, GateMarked, GateKept, GateFresh, First, Files
<1> QED
  BY <1>1, <1>2, <1>3, <1>4 DEF ReloadInv

-----------------------------------------------------------------------------
(* Signals and what passes them on touch the flags and nothing else. *)
FlagStep == (\E hup \in BOOLEAN : Signal(hup)) \/ HandlerEnds \/ Bridge \/ Reopen

LEMMA FlagSteps ==
  FlagStep => UNCHANGED <<files, running, rpc, seen, hot, worker, gate>>
<1>1. ASSUME NEW x \in Flags, BridgeSwap(x) \/ BridgeStore(x)
      PROVE  UNCHANGED <<files, running, rpc, seen, hot, worker, gate>>
  BY <1>1 DEF BridgeSwap, BridgeStore, Bridging
<1> QED
  BY <1>1 DEF FlagStep, Signal, HandlerEnds, Bridge, Reopen

FileStep ==
  \/ \E f \in Files, good \in BOOLEAN : Rewrite(f, good)
  \/ \E f \in Files : Vanish(f)
  \/ \E f \in Files, same \in BOOLEAN : Return(f, same)
  \/ Stop

LEMMA FileSteps == FileStep => UNCHANGED <<sigs, rpc, seen, hot, worker, gate>>
<1> DEFINE Apart == UNCHANGED <<sigs, rpc, seen, hot, worker, gate>>
<1>1. ASSUME NEW f \in Files, NEW good \in BOOLEAN, Rewrite(f, good) PROVE Apart
  BY <1>1, Zenon DEF Rewrite
<1>2. ASSUME NEW f \in Files, Vanish(f) PROVE Apart
  BY <1>2, Zenon DEF Vanish
<1>3. ASSUME NEW f \in Files, NEW same \in BOOLEAN, Return(f, same) PROVE Apart
  BY <1>3, Zenon DEF Return
<1>4. ASSUME Stop PROVE Apart
  BY <1>4 DEF Stop
<1> HIDE DEF Apart
<1>5. FileStep => Apart
  BY <1>1, <1>2, <1>3, <1>4, Zenon DEF FileStep
<1> QED
  BY <1>5 DEF Apart

LEMMA OutsideSteps == Outside => FlagStep \/ FileStep
BY Zenon DEF Outside, FlagStep, FileStep

(* Type correctness, an action at a time. *)

Stamp == [ver : Nat, good : BOOLEAN, there : BOOLEAN]

LEMMA TypeStep == ReloadTypeOK /\ [ReloadNext]_reloadVars => ReloadTypeOK'
<1> SUFFICES ASSUME ReloadTypeOK, [ReloadNext]_reloadVars PROVE ReloadTypeOK'
  OBVIOUS
<1> USE DEF ReloadTypeOK
<1>1. ASSUME NEW f \in Files, NEW good \in BOOLEAN, Rewrite(f, good) PROVE ReloadTypeOK'
  <2>1. disk' = [disk EXCEPT ![f] = [[disk[f] EXCEPT !.ver = disk[f].ver + 1] EXCEPT !.good = good]]
    BY <1>1, Zenon DEF Rewrite
  <2>2. disk[f] \in Stamp /\ disk[f].ver + 1 \in Nat
    BY DEF Stamp
  <2>3. [[disk[f] EXCEPT !.ver = disk[f].ver + 1] EXCEPT !.good = good] \in Stamp
    BY <2>2, Zenon DEF Stamp
  <2>4. disk' \in [Files -> Stamp] /\ edits' \in Nat
    BY <1>1, <2>1, <2>3 DEF Rewrite, Stamp
  <2> QED
    BY <1>1, <2>4 DEF Rewrite, Stamp, sigs, flags, hot, worker, gate
<1>2. ASSUME NEW f \in Files, Vanish(f) PROVE ReloadTypeOK'
  <2>1. disk' = [disk EXCEPT ![f] = [disk[f] EXCEPT !.there = FALSE]]
    BY <1>2, Zenon DEF Vanish
  <2>2. disk[f] \in Stamp
    BY DEF Stamp
  <2>3. [disk[f] EXCEPT !.there = FALSE] \in Stamp
    BY <2>2, Zenon DEF Stamp
  <2>4. disk' \in [Files -> Stamp] /\ edits' \in Nat
    BY <1>2, <2>1, <2>3 DEF Vanish, Stamp
  <2> QED
    BY <1>2, <2>4 DEF Vanish, Stamp, sigs, flags, hot, worker, gate
<1>3. ASSUME NEW f \in Files, NEW same \in BOOLEAN, Return(f, same) PROVE ReloadTypeOK'
  <2> DEFINE ver  == IF same THEN disk[f].ver ELSE disk[f].ver + 1
             good == IF same THEN disk[f].good ELSE TRUE
  <2>1. disk' = [disk EXCEPT ![f] = [[[disk[f] EXCEPT !.there = TRUE] EXCEPT !.ver = ver] EXCEPT !.good = good]]
    BY <1>3, Zenon DEF Return
  <2>2. disk[f] \in Stamp /\ disk[f].ver \in Nat /\ disk[f].ver + 1 \in Nat /\ disk[f].good \in BOOLEAN
    BY DEF Stamp
  <2>3. ver \in Nat /\ good \in BOOLEAN
    BY <2>2, Zenon
  <2>4. [[[disk[f] EXCEPT !.there = TRUE] EXCEPT !.ver = ver] EXCEPT !.good = good] \in Stamp
    <3> HIDE DEF ver, good
    <3> QED BY <2>2, <2>3, Zenon DEF Stamp
  <2>5. disk' \in [Files -> Stamp]
    BY <2>1, <2>4 DEF Stamp
  <2> QED
    BY <1>3, <2>5 DEF Return, Stamp, sigs, flags, hot, worker, gate
<1>4. ASSUME NEW hup \in BOOLEAN, Signal(hup) \/ HandlerEnds PROVE ReloadTypeOK'
  <2>1. ASSUME NEW x \in Flags, Raise(x) PROVE signalled' \in [Flags -> BOOLEAN] /\ owed' \subseteq Flags
    BY <2>1 DEF Raise
  <2>2. \E x \in Flags : Raise(x)
    BY <1>4, Zenon DEF Signal, HandlerEnds, Flags
  <2>3. signals' \in Nat /\ handling' \in Nat /\ UNCHANGED <<bpc, shared>>
    BY <1>4 DEF Signal, HandlerEnds
  <2>4. UNCHANGED <<files, running, rpc, seen, hot, worker, gate>>
    BY <1>4, FlagSteps, Zenon DEF FlagStep
  <2> QED
    BY <2>1, <2>2, <2>3, <2>4 DEF files, hot, worker, gate
<1>5. CASE Stop
  BY <1>5 DEF Stop, files, sigs, flags, hot, worker, gate
<1>6. CASE Bridge
  <2>1. \A x \in Flags : NextFlag(x) \in [at : {"swap", "store"}, flag : Flags]
    BY DEF NextFlag, Flags
  <2>2. ASSUME NEW x \in Flags, BridgeSwap(x) \/ BridgeStore(x)
        PROVE  /\ signalled' \in [Flags -> BOOLEAN] /\ shared' \in [Flags -> BOOLEAN]
               /\ bpc' \in [at : {"swap", "store"}, flag : Flags]
    <3>1. CASE BridgeSwap(x)
      BY <2>1, <3>1 DEF BridgeSwap
    <3>2. CASE BridgeStore(x)
      BY <2>1, <3>2 DEF BridgeStore
    <3> QED
      BY <2>2, <3>1, <3>2
  <2>3. UNCHANGED <<signals, handling, owed>>
    BY <1>6 DEF Bridge, BridgeSwap, BridgeStore, Bridging
  <2>4. UNCHANGED <<files, running, rpc, seen, hot, worker, gate>>
    BY <1>6, FlagSteps, Zenon DEF FlagStep
  <2> QED
    BY <1>6, <2>2, <2>3, <2>4 DEF Bridge, files, hot, worker, gate
<1>7. CASE Reopen
  BY <1>7 DEF Reopen, Flags, files, hot, worker, gate
<1>8. CASE WatchNew
  BY <1>8 DEF WatchNew, Goto, files, sigs, flags, hot, worker, gate
<1>9. CASE Poll
  <2>1. rpc' \in {"poll", "rules", "done"} /\ shared' \in [Flags -> BOOLEAN]
    BY <1>9 DEF Poll, Goto
  <2>2. seen' \in [Files -> Nat]
    <3>1. \A f \in Files : disk[f].ver \in Nat
      OBVIOUS
    <3>2. UNCHANGED seen \/ seen' = [f \in Files |-> IF Changed(f) THEN disk[f].ver ELSE seen[f]]
      BY <1>9, Zenon DEF Poll
    <3> QED
      BY <3>1, <3>2
  <2>3. UNCHANGED <<files, signals, signalled, handling, bpc, owed, running, hot, worker, gate>>
    BY <1>9, Zenon DEF Poll
  <2> QED
    BY <2>1, <2>2, <2>3 DEF files, hot, worker, gate
<1>10. CASE LoadRules
  BY <1>10 DEF LoadRules, Publish, Goto, Value, Files, files, sigs, flags, worker, gate
<1>11. CASE LoadIntel
  BY <1>11 DEF LoadIntel, Publish, Goto, Value, Files, files, sigs, flags, worker, gate
<1>12. ASSUME NEW f \in Files, NEW at, NEW to \in {"poll", "intel"}, Bump(f, at, to)
       PROVE  ReloadTypeOK'
  BY <1>12 DEF Bump, Goto, files, sigs, flags, worker, gate
<1>13. ASSUME NEW w \in Workers, Packet(w) PROVE ReloadTypeOK'
  BY <1>13 DEF Packet, Step, Others, files, sigs, flags, hot, gate
<1>14. ASSUME NEW w \in Workers, NEW f \in Files, NEW from,
              NEW moved \in {"load", "take"}, NEW same \in {"intel", "install"},
              Check(w, f, from, moved, same)
       PROVE  ReloadTypeOK'
  <2>1. wpc' \in [Workers -> {"off", "idle", "rules", "load", "intel", "get", "take", "install", "inspect"}]
        /\ got' \in [Workers -> Nat]
    <3> DEFINE other == gen[f] # cached[w][f].gen
    <3>1. IF other THEN Step(w, from, moved) /\ got' = [got EXCEPT ![w] = gen[f]]
                   ELSE Step(w, from, same) /\ UNCHANGED got
      BY <1>14 DEF Check
    <3> HIDE DEF other
    <3>2. CASE other
      <4>1. wpc' = [wpc EXCEPT ![w] = moved] /\ got' = [got EXCEPT ![w] = gen[f]]
        BY <3>1, <3>2 DEF Step
      <4>2. gen[f] \in Nat
        OBVIOUS
      <4> QED BY <4>1, <4>2
    <3>3. CASE ~other
      <4>1. wpc' = [wpc EXCEPT ![w] = same] /\ got' = got
        BY <3>1, <3>3 DEF Step
      <4> QED BY <4>1
    <3> QED BY <3>2, <3>3
  <2> QED
    BY <1>14, <2>1 DEF Check, Others, files, sigs, flags, hot, gate
<1>15. ASSUME NEW w \in Workers, NEW f \in Files, NEW from, NEW to \in {"intel", "install"},
              Refresh(w, f, from, to)
       PROVE  ReloadTypeOK'
  <2>1. wpc' \in [Workers -> {"off", "idle", "rules", "load", "intel", "get", "take", "install", "inspect"}]
        /\ got' \in [Workers -> Nat]
    BY <1>15 DEF Refresh, Step
  <2>2. cached' \in [Workers -> [Files -> [gen : Nat, val : Value]]]
    BY <1>15 DEF Refresh
  <2> QED
    BY <1>15, <2>1, <2>2 DEF Refresh, Others, files, sigs, flags, hot, gate
<1>16. ASSUME NEW w \in Workers, IntelCheck(w) \/ IntelInstall(w) \/ Inspect(w) PROVE ReloadTypeOK'
  <2>1. CASE IntelCheck(w)
    BY <2>1 DEF IntelCheck, Step, Others, files, sigs, flags, hot, gate
  <2>2. CASE IntelInstall(w)
    BY <2>2 DEF IntelInstall, Step, Others, Files, files, sigs, flags, hot, gate
  <2>3. CASE Inspect(w)
    BY <2>3 DEF Inspect, Step, Others, files, sigs, flags, hot, gate
  <2> QED
    BY <1>16, <2>1, <2>2, <2>3
<1>17. CASE Gate
  BY <1>17 DEF Gate, Alert, GateMark, GateLoad, Judge, Files, files, sigs, flags, hot, worker
<1>18. CASE UNCHANGED reloadVars
  BY <1>18 DEF reloadVars, files, sigs, flags, hot, worker, gate
<1>19. CASE Outside
  BY <1>1, <1>2, <1>3, <1>4, <1>5, <1>19 DEF Outside
<1>20. CASE Reloader
  BY <1>8, <1>9, <1>10, <1>11, <1>12, <1>20 DEF Reloader, Files
<1>21. ASSUME NEW w \in Workers, Worker(w) PROVE ReloadTypeOK'
  BY <1>13, <1>14, <1>15, <1>16, <1>21 DEF Worker, Files
<1> QED
  BY <1>6, <1>7, <1>17, <1>18, <1>19, <1>20, <1>21 DEF ReloadNext

-----------------------------------------------------------------------------
(* Most steps leave the hot slots alone; those that do not are the         *)
(* reloader's.  A publication numbers on from the last, and a generation   *)
(* never falls.                                                            *)

LEMMA StoredStep ==
  ASSUME ReloadInv, [ReloadNext]_reloadVars
  PROVE  /\ Stored'
         /\ \A f \in Files : gen'[f] \in Nat /\ gen'[f] >= gen[f]
<1> DEFINE Grown == Stored' /\ \A f \in Files : gen'[f] \in Nat /\ gen'[f] >= gen[f]
<1> USE DEF ReloadInv, ReloadTypeOK
<1>1. ASSUME UNCHANGED <<hot, rpc>> PROVE Grown
  BY <1>1 DEF Stored, hot
<1>2. ASSUME UNCHANGED hot, rpc \in {"start", "poll"}, rpc' \in {"poll", "rules", "done"} PROVE Grown
  BY <1>2 DEF Stored, hot, BumpOf, Files
<1>3. CASE LoadRules
  BY <1>3 DEF LoadRules, Publish, Goto, Stored, BumpOf, Files, Value
<1>4. CASE LoadIntel
  BY <1>4 DEF LoadIntel, Publish, Goto, Stored, BumpOf, Files, Value
<1>5. CASE Bump("rules", "bumpRules", "intel") \/ Bump("intel", "bumpIntel", "poll")
  BY <1>5 DEF Bump, Goto, Stored, BumpOf, Files, Value
<1>6. CASE Reloader
  <2>1. ASSUME WatchNew \/ Poll PROVE Grown
    BY <2>1, <1>2 DEF WatchNew, Poll, Goto
  <2> QED
    BY <1>3, <1>4, <1>5, <1>6, <2>1 DEF Reloader
<1>7. CASE FlagStep
  BY <1>1, <1>7, FlagSteps
<1>8. CASE FileStep
  BY <1>1, <1>8, FileSteps
<1>11. CASE Gate
  BY <1>1, <1>11 DEF Gate, Alert, GateMark, GateLoad, Judge
<1>9. ASSUME NEW w \in Workers, Worker(w) PROVE Grown
  BY <1>1, <1>9 DEF Worker, Packet, Check, Refresh, IntelCheck, IntelInstall, Inspect, Others
<1>10. CASE UNCHANGED reloadVars
  BY <1>1, <1>10 DEF reloadVars
<1> QED
  BY <1>6, <1>7, <1>8, <1>9, <1>10, <1>11, OutsideSteps, Zenon DEF ReloadNext, FlagStep

(* A step that leaves the workers alone keeps their part: generations only *)
(* grow.                                                                   *)
LEMMA WorkersIdle ==
  ASSUME ReloadInv, UNCHANGED worker, \A f \in Files : gen'[f] \in Nat /\ gen'[f] >= gen[f]
  PROVE  WorkersInv'
<1> USE DEF ReloadInv, ReloadTypeOK, WorkersInv, worker
<1>1. CachesKept' /\ RulesTaken'
  BY DEF CachesKept, RulesTaken
<1>2. Reached'
  BY DEF Reached, Files
<1> QED
  BY <1>1, <1>2

(* A worker's own step. *)
LEMMA WorkersStep ==
  ASSUME ReloadInv, NEW w \in Workers, Worker(w)
  PROVE  WorkersInv'
<1> USE DEF ReloadInv, ReloadTypeOK, WorkersInv, Files, Value
<1> UNCHANGED hot
  BY DEF Worker, Packet, Check, Refresh, IntelCheck, IntelInstall, Inspect, Others
<1>1. CASE Packet(w)
  BY <1>1 DEF Packet, Step, CachesKept, Reached, RulesTaken, Others, hot
<1>2. CASE Check(w, "rules", "rules", "load", "intel")
  <2>1. CachesKept'
    BY <1>2 DEF Check, CachesKept
  <2>2. Reached'
    <3>1. CASE gen["rules"] = cached[w]["rules"].gen
      BY <1>2, <3>1 DEF Check, Step, Reached, hot
    <3>2. CASE gen["rules"] # cached[w]["rules"].gen
      BY <1>2, <3>2 DEF Check, Step, Reached, hot
    <3> QED
      BY <3>1, <3>2
  <2>3. RulesTaken'
    <3>1. CASE gen["rules"] = cached[w]["rules"].gen
      <4>1. cached[w]["rules"].val.n + 1 >= asof[w]["rules"]
        BY <3>1 DEF CachesKept, Reached
      <4> QED
        BY <1>2, <3>1, <4>1 DEF Check, Step, RulesTaken
    <3>2. CASE gen["rules"] # cached[w]["rules"].gen
      BY <1>2, <3>2, SMTT(30) DEF Check, Step, RulesTaken
    <3> QED
      BY <3>1, <3>2
  <2> QED
    BY <2>1, <2>2, <2>3
<1>3. CASE Refresh(w, "rules", "load", "intel")
  BY <1>3 DEF Refresh, Step, CachesKept, Reached, RulesTaken, Stored, Others, hot
<1>4. CASE Check(w, "intel", "get", "take", "install")
  <2>1. CachesKept'
    BY <1>4 DEF Check, CachesKept
  <2>2. Reached'
    <3>1. CASE gen["intel"] = cached[w]["intel"].gen
      BY <1>4, <3>1 DEF Check, Step, Reached, hot
    <3>2. CASE gen["intel"] # cached[w]["intel"].gen
      <4>1. wpc' = [wpc EXCEPT ![w] = "take"] /\ got' = [got EXCEPT ![w] = gen["intel"]]
        BY <1>4, <3>2 DEF Check, Step
      <4>2. UNCHANGED <<asof, gen>>
        BY <1>4 DEF Check, Others, hot
      <4> QED
        BY <4>1, <4>2 DEF Reached
    <3> QED
      BY <3>1, <3>2
  <2>3. RulesTaken'
    <3>1. CASE gen["intel"] = cached[w]["intel"].gen
      BY <1>4, <3>1 DEF Check, Step, RulesTaken
    <3>2. CASE gen["intel"] # cached[w]["intel"].gen
      BY <1>4, <3>2 DEF Check, Step, RulesTaken
    <3> QED
      BY <3>1, <3>2
  <2> QED
    BY <2>1, <2>2, <2>3
<1>5. CASE Refresh(w, "intel", "take", "install")
  BY <1>5 DEF Refresh, Step, CachesKept, Reached, RulesTaken, Stored, Others, hot
<1>6. CASE IntelCheck(w) \/ IntelInstall(w) \/ Inspect(w)
  <2>1. CachesKept' /\ RulesTaken'
    <3>1. CASE IntelCheck(w)
      BY <3>1 DEF IntelCheck, Step, CachesKept, RulesTaken
    <3>2. CASE IntelInstall(w)
      BY <3>2 DEF IntelInstall, Step, CachesKept, RulesTaken
    <3>3. CASE Inspect(w)
      BY <3>3 DEF Inspect, Step, CachesKept, RulesTaken
    <3> QED
      BY <1>6, <3>1, <3>2, <3>3
  <2>2. Reached'
    <3>1. CASE IntelCheck(w)
      BY <3>1 DEF IntelCheck, Step, Reached, Others, hot
    <3>2. CASE IntelInstall(w)
      BY <3>2 DEF IntelInstall, Step, Reached, Others, hot
    <3>3. CASE Inspect(w)
      BY <3>3 DEF Inspect, Step, Reached, Stored, Others, hot
    <3> QED
      BY <1>6, <3>1, <3>2, <3>3
  <2> QED
    BY <2>1, <2>2
<1> QED
  BY <1>1, <1>2, <1>3, <1>4, <1>5, <1>6 DEF Worker

(* The gate's own step. *)
LEMMA GateStep ==
  ASSUME ReloadInv, Gate
  PROVE  GateInv'
<1> USE DEF ReloadInv, ReloadTypeOK, GateInv, GateMarked, GateKept, GateFresh, Files, Value
<1>1. CASE Alert
  BY <1>1 DEF Alert, hot
<1>2. CASE GateMark
  BY <1>2 DEF GateMark, hot
<1>3. CASE GateLoad
  BY <1>3 DEF GateLoad, Stored, hot
<1>4. CASE Judge
  BY <1>4 DEF Judge, hot, Stored
<1> QED
  BY <1>1, <1>2, <1>3, <1>4 DEF Gate

LEMMA NextReloadInv == ReloadInv /\ [ReloadNext]_reloadVars => ReloadInv'
<1> SUFFICES ASSUME ReloadInv, [ReloadNext]_reloadVars PROVE ReloadInv'
  OBVIOUS
<1>1. ReloadTypeOK' /\ Stored' /\ \A f \in Files : gen'[f] \in Nat /\ gen'[f] >= gen[f]
  BY TypeStep, StoredStep DEF ReloadInv
<1>2. ASSUME UNCHANGED gate PROVE GateInv'
  BY <1>1, <1>2 DEF ReloadInv, ReloadTypeOK, GateInv, GateMarked, GateKept, GateFresh, Files, gate
<1>3. WorkersInv'
  <2>1. CASE \E w \in Workers : Worker(w)
    BY <2>1, WorkersStep
  <2>2. CASE ~\E w \in Workers : Worker(w)
    <3>1. UNCHANGED worker
      <4>1. CASE FlagStep \/ FileStep
        BY <4>1, FlagSteps, FileSteps
      <4>2. CASE Reloader \/ Gate \/ UNCHANGED reloadVars
        BY <4>2 DEF Reloader, WatchNew, Poll, LoadRules, LoadIntel, Bump, Gate, Alert, GateMark, GateLoad,
                    Judge, reloadVars
      <4> QED
        BY <2>2, <4>1, <4>2, OutsideSteps, Zenon DEF ReloadNext, FlagStep
    <3> QED
      BY <3>1, <1>1, WorkersIdle
  <2> QED
    BY <2>1, <2>2
<1>4. GateInv'
  <2>1. CASE Gate
    BY <2>1, GateStep
  <2>2. CASE ~Gate
    <3>1. UNCHANGED gate
      <4>1. CASE FlagStep \/ FileStep
        BY <4>1, FlagSteps, FileSteps
      <4>2. CASE Reloader \/ (\E w \in Workers : Worker(w)) \/ UNCHANGED reloadVars
        BY <4>2 DEF Reloader, WatchNew, Poll, LoadRules, LoadIntel, Bump, Worker, Packet, Check, Refresh,
                    IntelCheck, IntelInstall, Inspect, Others, reloadVars
      <4> QED
        BY <2>2, <4>1, <4>2, OutsideSteps, Zenon DEF ReloadNext, FlagStep
    <3> QED
      BY <3>1, <1>2
  <2> QED
    BY <2>1, <2>2
<1> QED
  BY <1>1, <1>3, <1>4 DEF ReloadInv

(* Rules and enrichment are replaced under the readers' feet without a     *)
(* reader ever marking a generation whose value it does not hold, or       *)
(* judging a packet or an alert by rules older than itself.                *)
THEOREM AlwaysCurrent == ReloadSpec => []ReadersCurrent
<1>1. ReloadSpec => []ReloadInv
  BY InitReloadInv, NextReloadInv, PTL DEF ReloadSpec
<1> QED
  BY <1>1, ReloadInvImplies, PTL
=============================================================================
