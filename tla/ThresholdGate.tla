--------------------------- MODULE ThresholdGate ---------------------------
(***************************************************************************)
(* The threshold gate: Gate and run_threshold_gate() in src/threshold.rs,  *)
(* the one thread between the workers and the alert writer that counts the *)
(* matches of rules with a threshold and keeps the state rules share       *)
(* between connections (xbits).                                            *)
(*                                                                         *)
(* Alerts come in the order the workers were scheduled in.  Live they are  *)
(* settled as they come; a replay holds those it must count, and settles   *)
(* them in the order of their times at the end, or a batch at a time.  A   *)
(* rule tracks by source or for itself alone; the other ways of tracking   *)
(* differ only in what is in the key.                                      *)
(***************************************************************************)
EXTENDS Integers, Sequences, FiniteSets, SequencesExt

CONSTANTS
  Sids, Sources,   \* numbers
  Rule,            \* sid -> its rule; see Rules
  Bits,            \* names of xbits
  Settings,        \* what the gate may be run on; see Setting
  MaxWindows,      \* MAX_WINDOWS
  Longest,         \* what the gate takes a window to last at most: a day
  Times,           \* times an alert may carry
  MaxReloads, MaxAlerts,   \* bounds on a behaviour
  None             \* no threshold, and the key of Track::Rule

Verbs == {"set", "unset", "toggle", "isset", "isnotset"}
Ops   == [verb : Verbs, name : Bits, track : {"src", "rule"}, expire : Nat \ {0}]
Rules ==
  [kind : {"limit", "every", "both", "over", None}, track : {"src", "rule"},
   count : Nat \ {0}, span : Nat \ {0}, ops : Seq(Ops), noalert : BOOLEAN]

(* Live or in a replay, and then holding so many alerts (MAX_HELD); the    *)
(* rules and sources that alerts come from, and how far behind the newest  *)
(* alert one may be.                                                       *)
Setting ==
  [ordered : BOOLEAN, maxHeld : Nat \ {0}, sids : SUBSET Sids, sources : SUBSET Sources,
   late : Nat]

ASSUME GateAssumption ==
  /\ Sids \subseteq Nat /\ Sources \subseteq Nat
  /\ Rule \in [Sids -> Rules]
  /\ \A s \in Sids : Rule[s].noalert => Rule[s].ops # <<>>
  /\ Settings \subseteq Setting
  /\ MaxWindows \in Nat /\ Longest \in Nat
  /\ Times \subseteq Nat
  /\ MaxReloads \in Nat /\ MaxAlerts \in Nat

(* "Use the longest a window can be": what is discarded for its age is of  *)
(* no use to an alert that may still come.  How late one may be does not   *)
(* matter to a replay that is sorted as a whole.                           *)
OneBatch(s) == s.ordered /\ MaxAlerts < s.maxHeld
Lateness(s) == IF OneBatch(s) THEN 0 ELSE s.late

ASSUME SpanAssumption ==
  \A s \in Settings : \A c \in s.sids : Lateness(s) + Rule[c].span <= Longest

VARIABLES
  setting,
  pc,          \* "run", "batch" and "end" while the held are settled, "done"
  reloads,     \* generation of the rules
  generation,  \* the generation the gate has taken
  windows, bits, newest,   \* Gate
  held,        \* alerts to be settled in order
  passed, withheld,        \* GateStats
  arrived, clock,          \* alerts that came, and the newest time of one
  log,         \* ghost: in a replay, the alerts that were counted, in order
  numbered, reports,       \* ghost: RateControl's, with nothing pruned
  allBits      \* ghost: bits with nothing pruned

gate  == <<windows, bits, newest>>
stats == <<passed, withheld>>
ghost == <<log, numbered, reports, allBits>>
vars == <<setting, pc, reloads, generation, gate, held, stats, arrived, clock, ghost>>

Init ==
  /\ setting \in Settings
  /\ pc = "run" /\ reloads = 0 /\ generation = 0
  /\ windows = <<>> /\ bits = <<>> /\ newest = 0
  /\ held = <<>> /\ passed = 0 /\ withheld = 0
  /\ arrived = 0 /\ clock = 0 /\ log = <<>>
  /\ numbered = <<>> /\ reports = <<>> /\ allBits = <<>>

Alert == [sid : setting.sids, src : setting.sources, ts : Times]

-----------------------------------------------------------------------------
Key(a, track) == IF track = "src" THEN a.src ELSE None
Counter(a) == <<a.sid, Key(a, Rule[a.sid].track)>>
BitKey(a, op) == <<op.name, Key(a, op.track)>>

Restricted(f, S) == [k \in DOMAIN f \cap S |-> f[k]]
Put(f, k, v) == [j \in DOMAIN f \cup {k} |-> IF j = k THEN v ELSE f[j]]
Newer(a, b) == IF a > b THEN a ELSE b

IsSet(b, a, op) == BitKey(a, op) \in DOMAIN b /\ a.ts < b[BitKey(a, op)]

(* xbits_hold() *)
Hold(b, a) ==
  \A i \in DOMAIN Rule[a.sid].ops :
    LET op == Rule[a.sid].ops[i]
    IN  /\ op.verb = "isset" => IsSet(b, a, op)
        /\ op.verb = "isnotset" => ~IsSet(b, a, op)

(* xbits_apply(): the operations in turn, after the bits that have run out *)
(* are discarded if there are too many.                                    *)
Effect(b, a, op) ==
  LET k == BitKey(a, op)
      raised == Put(b, k, a.ts + op.expire)
      cleared == Restricted(b, DOMAIN b \ {k})
  IN  CASE op.verb = "set" -> raised
        [] op.verb = "unset" -> cleared
        [] op.verb = "toggle" -> IF IsSet(b, a, op) THEN cleared ELSE raised
        [] OTHER -> b

Applied(b, a) ==
  LET ops == Rule[a.sid].ops
      after[i \in 0 .. Len(ops)] == IF i = 0 THEN b ELSE Effect(after[i - 1], a, ops[i])
  IN  after[Len(ops)]

KeptBits(b, now) ==
  IF Cardinality(DOMAIN b) >= MaxWindows THEN Restricted(b, {k \in DOMAIN b : b[k] > now}) ELSE b

-----------------------------------------------------------------------------
(* admit(): the alert's window once windows too old have been discarded,   *)
(* if there are too many, and a new one begun, if its own has ended.       *)
Fresh(t) == [start |-> t, count |-> 0, reported |-> FALSE]

KeptWindows(w, now) ==
  IF Cardinality(DOMAIN w) >= MaxWindows
    THEN Restricted(w, {c \in DOMAIN w : now - w[c].start < Longest}) ELSE w

Current(w, a) ==
  LET c == Counter(a)
  IN  IF c \in DOMAIN w /\ a.ts < w[c].start + Rule[a.sid].span THEN w[c] ELSE Fresh(a.ts)

(* Whether the alert is reported, and its window after it was counted. *)
Verdict(r, n, w) ==
  \/ r.kind = "limit" /\ n <= r.count
  \/ r.kind = "every" /\ n >= r.count
  \/ r.kind = "both"  /\ n >= r.count /\ ~w.reported
  \/ r.kind = "over"  /\ n > r.count

(* A slip: the count of `threshold` is not begun again. *)
CountedOn(r, n, w) ==
  [start |-> w.start, count |-> n,
   reported |-> w.reported \/ (r.kind = "both" /\ n >= r.count)]

Counted(r, n, w) ==
  [start |-> w.start,
   count |-> IF r.kind = "every" /\ n >= r.count THEN 0 ELSE n,
   reported |-> w.reported \/ (r.kind = "both" /\ n >= r.count)]

(* The ghost's match, in what is left of it after a reload. *)
Rate == INSTANCE RateControl WITH
  Counters <- Sids \X (Sources \cup {None}), Time <- Times,
  Kind <- [c \in Sids \X (Sources \cup {None}) |-> Rule[c[1]].kind],
  Count <- [c \in Sids \X (Sources \cup {None}) |-> Rule[c[1]].count],
  Span <- [c \in Sids \X (Sources \cup {None}) |-> Rule[c[1]].span]

Number(nn, rr, a, reported) ==
  LET c == Counter(a)
      same == c \in DOMAIN nn /\ a.ts < nn[c].start + Rule[a.sid].span
  IN  /\ numbered' = Put(nn, c, IF same THEN [nn[c] EXCEPT !.n = @ + 1]
                                        ELSE [start |-> a.ts, n |-> 1])
      /\ reports' = Put(rr, c, (IF same THEN rr[c] ELSE 0) + IF reported THEN 1 ELSE 0)

(* settle(), with the gate as w, b and t, and the ghosts beside it. *)
Settle(a, w, b, t, nn, rr, ab) ==
  LET r    == Rule[a.sid]
      now  == Newer(t, a.ts)
      b1   == IF r.ops # <<>> THEN Applied(KeptBits(b, now), a) ELSE b
      w1   == KeptWindows(w, now)
      win  == Current(w1, a)
      n    == win.count + 1
  IN  \/ /\ ~Hold(b, a)
         /\ withheld' = withheld + 1
         /\ windows' = w /\ bits' = b /\ newest' = t
         /\ numbered' = nn /\ reports' = rr /\ allBits' = ab
         /\ UNCHANGED passed
      \/ /\ Hold(b, a)
         /\ bits' = b1
         /\ allBits' = Applied(ab, a)
         /\ newest' = IF r.ops # <<>> \/ (r.kind # None /\ ~r.noalert) THEN now ELSE t
         /\ \/ /\ r.noalert
               /\ windows' = w /\ numbered' = nn /\ reports' = rr
               /\ UNCHANGED stats
            \/ /\ ~r.noalert /\ r.kind = None
               /\ passed' = passed + 1
               /\ windows' = w /\ numbered' = nn /\ reports' = rr
               /\ UNCHANGED withheld
            \/ /\ ~r.noalert /\ r.kind # None
               /\ windows' = Put(w1, Counter(a), Counted(r, n, win))
               /\ Number(nn, rr, a, Verdict(r, n, win))
               /\ IF Verdict(r, n, win)
                    THEN passed' = passed + 1 /\ UNCHANGED withheld
                    ELSE withheld' = withheld + 1 /\ UNCHANGED passed

-----------------------------------------------------------------------------
Reload ==
  /\ reloads < MaxReloads /\ reloads' = reloads + 1
  /\ UNCHANGED <<setting, pc, generation, gate, held, stats, arrived, clock, ghost>>

Batch == Len(held) + 1 >= setting.maxHeld

(* An alert comes.  If the rules have been replaced the gate starts over.  *)
Receive(a) ==
  LET again == generation # reloads
      free  == Rule[a.sid].kind = None /\ Rule[a.sid].ops = <<>>
  IN  /\ pc = "run" /\ arrived < MaxAlerts /\ a.ts >= clock - setting.late
      /\ arrived' = arrived + 1 /\ clock' = Newer(clock, a.ts)
      /\ generation' = reloads
      /\ \/ /\ setting.ordered /\ ~free
            /\ held' = Append(held, a)
            /\ pc' = IF Batch THEN "batch" ELSE pc
            /\ IF again
                 THEN /\ windows' = <<>> /\ bits' = <<>> /\ newest' = 0
                      /\ numbered' = <<>> /\ reports' = <<>> /\ allBits' = <<>>
                 ELSE UNCHANGED <<gate, numbered, reports, allBits>>
            /\ UNCHANGED stats
         \/ /\ ~setting.ordered \/ free
            /\ IF again THEN Settle(a, <<>>, <<>>, 0, <<>>, <<>>, <<>>)
                        ELSE Settle(a, windows, bits, newest, numbered, reports, allBits)
            /\ UNCHANGED <<pc, held>>
      /\ UNCHANGED <<setting, reloads, log>>

Disconnected ==
  /\ pc = "run" /\ pc' = "end"
  /\ UNCHANGED <<setting, reloads, generation, gate, held, stats, arrived, clock, ghost>>

(* The order alerts are counted in under replay. *)
Before(a, b) ==
  \/ a.ts < b.ts
  \/ a.ts = b.ts /\ a.sid < b.sid
  \/ a.ts = b.ts /\ a.sid = b.sid /\ a.src < b.src

(* A slip: the held are not sorted. *)
SettleUnsorted ==
  /\ pc \in {"batch", "end"} /\ held # <<>>
  /\ Settle(held[1], windows, bits, newest, numbered, reports, allBits)
  /\ held' = Tail(held)
  /\ log' = Append(log, held[1])
  /\ UNCHANGED <<setting, pc, reloads, generation, arrived, clock>>

(* The held alert that comes first in it is settled. *)
SettleHeld ==
  /\ pc \in {"batch", "end"}
  /\ \E i \in DOMAIN held :
       /\ \A j \in DOMAIN held : ~Before(held[j], held[i])
       /\ \A j \in 1 .. i - 1 : held[j] # held[i]
       /\ Settle(held[i], windows, bits, newest, numbered, reports, allBits)
       /\ held' = RemoveAt(held, i)
       /\ log' = Append(log, held[i])
  /\ UNCHANGED <<setting, pc, reloads, generation, arrived, clock>>

Settled ==
  /\ pc \in {"batch", "end"} /\ held = <<>>
  /\ pc' = IF pc = "batch" THEN "run" ELSE "done"
  /\ UNCHANGED <<setting, reloads, generation, gate, held, stats, arrived, clock, ghost>>

Next == Reload \/ (\E a \in Alert : Receive(a)) \/ Disconnected \/ SettleHeld \/ Settled

Spec == Init /\ [][Next]_vars

-----------------------------------------------------------------------------
Window == [start : Nat, count : Nat, reported : BOOLEAN]

TypeOK ==
  /\ setting \in Settings
  /\ pc \in {"run", "batch", "end", "done"}
  /\ reloads \in Nat /\ generation \in Nat /\ newest \in Nat
  /\ windows \in [DOMAIN windows -> Window] /\ bits \in [DOMAIN bits -> Nat]
  /\ held \in Seq(Alert) /\ Len(held) <= setting.maxHeld
  /\ passed \in Nat /\ withheld \in Nat

(* A counter that is reset, capped or discarded in a table of windows does *)
(* what numbering every match would: the README's table of forms.          *)
ImplementsRateControl == Rate!Spec

(* No bit is lost before it runs out, however many there are: while alerts *)
(* come in order, a bit that is still on is as if none had been discarded. *)
BitsKept ==
  setting.late = 0 =>
    /\ \A k \in DOMAIN bits : k \in DOMAIN allBits /\ bits[k] = allBits[k]
    /\ \A k \in DOMAIN allBits : allBits[k] > newest => k \in DOMAIN bits

(* "under replay the stage holds the alerts it must count and processes    *)
(* them in capture-time order, so the same capture always gives the same   *)
(* alerts": whatever order they came in, they are counted in the one order *)
(* that their own fields give, so long as one batch holds them.            *)
CountedInOrder ==
  MaxAlerts < setting.maxHeld => \A i, j \in DOMAIN log : i < j => ~Before(log[j], log[i])

(* The gate's state at any moment: bits last as long as they were set for, *)
(* and a replay is counted in its own order.                               *)
GateSound == TypeOK /\ BitsKept /\ CountedInOrder
=============================================================================
