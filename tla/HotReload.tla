------------------------------ MODULE HotReload ------------------------------
(***************************************************************************)
(* Replacing rules and enrichment while packets are being inspected:       *)
(* Hot, Cached, Watch and the signal bridge of src/reload.rs, the reloader *)
(* thread and the worker's refresh of src/main.rs, and the refresh of the  *)
(* threshold gate in src/threshold.rs.                                     *)
(*                                                                         *)
(* store() puts a value in the slot and then moves the generation; a       *)
(* reader looks at the generation and takes the slot only if it moved.     *)
(* Each of these is a step, so that every interleaving of the reloader,    *)
(* the workers and the gate is a behaviour.  A publication is numbered, so *)
(* generation g promises publication g - 1 or a later one.                 *)
(***************************************************************************)
EXTENDS Integers

CONSTANTS
  Workers,
  Budgets,           \* who reads, and bounds on the edits made and the signals sent
  EarlyEdits,        \* a file may change before the reloader's Watch exists
  SameReturns        \* a file that vanished may return as it was

ASSUME ReloadAssumption ==
  /\ Budgets \subseteq [packets : BOOLEAN, alerts : BOOLEAN, edits : Nat, signals : Nat]
  /\ EarlyEdits \in BOOLEAN /\ SameReturns \in BOOLEAN

Files == {"rules", "intel"}
Flags == {"reload", "reopen"}

(* What is published: the n-th publication, made of version ver of a file; *)
(* version 0 is a set with nothing in it.                                  *)
Value == [n : Nat, ver : Nat]
First == [n |-> 0, ver |-> 1]

VARIABLES
  disk,        \* file -> its version, whether it parses, whether it is there
  edits, signals,
  running,     \* the running flag
  signalled,   \* RELOAD and REOPEN, set by the signal handlers
  handling,    \* handlers of SIGHUP between their two stores
  bpc,         \* where the bridge is: at which flag, at its swap or its store
  shared,      \* the flags the bridge sets and the threads poll
  owed,        \* ghost: what was asked for and not begun since
  rpc,         \* where the reloader is
  seen,        \* Watch: the version last stamped
  slot, gen,   \* Hot: one per file
  wpc,         \* where each worker is, or "off" if it gets no packets
  got,         \* the generation read by a get() in progress
  cached,      \* Cached: worker -> file -> generation and value
  mark,        \* intel_generation
  table,       \* the intel set installed in the worker's tables
  asof,        \* ghost: the generations when the packet came in
  gpc, ggen, gcur, gasof   \* the gate: place ("off": no alerts), generation, current, ghost

files   == <<disk, edits>>
flags   == <<signalled, handling, bpc, shared>>
sigs    == <<signals, flags, owed>>
hot     == <<slot, gen>>
worker  == <<wpc, got, cached, mark, table, asof>>
gate    == <<gpc, ggen, gcur, gasof>>
reloadVars == <<files, sigs, running, rpc, seen, hot, worker, gate>>

(* A Cached begins with no generation: its first get() takes the slot, as  *)
(* Cached::new does.                                                       *)
ReloadInit ==
  /\ disk = [f \in Files |-> [ver |-> 1, good |-> TRUE, there |-> TRUE]] /\ edits = 0
  /\ signals = 0 /\ handling = 0 /\ owed = {}
  /\ signalled = [x \in Flags |-> FALSE] /\ shared = [x \in Flags |-> FALSE]
  /\ bpc = [at |-> "swap", flag |-> "reload"]
  /\ running = TRUE /\ rpc = "start" /\ seen = [f \in Files |-> 0]
  /\ slot = [f \in Files |-> First] /\ gen = [f \in Files |-> 1]
  /\ \E b \in Budgets : /\ wpc = [w \in Workers |-> IF b.packets THEN "idle" ELSE "off"]
                       /\ gpc = IF b.alerts THEN "idle" ELSE "off"
  /\ got = [w \in Workers |-> 0]
  /\ cached = [w \in Workers |-> [f \in Files |-> [gen |-> 0, val |-> First]]]
  /\ mark = [w \in Workers |-> 0] /\ table = [w \in Workers |-> First]
  /\ asof = [w \in Workers |-> [f \in Files |-> 1]]
  /\ ggen = 1 /\ gcur = First /\ gasof = 1

-----------------------------------------------------------------------------
(* The outside: files are rewritten, well or badly, replaced by way of a   *)
(* rename that leaves the path briefly absent, and signals are sent.       *)
Reading(b) == (\A w \in Workers : b.packets = (wpc[w] # "off")) /\ b.alerts = (gpc # "off")
WithinBudget(e, s) == \E b \in Budgets : Reading(b) /\ e <= b.edits /\ s <= b.signals

Editing == WithinBudget(edits + 1, signals) /\ (EarlyEdits \/ rpc # "start")

Rewrite(f, good) ==
  /\ Editing /\ disk[f].there
  /\ disk' = [disk EXCEPT ![f].ver = @ + 1, ![f].good = good]
  /\ edits' = edits + 1
  /\ UNCHANGED <<sigs, running, rpc, seen, hot, worker, gate>>

Vanish(f) ==
  /\ Editing /\ disk[f].there
  /\ disk' = [disk EXCEPT ![f].there = FALSE]
  /\ edits' = edits + 1
  /\ UNCHANGED <<sigs, running, rpc, seen, hot, worker, gate>>

Return(f, same) ==
  /\ ~disk[f].there
  /\ same => SameReturns
  /\ disk' = [disk EXCEPT ![f].there = TRUE, ![f].ver = IF same THEN @ ELSE @ + 1,
                          ![f].good = IF same THEN @ ELSE TRUE]
  /\ UNCHANGED <<edits, sigs, running, rpc, seen, hot, worker, gate>>

(* SIGHUP asks for both, SIGUSR1 for the log files only.  A handler may    *)
(* run on any thread, and SIGHUP's makes its two stores one by one.        *)
Raise(x) == signalled' = [signalled EXCEPT ![x] = TRUE] /\ owed' = owed \cup {x}

Signal(hup) ==
  /\ WithinBudget(edits, signals + 1) /\ signals' = signals + 1
  /\ IF hup THEN Raise("reload") /\ handling' = handling + 1
            ELSE Raise("reopen") /\ UNCHANGED handling
  /\ UNCHANGED <<files, bpc, shared, running, rpc, seen, hot, worker, gate>>

HandlerEnds ==
  /\ handling > 0 /\ handling' = handling - 1
  /\ Raise("reopen")
  /\ UNCHANGED <<files, signals, bpc, shared, running, rpc, seen, hot, worker, gate>>

Stop ==
  /\ running /\ running' = FALSE
  /\ UNCHANGED <<files, sigs, rpc, seen, hot, worker, gate>>

-----------------------------------------------------------------------------
(* The bridge thread: for one flag and then the other, the handlers' is    *)
(* swapped for FALSE, and if it was set the shared one is stored.          *)
Bridging == UNCHANGED <<files, signals, handling, owed, running, rpc, seen, hot, worker, gate>>
AtFlag(at, x) == bpc = [at |-> at, flag |-> x]
NextFlag(x) == [at |-> "swap", flag |-> CHOOSE y \in Flags : y # x]

BridgeSwap(x) ==
  /\ AtFlag("swap", x)
  /\ signalled' = [signalled EXCEPT ![x] = FALSE]
  /\ bpc' = IF signalled[x] THEN [bpc EXCEPT !.at = "store"] ELSE NextFlag(x)
  /\ UNCHANGED shared /\ Bridging

BridgeStore(x) ==
  /\ AtFlag("store", x)
  /\ shared' = [shared EXCEPT ![x] = TRUE]
  /\ bpc' = NextFlag(x)
  /\ UNCHANGED signalled /\ Bridging

(* A slip: the shared flag is stored first, and the handlers' then cleared. *)
BridgeStoresFirst ==
  \E x \in Flags :
    \/ /\ AtFlag("swap", x)
       /\ shared' = [shared EXCEPT ![x] = @ \/ signalled[x]]
       /\ bpc' = IF signalled[x] THEN [bpc EXCEPT !.at = "store"] ELSE NextFlag(x)
       /\ UNCHANGED signalled /\ Bridging
    \/ /\ AtFlag("store", x)
       /\ signalled' = [signalled EXCEPT ![x] = FALSE]
       /\ bpc' = NextFlag(x)
       /\ UNCHANGED shared /\ Bridging

Bridge == \E x \in Flags : BridgeSwap(x) \/ BridgeStore(x)

(* The alert writer takes the reopen flag and reopens its sinks. *)
Reopen ==
  /\ shared["reopen"] /\ shared' = [shared EXCEPT !["reopen"] = FALSE]
  /\ owed' = owed \ {"reopen"}
  /\ UNCHANGED <<files, signals, signalled, handling, bpc, running, rpc, seen, hot, worker, gate>>

-----------------------------------------------------------------------------
(* The reloader thread. *)
Goto(to) == rpc' = to

WatchNew ==
  /\ rpc = "start" /\ Goto("poll")
  /\ seen' = [f \in Files |-> IF disk[f].there THEN disk[f].ver ELSE 0]
  /\ UNCHANGED <<files, sigs, running, hot, worker, gate>>

(* changed(): a file that is there under a stamp not seen before.  A       *)
(* signal is taken first, and then the stamps are not looked at.           *)
Changed(f) == disk[f].there /\ disk[f].ver # seen[f]

Poll ==
  /\ rpc = "poll"
  /\ shared' = [shared EXCEPT !["reload"] = FALSE]
  /\ IF ~running THEN Goto("done") /\ UNCHANGED seen
     ELSE IF shared["reload"] THEN Goto("rules") /\ UNCHANGED seen
     ELSE /\ \E f \in Files : Changed(f)
          /\ Goto("rules")
          /\ seen' = [f \in Files |-> IF Changed(f) THEN disk[f].ver ELSE seen[f]]
  /\ UNCHANGED <<files, signals, signalled, handling, bpc, owed, running, hot, worker, gate>>

(* store(): the slot, then the generation. *)
Publish(f, ver) == slot' = [slot EXCEPT ![f] = [n |-> @.n + 1, ver |-> ver]]

(* A rule file that is not there or does not parse is refused; the rules   *)
(* stay, and the enrichment is loaded all the same.                        *)
LoadRules ==
  /\ rpc = "rules"
  /\ owed' = owed \ {"reload"}
  /\ IF disk["rules"].there /\ disk["rules"].good
       THEN Publish("rules", disk["rules"].ver) /\ Goto("bumpRules")
       ELSE UNCHANGED slot /\ Goto("intel")
  /\ UNCHANGED <<files, signals, flags, running, seen, gen, worker, gate>>

(* A slip: files are stamped again once they were read. *)
LoadIntelStamps ==
  /\ rpc = "intel"
  /\ IF disk["intel"].there => disk["intel"].good
       THEN /\ Publish("intel", IF disk["intel"].there THEN disk["intel"].ver ELSE 0)
            /\ Goto("bumpIntel")
       ELSE UNCHANGED slot /\ Goto("poll")
  /\ seen' = [f \in Files |-> IF Changed(f) THEN disk[f].ver ELSE seen[f]]
  /\ UNCHANGED <<files, sigs, running, gen, worker, gate>>

(* An enrichment file that is not there is read as an empty one. *)
LoadIntel ==
  /\ rpc = "intel"
  /\ IF disk["intel"].there => disk["intel"].good
       THEN /\ Publish("intel", IF disk["intel"].there THEN disk["intel"].ver ELSE 0)
            /\ Goto("bumpIntel")
       ELSE UNCHANGED slot /\ Goto("poll")
  /\ UNCHANGED <<files, sigs, running, seen, gen, worker, gate>>

Bump(f, at, to) ==
  /\ rpc = at /\ Goto(to)
  /\ gen' = [gen EXCEPT ![f] = @ + 1]
  /\ UNCHANGED <<files, sigs, running, seen, slot, worker, gate>>

Reloader ==
  \/ WatchNew \/ Poll \/ LoadRules \/ LoadIntel
  \/ Bump("rules", "bumpRules", "intel") \/ Bump("intel", "bumpIntel", "poll")

-----------------------------------------------------------------------------
(* A worker and one packet: rules.get(), then the enrichment if its        *)
(* generation is not the one marked.                                       *)
Step(w, from, to) == wpc[w] = from /\ wpc' = [wpc EXCEPT ![w] = to]
Others == <<files, sigs, running, rpc, seen, hot, gate>>

Packet(w) ==
  /\ Step(w, "idle", "rules")
  /\ asof' = [asof EXCEPT ![w] = gen]
  /\ UNCHANGED <<Others, got, cached, mark, table>>

(* A slip: a generation is let pass. *)
CheckLax(w, f, from, moved, same) ==
  /\ wpc[w] = from
  /\ IF gen[f] > cached[w][f].gen + 1
       THEN Step(w, from, moved) /\ got' = [got EXCEPT ![w] = gen[f]]
       ELSE Step(w, from, same) /\ UNCHANGED got
  /\ UNCHANGED <<Others, cached, mark, table, asof>>

(* get(): the generation is read, and the slot only if it differs. *)
Check(w, f, from, moved, same) ==
  /\ wpc[w] = from
  /\ IF gen[f] # cached[w][f].gen
       THEN Step(w, from, moved) /\ got' = [got EXCEPT ![w] = gen[f]]
       ELSE Step(w, from, same) /\ UNCHANGED got
  /\ UNCHANGED <<Others, cached, mark, table, asof>>

Refresh(w, f, from, to) ==
  /\ Step(w, from, to)
  /\ cached' = [cached EXCEPT ![w][f] = [gen |-> got[w], val |-> slot[f]]]
  /\ got' = [got EXCEPT ![w] = 0]
  /\ UNCHANGED <<Others, mark, table, asof>>

IntelCheck(w) ==
  /\ Step(w, "intel", IF gen["intel"] # mark[w] THEN "get" ELSE "inspect")
  /\ UNCHANGED <<Others, got, cached, mark, table, asof>>

(* The generation is read once more to be marked. *)
IntelInstall(w) ==
  /\ Step(w, "install", "inspect")
  /\ mark' = [mark EXCEPT ![w] = gen["intel"]]
  /\ table' = [table EXCEPT ![w] = cached[w]["intel"].val]
  /\ UNCHANGED <<Others, got, cached, asof>>

Inspect(w) ==
  /\ Step(w, "inspect", "idle")
  /\ asof' = [asof EXCEPT ![w] = [f \in Files |-> 1]]
  /\ UNCHANGED <<Others, got, cached, mark, table>>

Worker(w) ==
  \/ Packet(w)
  \/ Check(w, "rules", "rules", "load", "intel") \/ Refresh(w, "rules", "load", "intel")
  \/ IntelCheck(w)
  \/ Check(w, "intel", "get", "take", "install") \/ Refresh(w, "intel", "take", "install")
  \/ IntelInstall(w)
  \/ Inspect(w)

(* The gate and one alert. *)
Alert ==
  /\ gpc = "idle"
  /\ gpc' = IF gen["rules"] # ggen THEN "mark" ELSE "judge"
  /\ gasof' = gen["rules"]
  /\ UNCHANGED <<files, sigs, running, rpc, seen, hot, worker, ggen, gcur>>

GateMark ==
  /\ gpc = "mark" /\ gpc' = "load"
  /\ ggen' = gen["rules"]
  /\ UNCHANGED <<files, sigs, running, rpc, seen, hot, worker, gcur, gasof>>

GateLoad ==
  /\ gpc = "load" /\ gpc' = "judge"
  /\ gcur' = slot["rules"]
  /\ UNCHANGED <<files, sigs, running, rpc, seen, hot, worker, ggen, gasof>>

Judge ==
  /\ gpc = "judge" /\ gpc' = "idle"
  /\ gasof' = 1
  /\ UNCHANGED <<files, sigs, running, rpc, seen, hot, worker, ggen, gcur>>

Gate == Alert \/ GateMark \/ GateLoad \/ Judge

-----------------------------------------------------------------------------
Outside ==
  \/ \E f \in Files, good \in BOOLEAN : Rewrite(f, good)
  \/ \E f \in Files : Vanish(f)
  \/ \E f \in Files, same \in BOOLEAN : Return(f, same)
  \/ \E hup \in BOOLEAN : Signal(hup)
  \/ HandlerEnds
  \/ Stop

ReloadNext ==
  \/ Outside \/ Bridge \/ Reopen \/ Reloader
  \/ \E w \in Workers : Worker(w)
  \/ Gate

ReloadSpec == ReloadInit /\ [][ReloadNext]_reloadVars

(* Threads run, packets and alerts keep coming, and a rename completes. *)
Fairness ==
  /\ WF_reloadVars(HandlerEnds) /\ WF_reloadVars(Bridge) /\ WF_reloadVars(Reopen)
  /\ WF_reloadVars(Reloader) /\ WF_reloadVars(Gate)
  /\ \A w \in Workers : WF_reloadVars(Worker(w))
  /\ \A f \in Files : WF_reloadVars(\E same \in BOOLEAN : Return(f, same))

FairReloadSpec == ReloadSpec /\ Fairness

-----------------------------------------------------------------------------
ReloadTypeOK ==
  /\ disk \in [Files -> [ver : Nat, good : BOOLEAN, there : BOOLEAN]]
  /\ edits \in Nat /\ signals \in Nat /\ running \in BOOLEAN
  /\ signalled \in [Flags -> BOOLEAN] /\ shared \in [Flags -> BOOLEAN]
  /\ handling \in Nat /\ owed \subseteq Flags
  /\ bpc \in [at : {"swap", "store"}, flag : Flags]
  /\ rpc \in {"start", "poll", "rules", "bumpRules", "intel", "bumpIntel", "done"}
  /\ seen \in [Files -> Nat]
  /\ slot \in [Files -> Value] /\ gen \in [Files -> Nat]
  /\ wpc \in [Workers -> {"off", "idle", "rules", "load", "intel", "get", "take", "install", "inspect"}]
  /\ got \in [Workers -> Nat]
  /\ cached \in [Workers -> [Files -> [gen : Nat, val : Value]]]
  /\ mark \in [Workers -> Nat] /\ table \in [Workers -> Value]
  /\ asof \in [Workers -> [Files -> Nat]]
  /\ gpc \in {"off", "idle", "mark", "load", "judge"}
  /\ ggen \in Nat /\ gcur \in Value /\ gasof \in Nat

(* What store() promises: a reader that has seen a generation holds its    *)
(* publication or a later one, in the worker's cache and in the gate.      *)
GenerationKept ==
  /\ \A w \in Workers, f \in Files : cached[w][f].val.n + 1 >= cached[w][f].gen
  /\ gpc \notin {"load"} => gcur.n + 1 >= ggen

(* No packet is matched, and no alert judged, against rules older than     *)
(* those in force when it came in (a reload costs no window of stale       *)
(* detection longer than one packet).                                      *)
RulesFresh ==
  /\ \A w \in Workers :
       wpc[w] = "inspect" => cached[w]["rules"].val.n + 1 >= asof[w]["rules"]
  /\ gpc = "judge" => gcur.n + 1 >= gasof

(* The same of the enrichment the worker's tables use. *)
IntelFresh ==
  \A w \in Workers : wpc[w] = "inspect" => table[w].n + 1 >= asof[w]["intel"]

(* A rule file left in a good state is in the end what every worker that   *)
(* gets packets and a gate that gets alerts use, with no restart, whatever *)
(* was edited, absent or signalled while a reload ran.                     *)
RulesFollow ==
  <>[](running /\ disk["rules"].there /\ disk["rules"].good =>
         /\ \A w \in Workers : wpc[w] # "off" => cached[w]["rules"].val.ver = disk["rules"].ver
         /\ gpc # "off" => gcur.ver = disk["rules"].ver)

(* What a signal asks for is done after it came, and not only before: the  *)
(* rules are read again, or the files reopened, though it may fall between *)
(* any two accesses to the four flags by the handlers, the bridge, the     *)
(* reloader and the writer, or while a reload is running.                  *)
SignalServed == \A x \in Flags : x \in owed ~> x \notin owed \/ ~running

(* Whatever the reloader and the readers' steps interleave to: what a      *)
(* generation promises is held, and nothing is judged by rules older than  *)
(* those in force when it came.                                            *)
ReadersCurrent == ReloadTypeOK /\ GenerationKept /\ RulesFresh
=============================================================================
