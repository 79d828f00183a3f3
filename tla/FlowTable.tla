------------------------------ MODULE FlowTable ------------------------------
(***************************************************************************)
(* The TCP connections one worker tracks: FlowTable in src/engine.rs.      *)
(*                                                                         *)
(* observe() is called for every TCP packet of the worker's shard.  It     *)
(* makes room when the table is full, refuses what it cannot track,        *)
(* creates the flow, counts the packet, reports the bytes of a long        *)
(* connection every Interim seconds, retires a connection that has closed, *)
(* and sweeps the idle ones.  After each packet the worker drains what was *)
(* reported, if anything listens (pc = "drain").  flush_open_flows()       *)
(* retires what is left when the worker stops.                             *)
(*                                                                         *)
(* A connection is a key; its two ends are sides, and the client is the    *)
(* side that sent the first packet seen.  Reassembly is TcpStream's; the   *)
(* alerts a packet or a retired flow raises are left out here.             *)
(***************************************************************************)
EXTENDS Integers, FiniteSets

CONSTANTS
  Keys,            \* connections (FlowKey)
  MaxFlows,        \* max_flows
  Times,           \* seconds a packet may carry
  MaxLate,         \* how far behind the newest packet one may be
  Idle,            \* FLOW_IDLE_TIMEOUT_SECS
  Pressure,        \* FLOW_PRESSURE_IDLE_SECS
  Unanswered,      \* UNANSWERED_TIMEOUT_SECS
  Interim,         \* INTERIM_REPORT_SECS
  SweepEvery,      \* packets after which the table is swept anyway: 4096
  Frames,          \* frame lengths
  ObserveEnabled,  \* enable_observations() was called: a behaviour engine runs
  RecordFlows,     \* enable_flow_records() was called: a flow log is written
  MaxPackets       \* bound on the packets of a behaviour

ASSUME FlowAssumption ==
  /\ IsFiniteSet(Keys)
  /\ MaxFlows \in Nat \ {0} /\ SweepEvery \in Nat \ {0}
  /\ Times \subseteq Nat /\ MaxLate \in Nat
  /\ Idle \in Nat /\ Pressure \in Nat /\ Unanswered \in Nat /\ Interim \in Nat
  /\ Frames \subseteq Nat \ {0}
  /\ ObserveEnabled \in BOOLEAN /\ RecordFlows \in BOOLEAN
  /\ MaxPackets \in Nat

Sides == {"a", "b"}
Ways  == {"out", "in"}       \* client to server, server to client

(* The packets the table tells apart: an ACK with no payload, one with a   *)
(* payload or a SYN, a FIN and a RST.                                      *)
Segments == {"bare", "data", "fin", "rst"}

VARIABLES
  pc,            \* "ready" for a packet, "drain" after one, "stop", "done"
  flows,         \* key -> flow
  sinceSweep,    \* since_sweep
  lastSwept,     \* last_swept_at
  refused,       \* flows_refused
  completed,     \* records of departed flows, not yet drained
  observations,  \* observations, not yet drained
  clock,         \* newest second of a packet
  packets,       \* packets given to observe()
  counted,       \* ghost: bytes of the packets taken, by key and way
  told,          \* ghost: bytes put in observations, by key and way
  opened,        \* ghost: flows created, by key
  logged         \* ghost: flows retired, by key

table == <<flows, sinceSweep, lastSwept, refused, completed, observations>>
ghost == <<counted, told, opened, logged>>
vars == <<pc, table, clock, packets, ghost>>

Flow == [client : Sides, lastSeen : Nat, bytes : [Ways -> Nat],
         reported : [Ways -> Nat], lastReport : Nat,
         fin : SUBSET Ways, reset : BOOLEAN]

NoBytes == [w \in Ways |-> 0]

Init ==
  /\ pc = "ready" /\ flows = <<>>
  /\ sinceSweep = 0 /\ lastSwept = 0 /\ refused = 0
  /\ completed = {} /\ observations = {}
  /\ clock = 0 /\ packets = 0
  /\ counted = [k \in Keys |-> NoBytes] /\ told = [k \in Keys |-> NoBytes]
  /\ opened = [k \in Keys |-> 0] /\ logged = [k \in Keys |-> 0]

-----------------------------------------------------------------------------
Closed(f)   == f.reset \/ f.fin = Ways
Answered(f) == f.bytes["in"] > 0           \* a frame is never empty

Pending(f)  == [w \in Ways |-> f.bytes[w] - f.reported[w]]

(* state(): how a flow that leaves is described. *)
State(f, timedOut) ==
  CASE f.reset -> "reset"
    [] ~f.reset /\ f.fin = Ways -> "closed"
    [] ~f.reset /\ f.fin # Ways /\ f.fin # {} -> "half_closed"
    [] ~f.reset /\ f.fin = {} -> IF timedOut THEN "timeout" ELSE "open"

(* retire(): the record and the observation a departing flow leaves. *)
Record(k, f, timedOut) == [key |-> k, bytes |-> f.bytes, state |-> State(f, timedOut)]
Departure(k, f) ==
  [kind |-> "Flow", key |-> k, bytes |-> Pending(f), answered |-> Answered(f)]
Traffic(k, f) ==
  [kind |-> "Traffic", key |-> k, bytes |-> Pending(f), answered |-> Answered(f)]

(* Slips: a flow nobody answered waits as long as any; an answered one     *)
(* does not.                                                               *)
DeadIdle(t, now, idle) ==
  {k \in DOMAIN t : Closed(t[k]) \/ t[k].lastSeen <= now - idle}
DeadSoon(t, now, idle) ==
  {k \in DOMAIN t : \/ Closed(t[k])
                    \/ t[k].lastSeen <= now - idle
                    \/ t[k].lastSeen <= now - Unanswered}

(* expire(): the keys of a table that are dead at a time.  A late packet   *)
(* makes the cutoffs earlier, never later.                                 *)
Dead(t, now, idle) ==
  {k \in DOMAIN t : \/ Closed(t[k])
                    \/ t[k].lastSeen <= now - idle
                    \/ ~Answered(t[k]) /\ t[k].lastSeen <= now - Unanswered}

Without(t, gone) == [k \in DOMAIN t \ gone |-> t[k]]

-----------------------------------------------------------------------------
(* The packet's own changes to its flow. *)
NewFlow(side, now) ==
  [client |-> side, lastSeen |-> now, bytes |-> NoBytes, reported |-> NoBytes,
   lastReport |-> now, fin |-> {}, reset |-> FALSE]

Way(f, side) == IF side = f.client THEN "out" ELSE "in"

Count(f, side, seg, len, now) ==
  [f EXCEPT !.lastSeen = now,
            !.bytes[Way(f, side)] = @ + len,
            !.reset = @ \/ seg = "rst",
            !.fin = IF seg = "fin" THEN @ \cup {Way(f, side)} ELSE @]

(* Every Interim seconds the bytes not yet reported are. *)
Due(f, now) == now - f.lastReport >= Interim
(* A slip: what was reported is not remembered. *)
ReportedAgain(f, now) == IF Due(f, now) THEN [f EXCEPT !.lastReport = now] ELSE f

Reported(f, now) ==
  IF Due(f, now) THEN [f EXCEPT !.reported = f.bytes, !.lastReport = now] ELSE f

(* observe(), past the checks: `t` is the table after pressure made room   *)
(* and `out` the flows it retired to do so.                                *)
Track(k, side, seg, len, now, t, out) ==
  LET old    == IF k \in DOMAIN t THEN t[k] ELSE NewFlow(side, now)
      f      == Count(old, side, seg, len, now)
      g      == Reported(f, now)
      with   == [j \in DOMAIN t \cup {k} |-> IF j = k THEN g ELSE t[j]]
      kept   == IF Closed(g) THEN Without(with, {k}) ELSE with
      sweep  == sinceSweep + 1 >= SweepEvery \/ now > lastSwept
      dead   == IF sweep THEN Dead(kept, now, Idle) ELSE {}
      gone   == (DOMAIN with \ DOMAIN kept) \cup dead
      left   == [j \in DOMAIN out \cup gone |-> IF j \in DOMAIN out THEN out[j] ELSE with[j]]
  IN  /\ flows' = Without(kept, dead)
      /\ sinceSweep' = IF sweep THEN 0 ELSE sinceSweep + 1
      /\ lastSwept' = IF sweep THEN now ELSE lastSwept
      /\ observations' = observations
           \cup {Traffic(j, f) : j \in IF Due(f, now) THEN {k} ELSE {}}
           \cup {Departure(j, left[j]) : j \in IF ObserveEnabled THEN DOMAIN left ELSE {}}
      /\ completed' = completed
           \cup {Record(j, left[j], ~Closed(left[j])) : j \in IF RecordFlows THEN DOMAIN left ELSE {}}
      /\ counted' = [counted EXCEPT ![k][Way(old, side)] = @ + len]
      /\ told' = [j \in Keys |-> [w \in Ways |->
           told[j][w] + (IF j = k /\ Due(f, now) THEN Pending(f)[w] ELSE 0)
                      + (IF ObserveEnabled /\ j \in DOMAIN left THEN Pending(left[j])[w] ELSE 0)]]
      /\ opened' = [opened EXCEPT ![k] = IF k \in DOMAIN t THEN @ ELSE @ + 1]
      /\ logged' = [j \in Keys |-> IF j \in DOMAIN left THEN logged[j] + 1 ELSE logged[j]]

(* Room was made but the packet starts no flow, or there was no room: only *)
(* the flows that pressure retired have changed.                           *)
Leave(out, n) ==
  /\ flows' = Without(flows, DOMAIN out)
  /\ refused' = refused + n
  /\ observations' = observations
       \cup {Departure(j, out[j]) : j \in IF ObserveEnabled THEN DOMAIN out ELSE {}}
  /\ completed' = completed
       \cup {Record(j, out[j], ~Closed(out[j])) : j \in IF RecordFlows THEN DOMAIN out ELSE {}}
  /\ told' = [j \in Keys |-> [w \in Ways |->
       told[j][w] + (IF ObserveEnabled /\ j \in DOMAIN out THEN Pending(out[j])[w] ELSE 0)]]
  /\ logged' = [j \in Keys |-> IF j \in DOMAIN out THEN logged[j] + 1 ELSE logged[j]]
  /\ UNCHANGED <<sinceSweep, lastSwept, counted, opened>>

Full(t) == Cardinality(DOMAIN t) >= MaxFlows

Observe(k, side, seg, len, now) ==
  LET squeeze == Full(flows) /\ k \notin DOMAIN flows
      out     == IF squeeze
                   THEN [j \in Dead(flows, now, Pressure) |-> flows[j]] ELSE <<>>
      t       == Without(flows, DOMAIN out)
  IN  /\ pc = "ready" /\ packets < MaxPackets
      /\ now >= clock - MaxLate
      /\ pc' = "drain" /\ packets' = packets + 1
      /\ clock' = IF now > clock THEN now ELSE clock
      /\ \/ squeeze /\ Full(t) /\ Leave(out, 1)
         \/ ~(squeeze /\ Full(t)) /\ seg = "bare" /\ k \notin DOMAIN t /\ Leave(out, 0)
         \/ /\ ~(squeeze /\ Full(t)) /\ ~(seg = "bare" /\ k \notin DOMAIN t)
            /\ Track(k, side, seg, len, now, t, out)
            /\ UNCHANGED refused

(* What the worker does after each packet: take_completed() if there is a  *)
(* flow log, take_observations() if there is a behaviour engine.           *)
Drain ==
  /\ pc \in {"drain", "stop"}
  /\ pc' = IF pc = "drain" THEN "ready" ELSE "done"
  /\ completed' = IF RecordFlows THEN {} ELSE completed
  /\ observations' = IF ObserveEnabled THEN {} ELSE observations
  /\ UNCHANGED <<flows, sinceSweep, lastSwept, refused, clock, packets, ghost>>

(* The worker's channel has closed: flush_open_flows(). *)
FlushOpenFlows ==
  /\ pc = "ready" /\ pc' = "stop"
  /\ flows' = <<>>
  /\ observations' = observations
       \cup {Departure(j, flows[j]) : j \in IF ObserveEnabled THEN DOMAIN flows ELSE {}}
  /\ completed' = completed
       \cup {Record(j, flows[j], FALSE) : j \in IF RecordFlows THEN DOMAIN flows ELSE {}}
  /\ told' = [j \in Keys |-> [w \in Ways |->
       told[j][w] + (IF ObserveEnabled /\ j \in DOMAIN flows THEN Pending(flows[j])[w] ELSE 0)]]
  /\ logged' = [j \in Keys |-> IF j \in DOMAIN flows THEN logged[j] + 1 ELSE logged[j]]
  /\ UNCHANGED <<sinceSweep, lastSwept, refused, clock, packets, counted, opened>>

Next ==
  \/ \E k \in Keys, side \in Sides, seg \in Segments, len \in Frames, now \in Times :
       Observe(k, side, seg, len, now)
  \/ Drain
  \/ FlushOpenFlows

Spec == Init /\ [][Next]_vars

-----------------------------------------------------------------------------
TypeOK ==
  /\ pc \in {"ready", "drain", "stop", "done"}
  /\ DOMAIN flows \subseteq Keys /\ flows \in [DOMAIN flows -> Flow]
  /\ sinceSweep \in Nat /\ lastSwept \in Nat /\ refused \in Nat
  /\ clock \in Nat /\ packets \in Nat
  /\ counted \in [Keys -> [Ways -> Nat]] /\ told \in [Keys -> [Ways -> Nat]]
  /\ opened \in [Keys -> Nat] /\ logged \in [Keys -> Nat]

(* Volume detection is told of every byte once: what has been counted on a *)
(* connection is what its interim reports and its departures have reported *)
(* and what its open flow has yet to, whichever way the flow leaves.       *)
BytesToldOnce ==
  ObserveEnabled =>
    \A k \in Keys, w \in Ways :
      counted[k][w] = told[k][w] + (IF k \in DOMAIN flows THEN Pending(flows[k])[w] ELSE 0)

(* A flow leaves the table through retire() exactly once, be it by closing,*)
(* by a timeout, under pressure or at shutdown ("the three exits").        *)
RetiredOnce ==
  \A k \in Keys : opened[k] = logged[k] + (IF k \in DOMAIN flows THEN 1 ELSE 0)

(* The memory bound of DEFAULT_MAX_FLOWS holds, and no room is wasted on a *)
(* finished connection: it is retired by the packet that finished it.      *)
OnlyOpenFlows ==
  /\ Cardinality(DOMAIN flows) <= MaxFlows
  /\ \A k \in DOMAIN flows : ~Closed(flows[k])

(* A flood cannot push out a live connection: a flow leaves without a      *)
(* packet of its own only when it has been quiet for the whole timeout it  *)
(* is owed, which is shorter when the table is full or nobody answered.    *)
LiveFlowsStay ==
  [][\A k \in DOMAIN flows \ DOMAIN flows' :
       LET quiet == clock' - flows[k].lastSeen
       IN  \/ pc' = "stop"
           \/ \E w \in Ways : counted'[k][w] > counted[k][w]
           \/ quiet >= Idle
           \/ quiet >= Unanswered /\ ~Answered(flows[k])
           \/ quiet >= Pressure /\ Full(flows)]_vars

(* The sweep keeps up: no flow outlives its timeout by the last sweep by   *)
(* more than the lateness of the packets.                                  *)
SweptInTime ==
  \A k \in DOMAIN flows :
    LET age == lastSwept - flows[k].lastSeen
    IN  (age > MaxLate) => (age < Idle /\ (Answered(flows[k]) \/ age < Unanswered))

(* The table at any moment: its types and bound hold, each flow is logged  *)
(* once and only when it has left, and none outstays its timeout.          *)
TableSound == TypeOK /\ RetiredOnce /\ OnlyOpenFlows /\ SweptInTime
=============================================================================
