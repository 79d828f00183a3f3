------------------------------ MODULE Pipeline ------------------------------
(***************************************************************************)
(* The threads of a capture and the channels between them: main() and      *)
(* run_capture() of src/main.rs, the worker loop there, and the receive    *)
(* loops of the aggregator, the gate and the writers.                      *)
(*                                                                         *)
(*   captures -> queue[w] -> workers -> obsQ -> aggregator                 *)
(*                              |-> flowQ -> flow writer  |                *)
(*                              |-> alertQ <--------------+                *)
(*                  alertQ -> gate -> outQ -> alert writer                 *)
(*                  alert writer -> dumpQ -> a capture -> jobs -> pcap     *)
(*                                                                         *)
(* A channel is the number of messages in it: what they hold is for the    *)
(* modules of the stages.  A buffer of the packet pool is taken by a       *)
(* capture and given back by a worker.  A channel is closed when its last  *)
(* sender is dropped, and a thread ends when what it reads is closed and   *)
(* empty; main() joins the threads in turn.                                *)
(***************************************************************************)
EXTENDS Integers, FiniteSets

CONSTANTS
  Captures, Workers,
  Modes,         \* how the process may be started, on how much; see Mode
  PoolSize,      \* packet_pool
  QueueSize,     \* queue_size
  AlertQueue     \* alert_queue, the depth of four channels

(* A file is read, or some interfaces are captured; with one of either,    *)
(* packets may be dumped on an alert.  Each capture sees so many frames.   *)
Mode ==
  [replay : BOOLEAN, dumps : BOOLEAN, captures : (SUBSET Captures) \ {{}},
   workers : (SUBSET Workers) \ {{}}, frames : Nat]

ASSUME PipelineAssumption ==
  /\ IsFiniteSet(Captures) /\ IsFiniteSet(Workers) /\ Workers # {}
  /\ Modes \subseteq Mode
  /\ \A m \in Modes : (m.replay \/ m.dumps) => Cardinality(m.captures) = 1
  /\ PoolSize \in Nat \ {0} /\ QueueSize \in Nat \ {0} /\ AlertQueue \in Nat \ {0}

VARIABLES
  mode,                   \* how it was started
  running,
  main,                   \* what main() waits for
  cpc, shard, frames,     \* each capture: place, worker of the packet, frames to come
  free, queue,            \* the pool's free list; the workers' queues
  wpc,                    \* each worker
  obsQ, flowQ, alertQ, outQ, dumpQ, jobs,
  agg, held,              \* the aggregator, and the observations it holds
  gate, hand, late,       \* the gate, the alert it is sending, those it holds
  writer, flowWriter, pcapWriter,
  dropped, exhausted,     \* frames shed, by a queue and by the pool
  raised, alertsShed,     \* alerts raised, and those counted as shed
  left,                   \* ghost: alerts the aggregator could not send
  settled,                \* alerts withheld, suppressed or written
  ends                    \* ghost: frames whose buffer has been given back or shed

capture == <<cpc, shard, frames>>
chans   == <<obsQ, flowQ, alertQ, outQ, dumpQ, jobs>>
stages  == <<agg, held, gate, hand, late, writer, flowWriter, pcapWriter>>
counts  == <<dropped, exhausted, raised, alertsShed, left, settled, ends>>
vars    == <<mode, running, main, capture, free, queue, wpc, chans, stages, counts>>

Init ==
  /\ mode \in Modes /\ running = TRUE /\ main = "capture"
  /\ cpc = [c \in Captures |-> IF c \in mode.captures THEN "read" ELSE "done"]
  /\ shard = [c \in Captures |-> CHOOSE w \in mode.workers : TRUE]
  /\ frames = [c \in Captures |-> mode.frames]
  /\ free = PoolSize /\ queue = [w \in Workers |-> 0]
  /\ wpc = [w \in Workers |-> IF w \in mode.workers THEN "recv" ELSE "done"]
  /\ obsQ = 0 /\ flowQ = 0 /\ alertQ = 0 /\ outQ = 0 /\ dumpQ = 0 /\ jobs = 0
  /\ agg = "run" /\ held = 0 /\ gate = "run" /\ hand = 0 /\ late = 0
  /\ writer = "run" /\ flowWriter = "run" /\ pcapWriter = "run"
  /\ dropped = 0 /\ exhausted = 0 /\ raised = 0 /\ alertsShed = 0 /\ left = 0
  /\ settled = 0 /\ ends = 0

-----------------------------------------------------------------------------
(* A slip: main() keeps a sender of its own to the aggregator. *)
ObsClosedByMain == main = "done" /\ \A w \in Workers : wpc[w] = "done"

(* When each channel has lost its last sender.  main() drops its own       *)
(* senders as soon as the workers are spawned, all but the flow writer's.  *)
CaptureOver(c)  == cpc[c] \in {"drain", "done"}
PacketsClosed   == \A c \in Captures : CaptureOver(c)
WorkersDone     == \A w \in Workers : wpc[w] = "done"
ObsClosed       == WorkersDone
AlertsClosed    == WorkersDone /\ agg = "done"
FlowsClosed     == WorkersDone /\ main \in {"flows", "pcap", "done"}
JobsClosed      == main \in {"pcap", "done"}

Least(a, b) == IF a <= b THEN a ELSE b

(* n messages offered with try_send to a channel that holds q. *)
Taken(q, n) == Least(n, AlertQueue - q)

-----------------------------------------------------------------------------
(* Ctrl-C *)
Stop ==
  /\ running /\ running' = FALSE
  /\ UNCHANGED <<mode, main, capture, free, queue, wpc, chans, stages, counts>>

(* The capture loop.  Requests for a dump are served between frames; a     *)
(* file may not open.                                                      *)
Service(c) ==
  /\ mode.dumps /\ cpc[c] = "read" /\ dumpQ > 0
  /\ \E opened \in 0 .. dumpQ : jobs' = jobs + opened
  /\ dumpQ' = 0
  /\ UNCHANGED <<mode, running, main, capture, free, queue, wpc, obsQ, flowQ,
                 alertQ, outQ, stages, counts>>

NextPacket(c) ==
  /\ cpc[c] = "read" /\ running /\ frames[c] > 0
  /\ cpc' = [cpc EXCEPT ![c] = "buffer"]
  /\ frames' = [frames EXCEPT ![c] = @ - 1]
  /\ UNCHANGED <<mode, running, main, shard, free, queue, wpc, chans, stages,
                 counts>>

GetBuffer(c) ==
  /\ cpc[c] = "buffer" /\ free > 0
  /\ cpc' = [cpc EXCEPT ![c] = "decode"]
  /\ free' = free - 1
  /\ UNCHANGED <<mode, running, main, shard, frames, queue, wpc, chans, stages,
                 counts>>

NoBuffer(c) ==
  /\ cpc[c] = "buffer" /\ free = 0 /\ ~mode.replay
  /\ cpc' = [cpc EXCEPT ![c] = "read"]
  /\ exhausted' = exhausted + 1 /\ ends' = ends + 1
  /\ UNCHANGED <<mode, running, main, shard, frames, free, queue, wpc, chans,
                 stages, left, dropped, raised, alertsShed, settled>>

(* A fragment absorbed or a frame that does not decode gives its buffer    *)
(* back; a packet goes to the worker of its host pair.                     *)
NoPacket(c) ==
  /\ cpc[c] = "decode"
  /\ cpc' = [cpc EXCEPT ![c] = "read"]
  /\ free' = free + 1 /\ ends' = ends + 1
  /\ UNCHANGED <<mode, running, main, shard, frames, queue, wpc, chans, stages,
                 left, dropped, exhausted, raised, alertsShed, settled>>

Decoded(c, w) ==
  /\ cpc[c] = "decode"
  /\ cpc' = [cpc EXCEPT ![c] = "send"]
  /\ shard' = [shard EXCEPT ![c] = w]
  /\ UNCHANGED <<mode, running, main, frames, free, queue, wpc, chans, stages,
                 counts>>

(* A replay waits here for room; a live capture does not. *)
Send(c) ==
  /\ cpc[c] = "send" /\ queue[shard[c]] < QueueSize
  /\ cpc' = [cpc EXCEPT ![c] = "read"]
  /\ queue' = [queue EXCEPT ![shard[c]] = @ + 1]
  /\ UNCHANGED <<mode, running, main, shard, frames, free, wpc, chans, stages,
                 counts>>

QueueFull(c) ==
  /\ cpc[c] = "send" /\ queue[shard[c]] = QueueSize /\ ~mode.replay
  /\ cpc' = [cpc EXCEPT ![c] = "read"]
  /\ dropped' = dropped + 1 /\ free' = free + 1 /\ ends' = ends + 1
  /\ UNCHANGED <<mode, running, main, shard, frames, queue, wpc, chans, stages,
                 left, exhausted, raised, alertsShed, settled>>

(* The file has ended, or the loop sees that it is to stop.  The senders   *)
(* to the workers are dropped before the last dumps are waited for.        *)
CaptureEnds(c) ==
  /\ cpc[c] = "read"
  /\ ~running \/ (mode.replay /\ frames[c] = 0)
  /\ cpc' = [cpc EXCEPT ![c] = IF mode.dumps THEN "drain" ELSE "done"]
  /\ UNCHANGED <<mode, running, main, shard, frames, free, queue, wpc, chans,
                 stages, counts>>

(* One of several interfaces cannot be opened: the others go on. *)
OpenFails(c) ==
  /\ cpc[c] = "read" /\ frames[c] = mode.frames /\ Cardinality(mode.captures) > 1
  /\ cpc' = [cpc EXCEPT ![c] = "done"]
  /\ UNCHANGED <<mode, running, main, shard, frames, free, queue, wpc, chans,
                 stages, counts>>

DrainRemaining(c) ==
  /\ cpc[c] = "drain"
  /\ \/ /\ dumpQ > 0
        /\ dumpQ' = dumpQ - 1 /\ jobs' \in {jobs, jobs + 1}
        /\ UNCHANGED cpc
     \/ /\ dumpQ = 0 /\ writer = "done"
        /\ cpc' = [cpc EXCEPT ![c] = "done"]
        /\ UNCHANGED <<dumpQ, jobs>>
  /\ UNCHANGED <<mode, running, main, shard, frames, free, queue, wpc, obsQ,
                 flowQ, alertQ, outQ, stages, counts>>

Capture(c) ==
  \/ Service(c) \/ NextPacket(c) \/ GetBuffer(c) \/ NoBuffer(c) \/ NoPacket(c)
  \/ \E w \in mode.workers : Decoded(c, w)
  \/ Send(c) \/ QueueFull(c) \/ CaptureEnds(c) \/ OpenFails(c) \/ DrainRemaining(c)

-----------------------------------------------------------------------------
(* What a worker sends on, never waiting: a flow record, an observation    *)
(* and an alert, or none of them.  (A slip: what is shed is not counted.)  *)
ReportUncounted(r, o, a) ==
  /\ flowQ' = flowQ + Taken(flowQ, r)
  /\ obsQ' = obsQ + Taken(obsQ, o)
  /\ alertQ' = alertQ + Taken(alertQ, a)
  /\ raised' = raised + a
  /\ UNCHANGED alertsShed

Report(r, o, a) ==
  /\ flowQ' = flowQ + Taken(flowQ, r)
  /\ obsQ' = obsQ + Taken(obsQ, o)
  /\ alertQ' = alertQ + Taken(alertQ, a)
  /\ raised' = raised + a
  /\ alertsShed' = alertsShed + (a - Taken(alertQ, a))

Receive(w) ==
  /\ wpc[w] = "recv" /\ queue[w] > 0
  /\ wpc' = [wpc EXCEPT ![w] = "busy"]
  /\ queue' = [queue EXCEPT ![w] = @ - 1]
  /\ UNCHANGED <<mode, running, main, capture, free, chans, stages, counts>>

Inspected(w) ==
  /\ wpc[w] = "busy"
  /\ wpc' = [wpc EXCEPT ![w] = "recv"]
  /\ \E r, o, a \in {0, 1} : Report(r, o, a)
  /\ free' = free + 1 /\ ends' = ends + 1
  /\ UNCHANGED <<mode, running, main, capture, queue, outQ, dumpQ, jobs, stages,
                 left, dropped, exhausted, settled>>

(* The flush of the tables, and then the worker's senders are dropped. *)
WorkerEnds(w) ==
  /\ wpc[w] = "recv" /\ queue[w] = 0 /\ PacketsClosed
  /\ wpc' = [wpc EXCEPT ![w] = "done"]
  /\ \E r, o, a \in {0, 1} : Report(r, o, a)
  /\ UNCHANGED <<mode, running, main, capture, free, queue, outQ, dumpQ, jobs,
                 stages, left, dropped, exhausted, settled, ends>>

Worker(w) == Receive(w) \/ Inspected(w) \/ WorkerEnds(w)

-----------------------------------------------------------------------------
(* The aggregator holds observations to put them in order: those of a      *)
(* replay to the end.  One of them may raise several alerts; at a full     *)
(* channel the rest are left.                                              *)
AggReceive ==
  /\ agg = "run" /\ obsQ > 0
  /\ obsQ' = obsQ - 1 /\ held' = held + 1
  /\ UNCHANGED <<mode, running, main, capture, free, queue, wpc, flowQ, alertQ,
                 outQ, dumpQ, jobs, agg, gate, hand, late, writer, flowWriter,
                 pcapWriter, counts>>

AggProcess ==
  /\ agg = "run" /\ held > 0
  /\ mode.replay => ObsClosed /\ obsQ = 0
  /\ held' = held - 1
  /\ \E a \in 0 .. 2 :
       /\ alertQ' = alertQ + Taken(alertQ, a)
       /\ raised' = raised + a
       /\ left' = left + (a - Taken(alertQ, a))
  /\ UNCHANGED <<mode, running, main, capture, free, queue, wpc, obsQ, flowQ,
                 outQ, dumpQ, jobs, agg, gate, hand, late, writer, flowWriter,
                 pcapWriter, dropped, exhausted, alertsShed, settled, ends>>

AggEnds ==
  /\ agg = "run" /\ ObsClosed /\ obsQ = 0 /\ held = 0
  /\ agg' = "done"
  /\ UNCHANGED <<mode, running, main, capture, free, queue, wpc, chans, held,
                 gate, hand, late, writer, flowWriter, pcapWriter, counts>>

Aggregator == AggReceive \/ AggProcess \/ AggEnds

-----------------------------------------------------------------------------
(* The gate: an alert is passed on or withheld, and one a replay has to    *)
(* count in order is kept to the end.  Passing it on waits for room.       *)
GateReceive ==
  /\ gate = "run" /\ hand = 0 /\ alertQ > 0
  /\ alertQ' = alertQ - 1
  /\ \/ hand' = 1 /\ UNCHANGED <<late, settled>>
     \/ ~mode.replay /\ settled' = settled + 1 /\ UNCHANGED <<hand, late>>
     \/ mode.replay /\ late' = late + 1 /\ UNCHANGED <<hand, settled>>
  /\ UNCHANGED <<mode, running, main, capture, free, queue, wpc, obsQ, flowQ,
                 outQ, dumpQ, jobs, agg, held, gate, writer, flowWriter,
                 pcapWriter, left, dropped, exhausted, raised, alertsShed,
                 ends>>

GateSettle ==
  /\ gate = "run" /\ hand = 0 /\ late > 0 /\ AlertsClosed /\ alertQ = 0
  /\ late' = late - 1
  /\ \/ hand' = 1 /\ UNCHANGED settled
     \/ settled' = settled + 1 /\ UNCHANGED hand
  /\ UNCHANGED <<mode, running, main, capture, free, queue, wpc, chans, agg,
                 held, gate, writer, flowWriter, pcapWriter, left, dropped,
                 exhausted, raised, alertsShed, ends>>

GateSend ==
  /\ gate = "run" /\ hand = 1 /\ outQ < AlertQueue
  /\ hand' = 0 /\ outQ' = outQ + 1
  /\ UNCHANGED <<mode, running, main, capture, free, queue, wpc, obsQ, flowQ,
                 alertQ, dumpQ, jobs, agg, held, gate, late, writer, flowWriter,
                 pcapWriter, counts>>

(* A slip: the alerts held for the end are forgotten. *)
GateEndsEarly ==
  /\ gate = "run" /\ hand = 0 /\ alertQ = 0 /\ AlertsClosed
  /\ gate' = "done"
  /\ UNCHANGED <<mode, running, main, capture, free, queue, wpc, chans, agg,
                 held, hand, late, writer, flowWriter, pcapWriter, counts>>

GateEnds ==
  /\ gate = "run" /\ hand = 0 /\ late = 0 /\ alertQ = 0 /\ AlertsClosed
  /\ gate' = "done"
  /\ UNCHANGED <<mode, running, main, capture, free, queue, wpc, chans, agg,
                 held, hand, late, writer, flowWriter, pcapWriter, counts>>

Gate == GateReceive \/ GateSettle \/ GateSend \/ GateEnds

-----------------------------------------------------------------------------
(* The alert writer: an alert is suppressed, or written and a dump asked   *)
(* for.                                                                    *)
WriterReceive ==
  /\ writer = "run" /\ outQ > 0
  /\ outQ' = outQ - 1 /\ settled' = settled + 1
  /\ \E d \in IF mode.dumps THEN {0, 1} ELSE {0} : dumpQ' = dumpQ + d
  /\ UNCHANGED <<mode, running, main, capture, free, queue, wpc, obsQ, flowQ,
                 alertQ, jobs, stages, left, dropped, exhausted, raised,
                 alertsShed, ends>>

WriterEnds ==
  /\ writer = "run" /\ outQ = 0 /\ gate = "done"
  /\ writer' = "done"
  /\ UNCHANGED <<mode, running, main, capture, free, queue, wpc, chans, agg,
                 held, gate, hand, late, flowWriter, pcapWriter, counts>>

FlowWriterStep ==
  /\ flowWriter = "run"
  /\ \/ flowQ > 0 /\ flowQ' = flowQ - 1 /\ UNCHANGED flowWriter
     \/ flowQ = 0 /\ FlowsClosed /\ flowWriter' = "done" /\ UNCHANGED flowQ
  /\ UNCHANGED <<mode, running, main, capture, free, queue, wpc, obsQ, alertQ,
                 outQ, dumpQ, jobs, agg, held, gate, hand, late, writer,
                 pcapWriter, counts>>

PcapWriterStep ==
  /\ pcapWriter = "run"
  /\ \/ jobs > 0 /\ jobs' = jobs - 1 /\ UNCHANGED pcapWriter
     \/ jobs = 0 /\ JobsClosed /\ pcapWriter' = "done" /\ UNCHANGED jobs
  /\ UNCHANGED <<mode, running, main, capture, free, queue, wpc, obsQ, flowQ,
                 alertQ, outQ, dumpQ, agg, held, gate, hand, late, writer,
                 flowWriter, counts>>

(* main() waits for the captures and then joins the threads in turn. *)
Joins(from, over, to) == main = from /\ over /\ main' = to

Join ==
  /\ \/ Joins("capture", \A c \in Captures : cpc[c] = "done", "workers")
     \/ Joins("workers", WorkersDone, "behavior")
     \/ Joins("behavior", agg = "done", "gate")
     \/ Joins("gate", gate = "done", "writer")
     \/ Joins("writer", writer = "done", "flows")
     \/ Joins("flows", flowWriter = "done", "pcap")
     \/ Joins("pcap", pcapWriter = "done", "done")
  /\ UNCHANGED <<mode, running, capture, free, queue, wpc, chans, stages,
                 counts>>

Next ==
  \/ Stop
  \/ \E c \in Captures : Capture(c)
  \/ \E w \in Workers : Worker(w)
  \/ Aggregator \/ Gate \/ WriterReceive \/ WriterEnds
  \/ FlowWriterStep \/ PcapWriterStep
  \/ Join

Spec == Init /\ [][Next]_vars

(* Every thread is run by the scheduler. *)
FairSpec ==
  /\ Spec
  /\ \A c \in Captures : WF_vars(Capture(c))
  /\ \A w \in Workers : WF_vars(Worker(w))
  /\ WF_vars(Aggregator) /\ WF_vars(Gate) /\ WF_vars(WriterReceive \/ WriterEnds)
  /\ WF_vars(FlowWriterStep) /\ WF_vars(PcapWriterStep) /\ WF_vars(Join)

-----------------------------------------------------------------------------
TypeOK ==
  /\ mode \in Modes /\ running \in BOOLEAN
  /\ main \in {"capture", "workers", "behavior", "gate", "writer", "flows", "pcap", "done"}
  /\ cpc \in [Captures -> {"read", "buffer", "decode", "send", "drain", "done"}]
  /\ shard \in [Captures -> Workers] /\ frames \in [Captures -> 0 .. mode.frames]
  /\ free \in Nat /\ queue \in [Workers -> 0 .. QueueSize]
  /\ wpc \in [Workers -> {"recv", "busy", "done"}]
  /\ obsQ \in 0 .. AlertQueue /\ flowQ \in 0 .. AlertQueue
  /\ alertQ \in 0 .. AlertQueue /\ outQ \in 0 .. AlertQueue
  /\ dumpQ \in Nat /\ jobs \in Nat
  /\ {agg, gate, writer, flowWriter, pcapWriter} \subseteq {"run", "done"}
  /\ held \in Nat /\ hand \in {0, 1} /\ late \in Nat
  /\ dropped \in Nat /\ exhausted \in Nat /\ raised \in Nat /\ alertsShed \in Nat
  /\ left \in Nat /\ settled \in Nat /\ ends \in Nat

InHand  == {c \in Captures : cpc[c] \in {"decode", "send"}}
Busy    == {w \in Workers : wpc[w] = "busy"}
Queued  == {p \in Workers \X (1 .. QueueSize) : p[2] <= queue[p[1]]}
Seen    == {p \in mode.captures \X (1 .. mode.frames) : p[2] > frames[p[1]]}

(* The pool is never bled dry: every buffer is free, in a capture's hands, *)
(* queued or being inspected, whichever way its frame went.                *)
BuffersConserved ==
  free + Cardinality(InHand) + Cardinality(Queued) + Cardinality(Busy) = PoolSize

(* The process exits with nothing unserved: no packet, observation, record,*)
(* alert or dump is left in a channel or in a thread's hands, and no       *)
(* thread has ended while something it reads could still be sent.          *)
NothingLeftBehind ==
  /\ main = "done" =>
       /\ free = PoolSize
       /\ obsQ + flowQ + alertQ + outQ + dumpQ + jobs + held + hand + late = 0
  /\ agg = "done" => WorkersDone
  /\ gate = "done" => AlertsClosed
  /\ writer = "done" => gate = "done" /\ outQ = 0

(* A replay inspects every frame of the file: none is shed, and none that  *)
(* was read is still in the pipeline at the end.                           *)
ReplayComplete ==
  mode.replay =>
    /\ dropped = 0 /\ exhausted = 0
    /\ main = "done" =>
         /\ ends = Cardinality(Seen)
         /\ running => ends = mode.frames

(* Shutting down does not hang: once asked to stop, or at the end of the   *)
(* file, every thread ends and main() returns.                             *)
ShutdownEnds == (~running \/ mode.replay) ~> main = "done"

(* No alert disappears between two stages: each one raised is settled, was *)
(* counted as shed, is on its way, or was left by the aggregator at a full *)
(* channel, which no counter tells.                                        *)
AlertsConserved ==
  raised = settled + alertsShed + left + alertQ + outQ + hand + late

(* Whichever way each goes, no buffer leaks from the pool and no alert     *)
(* vanishes between two threads.                                           *)
NothingLost == TypeOK /\ BuffersConserved /\ AlertsConserved

(* When the process ends it has served what it took: all of a replay, and  *)
(* all that was still on its way between threads.                          *)
EndsClean == NothingLeftBehind /\ ReplayComplete
=============================================================================
