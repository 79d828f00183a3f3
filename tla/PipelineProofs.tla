--------------------------- MODULE PipelineProofs ---------------------------
(***************************************************************************)
(* For any threads, queue depths and pool size, any way the process may be *)
(* started and any file: no buffer leaks, no alert vanishes between two    *)
(* threads, and the process exits with nothing left behind, having         *)
(* inspected all of a replay.                                              *)
(***************************************************************************)
EXTENDS Pipeline, FiniteSetTheorems, TLAPS

-----------------------------------------------------------------------------
(* The parts of the inductive invariant besides what the run checks. *)

Waiting == {c \in Captures : cpc[c] = "buffer"}

(* A frame that was read is waiting for a buffer, holds one, or is over. *)
FramesAccounted ==
  Cardinality(Seen) = ends + Cardinality(Waiting) + Cardinality(InHand)
                           + Cardinality(Queued) + Cardinality(Busy)

(* Only what the mode names runs, and packets go only to workers. *)
Started ==
  /\ \A c \in Captures \ mode.captures : cpc[c] = "done"
  /\ \A c \in Captures : shard[c] \in mode.workers

(* A worker ends behind the captures, with its queue empty. *)
WorkersLast ==
  \A w \in Workers : wpc[w] = "done" =>
    /\ queue[w] = 0
    /\ w \in mode.workers => PacketsClosed

(* A stage ends behind the last of its senders, with nothing in hand. *)
StagesLast ==
  /\ agg = "done" => WorkersDone /\ obsQ = 0 /\ held = 0
  /\ gate = "done" => AlertsClosed /\ alertQ = 0 /\ hand = 0 /\ late = 0
  /\ writer = "done" => gate = "done" /\ outQ = 0
  /\ flowWriter = "done" => FlowsClosed /\ flowQ = 0
  /\ pcapWriter = "done" => JobsClosed /\ jobs = 0

(* What main() has joined is over. *)
Joined ==
  /\ main # "capture" => \A c \in Captures : cpc[c] = "done"
  /\ main \notin {"capture", "workers"} => WorkersDone
  /\ main \in {"gate", "writer", "flows", "pcap", "done"} => agg = "done"
  /\ main \in {"writer", "flows", "pcap", "done"} => gate = "done"
  /\ main \in {"flows", "pcap", "done"} => writer = "done"
  /\ main \in {"pcap", "done"} => flowWriter = "done"
  /\ main = "done" => pcapWriter = "done"

(* A capture that serves dumps waits for the alert writer, the one that    *)
(* asks for them.                                                          *)
DumpsServed ==
  /\ \A c \in mode.captures : mode.dumps /\ cpc[c] = "done" => writer = "done" /\ dumpQ = 0
  /\ ~mode.dumps => dumpQ = 0

(* A replay sheds nothing, and ends at the end of its file unless stopped. *)
ReplayWhole ==
  mode.replay =>
    /\ dropped = 0 /\ exhausted = 0
    /\ running => \A c \in mode.captures : CaptureOver(c) => frames[c] = 0

Balanced == BuffersConserved /\ FramesAccounted
Closing  == Started /\ WorkersLast /\ StagesLast /\ Joined /\ DumpsServed

IInv == TypeOK /\ Balanced /\ AlertsConserved /\ Closing /\ ReplayWhole

-----------------------------------------------------------------------------
(* A mode names captures, workers and a length. *)
LEMMA ModeIs ==
  ASSUME TypeOK
  PROVE  /\ mode.captures \subseteq Captures /\ mode.captures # {}
         /\ mode.workers \subseteq Workers /\ mode.workers # {}
         /\ mode.frames \in Nat
         /\ mode.replay \in BOOLEAN /\ mode.dumps \in BOOLEAN
         /\ (mode.replay \/ mode.dumps) => Cardinality(mode.captures) = 1
         /\ IsFiniteSet(mode.captures)
<1>1. mode \in Mode /\ mode \in Modes
  BY PipelineAssumption DEF TypeOK
<1>2. /\ mode.captures \subseteq Captures /\ mode.captures # {}
      /\ mode.workers \subseteq Workers /\ mode.workers # {}
      /\ mode.frames \in Nat
  BY <1>1 DEF Mode
<1>3. mode.replay \in BOOLEAN /\ mode.dumps \in BOOLEAN
  BY <1>1, Zenon DEF Mode
<1>4. (mode.replay \/ mode.dumps) => Cardinality(mode.captures) = 1
  BY <1>1, PipelineAssumption
<1>5. mode.captures \in SUBSET Captures /\ IsFiniteSet(Captures)
  BY <1>2, PipelineAssumption
<1>6. IsFiniteSet(mode.captures)
  BY <1>5, FS_Subset
<1> QED
  BY <1>2, <1>3, <1>4, <1>6

LEMMA TakenFits ==
  ASSUME NEW q \in 0 .. AlertQueue, NEW n \in Nat
  PROVE  Taken(q, n) \in 0 .. n /\ q + Taken(q, n) \in 0 .. AlertQueue
BY PipelineAssumption DEF Taken, Least

-----------------------------------------------------------------------------
(* How the counted sets grow and shrink. *)

(* One thread moves: the number of those at given places follows. *)
Placed(f, V) == {y \in DOMAIN f : f[y] \in V}
Put(f, x, v) == [f EXCEPT ![x] = v]
One(v, V) == IF v \in V THEN 1 ELSE 0

LEMMA Moves ==
  ASSUME NEW f, IsFiniteSet(DOMAIN f), NEW x \in DOMAIN f, NEW v, NEW V
  PROVE  Cardinality(Placed(Put(f, x, v), V)) = Cardinality(Placed(f, V)) - One(f[x], V) + One(v, V)
<1> DEFINE A == Placed(f, V)
           B == Placed(Put(f, x, v), V)
<1>1. A \in SUBSET DOMAIN f
  BY DEF Placed, Put
<1>2. IsFiniteSet(A)
  BY <1>1, FS_Subset
<1>3. Cardinality(A) \in Nat
  BY <1>2, FS_CardinalityType
<1>4. CASE f[x] \in V /\ v \in V
  <2>1. B = A
    BY <1>4 DEF Placed, Put
  <2>2. One(f[x], V) = 1 /\ One(v, V) = 1
    BY <1>4 DEF One
  <2> QED BY <2>1, <2>2, <1>3
<1>5. CASE f[x] \notin V /\ v \notin V
  <2>1. B = A
    BY <1>5 DEF Placed, Put
  <2>2. One(f[x], V) = 0 /\ One(v, V) = 0
    BY <1>5 DEF One
  <2> QED BY <2>1, <2>2, <1>3
<1>6. CASE f[x] \in V /\ v \notin V
  <2>1. B = A \ {x} /\ x \in A
    BY <1>6 DEF Placed, Put
  <2>2. One(f[x], V) = 1 /\ One(v, V) = 0
    BY <1>6 DEF One
  <2>3. Cardinality(A \ {x}) = Cardinality(A) - 1
    BY <1>2, <2>1, FS_RemoveElement
  <2>4. Cardinality(B) = Cardinality(A) - 1
    <3> HIDE DEF A, B
    <3> QED BY <2>1, <2>3, Zenon
  <2> QED BY <2>2, <2>4, <1>3
<1>7. CASE f[x] \notin V /\ v \in V
  <2>1. B = A \cup {x} /\ x \notin A
    BY <1>7 DEF Placed, Put
  <2>2. One(f[x], V) = 0 /\ One(v, V) = 1
    BY <1>7 DEF One
  <2>3. Cardinality(A \cup {x}) = Cardinality(A) + 1
    BY <1>2, <2>1, FS_AddElement
  <2>4. Cardinality(B) = Cardinality(A) + 1
    <3> HIDE DEF A, B
    <3> QED BY <2>1, <2>3, Zenon
  <2> QED BY <2>2, <2>4, <1>3
<1> QED
  BY <1>4, <1>5, <1>6, <1>7

Counting ==
  /\ IsFiniteSet(Queued) /\ IsFiniteSet(Seen)
  /\ Cardinality(Queued) \in Nat /\ Cardinality(Seen) \in Nat
  /\ Cardinality(InHand) \in Nat /\ Cardinality(Busy) \in Nat
  /\ Cardinality(Waiting) \in Nat

LEMMA Countable == TypeOK => Counting
<1> SUFFICES ASSUME TypeOK PROVE Counting
  OBVIOUS
<1>1. /\ IsFiniteSet(Captures) /\ IsFiniteSet(Workers)
      /\ IsFiniteSet(mode.captures) /\ mode.frames \in Nat /\ QueueSize \in Nat
  BY ModeIs, PipelineAssumption
<1>2. IsFiniteSet(1 .. QueueSize) /\ IsFiniteSet(1 .. mode.frames)
  BY <1>1, FS_Interval
<1>3. IsFiniteSet(Workers \X (1 .. QueueSize))
  BY <1>1, <1>2, FS_Product
<1>4. IsFiniteSet(mode.captures \X (1 .. mode.frames))
  BY <1>1, <1>2, FS_Product
<1>5. /\ Queued \in SUBSET (Workers \X (1 .. QueueSize))
      /\ Seen \in SUBSET (mode.captures \X (1 .. mode.frames))
      /\ InHand \in SUBSET Captures /\ Waiting \in SUBSET Captures
      /\ Busy \in SUBSET Workers
  BY DEF Queued, Seen, InHand, Waiting, Busy
<1>6. IsFiniteSet(Queued)
  BY <1>3, <1>5, FS_Subset
<1>7. IsFiniteSet(Seen)
  BY <1>4, <1>5, FS_Subset
<1>8. IsFiniteSet(InHand) /\ IsFiniteSet(Waiting)
  BY <1>1, <1>5, FS_Subset
<1>9. IsFiniteSet(Busy)
  BY <1>1, <1>5, FS_Subset
<1> QED
  BY <1>6, <1>7, <1>8, <1>9, FS_CardinalityType DEF Counting

CaptureMoved(c, to) ==
  /\ Cardinality(Waiting)' = Cardinality(Waiting) - One(cpc[c], {"buffer"}) + One(to, {"buffer"})
  /\ Cardinality(InHand)' = Cardinality(InHand) - One(cpc[c], {"decode", "send"})
                                                + One(to, {"decode", "send"})

WorkerMoved(w, to) ==
  Cardinality(Busy)' = Cardinality(Busy) - One(wpc[w], {"busy"}) + One(to, {"busy"})

LEMMA CaptureMoves ==
  ASSUME TypeOK, NEW c \in Captures, NEW to, cpc' = [cpc EXCEPT ![c] = to]
  PROVE  CaptureMoved(c, to)
<1>1. /\ IsFiniteSet(DOMAIN cpc) /\ c \in DOMAIN cpc /\ DOMAIN cpc = Captures
      /\ cpc' = Put(cpc, c, to) /\ DOMAIN cpc' = Captures
  BY PipelineAssumption DEF TypeOK, Put
<1>2. Cardinality(Placed(Put(cpc, c, to), {"buffer"})) =
        Cardinality(Placed(cpc, {"buffer"})) - One(cpc[c], {"buffer"}) + One(to, {"buffer"})
  BY <1>1, Moves
<1>3. Cardinality(Placed(Put(cpc, c, to), {"decode", "send"})) =
        Cardinality(Placed(cpc, {"decode", "send"}))
          - One(cpc[c], {"decode", "send"}) + One(to, {"decode", "send"})
  BY <1>1, Moves
<1>4. /\ Waiting = Placed(cpc, {"buffer"}) /\ Waiting' = Placed(cpc', {"buffer"})
      /\ InHand = Placed(cpc, {"decode", "send"}) /\ InHand' = Placed(cpc', {"decode", "send"})
  BY <1>1 DEF Waiting, InHand, Placed
<1> QED
  BY <1>1, <1>2, <1>3, <1>4, Zenon DEF CaptureMoved

LEMMA WorkerMoves ==
  ASSUME TypeOK, NEW w \in Workers, NEW to, wpc' = [wpc EXCEPT ![w] = to]
  PROVE  WorkerMoved(w, to)
<1>1. /\ IsFiniteSet(DOMAIN wpc) /\ w \in DOMAIN wpc /\ DOMAIN wpc = Workers
      /\ wpc' = Put(wpc, w, to) /\ DOMAIN wpc' = Workers
  BY PipelineAssumption DEF TypeOK, Put
<1>2. Cardinality(Placed(Put(wpc, w, to), {"busy"})) =
        Cardinality(Placed(wpc, {"busy"})) - One(wpc[w], {"busy"}) + One(to, {"busy"})
  BY <1>1, Moves
<1>3. Busy = Placed(wpc, {"busy"}) /\ Busy' = Placed(wpc', {"busy"})
  BY <1>1 DEF Busy, Placed
<1> QED
  BY <1>1, <1>2, <1>3, Zenon DEF WorkerMoved

LEMMA QueueGrows ==
  ASSUME TypeOK, NEW w \in Workers, queue[w] < QueueSize,
         queue' = [queue EXCEPT ![w] = @ + 1]
  PROVE  Cardinality(Queued)' = Cardinality(Queued) + 1
<1>1. queue[w] \in Nat /\ queue[w] + 1 \in 1 .. QueueSize
  BY PipelineAssumption DEF TypeOK
<1>2. Queued' = Queued \cup {<<w, queue[w] + 1>>} /\ <<w, queue[w] + 1>> \notin Queued
  BY <1>1, PipelineAssumption DEF Queued, TypeOK
<1>3. IsFiniteSet(Queued)
  BY Countable DEF Counting
<1> QED
  BY <1>2, <1>3, FS_AddElement

LEMMA QueueShrinks ==
  ASSUME TypeOK, NEW w \in Workers, queue[w] > 0,
         queue' = [queue EXCEPT ![w] = @ - 1]
  PROVE  Cardinality(Queued)' = Cardinality(Queued) - 1
<1>1. queue[w] \in 1 .. QueueSize
  BY PipelineAssumption DEF TypeOK
<1>2. Queued' = Queued \ {<<w, queue[w]>>} /\ <<w, queue[w]>> \in Queued
  BY <1>1, PipelineAssumption DEF Queued, TypeOK
<1>3. IsFiniteSet(Queued)
  BY Countable DEF Counting
<1> QED
  BY <1>2, <1>3, FS_RemoveElement

LEMMA SeenGrows ==
  ASSUME TypeOK, NEW c \in mode.captures, frames[c] > 0, mode' = mode,
         frames' = [frames EXCEPT ![c] = @ - 1]
  PROVE  Cardinality(Seen)' = Cardinality(Seen) + 1
<1>0. c \in Captures /\ mode.captures \subseteq Captures /\ mode.frames \in Nat
  BY ModeIs
<1>1. frames[c] \in 1 .. mode.frames
  BY <1>0 DEF TypeOK
<1>2. Seen' = Seen \cup {<<c, frames[c]>>} /\ <<c, frames[c]>> \notin Seen
  BY <1>0, <1>1 DEF Seen, TypeOK
<1>3. IsFiniteSet(Seen)
  BY Countable DEF Counting
<1> QED
  BY <1>2, <1>3, FS_AddElement

-----------------------------------------------------------------------------
(* Type correctness, an action at a time. *)
LEMMA ReportKeepsType ==
  ASSUME TypeOK, NEW r \in {0, 1}, NEW o \in {0, 1}, NEW a \in {0, 1}, Report(r, o, a)
  PROVE  /\ flowQ' \in 0 .. AlertQueue /\ obsQ' \in 0 .. AlertQueue /\ alertQ' \in 0 .. AlertQueue
         /\ raised' \in Nat /\ alertsShed' \in Nat
<1>1. flowQ + Taken(flowQ, r) \in 0 .. AlertQueue /\ obsQ + Taken(obsQ, o) \in 0 .. AlertQueue
  BY TakenFits DEF TypeOK
<1>2. alertQ + Taken(alertQ, a) \in 0 .. AlertQueue /\ Taken(alertQ, a) \in 0 .. a
  BY TakenFits DEF TypeOK
<1> QED
  BY <1>1, <1>2 DEF Report, TypeOK

LEMMA TypeStep == TypeOK /\ [Next]_vars => TypeOK'
<1> SUFFICES ASSUME TypeOK, [Next]_vars PROVE TypeOK'
  OBVIOUS
<1> USE PipelineAssumption DEF TypeOK
<1>1. CASE Stop
  BY <1>1 DEF Stop, capture, chans, stages, counts
<1>2. ASSUME NEW c \in Captures, Service(c) PROVE TypeOK'
  BY <1>2 DEF Service, capture, chans, stages, counts
<1>3. ASSUME NEW c \in Captures, NextPacket(c) PROVE TypeOK'
  BY <1>3, ModeIs DEF NextPacket, capture, chans, stages, counts
<1>4. ASSUME NEW c \in Captures, GetBuffer(c) PROVE TypeOK'
  BY <1>4 DEF GetBuffer, capture, chans, stages, counts
<1>5. ASSUME NEW c \in Captures, NoBuffer(c) PROVE TypeOK'
  BY <1>5 DEF NoBuffer, capture, chans, stages, counts
<1>6. ASSUME NEW c \in Captures, NoPacket(c) PROVE TypeOK'
  BY <1>6 DEF NoPacket, capture, chans, stages, counts
<1>7. ASSUME NEW c \in Captures, NEW w \in mode.workers, Decoded(c, w) PROVE TypeOK'
  BY <1>7, ModeIs DEF Decoded, capture, chans, stages, counts
<1>8. ASSUME NEW c \in Captures, Send(c) PROVE TypeOK'
  BY <1>8 DEF Send, capture, chans, stages, counts
<1>9. ASSUME NEW c \in Captures, QueueFull(c) PROVE TypeOK'
  BY <1>9 DEF QueueFull, capture, chans, stages, counts
<1>10. ASSUME NEW c \in Captures, CaptureEnds(c) PROVE TypeOK'
  BY <1>10 DEF CaptureEnds, capture, chans, stages, counts
<1>11. ASSUME NEW c \in Captures, OpenFails(c) PROVE TypeOK'
  BY <1>11 DEF OpenFails, capture, chans, stages, counts
<1>12. ASSUME NEW c \in Captures, DrainRemaining(c) PROVE TypeOK'
  BY <1>12 DEF DrainRemaining, capture, chans, stages, counts
<1>13. ASSUME NEW w \in Workers, Receive(w) PROVE TypeOK'
  BY <1>13 DEF Receive, capture, chans, stages, counts
<1>14. ASSUME NEW w \in Workers, Inspected(w) PROVE TypeOK'
  <2>1. PICK r, o, a \in {0, 1} : Report(r, o, a)
    BY <1>14 DEF Inspected
  <2>2. /\ flowQ' \in 0 .. AlertQueue /\ obsQ' \in 0 .. AlertQueue /\ alertQ' \in 0 .. AlertQueue
        /\ raised' \in Nat /\ alertsShed' \in Nat
    BY <2>1, ReportKeepsType
  <2> QED
    BY <1>14, <2>2 DEF Inspected, capture, chans, stages, counts
<1>15. ASSUME NEW w \in Workers, WorkerEnds(w) PROVE TypeOK'
  <2>1. PICK r, o, a \in {0, 1} : Report(r, o, a)
    BY <1>15 DEF WorkerEnds
  <2>2. /\ flowQ' \in 0 .. AlertQueue /\ obsQ' \in 0 .. AlertQueue /\ alertQ' \in 0 .. AlertQueue
        /\ raised' \in Nat /\ alertsShed' \in Nat
    BY <2>1, ReportKeepsType
  <2> QED
    BY <1>15, <2>2 DEF WorkerEnds, capture, chans, stages, counts
<1>16. CASE AggReceive
  BY <1>16 DEF AggReceive, capture, chans, stages, counts
<1>17. CASE AggProcess
  <2>1. PICK a \in 0 .. 2 : /\ alertQ' = alertQ + Taken(alertQ, a)
                            /\ raised' = raised + a
                            /\ left' = left + (a - Taken(alertQ, a))
    BY <1>17 DEF AggProcess
  <2>2. Taken(alertQ, a) \in 0 .. a /\ alertQ + Taken(alertQ, a) \in 0 .. AlertQueue
    <3>1. a \in Nat /\ alertQ \in 0 .. AlertQueue
      OBVIOUS
    <3> QED BY <3>1, TakenFits
  <2>3. alertQ' \in 0 .. AlertQueue /\ raised' \in Nat /\ left' \in Nat
    BY <2>1, <2>2
  <2> QED
    BY <1>17, <2>3 DEF AggProcess, capture, chans, stages, counts
<1>18. CASE AggEnds
  BY <1>18 DEF AggEnds, capture, chans, stages, counts
<1>19. CASE GateReceive
  BY <1>19 DEF GateReceive, capture, chans, stages, counts
<1>20. CASE GateSettle
  BY <1>20 DEF GateSettle, capture, chans, stages, counts
<1>21. CASE GateSend
  BY <1>21 DEF GateSend, capture, chans, stages, counts
<1>22. CASE GateEnds
  BY <1>22 DEF GateEnds, capture, chans, stages, counts
<1>23. CASE WriterReceive
  BY <1>23 DEF WriterReceive, capture, chans, stages, counts
<1>24. CASE WriterEnds
  BY <1>24 DEF WriterEnds, capture, chans, stages, counts
<1>25. CASE FlowWriterStep
  BY <1>25 DEF FlowWriterStep, capture, chans, stages, counts
<1>26. CASE PcapWriterStep
  BY <1>26 DEF PcapWriterStep, capture, chans, stages, counts
<1>27. CASE Join
  BY <1>27 DEF Join, Joins, capture, chans, stages, counts
<1>28. CASE UNCHANGED vars
  BY <1>28 DEF vars, capture, chans, stages, counts
<1> QED
  BY <1>1, <1>2, <1>3, <1>4, <1>5, <1>6, <1>7, <1>8, <1>9, <1>10, <1>11, <1>12, <1>13, <1>14, <1>15, <1>16, <1>17, <1>18, <1>19, <1>20, <1>21, <1>22, <1>23, <1>24, <1>25, <1>26, <1>27, <1>28 DEF Next, Capture, Worker, Aggregator, Gate

-----------------------------------------------------------------------------
(* What a worker sends on is raised, and on its way or counted as shed. *)
LEMMA ReportConserves ==
  ASSUME TypeOK, AlertsConserved, NEW r \in {0, 1}, NEW o \in {0, 1}, NEW a \in {0, 1},
         Report(r, o, a), UNCHANGED <<outQ, hand, late, left, settled>>
  PROVE  AlertsConserved'
<1>1. Taken(alertQ, a) \in 0 .. a
  BY TakenFits DEF TypeOK
<1> QED
  BY <1>1 DEF Report, TypeOK, AlertsConserved

(* No alert vanishes, an action at a time. *)
LEMMA AlertsStep == TypeOK /\ AlertsConserved /\ [Next]_vars => AlertsConserved'
<1> SUFFICES ASSUME TypeOK, AlertsConserved, [Next]_vars PROVE AlertsConserved'
  OBVIOUS
<1> USE DEF TypeOK, AlertsConserved
<1>1. CASE Stop
  BY <1>1 DEF Stop, capture, chans, stages, counts
<1>2. ASSUME NEW c \in Captures, Service(c) PROVE AlertsConserved'
  BY <1>2 DEF Service, capture, chans, stages, counts
<1>3. ASSUME NEW c \in Captures, NextPacket(c) PROVE AlertsConserved'
  BY <1>3 DEF NextPacket, capture, chans, stages, counts
<1>4. ASSUME NEW c \in Captures, GetBuffer(c) PROVE AlertsConserved'
  BY <1>4 DEF GetBuffer, capture, chans, stages, counts
<1>5. ASSUME NEW c \in Captures, NoBuffer(c) PROVE AlertsConserved'
  BY <1>5 DEF NoBuffer, capture, chans, stages, counts
<1>6. ASSUME NEW c \in Captures, NoPacket(c) PROVE AlertsConserved'
  BY <1>6 DEF NoPacket, capture, chans, stages, counts
<1>7. ASSUME NEW c \in Captures, NEW w \in mode.workers, Decoded(c, w) PROVE AlertsConserved'
  BY <1>7 DEF Decoded, capture, chans, stages, counts
<1>8. ASSUME NEW c \in Captures, Send(c) PROVE AlertsConserved'
  BY <1>8 DEF Send, capture, chans, stages, counts
<1>9. ASSUME NEW c \in Captures, QueueFull(c) PROVE AlertsConserved'
  BY <1>9 DEF QueueFull, capture, chans, stages, counts
<1>10. ASSUME NEW c \in Captures, CaptureEnds(c) PROVE AlertsConserved'
  BY <1>10 DEF CaptureEnds, capture, chans, stages, counts
<1>11. ASSUME NEW c \in Captures, OpenFails(c) PROVE AlertsConserved'
  BY <1>11 DEF OpenFails, capture, chans, stages, counts
<1>12. ASSUME NEW c \in Captures, DrainRemaining(c) PROVE AlertsConserved'
  BY <1>12 DEF DrainRemaining, capture, chans, stages, counts
<1>13. ASSUME NEW w \in Workers, Receive(w) PROVE AlertsConserved'
  BY <1>13 DEF Receive, capture, chans, stages, counts
<1>14. ASSUME NEW w \in Workers, Inspected(w) PROVE AlertsConserved'
  <2>1. PICK r, o, a \in {0, 1} : Report(r, o, a)
    BY <1>14 DEF Inspected
  <2>2. AlertsConserved'
    BY <1>14, <2>1, ReportConserves DEF Inspected, stages
  <2> QED
    BY <2>2
<1>15. ASSUME NEW w \in Workers, WorkerEnds(w) PROVE AlertsConserved'
  <2>1. PICK r, o, a \in {0, 1} : Report(r, o, a)
    BY <1>15 DEF WorkerEnds
  <2>2. AlertsConserved'
    BY <1>15, <2>1, ReportConserves DEF WorkerEnds, stages
  <2> QED
    BY <2>2
<1>16. CASE AggReceive
  BY <1>16 DEF AggReceive, capture, chans, stages, counts
<1>17. CASE AggProcess
  <2>1. PICK a \in 0 .. 2 : /\ alertQ' = alertQ + Taken(alertQ, a)
                            /\ raised' = raised + a
                            /\ left' = left + (a - Taken(alertQ, a))
    BY <1>17 DEF AggProcess
  <2>2. a \in Nat /\ alertQ \in 0 .. AlertQueue
    OBVIOUS
  <2>3. Taken(alertQ, a) \in 0 .. a
    BY <2>2, TakenFits
  <2> QED
    BY <1>17, <2>1, <2>3 DEF AggProcess
<1>18. CASE AggEnds
  BY <1>18 DEF AggEnds, capture, chans, stages, counts
<1>19. CASE GateReceive
  BY <1>19 DEF GateReceive, capture, chans, stages, counts
<1>20. CASE GateSettle
  BY <1>20 DEF GateSettle, capture, chans, stages, counts
<1>21. CASE GateSend
  BY <1>21 DEF GateSend, capture, chans, stages, counts
<1>22. CASE GateEnds
  BY <1>22 DEF GateEnds, capture, chans, stages, counts
<1>23. CASE WriterReceive
  BY <1>23 DEF WriterReceive, capture, chans, stages, counts
<1>24. CASE WriterEnds
  BY <1>24 DEF WriterEnds, capture, chans, stages, counts
<1>25. CASE FlowWriterStep
  BY <1>25 DEF FlowWriterStep, capture, chans, stages, counts
<1>26. CASE PcapWriterStep
  BY <1>26 DEF PcapWriterStep, capture, chans, stages, counts
<1>27. CASE Join
  BY <1>27 DEF Join, capture, chans, stages, counts
<1>28. CASE UNCHANGED vars
  BY <1>28 DEF vars, capture, chans, stages, counts
<1> QED
  BY <1>1, <1>2, <1>3, <1>4, <1>5, <1>6, <1>7, <1>8, <1>9, <1>10, <1>11, <1>12, <1>13, <1>14, <1>15, <1>16, <1>17, <1>18, <1>19, <1>20, <1>21, <1>22, <1>23, <1>24, <1>25, <1>26, <1>27, <1>28 DEF Next, Capture, Worker, Aggregator, Gate

-----------------------------------------------------------------------------
(* Buffers and frames, an action at a time. *)
LEMMA Idle ==
  ASSUME Balanced, Waiting' = Waiting, InHand' = InHand, Busy' = Busy,
         UNCHANGED <<mode, frames, free, queue, ends>>
  PROVE  Balanced'
<1>1. Queued' = Queued /\ Seen' = Seen
  BY DEF Queued, Seen
<1> QED
  BY <1>1 DEF Balanced, BuffersConserved, FramesAccounted

LEMMA Unmoved ==
  ASSUME Balanced, UNCHANGED <<mode, cpc, frames, free, queue, wpc, ends>>
  PROVE  Balanced'
<1>1. Waiting' = Waiting /\ InHand' = InHand /\ Busy' = Busy
  BY DEF Waiting, InHand, Busy
<1> QED
  BY <1>1, Idle

LEMMA BalancedStep == TypeOK /\ Started /\ Balanced /\ [Next]_vars => Balanced'
<1> SUFFICES ASSUME TypeOK, Started, Balanced, [Next]_vars PROVE Balanced'
  OBVIOUS
<1>1. CASE Stop
  BY <1>1, Unmoved DEF Stop, capture, chans, stages, counts
<1>2. ASSUME NEW c \in Captures, Service(c) PROVE Balanced'
  BY <1>2, Unmoved DEF Service, capture, chans, stages, counts
<1>3. ASSUME NEW c \in Captures, NextPacket(c) PROVE Balanced'
  <2>0. c \in mode.captures
    BY <1>3 DEF Started, NextPacket
  <2>1. cpc' = [cpc EXCEPT ![c] = "buffer"]
    BY <1>3 DEF NextPacket
  <2>2. CaptureMoved(c, "buffer")
    BY <2>1, CaptureMoves
  <2>3. /\ Cardinality(Waiting)' = Cardinality(Waiting) + 1
        /\ Cardinality(InHand)' = Cardinality(InHand)
    BY <1>3, <2>2, Countable DEF NextPacket, CaptureMoved, One, Counting
  <2>4. Cardinality(Queued)' = Cardinality(Queued)
    BY <1>3, Countable DEF NextPacket, Queued, Counting
  <2>5. Cardinality(Busy)' = Cardinality(Busy) /\ Cardinality(Seen)' = Cardinality(Seen) + 1
    BY <1>3, <2>0, SeenGrows, Countable DEF NextPacket, Busy, Seen, Counting
  <2> QED
    BY <1>3, <2>3, <2>4, <2>5, Countable DEF NextPacket, counts, Balanced, BuffersConserved, FramesAccounted, TypeOK, Counting
<1>4. ASSUME NEW c \in Captures, GetBuffer(c) PROVE Balanced'
  <2>1. cpc' = [cpc EXCEPT ![c] = "decode"]
    BY <1>4 DEF GetBuffer
  <2>2. CaptureMoved(c, "decode")
    BY <2>1, CaptureMoves
  <2>3. /\ Cardinality(Waiting)' = Cardinality(Waiting) - 1
        /\ Cardinality(InHand)' = Cardinality(InHand) + 1
    BY <1>4, <2>2, Countable DEF GetBuffer, CaptureMoved, One, Counting
  <2>4. Cardinality(Queued)' = Cardinality(Queued)
    BY <1>4, Countable DEF GetBuffer, Queued, Counting
  <2>5. Cardinality(Busy)' = Cardinality(Busy) /\ Cardinality(Seen)' = Cardinality(Seen)
    BY <1>4, Countable DEF GetBuffer, Busy, Seen, Counting
  <2> QED
    BY <1>4, <2>3, <2>4, <2>5, Countable DEF GetBuffer, counts, Balanced, BuffersConserved, FramesAccounted, TypeOK, Counting
<1>5. ASSUME NEW c \in Captures, NoBuffer(c) PROVE Balanced'
  <2>1. cpc' = [cpc EXCEPT ![c] = "read"]
    BY <1>5 DEF NoBuffer
  <2>2. CaptureMoved(c, "read")
    BY <2>1, CaptureMoves
  <2>3. /\ Cardinality(Waiting)' = Cardinality(Waiting) - 1
        /\ Cardinality(InHand)' = Cardinality(InHand)
    BY <1>5, <2>2, Countable DEF NoBuffer, CaptureMoved, One, Counting
  <2>4. Cardinality(Queued)' = Cardinality(Queued)
    BY <1>5, Countable DEF NoBuffer, Queued, Counting
  <2>5. Cardinality(Busy)' = Cardinality(Busy) /\ Cardinality(Seen)' = Cardinality(Seen)
    BY <1>5, Countable DEF NoBuffer, Busy, Seen, Counting
  <2> QED
    BY <1>5, <2>3, <2>4, <2>5, Countable DEF NoBuffer, counts, Balanced, BuffersConserved, FramesAccounted, TypeOK, Counting
<1>6. ASSUME NEW c \in Captures, NoPacket(c) PROVE Balanced'
  <2>1. cpc' = [cpc EXCEPT ![c] = "read"]
    BY <1>6 DEF NoPacket
  <2>2. CaptureMoved(c, "read")
    BY <2>1, CaptureMoves
  <2>3. /\ Cardinality(Waiting)' = Cardinality(Waiting)
        /\ Cardinality(InHand)' = Cardinality(InHand) - 1
    BY <1>6, <2>2, Countable DEF NoPacket, CaptureMoved, One, Counting
  <2>4. Cardinality(Queued)' = Cardinality(Queued)
    BY <1>6, Countable DEF NoPacket, Queued, Counting
  <2>5. Cardinality(Busy)' = Cardinality(Busy) /\ Cardinality(Seen)' = Cardinality(Seen)
    BY <1>6, Countable DEF NoPacket, Busy, Seen, Counting
  <2> QED
    BY <1>6, <2>3, <2>4, <2>5, Countable DEF NoPacket, counts, Balanced, BuffersConserved, FramesAccounted, TypeOK, Counting
<1>7. ASSUME NEW c \in Captures, NEW w \in mode.workers, Decoded(c, w) PROVE Balanced'
  <2>1. cpc' = [cpc EXCEPT ![c] = "send"]
    BY <1>7 DEF Decoded
  <2>2. CaptureMoved(c, "send")
    BY <2>1, CaptureMoves
  <2>3. /\ Cardinality(Waiting)' = Cardinality(Waiting)
        /\ Cardinality(InHand)' = Cardinality(InHand)
    BY <1>7, <2>2, Countable DEF Decoded, CaptureMoved, One, Counting
  <2>4. Cardinality(Queued)' = Cardinality(Queued)
    BY <1>7, Countable DEF Decoded, Queued, Counting
  <2>5. Cardinality(Busy)' = Cardinality(Busy) /\ Cardinality(Seen)' = Cardinality(Seen)
    BY <1>7, Countable DEF Decoded, Busy, Seen, Counting
  <2> QED
    BY <1>7, <2>3, <2>4, <2>5, Countable DEF Decoded, counts, Balanced, BuffersConserved, FramesAccounted, TypeOK, Counting
<1>8. ASSUME NEW c \in Captures, Send(c) PROVE Balanced'
  <2>0. shard[c] \in Workers /\ queue[shard[c]] < QueueSize /\ queue' = [queue EXCEPT ![shard[c]] = @ + 1]
    BY <1>8 DEF Send, TypeOK
  <2>1. cpc' = [cpc EXCEPT ![c] = "read"]
    BY <1>8 DEF Send
  <2>2. CaptureMoved(c, "read")
    BY <2>1, CaptureMoves
  <2>3. /\ Cardinality(Waiting)' = Cardinality(Waiting)
        /\ Cardinality(InHand)' = Cardinality(InHand) - 1
    BY <1>8, <2>2, Countable DEF Send, CaptureMoved, One, Counting
  <2>4. Cardinality(Queued)' = Cardinality(Queued) + 1
    BY <1>8, <2>0, QueueGrows, Countable DEF Send, Queued, Counting
  <2>5. Cardinality(Busy)' = Cardinality(Busy) /\ Cardinality(Seen)' = Cardinality(Seen)
    BY <1>8, Countable DEF Send, Busy, Seen, Counting
  <2> QED
    BY <1>8, <2>3, <2>4, <2>5, Countable DEF Send, counts, Balanced, BuffersConserved, FramesAccounted, TypeOK, Counting
<1>9. ASSUME NEW c \in Captures, QueueFull(c) PROVE Balanced'
  <2>1. cpc' = [cpc EXCEPT ![c] = "read"]
    BY <1>9 DEF QueueFull
  <2>2. CaptureMoved(c, "read")
    BY <2>1, CaptureMoves
  <2>3. /\ Cardinality(Waiting)' = Cardinality(Waiting)
        /\ Cardinality(InHand)' = Cardinality(InHand) - 1
    BY <1>9, <2>2, Countable DEF QueueFull, CaptureMoved, One, Counting
  <2>4. Cardinality(Queued)' = Cardinality(Queued)
    BY <1>9, Countable DEF QueueFull, Queued, Counting
  <2>5. Cardinality(Busy)' = Cardinality(Busy) /\ Cardinality(Seen)' = Cardinality(Seen)
    BY <1>9, Countable DEF QueueFull, Busy, Seen, Counting
  <2> QED
    BY <1>9, <2>3, <2>4, <2>5, Countable DEF QueueFull, counts, Balanced, BuffersConserved, FramesAccounted, TypeOK, Counting
<1>10. ASSUME NEW c \in Captures, CaptureEnds(c) PROVE Balanced'
  <2>1. Waiting' = Waiting /\ InHand' = InHand /\ Busy' = Busy
    BY <1>10 DEF CaptureEnds, Waiting, InHand, Busy, TypeOK
  <2> QED
    BY <1>10, <2>1, Idle DEF CaptureEnds, counts
<1>11. ASSUME NEW c \in Captures, OpenFails(c) PROVE Balanced'
  <2>1. Waiting' = Waiting /\ InHand' = InHand /\ Busy' = Busy
    BY <1>11 DEF OpenFails, Waiting, InHand, Busy, TypeOK
  <2> QED
    BY <1>11, <2>1, Idle DEF OpenFails, counts
<1>12. ASSUME NEW c \in Captures, DrainRemaining(c) PROVE Balanced'
  <2>1. Waiting' = Waiting /\ InHand' = InHand /\ Busy' = Busy
    BY <1>12 DEF DrainRemaining, Waiting, InHand, Busy, TypeOK
  <2> QED
    BY <1>12, <2>1, Idle DEF DrainRemaining, counts
<1>13. ASSUME NEW w \in Workers, Receive(w) PROVE Balanced'
  <2>1. Cardinality(Busy)' = Cardinality(Busy) + 1
    <3>1. WorkerMoved(w, "busy")
      BY <1>13, WorkerMoves DEF Receive
    <3> QED BY <1>13, <3>1, Countable DEF Receive, WorkerMoved, One, Counting
  <2>2. Cardinality(Queued)' = Cardinality(Queued) - 1
    BY <1>13, QueueShrinks DEF Receive
  <2>3. Waiting' = Waiting /\ InHand' = InHand /\ Seen' = Seen
    BY <1>13 DEF Receive, capture, Waiting, InHand, Seen
  <2> QED
    BY <1>13, <2>1, <2>2, <2>3, Countable DEF Receive, counts, Balanced, BuffersConserved, FramesAccounted, TypeOK, Counting
<1>14. ASSUME NEW w \in Workers, Inspected(w) PROVE Balanced'
  <2>1. Cardinality(Busy)' = Cardinality(Busy) - 1
    <3>1. WorkerMoved(w, "recv")
      BY <1>14, WorkerMoves DEF Inspected
    <3> QED BY <1>14, <3>1, Countable DEF Inspected, WorkerMoved, One, Counting
  <2>2. Waiting' = Waiting /\ InHand' = InHand /\ Seen' = Seen /\ Queued' = Queued
    BY <1>14 DEF Inspected, capture, Waiting, InHand, Seen, Queued
  <2> QED
    BY <1>14, <2>1, <2>2, Countable DEF Inspected, Balanced, BuffersConserved, FramesAccounted, TypeOK, Counting
<1>15. ASSUME NEW w \in Workers, WorkerEnds(w) PROVE Balanced'
  <2>1. Busy' = Busy
    BY <1>15 DEF WorkerEnds, Busy, TypeOK
  <2>2. Waiting' = Waiting /\ InHand' = InHand
    BY <1>15 DEF WorkerEnds, capture, Waiting, InHand
  <2> QED
    BY <1>15, <2>1, <2>2, Idle DEF WorkerEnds, capture
<1>16. CASE AggReceive
  BY <1>16, Unmoved DEF AggReceive, capture, chans, stages, counts
<1>17. CASE AggProcess
  BY <1>17, Unmoved DEF AggProcess, capture, chans, stages, counts
<1>18. CASE AggEnds
  BY <1>18, Unmoved DEF AggEnds, capture, chans, stages, counts
<1>19. CASE GateReceive
  BY <1>19, Unmoved DEF GateReceive, capture, chans, stages, counts
<1>20. CASE GateSettle
  BY <1>20, Unmoved DEF GateSettle, capture, chans, stages, counts
<1>21. CASE GateSend
  BY <1>21, Unmoved DEF GateSend, capture, chans, stages, counts
<1>22. CASE GateEnds
  BY <1>22, Unmoved DEF GateEnds, capture, chans, stages, counts
<1>23. CASE WriterReceive
  BY <1>23, Unmoved DEF WriterReceive, capture, chans, stages, counts
<1>24. CASE WriterEnds
  BY <1>24, Unmoved DEF WriterEnds, capture, chans, stages, counts
<1>25. CASE FlowWriterStep
  BY <1>25, Unmoved DEF FlowWriterStep, capture, chans, stages, counts
<1>26. CASE PcapWriterStep
  BY <1>26, Unmoved DEF PcapWriterStep, capture, chans, stages, counts
<1>27. CASE Join
  BY <1>27, Unmoved DEF Join, capture, chans, stages, counts
<1>28. CASE UNCHANGED vars
  BY <1>28, Unmoved DEF vars, capture, chans, stages, counts
<1> QED
  BY <1>1, <1>2, <1>3, <1>4, <1>5, <1>6, <1>7, <1>8, <1>9, <1>10, <1>11, <1>12, <1>13, <1>14, <1>15, <1>16, <1>17, <1>18, <1>19, <1>20, <1>21, <1>22, <1>23, <1>24, <1>25, <1>26, <1>27, <1>28 DEF Next, Capture, Worker, Aggregator, Gate

-----------------------------------------------------------------------------
(* The order in which the threads end, an action at a time. *)
LEMMA ClosingStep == TypeOK /\ Closing /\ [Next]_vars => Closing'
<1> SUFFICES ASSUME TypeOK, Closing, [Next]_vars PROVE Closing'
  OBVIOUS
<1> USE DEF TypeOK, Closing, Started, WorkersLast, StagesLast, Joined, DumpsServed,
            CaptureOver, PacketsClosed, WorkersDone, ObsClosed, AlertsClosed, FlowsClosed, JobsClosed
<1>1. CASE Stop
  BY <1>1, ModeIs DEF Stop, capture, chans, stages, counts
<1>2. ASSUME NEW c \in Captures, Service(c) PROVE Closing'
  BY <1>2, ModeIs DEF Service, capture, chans, stages, counts
<1>3. ASSUME NEW c \in Captures, NextPacket(c) PROVE Closing'
  BY <1>3, ModeIs DEF NextPacket, capture, chans, stages, counts
<1>4. ASSUME NEW c \in Captures, GetBuffer(c) PROVE Closing'
  BY <1>4, ModeIs DEF GetBuffer, capture, chans, stages, counts
<1>5. ASSUME NEW c \in Captures, NoBuffer(c) PROVE Closing'
  BY <1>5, ModeIs DEF NoBuffer, capture, chans, stages, counts
<1>6. ASSUME NEW c \in Captures, NoPacket(c) PROVE Closing'
  BY <1>6, ModeIs DEF NoPacket, capture, chans, stages, counts
<1>7. ASSUME NEW c \in Captures, NEW w \in mode.workers, Decoded(c, w) PROVE Closing'
  BY <1>7, ModeIs DEF Decoded, capture, chans, stages, counts
<1>8. ASSUME NEW c \in Captures, Send(c) PROVE Closing'
  BY <1>8, ModeIs DEF Send, capture, chans, stages, counts
<1>9. ASSUME NEW c \in Captures, QueueFull(c) PROVE Closing'
  BY <1>9, ModeIs DEF QueueFull, capture, chans, stages, counts
<1>10. ASSUME NEW c \in Captures, CaptureEnds(c) PROVE Closing'
  BY <1>10, ModeIs DEF CaptureEnds, capture, chans, stages, counts
<1>11. ASSUME NEW c \in Captures, OpenFails(c) PROVE Closing'
  BY <1>11, ModeIs DEF OpenFails, capture, chans, stages, counts
<1>12. ASSUME NEW c \in Captures, DrainRemaining(c) PROVE Closing'
  BY <1>12, ModeIs DEF DrainRemaining, capture, chans, stages, counts
<1>13. ASSUME NEW w \in Workers, Receive(w) PROVE Closing'
  BY <1>13, ModeIs DEF Receive, capture, chans, stages, counts
<1>14. ASSUME NEW w \in Workers, Inspected(w) PROVE Closing'
  BY <1>14, ModeIs DEF Inspected, Report, capture, chans, stages, counts
<1>15. ASSUME NEW w \in Workers, WorkerEnds(w) PROVE Closing'
  BY <1>15, ModeIs DEF WorkerEnds, Report, capture, chans, stages, counts
<1>16. CASE AggReceive
  BY <1>16, ModeIs DEF AggReceive, capture, chans, stages, counts
<1>17. CASE AggProcess
  BY <1>17, ModeIs DEF AggProcess, capture, chans, stages, counts
<1>18. CASE AggEnds
  BY <1>18, ModeIs DEF AggEnds, capture, chans, stages, counts
<1>19. CASE GateReceive
  BY <1>19, ModeIs DEF GateReceive, capture, chans, stages, counts
<1>20. CASE GateSettle
  BY <1>20, ModeIs DEF GateSettle, capture, chans, stages, counts
<1>21. CASE GateSend
  BY <1>21, ModeIs DEF GateSend, capture, chans, stages, counts
<1>22. CASE GateEnds
  BY <1>22, ModeIs DEF GateEnds, capture, chans, stages, counts
<1>23. CASE WriterReceive
  BY <1>23, ModeIs DEF WriterReceive, capture, chans, stages, counts
<1>24. CASE WriterEnds
  BY <1>24, ModeIs DEF WriterEnds, capture, chans, stages, counts
<1>25. CASE FlowWriterStep
  BY <1>25, ModeIs DEF FlowWriterStep, capture, chans, stages, counts
<1>26. CASE PcapWriterStep
  BY <1>26, ModeIs DEF PcapWriterStep, capture, chans, stages, counts
<1>27. CASE Join
  BY <1>27, ModeIs DEF Join, Joins, capture, chans, stages, counts
<1>28. CASE UNCHANGED vars
  BY <1>28, ModeIs DEF vars, capture, chans, stages, counts
<1> QED
  BY <1>1, <1>2, <1>3, <1>4, <1>5, <1>6, <1>7, <1>8, <1>9, <1>10, <1>11, <1>12, <1>13, <1>14, <1>15, <1>16, <1>17, <1>18, <1>19, <1>20, <1>21, <1>22, <1>23, <1>24, <1>25, <1>26, <1>27, <1>28 DEF Next, Capture, Worker, Aggregator, Gate

(* A replay sheds nothing, an action at a time. *)
LEMMA ReplayStep == TypeOK /\ Started /\ ReplayWhole /\ [Next]_vars => ReplayWhole'
<1> SUFFICES ASSUME TypeOK, Started, ReplayWhole, [Next]_vars PROVE ReplayWhole'
  OBVIOUS
<1> USE DEF TypeOK, ReplayWhole, CaptureOver
<1>1. CASE Stop
  BY <1>1, ModeIs DEF Stop, capture, chans, stages, counts
<1>2. ASSUME NEW c \in Captures, Service(c) PROVE ReplayWhole'
  BY <1>2, ModeIs DEF Service, capture, chans, stages, counts
<1>3. ASSUME NEW c \in Captures, NextPacket(c) PROVE ReplayWhole'
  BY <1>3, ModeIs DEF NextPacket, capture, chans, stages, counts
<1>4. ASSUME NEW c \in Captures, GetBuffer(c) PROVE ReplayWhole'
  BY <1>4, ModeIs DEF GetBuffer, capture, chans, stages, counts
<1>5. ASSUME NEW c \in Captures, NoBuffer(c) PROVE ReplayWhole'
  BY <1>5, ModeIs DEF NoBuffer, capture, chans, stages, counts
<1>6. ASSUME NEW c \in Captures, NoPacket(c) PROVE ReplayWhole'
  BY <1>6, ModeIs DEF NoPacket, capture, chans, stages, counts
<1>7. ASSUME NEW c \in Captures, NEW w \in mode.workers, Decoded(c, w) PROVE ReplayWhole'
  BY <1>7, ModeIs DEF Decoded, capture, chans, stages, counts
<1>8. ASSUME NEW c \in Captures, Send(c) PROVE ReplayWhole'
  BY <1>8, ModeIs DEF Send, capture, chans, stages, counts
<1>9. ASSUME NEW c \in Captures, QueueFull(c) PROVE ReplayWhole'
  BY <1>9, ModeIs DEF QueueFull, capture, chans, stages, counts
<1>10. ASSUME NEW c \in Captures, CaptureEnds(c) PROVE ReplayWhole'
  BY <1>10, ModeIs DEF CaptureEnds, capture, chans, stages, counts
<1>11. ASSUME NEW c \in Captures, OpenFails(c) PROVE ReplayWhole'
  BY <1>11, ModeIs DEF OpenFails, capture, chans, stages, counts
<1>12. ASSUME NEW c \in Captures, DrainRemaining(c) PROVE ReplayWhole'
  BY <1>12, ModeIs DEF DrainRemaining, capture, chans, stages, counts
<1>13. ASSUME NEW w \in Workers, Receive(w) PROVE ReplayWhole'
  BY <1>13, ModeIs DEF Receive, capture, chans, stages, counts
<1>14. ASSUME NEW w \in Workers, Inspected(w) PROVE ReplayWhole'
  BY <1>14, ModeIs DEF Inspected, Report, capture, chans, stages, counts
<1>15. ASSUME NEW w \in Workers, WorkerEnds(w) PROVE ReplayWhole'
  BY <1>15, ModeIs DEF WorkerEnds, Report, capture, chans, stages, counts
<1>16. CASE AggReceive
  BY <1>16, ModeIs DEF AggReceive, capture, chans, stages, counts
<1>17. CASE AggProcess
  BY <1>17, ModeIs DEF AggProcess, capture, chans, stages, counts
<1>18. CASE AggEnds
  BY <1>18, ModeIs DEF AggEnds, capture, chans, stages, counts
<1>19. CASE GateReceive
  BY <1>19, ModeIs DEF GateReceive, capture, chans, stages, counts
<1>20. CASE GateSettle
  BY <1>20, ModeIs DEF GateSettle, capture, chans, stages, counts
<1>21. CASE GateSend
  BY <1>21, ModeIs DEF GateSend, capture, chans, stages, counts
<1>22. CASE GateEnds
  BY <1>22, ModeIs DEF GateEnds, capture, chans, stages, counts
<1>23. CASE WriterReceive
  BY <1>23, ModeIs DEF WriterReceive, capture, chans, stages, counts
<1>24. CASE WriterEnds
  BY <1>24, ModeIs DEF WriterEnds, capture, chans, stages, counts
<1>25. CASE FlowWriterStep
  BY <1>25, ModeIs DEF FlowWriterStep, capture, chans, stages, counts
<1>26. CASE PcapWriterStep
  BY <1>26, ModeIs DEF PcapWriterStep, capture, chans, stages, counts
<1>27. CASE Join
  BY <1>27, ModeIs DEF Join, Joins, capture, chans, stages, counts
<1>28. CASE UNCHANGED vars
  BY <1>28, ModeIs DEF vars, capture, chans, stages, counts
<1> QED
  BY <1>1, <1>2, <1>3, <1>4, <1>5, <1>6, <1>7, <1>8, <1>9, <1>10, <1>11, <1>12, <1>13, <1>14, <1>15, <1>16, <1>17, <1>18, <1>19, <1>20, <1>21, <1>22, <1>23, <1>24, <1>25, <1>26, <1>27, <1>28 DEF Next, Capture, Worker, Aggregator, Gate

-----------------------------------------------------------------------------
LEMMA InitIInv == Init => IInv
<1> SUFFICES ASSUME Init PROVE IInv
  OBVIOUS
<1>1. mode \in Mode /\ mode \in Modes
  BY PipelineAssumption DEF Init
<1>2. /\ mode.captures \subseteq Captures /\ mode.workers \subseteq Workers
      /\ mode.captures # {} /\ mode.workers # {} /\ mode.frames \in Nat
  BY <1>1 DEF Mode
<1>3. TypeOK
  <2>1. (CHOOSE w \in mode.workers : TRUE) \in mode.workers
    BY <1>2
  <2> QED BY <1>1, <1>2, <2>1, PipelineAssumption DEF Init, TypeOK
<1>4. Waiting = {} /\ InHand = {} /\ Busy = {} /\ Queued = {}
  BY <1>2, PipelineAssumption DEF Init, Waiting, InHand, Busy, Queued
<1>5. Seen = {}
  BY <1>2 DEF Init, Seen
<1>6. Balanced
  BY <1>4, <1>5, FS_EmptySet, PipelineAssumption DEF Init, Balanced, BuffersConserved, FramesAccounted
<1>7. AlertsConserved
  BY DEF Init, AlertsConserved
<1>8. Started
  <2>1. (CHOOSE w \in mode.workers : TRUE) \in mode.workers
    BY <1>2
  <2> QED BY <1>2, <2>1 DEF Init, Started
<1>9. WorkersLast /\ StagesLast /\ Joined
  BY <1>2 DEF Init, WorkersLast, StagesLast, Joined
<1>10. DumpsServed /\ ReplayWhole
  BY <1>2 DEF Init, DumpsServed, ReplayWhole, CaptureOver
<1> QED
  BY <1>3, <1>6, <1>7, <1>8, <1>9, <1>10 DEF IInv, Closing

LEMMA NextIInv == IInv /\ [Next]_vars => IInv'
<1> SUFFICES ASSUME IInv, [Next]_vars PROVE IInv'
  OBVIOUS
<1> USE DEF IInv
<1>1. TypeOK'
  BY TypeStep
<1>2. Balanced'
  BY BalancedStep DEF Closing
<1>3. AlertsConserved'
  BY AlertsStep
<1>4. Closing'
  BY ClosingStep
<1>5. ReplayWhole'
  BY ReplayStep DEF Closing
<1> QED
  BY <1>1, <1>2, <1>3, <1>4, <1>5

(* What follows when main() has joined every thread: every counted set is  *)
(* empty, and all of a file that was not stopped has been read.            *)
LEMMA AllOver ==
  ASSUME IInv, main = "done"
  PROVE  /\ free = PoolSize /\ ends = Cardinality(Seen)
         /\ mode.replay /\ running => ends = mode.frames
<1> USE DEF IInv, Closing
<1>1. (\A c \in Captures : cpc[c] = "done") /\ (\A w \in Workers : wpc[w] = "done" /\ queue[w] = 0)
  BY DEF Joined, WorkersDone, WorkersLast
<1>2. Waiting = {} /\ InHand = {} /\ Busy = {}
  BY <1>1 DEF Waiting, InHand, Busy
<1>3. Queued = {}
  BY <1>1 DEF Queued
<1>4. free = PoolSize /\ ends = Cardinality(Seen)
  BY <1>2, <1>3, FS_EmptySet, PipelineAssumption, Countable
     DEF Balanced, BuffersConserved, FramesAccounted, TypeOK, Counting
<1>5. ASSUME mode.replay, running PROVE ends = mode.frames
  <2>1. /\ Cardinality(mode.captures) = 1 /\ mode.captures \subseteq Captures
        /\ mode.frames \in Nat /\ IsFiniteSet(mode.captures)
    BY <1>5, ModeIs
  <2>2. \A c \in mode.captures : frames[c] = 0
    BY <1>1, <1>5, <2>1 DEF ReplayWhole, CaptureOver
  <2>3. Seen = mode.captures \X (1 .. mode.frames)
    BY <2>1, <2>2 DEF Seen
  <2>4. IsFiniteSet(1 .. mode.frames) /\ Cardinality(1 .. mode.frames) = mode.frames
    BY <2>1, FS_Interval
  <2>5. Cardinality(mode.captures \X (1 .. mode.frames)) =
          Cardinality(mode.captures) * Cardinality(1 .. mode.frames)
    BY <2>1, <2>4, FS_Product
  <2> QED
    BY <1>4, <2>1, <2>3, <2>4, <2>5
<1> QED
  BY <1>4, <1>5

LEMMA IInvImplies == IInv => NothingLost /\ EndsClean
<1> SUFFICES ASSUME IInv PROVE NothingLost /\ EndsClean
  OBVIOUS
<1>1. NothingLost
  BY DEF IInv, Balanced, NothingLost
<1>2. ASSUME main = "done" PROVE obsQ + flowQ + alertQ + outQ + dumpQ + jobs + held + hand + late = 0
  <2>1. /\ agg = "done" /\ gate = "done" /\ writer = "done"
        /\ flowWriter = "done" /\ pcapWriter = "done"
    BY <1>2 DEF IInv, Closing, Joined
  <2>2. obsQ = 0 /\ held = 0 /\ alertQ = 0 /\ hand = 0 /\ late = 0 /\ outQ = 0 /\ flowQ = 0 /\ jobs = 0
    BY <2>1 DEF IInv, Closing, StagesLast
  <2>3. dumpQ = 0
    BY <1>2, ModeIs DEF IInv, Closing, DumpsServed, Joined
  <2> QED
    BY <2>2, <2>3
<1>3. NothingLeftBehind
  BY <1>2, AllOver DEF IInv, Closing, StagesLast, NothingLeftBehind
<1>4. ReplayComplete
  BY AllOver DEF IInv, ReplayWhole, ReplayComplete
<1> QED
  BY <1>1, <1>3, <1>4 DEF EndsClean

LEMMA AlwaysIInv == Spec => []IInv
BY InitIInv, NextIInv, PTL DEF Spec

(* However the threads interleave, every buffer of the pool is free, in a  *)
(* capture's hands, queued or being inspected, and every alert raised is   *)
(* settled, counted as shed, on its way or left by the aggregator.         *)
THEOREM LosesNothing == Spec => []NothingLost
BY AlwaysIInv, IInvImplies, PTL

(* However it is stopped and however the threads interleave, the process   *)
(* exits only when every channel and every hand is empty, and after a      *)
(* whole replay every frame of the file has been inspected.                *)
THEOREM LeavesNothing == Spec => []EndsClean
BY AlwaysIInv, IInvImplies, PTL
=============================================================================
