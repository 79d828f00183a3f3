---------------------------- MODULE WorkerTables ----------------------------
(***************************************************************************)
(* The tables a worker keeps besides its connections (src/main.rs, the     *)
(* worker loop): every packet goes to the anomaly engine, and every packet *)
(* that is not TCP to the datagram conversations; both are flushed when    *)
(* the worker stops.                                                       *)
(***************************************************************************)
EXTENDS Anomaly

CONSTANTS MaxFlows, Idle, Ghosts

ASSUME DatagramAssumption == MaxFlows \in Nat /\ Idle \in Nat \ {0} /\ Ghosts \in BOOLEAN

VARIABLES flows, swept, counted, told, seen

D == INSTANCE Datagrams

tables == <<flows, swept, counted, told, seen>>
allVars == <<vars, tables>>

WorkerInit == Init /\ D!Init

WorkerPacket ==
  \E p \in setting.packets, sweep \in Sweeps, t \in Times :
    LET q == [p EXCEPT !.t = t]
    IN  /\ Observe(q, sweep)
        /\ IF q.proto = "tcp" THEN UNCHANGED tables ELSE D!Observe(q)

WorkerStop ==
  /\ active # <<>> \/ flows # <<>>
  /\ FlushAll
  /\ D!Flush

WorkerNext == WorkerPacket \/ WorkerStop
WorkerSpec == WorkerInit /\ [][WorkerNext]_allVars

(* The tables stay within their bounds and forget only what is silent:     *)
(* every datagram admitted is in one record or in a conversation still     *)
(* tracked, and none that is silent stays behind.                          *)
ConversationsTrue ==
  /\ TablesBounded /\ Cardinality(DOMAIN flows) <= MaxFlows
  /\ D!ConversationsCounted
  /\ setting.late = 0 => D!SilentAreSwept

(* What the comment on the table says, and it does not do: it refuses      *)
(* before it sweeps.                                                       *)
RefusesOnlyWhenBusy == D!RefusesOnlyWhenBusy
=============================================================================
