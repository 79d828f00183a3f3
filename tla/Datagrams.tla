----------------------------- MODULE Datagrams -----------------------------
(***************************************************************************)
(* One worker's table of UDP and ICMP conversations (src/engine.rs,        *)
(* DatagramFlows): accounting only, ended by silence alone.                *)
(***************************************************************************)
EXTENDS Integers, FiniteSets, Functions

CONSTANTS
  MaxFlows,    \* conversations kept
  Idle,        \* DATAGRAM_IDLE_TIMEOUT_SECS
  Ghosts       \* whether packets are counted for the properties

VARIABLES
  flows,       \* pair of endpoints -> its conversation
  swept,       \* last_swept
  counted,     \* <<from, to>> -> packets admitted
  told,        \* <<from, to>> -> packets in the records given out
  seen         \* second of the last packet, and whether it was refused

vars == <<flows, swept, counted, told, seen>>

Key(p) == {<<p.src, p.sport>>, <<p.dst, p.dport>>}
From(p) == <<p.src, p.sport>>
Way(p) == <<From(p), <<p.dst, p.dport>>>>

Init ==
  /\ flows = <<>> /\ swept = 0
  /\ counted = <<>> /\ told = <<>>
  /\ seen = [at |-> 0, refused |-> FALSE]

Or0(f, k) == IF k \in DOMAIN f THEN f[k] ELSE 0
With(f, k, v) == [x \in DOMAIN f \cup {k} |-> IF x = k THEN v ELSE f[x]]
Added(f, k, n) == With(f, k, Or0(f, k) + n)

(* The first packet seen decides who the client is.                        *)
Found(p) ==
  IF Key(p) \in DOMAIN flows THEN flows[Key(p)]
  ELSE [client |-> From(p), server |-> <<p.dst, p.dport>>, toServer |-> 0, toClient |-> 0, last |-> p.t]
Seen(f, now, out) ==
  [client |-> f.client, server |-> f.server, last |-> now,
   toServer |-> f.toServer + IF out THEN 1 ELSE 0, toClient |-> f.toClient + IF out THEN 0 ELSE 1]

(* A slip: the lower port is taken for the server.                         *)
ByPort(p) == Seen(Found(p), p.t, p.sport >= p.dport)
Conversation(p) == Seen(Found(p), p.t, From(p) = Found(p).client)

(* to_record: a conversation tells of the packets in each direction.       *)
Carried(fs, w) ==
  LET k == {w[1], w[2]}
  IN  IF k \in DOMAIN fs THEN IF w[1] = fs[k].client THEN fs[k].toServer ELSE fs[k].toClient ELSE 0
Records(gone) ==
  [w \in DOMAIN told \cup UNION {k \X k : k \in DOMAIN gone} |-> Or0(told, w) + Carried(gone, w)]
Silent(fs, now) == {k \in DOMAIN fs : fs[k].last <= now - Idle}

Expire(fs, now) ==
  /\ flows' = Restrict(fs, DOMAIN fs \ Silent(fs, now))
  /\ told' = Records(Restrict(fs, Silent(fs, now)))

(* A table that is full refuses before anything is swept.                  *)
Observe(p) ==
  IF Key(p) \notin DOMAIN flows /\ Cardinality(DOMAIN flows) >= MaxFlows
  THEN seen' = [at |-> p.t, refused |-> TRUE] /\ UNCHANGED <<flows, swept, counted, told>>
  ELSE LET fs == With(flows, Key(p), Conversation(p))
       IN  /\ seen' = [at |-> p.t, refused |-> FALSE]
           /\ counted' = IF Ghosts THEN Added(counted, Way(p), 1) ELSE counted
           /\ swept' = IF p.t > swept THEN p.t ELSE swept
           /\ IF p.t > swept THEN Expire(fs, p.t) ELSE flows' = fs /\ UNCHANGED told

(* Shutdown: what is still tracked is told.                                *)
Flush ==
  /\ flows' = <<>> /\ told' = Records(flows)
  /\ UNCHANGED <<swept, counted, seen>>

(* Every packet admitted is in one record, under its own direction, or in  *)
(* a conversation still tracked, however often it expires and starts anew  *)
(* from the other side.                                                    *)
ConversationsCounted ==
  \A w \in DOMAIN counted : counted[w] = Or0(told, w) + Carried(flows, w)

(* A packet that was admitted leaves no silent conversation behind.        *)
SilentAreSwept == ~seen.refused => Silent(flows, seen.at) = {}

(* The table refuses a conversation only while every one it has is alive.  *)
RefusesOnlyWhenBusy == seen.refused => Silent(flows, seen.at) = {}
=============================================================================
