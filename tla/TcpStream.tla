------------------------------ MODULE TcpStream ------------------------------
(***************************************************************************)
(* One direction of a TCP connection: StreamHalf in src/engine.rs, which   *)
(* puts segments that arrive in any order, overlapping, repeated or with   *)
(* holes back into the sender's byte stream.                               *)
(*                                                                         *)
(* feed() appends a segment that is next, holds one that is ahead, and     *)
(* trims one that starts behind; after an append, drain_out_of_order()     *)
(* runs until no held segment has been reached.  The loop's iterations are *)
(* steps here (pc = "drain"), and nothing else happens until it is done.   *)
(*                                                                         *)
(* Sequence numbers live in 0 .. SeqSpace - 1 and wrap; the model keeps    *)
(* the absolute position of every byte beside them, so that a wrapped      *)
(* comparison that goes wrong shows as a byte out of place.                *)
(***************************************************************************)
EXTENDS Integers, Sequences, FiniteSets

CONSTANTS
  SeqSpace,     \* number of sequence numbers: 2^32 in the code
  Isn,          \* the sender's initial sequence number
  StreamLen,    \* bytes the sender sends
  MaxSegment,   \* most bytes in one segment
  Window,       \* how far from the expected byte a segment may start
  StreamCap,    \* stream_cap: bytes of the stream kept for parsers
  MaxOoo,       \* MAX_OOO_SEGMENTS: most segments held at once
  Copies,       \* distinguishable transmissions of a byte
  SynPayload,   \* numbers of bytes a SYN may carry
  None          \* next_seq before the first segment

ASSUME StreamAssumption ==
  /\ SeqSpace \in Nat /\ SeqSpace > 2 * (Window + MaxSegment + 1)
  /\ Isn \in 0 .. SeqSpace - 1
  /\ StreamLen \in Nat /\ MaxSegment \in Nat \ {0} /\ Window \in Nat \ {0}
  /\ StreamCap \in Nat \ {0} /\ MaxOoo \in Nat
  /\ SynPayload \subseteq 0 .. MaxSegment
  /\ None \notin Int

VARIABLES
  pc,           \* "idle", or "drain" while drain_out_of_order() loops
  nextSeq,      \* next_seq
  buffer,       \* the reassembled bytes
  ooo,          \* out_of_order: sequence number -> held bytes
  dropped,      \* bytes not kept because the buffer was full
  base,         \* ghost: position the stream was joined at
  first         \* ghost: position -> copy of it that arrived first and was
                \* not refused for room

vars == <<pc, nextSeq, buffer, ooo, dropped, base, first>>

Byte == [pos : Nat, copy : Copies]

(* The sequence number of a position: the SYN consumes the first one. *)
SeqOf(p) == (Isn + 1 + p) % SeqSpace

(* The bytes of a transmission of n positions from p on. *)
Payload(p, n, c) == [i \in 1 .. n |-> [pos |-> p + i - 1, copy |-> c]]

Positions(d) == {d[i].pos : i \in 1 .. Len(d)}

(* What has arrived, once the bytes d have too. *)
Seen(d) ==
  [p \in DOMAIN first \cup Positions(d) |->
     IF p \in DOMAIN first THEN first[p]
     ELSE d[CHOOSE i \in 1 .. Len(d) : d[i].pos = p].copy]

Init ==
  /\ pc = "idle" /\ nextSeq = None
  /\ buffer = <<>> /\ ooo = <<>> /\ dropped = 0
  /\ base = None /\ first = <<>>

-----------------------------------------------------------------------------
(* A slip: numbers compared as they stand, with no wrap. *)
SeqGreater(a, b) == a > b

(* The signed difference of two sequence numbers, as an i32, is positive. *)
SeqAfter(a, b) ==
  LET d == (a - b) % SeqSpace IN d > 0 /\ d < SeqSpace \div 2

SeqAdd(s, n) == (s + n) % SeqSpace

(* A slip: one byte too few is trimmed. *)
DropFew(d, n) == IF n = 0 THEN d ELSE SubSeq(d, n, Len(d))

Drop(d, n) == SubSeq(d, n + 1, Len(d))

(* A slip: the cap is not looked at. *)
AppendUncapped(next, d) ==
  /\ buffer' = buffer \o d
  /\ nextSeq' = SeqAdd(next, Len(d))
  /\ UNCHANGED dropped

(* append(): what fits is kept, and the expected number moves over all of  *)
(* it.  `next` is the expected number before the call.                     *)
AppendBytes(next, d) ==
  LET room == StreamCap - Len(buffer)
      take == IF Len(d) <= room THEN Len(d) ELSE room
  IN  /\ buffer' = buffer \o SubSeq(d, 1, take)
      /\ dropped' = dropped + Len(d) - take
      /\ nextSeq' = SeqAdd(next, Len(d))

(* A segment ahead of the stream: the first copy held under its number     *)
(* stays, a longer one adds its tail, and a new one is held if there is    *)
(* room.                                                                   *)
Extend(s, d) ==
  /\ s \in DOMAIN ooo
  /\ ooo' = IF Len(d) > Len(ooo[s])
              THEN [ooo EXCEPT ![s] = @ \o Drop(d, Len(@))]
              ELSE ooo
  /\ first' = Seen(d)

Hold(s, d) ==
  /\ s \notin DOMAIN ooo
  /\ Cardinality(DOMAIN ooo) < MaxOoo
  /\ ooo' = [k \in DOMAIN ooo \cup {s} |-> IF k = s THEN d ELSE ooo[k]]
  /\ first' = Seen(d)

Refuse(s) ==
  /\ s \notin DOMAIN ooo
  /\ Cardinality(DOMAIN ooo) >= MaxOoo
  /\ UNCHANGED <<ooo, first>>

(* feed() with a segment whose header says s, against expected number next *)
Feed(next, s, d) ==
  \/ /\ d = <<>>
     /\ nextSeq' = next
     /\ UNCHANGED <<pc, buffer, ooo, dropped, first>>
  \/ /\ d # <<>> /\ s = next
     /\ AppendBytes(next, d)
     /\ pc' = "drain"
     /\ first' = Seen(d)
     /\ UNCHANGED ooo
  \/ /\ d # <<>> /\ SeqAfter(s, next)
     /\ nextSeq' = next
     /\ Extend(s, d) \/ Hold(s, d) \/ Refuse(s)
     /\ UNCHANGED <<pc, buffer, dropped>>
  \/ /\ d # <<>> /\ s # next /\ ~SeqAfter(s, next)
     /\ LET skip == (next - s) % SeqSpace
        IN  IF SeqAfter(SeqAdd(s, Len(d)), next) /\ skip < Len(d)
              THEN AppendBytes(next, Drop(d, skip)) /\ pc' = "drain"
              ELSE nextSeq' = next /\ UNCHANGED <<pc, buffer, dropped>>
     /\ first' = Seen(d)
     /\ UNCHANGED ooo

-----------------------------------------------------------------------------
(* The position of the next byte to deliver. *)
NextPos == base + Len(buffer) + dropped

(* A segment of n positions from p on arrives.  Without a SYN the first    *)
(* one anchors the stream (get_or_insert).                                 *)
Segment(p, n, c) ==
  /\ pc = "idle"
  /\ base # None => p \in NextPos - Window .. NextPos + Window
  /\ base' = IF nextSeq = None THEN p ELSE base
  /\ Feed(IF nextSeq = None THEN SeqOf(p) ELSE nextSeq, SeqOf(p), Payload(p, n, c))

(* The SYN: init_seq_from_syn() and then feed() with the same header       *)
(* number, whatever the SYN carries.                                       *)
Syn(n, c) ==
  /\ pc = "idle"
  /\ base # None => NextPos <= Window
  /\ base' = IF nextSeq = None THEN 0 ELSE base
  /\ Feed(IF nextSeq = None THEN SeqAdd(Isn, 1) ELSE nextSeq, Isn, Payload(0, n, c))

(* The held segments the stream has reached, those it has passed included. *)
Reached == {k \in DOMAIN ooo : ~SeqAfter(k, nextSeq)}

(* A slip: a segment the stream has passed is skipped and stays held. *)
DrainOneKept ==
  /\ pc = "drain" /\ Reached # {}
  /\ LET start == CHOOSE k \in Reached : \A j \in Reached : k <= j
         data == ooo[start]
     IN  IF SeqAfter(SeqAdd(start, Len(data)), nextSeq)
           THEN /\ AppendBytes(nextSeq, Drop(data, (nextSeq - start) % SeqSpace))
                /\ ooo' = [k \in DOMAIN ooo \ {start} |-> ooo[k]]
           ELSE UNCHANGED <<ooo, buffer, dropped, nextSeq>>
  /\ UNCHANGED <<pc, base, first>>

(* One iteration of drain_out_of_order(): the lowest-numbered of them is   *)
(* taken out, and what it has past the stream's end is appended.           *)
DrainOne ==
  /\ pc = "drain" /\ Reached # {}
  /\ LET start == CHOOSE k \in Reached : \A j \in Reached : k <= j
         data == ooo[start]
     IN  /\ ooo' = [k \in DOMAIN ooo \ {start} |-> ooo[k]]
         /\ IF SeqAfter(SeqAdd(start, Len(data)), nextSeq)
              THEN AppendBytes(nextSeq, Drop(data, (nextSeq - start) % SeqSpace))
              ELSE UNCHANGED <<buffer, dropped, nextSeq>>
  /\ UNCHANGED <<pc, base, first>>

DrainDone ==
  /\ pc = "drain" /\ Reached = {}
  /\ pc' = "idle"
  /\ UNCHANGED <<nextSeq, buffer, ooo, dropped, base, first>>

Next ==
  \/ \E p \in 0 .. StreamLen - 1, n \in 1 .. MaxSegment, c \in Copies :
       p + n <= StreamLen /\ Segment(p, n, c)
  \/ \E n \in SynPayload, c \in Copies : Syn(n, c)
  \/ DrainOne
  \/ DrainDone

Spec == Init /\ [][Next]_vars

(* The loop runs in the same call, on the same thread: it does not stop.   *)
FairSpec == Spec /\ WF_vars(DrainOne \/ DrainDone)

-----------------------------------------------------------------------------
TypeOK ==
  /\ pc \in {"idle", "drain"}
  /\ nextSeq \in (0 .. SeqSpace - 1) \cup {None}
  /\ buffer \in Seq(Byte) /\ Len(buffer) <= StreamCap
  /\ DOMAIN ooo \subseteq 0 .. SeqSpace - 1
  /\ ooo \in [DOMAIN ooo -> Seq(Byte) \ {<<>>}]
  /\ dropped \in Nat
  /\ base \in Nat \cup {None}
  /\ DOMAIN first \subseteq Nat /\ first \in [DOMAIN first -> Copies]

(* A byte accepted from the wire is never stuck behind the stream: once a  *)
(* segment has been dealt with, every byte accepted so far has either been *)
(* passed by the stream or is held strictly ahead of it, so the stream     *)
(* stops only at a byte that never came (drain_out_of_order's promise).    *)
NothingStranded ==
  (pc = "idle" /\ base # None) =>
    \A p \in DOMAIN first :
      \/ p < NextPos
      \/ /\ p > NextPos
         /\ \E k \in DOMAIN ooo : p \in Positions(ooo[k])

(* README, on overlapping segments: the copy of a byte that came first is  *)
(* the one the parsers see.                                                *)
FirstCopyWins ==
  \A i \in 1 .. Len(buffer) : buffer[i].copy = first[buffer[i].pos]

(* init_seq_from_syn: the first data byte is the one after the SYN's own   *)
(* number, so a stream joined at its SYN starts with the sender's first    *)
(* byte.                                                                   *)
JoinedAtSyn ==
  (nextSeq # None /\ base = 0) => \A i \in 1 .. Len(buffer) : buffer[i].pos = i - 1

(* The buffer is the sender's stream in order, append-only, cut at the cap *)
(* and nowhere else: StreamHalf implements ByteStream.                     *)
Stream == INSTANCE ByteStream WITH
  Cap <- StreamCap, NoBase <- None, out <- buffer, lost <- dropped
ImplementsByteStream == Stream!Spec

(* Handling a segment ends: each turn of the loop removes a held segment.  *)
DrainEnds == pc = "drain" ~> pc = "idle"
=============================================================================
