----------------------------- MODULE ByteStream -----------------------------
(***************************************************************************)
(* What reassembly of one direction of a TCP connection promises to the    *)
(* parsers and rules that read it: a byte stream that only grows at its    *)
(* end, each byte followed by the one the sender sent next, from the first *)
(* byte the sensor joined at.  `out` keeps the first Cap bytes; what comes *)
(* later is counted in `lost` and is otherwise only seen going past.       *)
(*                                                                         *)
(* A byte is [pos, copy]: where in the sender's stream it belongs, and     *)
(* which of the transmissions carrying that position it came from.         *)
(***************************************************************************)
EXTENDS Integers, Sequences

CONSTANTS
  Cap,      \* bytes of the stream that are kept
  NoBase    \* the value of `base` before the stream has started

VARIABLES
  base,     \* position of the first byte of the stream
  out,      \* the bytes kept
  lost      \* bytes that arrived in order after `out` was full

vars == <<base, out, lost>>

(* A run of consecutive bytes starting at position p. *)
IsRun(d, p) == \A i \in 1 .. Len(d) : d[i].pos = p + i - 1

Init == base = NoBase /\ out = <<>> /\ lost = 0

(* The stream starts once, at some position, and keeps what it has. *)
Anchored ==
  /\ base' \in Nat
  /\ base # NoBase => base' = base

(* What was delivered is never rewritten, reordered or taken back. *)
Extends ==
  /\ Len(out) <= Len(out')
  /\ \A i \in 1 .. Len(out) : out'[i] = out[i]

(* Bytes are lost only once no more can be kept. *)
KeepsWhatFits ==
  /\ Len(out') <= Cap
  /\ lost' >= lost
  /\ lost' > lost => Len(out') = Cap

Deliver == Anchored /\ Extends /\ IsRun(out', base') /\ KeepsWhatFits

Spec == Init /\ [][Deliver]_vars
=============================================================================
