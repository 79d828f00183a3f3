------------------------------- MODULE Decode -------------------------------
(***************************************************************************)
(* The decoder of one interface: Decoder and Defragmenter in               *)
(* src/decode.rs, which turn frames into packets on the capture thread and *)
(* put fragmented datagrams back together first.                           *)
(*                                                                         *)
(* decode() sweeps the reassembly table, strips the link header, offers a  *)
(* fragment to the table, strips tunnels from a whole datagram and parses  *)
(* what is left.  A byte of a datagram is its offset and the copy it came  *)
(* with; offsets count in units of the model's own.  Times are the         *)
(* packets' own, which may step back a little.                             *)
(***************************************************************************)
EXTENDS Integers, Sequences, FiniteSets, SequencesExt

CONSTANTS
  Keys,            \* fragmented datagrams: FragKey
  MaxDatagrams,    \* max_datagrams
  MaxPieces,       \* max_fragments_per_datagram
  MaxBytes,        \* max_bytes_per_datagram
  Timeout,         \* timeout_secs
  MaxTunnels,      \* MAX_TUNNEL_DEPTH
  Datagrams,       \* the whole datagrams on the wire; see Parse
  Times,           \* seconds a frame may carry
  MaxLate,         \* how far behind the newest frame one may be
  Fragments,       \* the fragments on the wire
  Copies,          \* distinguishable contents of a byte
  MaxFrames,       \* bound on the frames of a behaviour
  None             \* not known yet

Inner == {"plain", "esp", "bad"}

Fragment == [off : Nat, len : Nat \ {0}, more : BOOLEAN, copy : Copies]

(* A fragment at offset 0 with none to follow is a whole datagram. *)
ASSUME DecodeAssumption ==
  /\ IsFiniteSet(Keys)
  /\ MaxDatagrams \in Nat \ {0} /\ MaxPieces \in Nat \ {0} /\ MaxBytes \in Nat \ {0}
  /\ Timeout \in Nat \ {0} /\ MaxTunnels \in Nat
  /\ Times \subseteq Nat /\ MaxLate \in Nat /\ MaxFrames \in Nat
  /\ Fragments \subseteq Fragment /\ Datagrams \subseteq [depth : Nat, inner : Inner]
  /\ \A f \in Fragments : f.off = 0 => f.more
  /\ None \notin Nat \cup Copies

VARIABLES
  policy,      \* FragPolicy: "first" or "last"
  table,       \* key -> Partial
  lastSwept,   \* last_swept
  newest,      \* the newest second of a frame
  frames,      \* frames decoded
  fragmentsSeen, fragmentsDropped, reassembled, expired,   \* DecodeStats
  decoded, undecoded, tunnelled, esp,
  born,        \* ghost: reassemblies begun
  out          \* ghost: the datagrams, at most one, that the last frame completed

counts == <<fragmentsSeen, fragmentsDropped, reassembled, expired>>
parses == <<decoded, undecoded, tunnelled, esp>>
vars == <<policy, table, lastSwept, newest, frames, counts, parses, born, out>>

Init ==
  /\ policy \in {"first", "last"}
  /\ table = <<>> /\ lastSwept = 0 /\ newest = 0 /\ frames = 0
  /\ fragmentsSeen = 0 /\ fragmentsDropped = 0 /\ reassembled = 0 /\ expired = 0
  /\ decoded = 0 /\ undecoded = 0 /\ tunnelled = 0 /\ esp = 0
  /\ born = 0 /\ out = {}

-----------------------------------------------------------------------------
(* assemble(): pieces are laid down in the order the policy prefers them,  *)
(* each where nothing lies yet.                                            *)
Covers(f, at) == f.off <= at /\ at < f.off + f.len

(* A slip: a byte already covered is written again. *)
LayOver(buf, f) == [at \in DOMAIN buf |-> IF Covers(f, at) THEN f.copy ELSE buf[at]]

Lay(buf, f) ==
  [at \in DOMAIN buf |-> IF buf[at] = None /\ Covers(f, at) THEN f.copy ELSE buf[at]]

Laid(order, total) ==
  LET laid[i \in 0 .. Len(order)] ==
        IF i = 0 THEN [at \in 0 .. total - 1 |-> None] ELSE Lay(laid[i - 1], order[i])
  IN  laid[Len(order)]

Assemble(p) == Laid(IF policy = "first" THEN p.pieces ELSE Reverse(p.pieces), p.total)

Whole(p) ==
  /\ p.total # None /\ p.head # None
  /\ \A at \in 0 .. p.total - 1 : Assemble(p)[at] # None

Empty(now) == [pieces |-> <<>>, bytes |-> 0, total |-> None, head |-> None, firstSeen |-> now]

Add(p, f) ==
  [p EXCEPT !.pieces = Append(@, f), !.bytes = @ + f.len,
            !.total = IF f.more THEN @ ELSE f.off + f.len,
            !.head = IF f.off = 0 THEN f.copy ELSE @]

Without(t, gone) == [k \in DOMAIN t \ gone |-> t[k]]

(* sweep(): at most once for each second of the clock. *)
(* Slips: an entry is kept a second longer, or a second less. *)
StaleLate(now) ==
  IF now <= lastSwept THEN {}
  ELSE {k \in DOMAIN table : table[k].firstSeen < now - Timeout}
StaleEarly(now) ==
  IF now <= lastSwept THEN {}
  ELSE {k \in DOMAIN table : table[k].firstSeen <= now + 1 - Timeout}

Stale(now) ==
  IF now <= lastSwept THEN {}
  ELSE {k \in DOMAIN table : table[k].firstSeen <= now - Timeout}

Sweep(now) ==
  /\ frames < MaxFrames /\ frames' = frames + 1
  /\ now >= newest - MaxLate
  /\ newest' = IF now > newest THEN now ELSE newest
  /\ lastSwept' = IF now <= lastSwept THEN lastSwept ELSE now
  /\ expired' = expired + Cardinality(Stale(now))

Swept(now) == Without(table, Stale(now))

-----------------------------------------------------------------------------
(* decapsulate() and the parse of what it reaches: a datagram is `depth`   *)
(* tunnels around an innermost one.                                        *)
Parse(d) ==
  LET followed == IF d.depth < MaxTunnels THEN d.depth ELSE MaxTunnels
      bad == d.inner = "bad" /\ d.depth <= MaxTunnels
  IN  /\ tunnelled' = tunnelled + followed
      /\ esp' = IF d.inner = "esp" /\ d.depth < MaxTunnels THEN esp + 1 ELSE esp
      /\ decoded' = IF bad THEN decoded ELSE decoded + 1
      /\ undecoded' = IF bad THEN undecoded + 1 ELSE undecoded

(* A frame with no IP datagram in it. *)
Skip(now) ==
  /\ Sweep(now)
  /\ table' = Swept(now) /\ undecoded' = undecoded + 1 /\ out' = {}
  /\ UNCHANGED <<policy, fragmentsSeen, fragmentsDropped, reassembled, decoded, tunnelled, esp, born>>

Datagram(now, d) ==
  /\ Sweep(now)
  /\ table' = Swept(now) /\ out' = {}
  /\ Parse(d)
  /\ UNCHANGED <<policy, fragmentsSeen, fragmentsDropped, reassembled, born>>

(* offer().  A fragment is refused if it reaches too far, if it would      *)
(* start a datagram in a full table, or if its datagram has as much as it  *)
(* may have.                                                               *)
Held(t, k, now) == IF k \in DOMAIN t THEN t[k] ELSE Empty(now)
With(t, k, p) == [j \in DOMAIN t \cup {k} |-> IF j = k THEN p ELSE t[j]]

NoRoom(t, k, f) ==
  \/ f.off + f.len > MaxBytes
  \/ k \notin DOMAIN t /\ Cardinality(DOMAIN t) >= MaxDatagrams

Enough(p, f) == Len(p.pieces) >= MaxPieces \/ p.bytes + f.len > MaxBytes

Begun(t, k) == IF k \in DOMAIN t THEN born ELSE born + 1

(* An entry made for a fragment that is then refused stays. *)
Refuse(k, f, now) ==
  /\ Sweep(now)
  /\ NoRoom(Swept(now), k, f) \/ Enough(Held(Swept(now), k, now), f)
  /\ IF NoRoom(Swept(now), k, f)
       THEN table' = Swept(now) /\ UNCHANGED born
       ELSE /\ table' = With(Swept(now), k, Held(Swept(now), k, now))
            /\ born' = Begun(Swept(now), k)
  /\ fragmentsSeen' = fragmentsSeen + 1 /\ fragmentsDropped' = fragmentsDropped + 1
  /\ out' = {}
  /\ UNCHANGED <<policy, reassembled, parses>>

Taken(k, f, now) == Add(Held(Swept(now), k, now), f)

Absorb(k, f, now) ==
  /\ Sweep(now)
  /\ ~NoRoom(Swept(now), k, f) /\ ~Enough(Held(Swept(now), k, now), f)
  /\ ~Whole(Taken(k, f, now))
  /\ table' = With(Swept(now), k, Taken(k, f, now))
  /\ born' = Begun(Swept(now), k)
  /\ fragmentsSeen' = fragmentsSeen + 1 /\ out' = {}
  /\ UNCHANGED <<policy, fragmentsDropped, reassembled, parses>>

Complete(k, f, now, d) ==
  LET p == Taken(k, f, now)
  IN  /\ Sweep(now)
      /\ ~NoRoom(Swept(now), k, f) /\ ~Enough(Held(Swept(now), k, now), f)
      /\ Whole(p)
      /\ table' = Without(Swept(now), {k})
      /\ born' = Begun(Swept(now), k)
      /\ fragmentsSeen' = fragmentsSeen + 1 /\ reassembled' = reassembled + 1
      /\ Parse(d)
      /\ out' = {[key |-> k, head |-> p.head, bytes |-> Assemble(p), pieces |-> p.pieces,
                  age |-> now - p.firstSeen]}
      /\ UNCHANGED <<policy, fragmentsDropped>>

Next ==
  \E now \in Times :
    \/ Skip(now)
    \/ \E d \in Datagrams : Datagram(now, d)
    \/ \E k \in Keys, f \in Fragments :
         \/ Refuse(k, f, now)
         \/ Absorb(k, f, now)
         \/ \E d \in Datagrams : Complete(k, f, now, d)

Spec == Init /\ [][Next]_vars

-----------------------------------------------------------------------------
Partial ==
  [pieces : Seq(Fragment), bytes : Nat, total : Nat \cup {None},
   head : Copies \cup {None}, firstSeen : Nat]

TypeOK ==
  /\ policy \in {"first", "last"}
  /\ DOMAIN table \subseteq Keys /\ table \in [DOMAIN table -> Partial]
  /\ lastSwept \in Nat /\ newest \in Nat /\ frames \in Nat
  /\ fragmentsSeen \in Nat /\ fragmentsDropped \in Nat
  /\ reassembled \in Nat /\ expired \in Nat
  /\ decoded \in Nat /\ undecoded \in Nat /\ tunnelled \in Nat /\ esp \in Nat
  /\ born \in Nat

(* The bounds on the table hold together, and nothing is held that could   *)
(* have been released.                                                     *)
WithinLimits ==
  /\ Cardinality(DOMAIN table) <= MaxDatagrams
  /\ \A k \in DOMAIN table :
       /\ Len(table[k].pieces) <= MaxPieces /\ table[k].bytes <= MaxBytes
       /\ ~Whole(table[k])

(* Every reassembly begun ends once, as a datagram or as one that expired, *)
(* or is still pending; and every frame is a packet, is counted as         *)
(* undecoded, or is a fragment that completed nothing.                     *)
EveryFrameAccounted ==
  /\ born = reassembled + expired + Cardinality(DOMAIN table)
  /\ frames = decoded + undecoded + (fragmentsSeen - reassembled)

(* The policy: of the fragments of a datagram that claim a byte, the one   *)
(* that came first (last) says what it is, wherever the others begin.      *)
PolicyKept ==
  \A d \in out :
    \A at \in DOMAIN d.bytes :
      LET claims == {i \in DOMAIN d.pieces : Covers(d.pieces[i], at)}
      IN  \E i \in claims :
            /\ d.bytes[at] = d.pieces[i].copy
            /\ \A j \in claims : IF policy = "first" THEN i <= j ELSE i >= j

(* What counts towards the limit of a datagram is what its pieces weigh.   *)
Weight(pieces) ==
  LET sum[i \in 0 .. Len(pieces)] == IF i = 0 THEN 0 ELSE sum[i - 1] + pieces[i].len
  IN  sum[Len(pieces)]

PiecesWeighed == \A k \in DOMAIN table : table[k].bytes = Weight(table[k].pieces)

(* A datagram is made of its pieces: as the policy says, and no more of    *)
(* them than their bytes allow.                                            *)
PiecesTrue == PolicyKept /\ PiecesWeighed

(* Fragments of two datagrams that used one identification do not mix: a   *)
(* datagram is made of fragments that came within the timeout, so long as  *)
(* frames are not later than that.                                         *)
NeverStale ==
  MaxLate < Timeout =>
    /\ \A d \in out : d.age < Timeout
    /\ \A k \in DOMAIN table : table[k].firstSeen > lastSwept - Timeout

(* "Refusing new datagrams when full, rather than evicting": an incomplete *)
(* datagram leaves the table by its own completion or its own timeout, no  *)
(* matter what else arrives, and until then keeps every piece it has.      *)
NeverEvicted ==
  [][\A k \in DOMAIN table :
       \/ k \in DOMAIN table' /\ IsPrefix(table[k].pieces, table'[k].pieces)
                              /\ table'[k].firstSeen = table[k].firstSeen
       \/ newest' - table[k].firstSeen >= Timeout
       \/ \E d \in out' : d.key = k]_vars

(* The reassembly table at any moment: within its bounds, with nothing     *)
(* stale or finished in it, and every frame and datagram accounted for.    *)
TableSound == TypeOK /\ WithinLimits /\ EveryFrameAccounted /\ NeverStale
=============================================================================
