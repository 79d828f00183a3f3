-------------------------- MODULE TcpStreamProofs --------------------------
(***************************************************************************)
(* For every stream length, segment size, cap, window and sequence space   *)
(* large enough for the window: StreamHalf keeps its types, strands no     *)
(* byte, and implements ByteStream, provided a SYN carries no data (with   *)
(* data it does not: see JoinedAtSyn).                                     *)
(***************************************************************************)
EXTENDS TcpStream, TLAPS, WellFoundedInduction

BareSyn == SynPayload \subseteq {0}

(* How far apart two positions that are compared can be. *)
Reach == Window + MaxSegment

IsRun(d, p) == \A i \in 1 .. Len(d) : d[i].pos = p + i - 1

First(k) == ooo[k][1].pos

-----------------------------------------------------------------------------
(* The parts of the inductive invariant. *)

(* Nothing is known before the first segment. *)
Fresh ==
  base = None =>
    /\ nextSeq = None /\ pc = "idle"
    /\ buffer = <<>> /\ DOMAIN ooo = {} /\ dropped = 0 /\ DOMAIN first = {}

(* What was kept is the stream from b on, and is short of it only when     *)
(* full.                                                                   *)
Delivered(b) == IsRun(buffer, b) /\ (dropped > 0 => Len(buffer) = StreamCap)

(* A held segment is a run of the stream under its own number, near enough *)
(* to the expected position n for wrapped comparisons to be right, and     *)
(* ahead of it whenever no drain is under way.                             *)
Held(n) ==
  \A k \in DOMAIN ooo :
    /\ IsRun(ooo[k], First(k)) /\ Len(ooo[k]) \in 1 .. MaxSegment
    /\ First(k) \in Nat
    /\ k = SeqOf(First(k))
    /\ First(k) <= n + Window
    /\ n - Reach <= First(k)
    /\ pc = "idle" => n < First(k)

(* Held segments are within a window of each other. *)
Close == \A j, k \in DOMAIN ooo : First(j) - First(k) < Window

(* Every byte accepted was delivered or is held. *)
Covered(n) ==
  \A p \in DOMAIN first :
    p < n \/ \E k \in DOMAIN ooo : p \in Positions(ooo[k])

(* The state of a stream that starts at b. *)
InStream(b) ==
  LET n == b + Len(buffer) + dropped
  IN  Delivered(b) /\ Held(n) /\ Close /\ Covered(n)

IInv ==
  /\ TypeOK
  /\ Fresh
  /\ base # None => nextSeq = SeqOf(NextPos) /\ InStream(base)

-----------------------------------------------------------------------------
(* Arithmetic on sequence numbers. *)

(* A remainder is determined by any way of writing the number. *)
LEMMA ModUnique ==
  ASSUME NEW a \in Int, NEW q \in Int, NEW r \in 0 .. SeqSpace - 1,
         a = SeqSpace * q + r
  PROVE  a % SeqSpace = r
BY StreamAssumption

(* The wrapped difference of two numbers is their difference, or that plus *)
(* one lap when it is negative.                                            *)
LEMMA DiffMod ==
  ASSUME NEW a \in Int, NEW b \in Int
  PROVE  /\ a - b \in 0 .. SeqSpace - 1
              => ((a % SeqSpace) - (b % SeqSpace)) % SeqSpace = a - b
         /\ b - a \in 1 .. SeqSpace - 1
              => ((a % SeqSpace) - (b % SeqSpace)) % SeqSpace = SeqSpace - (b - a)
<1> DEFINE qa == a \div SeqSpace
           qb == b \div SeqSpace
           ra == a % SeqSpace
           rb == b % SeqSpace
<1>1. /\ a = SeqSpace * qa + ra /\ qa \in Int /\ ra \in Int
      /\ b = SeqSpace * qb + rb /\ qb \in Int /\ rb \in Int
      /\ SeqSpace \in Nat
  BY StreamAssumption
<1>. HIDE DEF qa, qb, ra, rb
<1>2. ra - rb = SeqSpace * (qb - qa) + (a - b)
  BY <1>1
<1>3. ra - rb = SeqSpace * (qb - qa - 1) + (SeqSpace - (b - a))
  BY <1>1
<1>4. ASSUME a - b \in 0 .. SeqSpace - 1
      PROVE  (ra - rb) % SeqSpace = a - b
  <2>1. ra - rb \in Int /\ qb - qa \in Int
    BY <1>1
  <2>. QED  BY <2>1, <1>2, <1>4, ModUnique
<1>5. ASSUME b - a \in 1 .. SeqSpace - 1
      PROVE  (ra - rb) % SeqSpace = SeqSpace - (b - a)
  <2>1. SeqSpace - (b - a) \in 0 .. SeqSpace - 1
    BY <1>1, <1>5
  <2>2. ra - rb \in Int /\ qb - qa - 1 \in Int
    BY <1>1
  <2>. QED  BY <2>1, <2>2, <1>3, ModUnique
<1>. QED  BY <1>4, <1>5 DEF ra, rb

LEMMA SeqOfType == \A p \in Int : SeqOf(p) \in 0 .. SeqSpace - 1
BY StreamAssumption DEF SeqOf

(* Positions close to each other are ordered by their wrapped numbers.     *)
LEMMA SeqOrder ==
  ASSUME NEW p \in Int, NEW q \in Int, p - q <= Reach, q - p <= Reach
  PROVE  /\ SeqAfter(SeqOf(p), SeqOf(q)) <=> p > q
         /\ SeqOf(p) = SeqOf(q) <=> p = q
         /\ q >= p => (SeqOf(q) - SeqOf(p)) % SeqSpace = q - p
<1> DEFINE a == Isn + 1 + p
           b == Isn + 1 + q
<1>1. /\ a \in Int /\ b \in Int /\ a - b = p - q
      /\ SeqSpace \in Nat /\ Reach \in Nat /\ SeqSpace > 2 * (Reach + 1)
      /\ SeqSpace \div 2 > Reach /\ SeqSpace - Reach > SeqSpace \div 2
  BY StreamAssumption DEF Reach
<1>2. SeqOf(p) = a % SeqSpace /\ SeqOf(q) = b % SeqSpace
  BY DEF SeqOf
<1>. HIDE DEF a, b
<1>3. CASE p > q
  <2>0. a - b \in 0 .. SeqSpace - 1
    BY <1>1, <1>3
  <2>1. (SeqOf(p) - SeqOf(q)) % SeqSpace = p - q
    BY <2>0, <1>1, <1>2, DiffMod
  <2>2. SeqOf(p) # SeqOf(q)
    <3>1. SUFFICES ASSUME SeqOf(p) = SeqOf(q) PROVE FALSE
      OBVIOUS
    <3>2. (SeqOf(p) - SeqOf(q)) = 0 /\ 0 % SeqSpace = 0
      BY <3>1, <1>1, SeqOfType
    <3>. QED  BY <3>2, <2>1, <1>3
  <2>. QED  BY <2>1, <2>2, <1>1, <1>3 DEF SeqAfter
<1>4. CASE p = q
  <2>0. a - b \in 0 .. SeqSpace - 1 /\ a - b = 0 /\ SeqOf(p) = SeqOf(q)
    BY <1>1, <1>4
  <2>1. (SeqOf(p) - SeqOf(q)) % SeqSpace = 0 /\ (SeqOf(q) - SeqOf(p)) % SeqSpace = 0
    BY <2>0, <1>1, <1>2, DiffMod
  <2>. QED  BY <2>1, <1>4 DEF SeqAfter
<1>5. CASE q > p
  <2>0. b - a \in 1 .. SeqSpace - 1 /\ b - a \in 0 .. SeqSpace - 1 /\ b - a = q - p
    BY <1>1, <1>5
  <2>1. (SeqOf(p) - SeqOf(q)) % SeqSpace = SeqSpace - (q - p)
    <3>1. ((a % SeqSpace) - (b % SeqSpace)) % SeqSpace = SeqSpace - (b - a)
      BY <2>0, <1>1, DiffMod
    <3>. QED  BY <3>1, <2>0, <1>2
  <2>2. (SeqOf(q) - SeqOf(p)) % SeqSpace = q - p
    <3>1. ((b % SeqSpace) - (a % SeqSpace)) % SeqSpace = b - a
      BY <2>0, <1>1, DiffMod
    <3>. QED  BY <3>1, <2>0, <1>2
  <2>3. SeqOf(p) # SeqOf(q)
    <3>1. SUFFICES ASSUME SeqOf(p) = SeqOf(q) PROVE FALSE
      OBVIOUS
    <3>2. (SeqOf(q) - SeqOf(p)) = 0 /\ 0 % SeqSpace = 0
      BY <3>1, <1>1, SeqOfType
    <3>. QED  BY <3>2, <2>2, <1>5
  <2>. QED  BY <2>1, <2>2, <2>3, <1>1, <1>5 DEF SeqAfter
<1>. QED  BY <1>3, <1>4, <1>5

(* Moving the expected number over n bytes moves its position by n. *)
LEMMA SeqAddOf ==
  ASSUME NEW p \in Int, NEW n \in Nat
  PROVE  SeqAdd(SeqOf(p), n) = SeqOf(p + n)
<1> DEFINE a == Isn + 1 + p
           b == Isn + 1 + (p + n)
           qa == a \div SeqSpace
           qb == b \div SeqSpace
           ra == a % SeqSpace
           rb == b % SeqSpace
<1>1. /\ a = SeqSpace * qa + ra /\ qa \in Int /\ ra \in 0 .. SeqSpace - 1
      /\ b = SeqSpace * qb + rb /\ qb \in Int /\ rb \in 0 .. SeqSpace - 1
      /\ b = a + n /\ SeqSpace \in Nat
  BY StreamAssumption
<1>2. SeqOf(p) = ra /\ SeqOf(p + n) = rb
  BY DEF SeqOf
<1>. HIDE DEF a, b, qa, qb, ra, rb
<1>3. ra + n = SeqSpace * (qb - qa) + rb /\ ra + n \in Int /\ qb - qa \in Int
  BY <1>1
<1>4. (ra + n) % SeqSpace = rb
  BY <1>1, <1>3, ModUnique
<1>. QED  BY <1>2, <1>4 DEF SeqAdd

-----------------------------------------------------------------------------
(* append() *)

(* Appending the run the stream is waiting for leaves a longer run, keeps  *)
(* what was there, and loses bytes only when the buffer is full.           *)
LEMMA AppendRun ==
  ASSUME NEW b \in Nat, NEW d \in Seq(Byte),
         buffer \in Seq(Byte), Len(buffer) <= StreamCap, dropped \in Nat,
         dropped > 0 => Len(buffer) = StreamCap,
         IsRun(buffer, b), IsRun(d, b + Len(buffer) + dropped),
         AppendBytes(SeqOf(b + Len(buffer) + dropped), d)
  PROVE  /\ buffer' \in Seq(Byte) /\ Len(buffer') <= StreamCap
         /\ dropped' \in Nat
         /\ IsRun(buffer', b)
         /\ dropped' > 0 => Len(buffer') = StreamCap
         /\ Len(buffer') + dropped' = Len(buffer) + dropped + Len(d)
         /\ nextSeq' = SeqOf(b + Len(buffer') + dropped')
         /\ Len(buffer) <= Len(buffer')
         /\ \A i \in 1 .. Len(buffer) : buffer'[i] = buffer[i]
         /\ dropped' >= dropped
         /\ dropped' > dropped => Len(buffer') = StreamCap
<1> DEFINE room == StreamCap - Len(buffer)
           take == IF Len(d) <= room THEN Len(d) ELSE room
           kept == SubSeq(d, 1, take)
<1>1. /\ buffer' = buffer \o kept
      /\ dropped' = dropped + Len(d) - take
      /\ nextSeq' = SeqAdd(SeqOf(b + Len(buffer) + dropped), Len(d))
  BY DEF AppendBytes
<1>2. /\ Len(buffer) \in Nat /\ Len(d) \in Nat /\ StreamCap \in Nat
      /\ take \in 0 .. Len(d) /\ take <= room
      /\ take < Len(d) => take = room
  BY StreamAssumption
<1>3. kept \in Seq(Byte) /\ Len(kept) = take /\ \A i \in 1 .. take : kept[i] = d[i]
  BY <1>2
<1>. HIDE DEF kept, take
<1>4. /\ buffer' \in Seq(Byte) /\ Len(buffer') = Len(buffer) + take
      /\ \A i \in 1 .. Len(buffer) : buffer'[i] = buffer[i]
      /\ \A i \in Len(buffer) + 1 .. Len(buffer) + take : buffer'[i] = kept[i - Len(buffer)]
  <2>1. buffer' \in Seq(Byte) /\ Len(buffer') = Len(buffer) + take
    <3>1. buffer \o kept \in Seq(Byte)
      BY <1>3
    <3>2. Len(buffer \o kept) = Len(buffer) + take
      BY <1>3
    <3>. QED  BY <3>1, <3>2, <1>1
  <2>2. \A i \in 1 .. Len(buffer) : buffer'[i] = buffer[i]
    BY <1>1, <1>2, <1>3
  <2>3. \A i \in Len(buffer) + 1 .. Len(buffer) + take : buffer'[i] = kept[i - Len(buffer)]
    BY <1>1, <1>2, <1>3
  <2>. QED  BY <2>1, <2>2, <2>3
<1>5. IsRun(buffer', b)
  <2> SUFFICES ASSUME NEW i \in 1 .. Len(buffer) + take
               PROVE  buffer'[i].pos = b + i - 1
    BY <1>4 DEF IsRun
  <2>1. CASE i <= Len(buffer)
    BY <2>1, <1>2, <1>4 DEF IsRun
  <2>2. CASE i > Len(buffer)
    <3>1. take > 0 /\ dropped = 0
      BY <2>2, <1>2
    <3>2. i - Len(buffer) \in 1 .. take /\ i - Len(buffer) \in 1 .. Len(d)
      BY <2>2, <1>2
    <3>3. buffer'[i] = d[i - Len(buffer)]
      BY <2>2, <1>2, <1>3, <1>4, <3>2
    <3>. QED  BY <3>1, <3>2, <3>3, <1>2 DEF IsRun
  <2>. QED  BY <2>1, <2>2, <1>2
<1>6. nextSeq' = SeqOf(b + Len(buffer') + dropped')
  <2>1. SeqAdd(SeqOf(b + Len(buffer) + dropped), Len(d)) = SeqOf((b + Len(buffer) + dropped) + Len(d))
    BY <1>2, SeqAddOf
  <2>2. (b + Len(buffer) + dropped) + Len(d) = b + Len(buffer') + dropped'
    BY <1>1, <1>2, <1>4
  <2>. QED  BY <2>1, <2>2, <1>1
<1>. QED  BY <1>1, <1>2, <1>4, <1>5, <1>6

(* What is left of a run after its first n bytes is a run n further on. *)
LEMMA DropRun ==
  ASSUME NEW d \in Seq(Byte), NEW p \in Int, NEW n \in Nat, n < Len(d), IsRun(d, p)
  PROVE  /\ Drop(d, n) \in Seq(Byte) /\ Len(Drop(d, n)) = Len(d) - n
         /\ IsRun(Drop(d, n), p + n)
<1>1. /\ Drop(d, n) \in Seq(Byte) /\ Len(Drop(d, n)) = Len(d) - n
      /\ \A i \in 1 .. Len(d) - n : Drop(d, n)[i] = d[n + i]
  BY DEF Drop
<1>. QED  BY <1>1 DEF IsRun

(* A run followed by the run that starts where it ends is a run. *)
LEMMA ConcatRun ==
  ASSUME NEW d \in Seq(Byte), NEW e \in Seq(Byte), NEW p \in Nat,
         IsRun(d, p), IsRun(e, p + Len(d))
  PROVE  /\ d \o e \in Seq(Byte) /\ Len(d \o e) = Len(d) + Len(e)
         /\ IsRun(d \o e, p)
<1>1. d \o e \in Seq(Byte) /\ Len(d \o e) = Len(d) + Len(e)
  OBVIOUS
<1>2. Len(d) \in Nat /\ Len(e) \in Nat
  OBVIOUS
<1>3. ASSUME NEW i \in 1 .. Len(d) + Len(e)
      PROVE  (d \o e)[i].pos = p + i - 1
  <2>1. CASE i <= Len(d)
    <3>1. (d \o e)[i] = d[i] /\ i \in 1 .. Len(d)
      BY <2>1, <1>2
    <3>. QED  BY <3>1 DEF IsRun
  <2>2. CASE i > Len(d)
    <3>1. (d \o e)[i] = e[i - Len(d)] /\ i - Len(d) \in 1 .. Len(e)
      BY <2>2, <1>2
    <3>2. e[i - Len(d)].pos = (p + Len(d)) + (i - Len(d)) - 1
      BY <3>1 DEF IsRun
    <3>. QED  BY <3>1, <3>2, <1>2
  <2>. QED  BY <2>1, <2>2, <1>2
<1>. QED  BY <1>1, <1>3 DEF IsRun

(* A run covers the positions from its first to its last. *)
LEMMA RunPositions ==
  ASSUME NEW d \in Seq(Byte), NEW p \in Int, IsRun(d, p)
  PROVE  Positions(d) = p .. p + Len(d) - 1
<1>1. ASSUME NEW x \in p .. p + Len(d) - 1 PROVE x \in Positions(d)
  <2>1. x - p + 1 \in 1 .. Len(d)
    OBVIOUS
  <2>2. d[x - p + 1].pos = x
    BY <2>1 DEF IsRun
  <2>. QED  BY <2>1, <2>2 DEF Positions
<1>2. ASSUME NEW x \in Positions(d) PROVE x \in p .. p + Len(d) - 1
  BY DEF Positions, IsRun
<1>. QED  BY <1>1, <1>2

(* A transmission is a run. *)
LEMMA PayloadRun ==
  ASSUME NEW p \in Nat, NEW n \in Nat, NEW c \in Copies
  PROVE  /\ Payload(p, n, c) \in Seq(Byte)
         /\ Len(Payload(p, n, c)) = n
         /\ IsRun(Payload(p, n, c), p)
<1>1. \A i \in 1 .. n : [pos |-> p + i - 1, copy |-> c] \in Byte
  BY DEF Byte
<1>2. Payload(p, n, c) \in [1 .. n -> Byte]
  BY <1>1 DEF Payload
<1>3. Payload(p, n, c) \in Seq(Byte) /\ Len(Payload(p, n, c)) = n
  BY <1>2
<1>. QED  BY <1>3 DEF Payload, IsRun

(* Recording what arrived keeps the record's type and adds its positions.  *)
LEMMA SeenType ==
  ASSUME NEW d \in Seq(Byte), DOMAIN first \subseteq Nat,
         first \in [DOMAIN first -> Copies]
  PROVE  /\ DOMAIN Seen(d) = DOMAIN first \cup Positions(d)
         /\ DOMAIN Seen(d) \subseteq Nat
         /\ Seen(d) \in [DOMAIN Seen(d) -> Copies]
<1>1. DOMAIN Seen(d) = DOMAIN first \cup Positions(d)
  BY DEF Seen
<1>0. \A i \in 1 .. Len(d) : d[i] \in Byte
  OBVIOUS
<1>5. \A i \in 1 .. Len(d) : d[i].pos \in Nat /\ d[i].copy \in Copies
  BY <1>0 DEF Byte
<1>2. Positions(d) \subseteq Nat
  BY <1>5 DEF Positions
<1>3. ASSUME NEW p \in Positions(d), p \notin DOMAIN first
      PROVE  Seen(d)[p] \in Copies
  <2>1. PICK i \in 1 .. Len(d) : d[i].pos = p
    BY DEF Positions
  <2> DEFINE j == CHOOSE j \in 1 .. Len(d) : d[j].pos = p
  <2>2. j \in 1 .. Len(d)
    BY <2>1
  <2>3. Seen(d)[p] = d[j].copy
    BY <1>3 DEF Seen
  <2>. QED  BY <1>5, <2>2, <2>3
<1>4. ASSUME NEW p \in DOMAIN first
      PROVE  Seen(d)[p] = first[p]
  BY DEF Seen
<1>6. \A p \in DOMAIN Seen(d) : Seen(d)[p] \in Copies
  BY <1>1, <1>3, <1>4
<1>7. Seen(d) = [p \in DOMAIN Seen(d) |-> Seen(d)[p]]
  BY DEF Seen
<1>. QED  BY <1>1, <1>2, <1>6, <1>7

-----------------------------------------------------------------------------
(* feed() *)

(* Every byte of d is at a position before n. *)
Before(d, n) == \A x \in Positions(d) : x < n

(* A sum of three is moved by what its last two are.                        *)
LEMMA SumsMove ==
  ASSUME NEW b \in Nat, NEW l0 \in Nat, NEW l1 \in Nat, NEW d0 \in Nat, NEW d1 \in Nat, NEW more \in Nat,
         l1 + d1 = l0 + d0 + more
  PROVE  b + l1 + d1 = (b + l0 + d0) + more
OBVIOUS

(* A segment that starts where the stream is, or whose tail does, moves    *)
(* the stream past it; D is the whole segment.                             *)
LEMMA FeedAppend ==
  ASSUME TypeOK, NEW b \in Nat, InStream(b), pc = "idle",
         NEW D \in Seq(Byte), NEW d \in Seq(Byte), Len(d) <= MaxSegment,
         IsRun(d, b + Len(buffer) + dropped),
         Before(D, b + Len(buffer) + dropped + Len(d)),
         AppendBytes(SeqOf(b + Len(buffer) + dropped), d),
         ooo' = ooo, pc' = "drain", first' = Seen(D), base' = b
  PROVE  TypeOK' /\ InStream(b)' /\ nextSeq' = SeqOf(NextPos')
<1> DEFINE n == b + Len(buffer) + dropped
<1>1. /\ buffer' \in Seq(Byte) /\ Len(buffer') <= StreamCap
      /\ dropped' \in Nat
      /\ IsRun(buffer', b)
      /\ dropped' > 0 => Len(buffer') = StreamCap
      /\ Len(buffer') + dropped' = Len(buffer) + dropped + Len(d)
      /\ nextSeq' = SeqOf(b + Len(buffer') + dropped')
  BY AppendRun DEF TypeOK, InStream, Delivered
<1>2. /\ n \in Nat /\ n' \in Nat /\ n' = n + Len(d) /\ Len(d) \in Nat
      /\ Window \in Nat /\ MaxSegment \in Nat /\ Reach = Window + MaxSegment
  <2>0. buffer \in Seq(Byte) /\ dropped \in Nat /\ buffer' \in Seq(Byte)
    BY <1>1 DEF TypeOK
  <2>1. Len(buffer) \in Nat /\ dropped \in Nat /\ Len(d) \in Nat /\ Len(buffer') \in Nat
    BY <2>0
  <2>2. n' = n + Len(d)
    <3>1. n' = b + Len(buffer') + dropped' /\ n = b + Len(buffer) + dropped
      OBVIOUS
    <3>2. Len(buffer') + dropped' = Len(buffer) + dropped + Len(d) /\ dropped' \in Nat
      BY <1>1
    <3>3. dropped \in Nat
      BY <2>0
    <3>5. b + Len(buffer') + dropped' = (b + Len(buffer) + dropped) + Len(d)
      <4> DEFINE l0 == Len(buffer)
                 l1 == Len(buffer')
                 d1 == dropped'
                 more == Len(d)
      <4>1. /\ l0 \in Nat /\ l1 \in Nat /\ dropped \in Nat /\ d1 \in Nat /\ more \in Nat
            /\ l1 + d1 = l0 + dropped + more
        BY <2>1, <3>2, <3>3
      <4>. HIDE DEF l0, l1, d1, more
      <4>2. b + l1 + d1 = (b + l0 + dropped) + more
        BY <4>1, SumsMove
      <4>. QED  BY <4>2 DEF l0, l1, d1, more
    <3>. HIDE DEF n
    <3>. QED  BY <3>1, <3>5
  <2>3. n \in Nat
    BY <2>1
  <2>4. Window \in Nat /\ MaxSegment \in Nat /\ Reach = Window + MaxSegment
    BY StreamAssumption DEF Reach
  <2>. HIDE DEF n
  <2>. QED  BY <2>1, <2>2, <2>3, <2>4
<1>3. Held(n) /\ Close /\ Covered(n)
  BY DEF InStream
<1>4. /\ DOMAIN first' = DOMAIN first \cup Positions(D)
      /\ DOMAIN first' \subseteq Nat /\ first' \in [DOMAIN first' -> Copies]
  BY SeenType DEF TypeOK
<1>5. nextSeq' \in 0 .. SeqSpace - 1
  BY <1>1, <1>2, SeqOfType
<1>6. TypeOK'
  BY <1>1, <1>4, <1>5 DEF TypeOK
<1>7. Held(n)'
  <2> SUFFICES ASSUME NEW k \in DOMAIN ooo
               PROVE  /\ IsRun(ooo[k], First(k)) /\ Len(ooo[k]) \in 1 .. MaxSegment
                      /\ First(k) \in Nat /\ k = SeqOf(First(k))
                      /\ First(k) <= n' + Window
                      /\ n' - Reach <= First(k)
    BY DEF Held, First
  <2>1. /\ IsRun(ooo[k], First(k)) /\ Len(ooo[k]) \in 1 .. MaxSegment
        /\ First(k) \in Nat /\ k = SeqOf(First(k))
        /\ First(k) <= n + Window /\ n < First(k)
    BY <1>3 DEF Held
  <2>. HIDE DEF n
  <2>. QED  BY <1>2, <2>1
<1>8. Covered(n)'
  <2> SUFFICES ASSUME NEW p \in DOMAIN first'
               PROVE  p < n' \/ \E k \in DOMAIN ooo : p \in Positions(ooo[k])
    BY DEF Covered
  <2>1. CASE p \in Positions(D)
    BY <2>1, <1>2 DEF Before
  <2>2. CASE p \in DOMAIN first
    <3>1. p \in Nat
      BY <2>2 DEF TypeOK
    <3>2. p < n \/ \E k \in DOMAIN ooo : p \in Positions(ooo[k])
      BY <2>2, <1>3 DEF Covered
    <3>. HIDE DEF n
    <3>. QED  BY <3>1, <3>2, <1>2
  <2>. QED  BY <2>1, <2>2, <1>4
<1>9. Close'
  BY <1>3 DEF Close, First
<1>10. Delivered(b)'
  BY <1>1 DEF Delivered
<1>. QED  BY <1>1, <1>6, <1>7, <1>8, <1>9, <1>10 DEF InStream, NextPos

(* The positions and lengths an argument about the stream starts from. *)
LEMMA Numbers ==
  ASSUME TypeOK, NEW b \in Nat
  PROVE  /\ Len(buffer) \in Nat /\ dropped \in Nat
         /\ b + Len(buffer) + dropped \in Nat
         /\ Window \in Nat /\ Window > 0 /\ MaxSegment \in Nat /\ MaxSegment > 0
         /\ Reach = Window + MaxSegment
<1>1. buffer \in Seq(Byte) /\ dropped \in Nat
  BY DEF TypeOK
<1>2. Len(buffer) \in Nat
  BY <1>1
<1>. QED  BY <1>1, <1>2, StreamAssumption DEF Reach

(* A held segment replaced, or a new one held, under the number of its     *)
(* position p: h is what is then held there, all that was held stays       *)
(* covered, and so is the whole of the arriving d.                         *)
LEMMA HoldAt ==
  ASSUME TypeOK, NEW b \in Nat, InStream(b), pc = "idle",
         NEW p \in Nat, NEW h \in Seq(Byte), NEW d \in Seq(Byte),
         Len(h) \in 1 .. MaxSegment, IsRun(h, p),
         p > b + Len(buffer) + dropped, p <= b + Len(buffer) + dropped + Window,
         ooo' = [k \in DOMAIN ooo \cup {SeqOf(p)} |-> IF k = SeqOf(p) THEN h ELSE ooo[k]],
         SeqOf(p) \in DOMAIN ooo => Positions(ooo[SeqOf(p)]) \subseteq Positions(h),
         Positions(d) \subseteq Positions(h),
         first' = Seen(d), UNCHANGED <<pc, buffer, dropped>>
  PROVE  InStream(b)'
<1> DEFINE n == b + Len(buffer) + dropped
           s == SeqOf(p)
<1>1. n' = n /\ pc' = "idle"
  OBVIOUS
<1>2. Held(n) /\ Close /\ Covered(n) /\ Delivered(b)
  BY DEF InStream
<1>3. n \in Nat /\ Window \in Nat /\ MaxSegment \in Nat /\ Reach = Window + MaxSegment
  BY Numbers
<1>4. p > n /\ p <= n + Window
  OBVIOUS
<1>5. /\ DOMAIN ooo' = DOMAIN ooo \cup {s} /\ ooo'[s] = h
      /\ \A k \in DOMAIN ooo : k # s => ooo'[k] = ooo[k]
  OBVIOUS
<1>6. First(s)' = p
  <2>1. h[1].pos = p
    BY DEF IsRun
  <2>. QED  BY <2>1, <1>5 DEF First
<1>7. \A k \in DOMAIN ooo : k # s => First(k)' = First(k)
  BY <1>5 DEF First
<1>. HIDE DEF n, s
<1>8. \A k \in DOMAIN ooo : First(k) \in Nat /\ n < First(k) /\ First(k) <= n + Window
  BY <1>2 DEF Held
<1>9. Held(n)'
  <2> SUFFICES ASSUME NEW k \in DOMAIN ooo'
               PROVE  /\ IsRun(ooo'[k], First(k)') /\ Len(ooo'[k]) \in 1 .. MaxSegment
                      /\ First(k)' \in Nat /\ k = SeqOf(First(k)')
                      /\ First(k)' <= n + Window
                      /\ n - Reach <= First(k)'
                      /\ n < First(k)'
    BY <1>1 DEF Held, First
  <2>1. CASE k = s
    BY <2>1, <1>3, <1>4, <1>5, <1>6 DEF s
  <2>2. CASE k # s /\ k \in DOMAIN ooo
    <3>1. ooo'[k] = ooo[k] /\ First(k)' = First(k)
      BY <2>2, <1>5, <1>7
    <3>2. /\ IsRun(ooo[k], First(k)) /\ Len(ooo[k]) \in 1 .. MaxSegment /\ k = SeqOf(First(k))
      BY <2>2, <1>2 DEF Held
    <3>. QED  BY <2>2, <3>1, <3>2, <1>3, <1>8
  <2>. QED  BY <2>1, <2>2, <1>5
<1>10. Close'
  <2> SUFFICES ASSUME NEW j \in DOMAIN ooo', NEW k \in DOMAIN ooo'
               PROVE  First(j)' - First(k)' < Window
    BY DEF Close, First
  <2>1. /\ First(j)' \in Nat /\ n < First(j)' /\ First(j)' <= n + Window
        /\ First(k)' \in Nat /\ n < First(k)' /\ First(k)' <= n + Window
    BY <1>4, <1>5, <1>6, <1>7, <1>8
  <2>. QED  BY <2>1, <1>3
<1>11. Covered(n)'
  <2> SUFFICES ASSUME NEW x \in DOMAIN first'
               PROVE  x < n \/ \E k \in DOMAIN ooo' : x \in Positions(ooo'[k])
    BY <1>1 DEF Covered
  <2>1. DOMAIN first' = DOMAIN first \cup Positions(d)
    BY SeenType DEF TypeOK
  <2>2. CASE x \in Positions(d)
    BY <2>2, <1>5
  <2>3. CASE x \in DOMAIN first /\ ~(x < n)
    <3>1. PICK k \in DOMAIN ooo : x \in Positions(ooo[k])
      BY <2>3, <1>2 DEF Covered
    <3>2. CASE k = s
      BY <3>1, <3>2, <1>5 DEF s
    <3>3. CASE k # s
      BY <3>1, <3>3, <1>5
    <3>. QED  BY <3>2, <3>3
  <2>. QED  BY <2>1, <2>2, <2>3
<1>12. Delivered(b)'
  BY <1>2 DEF Delivered
<1>. QED  BY <1>9, <1>10, <1>11, <1>12 DEF InStream, n

(* A segment ahead of the stream. *)
LEMMA FeedAhead ==
  ASSUME TypeOK, NEW b \in Nat, InStream(b), pc = "idle",
         NEW p \in Nat, NEW d \in Seq(Byte),
         Len(d) \in 1 .. MaxSegment, IsRun(d, p),
         p > b + Len(buffer) + dropped, p <= b + Len(buffer) + dropped + Window,
         Extend(SeqOf(p), d) \/ Hold(SeqOf(p), d) \/ Refuse(SeqOf(p)),
         UNCHANGED <<pc, buffer, dropped>>
  PROVE  /\ InStream(b)'
         /\ DOMAIN ooo' \subseteq 0 .. SeqSpace - 1
         /\ ooo' \in [DOMAIN ooo' -> Seq(Byte) \ {<<>>}]
         /\ DOMAIN first' \subseteq Nat /\ first' \in [DOMAIN first' -> Copies]
<1> DEFINE s == SeqOf(p)
           n == b + Len(buffer) + dropped
<1>1. s \in 0 .. SeqSpace - 1
  BY SeqOfType
<1>2. d \in Seq(Byte) \ {<<>>}
  OBVIOUS
<1>3. /\ DOMAIN Seen(d) \subseteq Nat
      /\ Seen(d) \in [DOMAIN Seen(d) -> Copies]
  BY SeenType DEF TypeOK
<1>4. CASE Hold(s, d)
  <2>1. /\ ooo' = [k \in DOMAIN ooo \cup {s} |-> IF k = s THEN d ELSE ooo[k]]
        /\ s \notin DOMAIN ooo /\ first' = Seen(d)
    BY <1>4 DEF Hold
  <2>2. InStream(b)'
    BY <2>1, HoldAt
  <2>. QED  BY <2>1, <2>2, <1>1, <1>2, <1>3 DEF TypeOK
<1>5. CASE Refuse(s)
  <2>1. UNCHANGED <<ooo, first>>
    BY <1>5 DEF Refuse
  <2>2. InStream(b)'
    BY <2>1 DEF InStream, Delivered, Held, Close, Covered, First
  <2>. QED  BY <2>1, <2>2 DEF TypeOK
<1>6. CASE Extend(s, d)
  <2>1. s \in DOMAIN ooo /\ first' = Seen(d)
    BY <1>6 DEF Extend
  <2> DEFINE o == ooo[s]
             h == IF Len(d) > Len(o) THEN o \o Drop(d, Len(o)) ELSE o
  <2>2. ooo' = [k \in DOMAIN ooo \cup {s} |-> IF k = s THEN h ELSE ooo[k]]
    <3>1. DOMAIN ooo \cup {s} = DOMAIN ooo
      BY <2>1
    <3>2. ooo = [k \in DOMAIN ooo |-> ooo[k]]
      BY DEF TypeOK
    <3>. QED  BY <1>6, <3>1, <3>2 DEF Extend
  <2>3. /\ o \in Seq(Byte) /\ Len(o) \in 1 .. MaxSegment /\ IsRun(o, p)
    <3>1. /\ IsRun(o, First(s)) /\ Len(o) \in 1 .. MaxSegment
          /\ First(s) \in Nat /\ s = SeqOf(First(s))
          /\ First(s) <= n + Window /\ n < First(s)
      BY <2>1 DEF InStream, Held
    <3>2. /\ n \in Nat /\ Window \in Nat /\ MaxSegment \in Nat /\ Reach = Window + MaxSegment
      BY Numbers
    <3>3. p > n /\ p <= n + Window
      OBVIOUS
    <3>. HIDE DEF n
    <3>4. First(s) - p <= Reach /\ p - First(s) <= Reach
      BY <3>1, <3>2, <3>3
    <3>5. First(s) = p
      BY <3>1, <3>4, SeqOrder
    <3>6. o \in Seq(Byte)
      BY <2>1 DEF TypeOK
    <3>. QED  BY <3>1, <3>5, <3>6
  <2>. HIDE DEF o
  <2>4. /\ h \in Seq(Byte) /\ Len(h) \in 1 .. MaxSegment /\ IsRun(h, p)
        /\ Len(h) >= Len(o) /\ Len(h) >= Len(d)
    <3>1. CASE Len(d) > Len(o)
      <4> DEFINE t == Drop(d, Len(o))
      <4>1. t \in Seq(Byte) /\ Len(t) = Len(d) - Len(o) /\ IsRun(t, p + Len(o))
        BY <3>1, <2>3, DropRun
      <4>2. h = o \o t
        BY <3>1
      <4>. HIDE DEF t, h
      <4>3. o \o t \in Seq(Byte) /\ Len(o \o t) = Len(o) + Len(t) /\ IsRun(o \o t, p)
        BY <4>1, <2>3, ConcatRun
      <4>. QED  BY <4>1, <4>2, <4>3, <3>1, <2>3
    <3>2. CASE ~(Len(d) > Len(o))
      BY <3>2, <2>3
    <3>. QED  BY <3>1, <3>2
  <2>. HIDE DEF h
  <2>5. Positions(o) \subseteq Positions(h) /\ Positions(d) \subseteq Positions(h)
    <3>1. /\ Positions(o) = p .. p + Len(o) - 1 /\ Positions(d) = p .. p + Len(d) - 1
          /\ Positions(h) = p .. p + Len(h) - 1
      BY <2>3, <2>4, RunPositions
    <3>. QED  BY <3>1, <2>3, <2>4
  <2>6. InStream(b)'
    BY <2>1, <2>2, <2>4, <2>5, HoldAt DEF o
  <2>7. h # <<>>
    BY <2>4
  <2>. QED  BY <2>1, <2>2, <2>4, <2>6, <2>7, <1>1, <1>3 DEF TypeOK
<1>. QED  BY <1>4, <1>5, <1>6

(* feed() with a segment within the window. *)
LEMMA FeedInv ==
  ASSUME TypeOK, NEW b \in Nat, InStream(b), pc = "idle",
         NEW p \in Nat, NEW d \in Seq(Byte),
         Len(d) \in 1 .. MaxSegment, IsRun(d, p),
         p <= b + Len(buffer) + dropped + Window,
         (b + Len(buffer) + dropped) - Window <= p,
         base' = b, Feed(SeqOf(b + Len(buffer) + dropped), SeqOf(p), d)
  PROVE  TypeOK' /\ InStream(b)' /\ nextSeq' = SeqOf(NextPos')
<1> DEFINE n == b + Len(buffer) + dropped
           s == SeqOf(p)
<1>1. /\ n \in Nat /\ Window \in Nat /\ MaxSegment \in Nat /\ Reach = Window + MaxSegment
  BY Numbers
<1>2. p <= n + Window /\ n - Window <= p /\ Len(d) \in 1 .. MaxSegment /\ Len(d) \in Nat
  <2>1. p <= n + Window /\ n - Window <= p
    OBVIOUS
  <2>2. Len(d) \in Nat
    OBVIOUS
  <2>. HIDE DEF n
  <2>. QED  BY <2>1, <2>2
<1>3. /\ SeqAfter(s, SeqOf(n)) <=> p > n
      /\ s = SeqOf(n) <=> p = n
      /\ n >= p => (SeqOf(n) - s) % SeqSpace = n - p
  <2>. HIDE DEF n
  <2>1. p - n <= Reach /\ n - p <= Reach
    BY <1>1, <1>2
  <2>. QED  BY <2>1, <1>1, SeqOrder DEF s
<1>4. d # <<>>
  OBVIOUS
<1>5. Positions(d) = p .. p + Len(d) - 1
  BY RunPositions
<1>6. CASE s = SeqOf(n)
  <2>1. p = n
    BY <1>3, <1>6
  <2>2. AppendBytes(SeqOf(n), d) /\ pc' = "drain" /\ first' = Seen(d) /\ ooo' = ooo
    <3>1. ~SeqAfter(s, SeqOf(n))
      BY <1>1, <1>3, <2>1
    <3>. QED  BY <3>1, <1>4, <1>6 DEF Feed
  <2>3. Before(d, n + Len(d))
    <3>. HIDE DEF n
    <3>. QED  BY <2>1, <1>1, <1>2, <1>5 DEF Before
  <2>4. IsRun(d, n)
    BY <2>1
  <2>. QED  BY <2>2, <2>3, <2>4, FeedAppend
<1>7. CASE s # SeqOf(n) /\ SeqAfter(s, SeqOf(n))
  <2>1. p > n
    BY <1>3, <1>7
  <2>2. /\ nextSeq' = SeqOf(n)
        /\ Extend(s, d) \/ Hold(s, d) \/ Refuse(s)
        /\ UNCHANGED <<pc, buffer, dropped>>
    BY <1>4, <1>7 DEF Feed
  <2>3. /\ InStream(b)'
        /\ DOMAIN ooo' \subseteq 0 .. SeqSpace - 1
        /\ ooo' \in [DOMAIN ooo' -> Seq(Byte) \ {<<>>}]
        /\ DOMAIN first' \subseteq Nat /\ first' \in [DOMAIN first' -> Copies]
    BY <2>1, <2>2, <1>2, FeedAhead
  <2>4. nextSeq' \in 0 .. SeqSpace - 1
    BY <2>2, <1>1, SeqOfType
  <2>5. TypeOK'
    BY <2>2, <2>3, <2>4 DEF TypeOK
  <2>6. NextPos' = n
    BY <2>2 DEF NextPos
  <2>. QED  BY <2>2, <2>3, <2>5, <2>6
<1>8. CASE s # SeqOf(n) /\ ~SeqAfter(s, SeqOf(n))
  <2>1. p < n
    <3>. HIDE DEF n
    <3>. QED  BY <1>1, <1>3, <1>8
  <2> DEFINE skip == (SeqOf(n) - s) % SeqSpace
  <2>2. skip = n - p /\ skip \in Nat /\ skip > 0
    <3>. HIDE DEF n
    <3>. QED  BY <2>1, <1>1, <1>3
  <2>3. SeqAfter(SeqAdd(s, Len(d)), SeqOf(n)) <=> p + Len(d) > n
    <3>1. SeqAdd(s, Len(d)) = SeqOf(p + Len(d))
      BY SeqAddOf
    <3>. HIDE DEF n
    <3>2. p + Len(d) \in Int /\ (p + Len(d)) - n <= Reach /\ n - (p + Len(d)) <= Reach
      BY <2>1, <1>1, <1>2
    <3> DEFINE u == p + Len(d)
    <3>a. u \in Int /\ n \in Int /\ u - n <= Reach /\ n - u <= Reach
      BY <3>2, <1>1
    <3>. HIDE DEF u
    <3>b. SeqAfter(SeqOf(u), SeqOf(n)) <=> u > n
      BY <3>a, SeqOrder
    <3>3. SeqAfter(SeqOf(p + Len(d)), SeqOf(n)) <=> p + Len(d) > n
      BY <3>b DEF u
    <3>. QED  BY <3>1, <3>3
  <2>4. /\ IF SeqAfter(SeqAdd(s, Len(d)), SeqOf(n)) /\ skip < Len(d)
             THEN AppendBytes(SeqOf(n), Drop(d, skip)) /\ pc' = "drain"
             ELSE nextSeq' = SeqOf(n) /\ UNCHANGED <<pc, buffer, dropped>>
        /\ first' = Seen(d) /\ ooo' = ooo
    BY <1>4, <1>8 DEF Feed
  <2>. HIDE DEF skip
  <2>5. CASE p + Len(d) > n
    <3>1. skip < Len(d)
      <4>. HIDE DEF n
      <4>. QED  BY <2>2, <2>5, <1>1, <1>2
    <3>2. AppendBytes(SeqOf(n), Drop(d, skip)) /\ pc' = "drain"
      BY <3>1, <2>3, <2>4, <2>5
    <3>3. /\ Drop(d, skip) \in Seq(Byte) /\ Len(Drop(d, skip)) = Len(d) - skip
          /\ IsRun(Drop(d, skip), p + skip)
      BY <3>1, <2>2, DropRun
    <3>4. p + skip = n
      <4>. HIDE DEF n
      <4>. QED  BY <2>2, <1>1
    <3>5. Len(Drop(d, skip)) <= MaxSegment
      BY <3>3, <2>2, <1>1, <1>2
    <3>6. Before(d, n + Len(Drop(d, skip)))
      <4>1. n + Len(Drop(d, skip)) = p + Len(d)
        <5>. HIDE DEF n
        <5>. QED  BY <3>3, <2>2, <1>1, <1>2
      <4>2. Before(d, p + Len(d))
        BY <1>5 DEF Before
      <4>. QED  BY <4>1, <4>2
    <3>7. IsRun(Drop(d, skip), n)
      BY <3>3, <3>4
    <3>. QED  BY <3>2, <3>3, <3>5, <3>6, <3>7, <2>4, FeedAppend
  <2>6. CASE ~(p + Len(d) > n)
    <3>1. nextSeq' = SeqOf(n) /\ UNCHANGED <<pc, buffer, dropped>> /\ ooo' = ooo
      BY <2>3, <2>4, <2>6
    <3>2. /\ DOMAIN first' = DOMAIN first \cup Positions(d)
          /\ DOMAIN first' \subseteq Nat /\ first' \in [DOMAIN first' -> Copies]
      BY <2>4, SeenType DEF TypeOK
    <3>3. nextSeq' \in 0 .. SeqSpace - 1
      BY <3>1, <1>1, SeqOfType
    <3>4. TypeOK'
      BY <3>1, <3>2, <3>3 DEF TypeOK
    <3>5. \A x \in Positions(d) : x < n
      <4>. HIDE DEF n
      <4>. QED  BY <2>6, <1>1, <1>2, <1>5
    <3>6. Covered(n)'
      <4>1. Covered(n)
        BY DEF InStream
      <4>2. n' = n
        BY <3>1
      <4>. HIDE DEF n
      <4>. QED  BY <4>1, <4>2, <3>1, <3>2, <3>5 DEF Covered
    <3>7. Held(n)' /\ Close' /\ Delivered(b)'
      BY <3>1 DEF InStream, Held, Close, Delivered, First
    <3>8. NextPos' = n
      BY <3>1 DEF NextPos
    <3>. QED  BY <3>1, <3>4, <3>6, <3>7, <3>8 DEF InStream
  <2>. QED  BY <2>5, <2>6
<1>. QED  BY <1>6, <1>7, <1>8

-----------------------------------------------------------------------------
(* The steps preserve the invariant. *)

LEMMA InitInv == Init => IInv
<1> SUFFICES ASSUME Init PROVE IInv
  OBVIOUS
<1>1. buffer = <<>> /\ ooo = <<>> /\ first = <<>> /\ dropped = 0 /\ pc = "idle"
      /\ nextSeq = None /\ base = None
  BY DEF Init
<1>2. /\ buffer \in Seq(Byte) /\ Len(buffer) = 0
      /\ DOMAIN ooo = {} /\ DOMAIN first = {}
      /\ ooo \in [{} -> Seq(Byte) \ {<<>>}] /\ first \in [{} -> Copies]
  BY <1>1
<1>3. TypeOK
  BY <1>1, <1>2, StreamAssumption DEF TypeOK
<1>. QED  BY <1>1, <1>2, <1>3 DEF IInv, Fresh

(* A stream that has not started is in order from wherever it will start.  *)
LEMMA FreshInStream ==
  ASSUME TypeOK, Fresh, base = None, NEW b \in Nat
  PROVE  InStream(b) /\ b + Len(buffer) + dropped = b
BY DEF Fresh, InStream, Delivered, Held, Close, Covered, IsRun

(* The expected number is there exactly when the stream has started. *)
LEMMA Started ==
  ASSUME IInv
  PROVE  nextSeq = None <=> base = None
<1>1. CASE base = None
  BY <1>1 DEF IInv, Fresh
<1>2. CASE base # None
  <2>1. base \in Nat
    BY <1>2 DEF IInv, TypeOK
  <2>2. NextPos \in Nat
    BY <2>1, Numbers DEF IInv, NextPos
  <2>3. nextSeq \in 0 .. SeqSpace - 1
    BY <1>2, <2>2, SeqOfType DEF IInv
  <2>. QED  BY <1>2, <2>3, StreamAssumption
<1>. QED  BY <1>1, <1>2

LEMMA SegmentInv ==
  ASSUME IInv, NEW p \in 0 .. StreamLen - 1, NEW n \in 1 .. MaxSegment,
         NEW c \in Copies, Segment(p, n, c)
  PROVE  IInv'
<1> DEFINE d == Payload(p, n, c)
<1>1. p \in Nat /\ n \in Nat /\ d \in Seq(Byte) /\ Len(d) = n /\ IsRun(d, p)
  BY StreamAssumption, PayloadRun
<1>. HIDE DEF d
<1>2. TypeOK /\ Fresh /\ pc = "idle"
  BY DEF IInv, Segment
<1>3. CASE base = None
  <2>1. nextSeq = None /\ InStream(p) /\ p + Len(buffer) + dropped = p
    BY <1>1, <1>2, <1>3, Started, FreshInStream
  <2>2. base' = p /\ Feed(SeqOf(p + Len(buffer) + dropped), SeqOf(p), d)
    BY <2>1 DEF Segment, d
  <2>3. p <= (p + Len(buffer) + dropped) + Window /\ (p + Len(buffer) + dropped) - Window <= p
    BY <1>1, <2>1, StreamAssumption
  <2>4. TypeOK' /\ InStream(p)' /\ nextSeq' = SeqOf(NextPos')
    BY <1>1, <1>2, <2>1, <2>2, <2>3, FeedInv
  <2>5. base' # None
    BY <1>1, <2>2, StreamAssumption
  <2>. QED  BY <2>2, <2>4, <2>5 DEF IInv, Fresh
<1>4. CASE base # None
  <2>1. base \in Nat
    BY <1>2, <1>4 DEF TypeOK
  <2>2. nextSeq = SeqOf(base + Len(buffer) + dropped) /\ InStream(base)
    BY <1>4 DEF IInv, NextPos
  <2>3. nextSeq # None
    BY <1>4, Started
  <2>4. base' = base /\ Feed(SeqOf(base + Len(buffer) + dropped), SeqOf(p), d)
    BY <2>2, <2>3 DEF Segment, d
  <2>5. p \in NextPos - Window .. NextPos + Window
    BY <1>4 DEF Segment
  <2>6. NextPos \in Nat /\ Window \in Nat
    BY <1>2, <2>1, Numbers DEF NextPos
  <2>7. p <= (base + Len(buffer) + dropped) + Window /\ (base + Len(buffer) + dropped) - Window <= p
    BY <2>5, <2>6, <1>1 DEF NextPos
  <2>8. PICK b \in Nat : b = base
    BY <2>1
  <2>9. TypeOK' /\ InStream(b)' /\ nextSeq' = SeqOf(NextPos')
    BY <1>1, <1>2, <2>2, <2>4, <2>7, <2>8, FeedInv
  <2>. QED  BY <1>4, <2>4, <2>8, <2>9 DEF IInv, Fresh
<1>. QED  BY <1>3, <1>4

(* A SYN without data only anchors a stream that has not started. *)
LEMMA SynInv ==
  ASSUME IInv, BareSyn, NEW n \in SynPayload, NEW c \in Copies, Syn(n, c)
  PROVE  IInv'
<1>1. n = 0 /\ Payload(0, n, c) = <<>>
  <2>1. n = 0
    BY DEF BareSyn
  <2>2. Payload(0, 0, c) \in Seq(Byte) /\ Len(Payload(0, 0, c)) = 0
    BY PayloadRun
  <2>. QED  BY <2>1, <2>2
<1>2. /\ TypeOK /\ Fresh
      /\ base' = IF nextSeq = None THEN 0 ELSE base
      /\ nextSeq' = IF nextSeq = None THEN SeqAdd(Isn, 1) ELSE nextSeq
      /\ UNCHANGED <<pc, buffer, ooo, dropped, first>>
  BY <1>1 DEF Syn, Feed, IInv
<1>3. CASE base = None
  <2>1. base' = 0 /\ nextSeq' = SeqAdd(Isn, 1)
    BY <1>2, <1>3, Started
  <2>2. SeqAdd(Isn, 1) = SeqOf(0)
    BY StreamAssumption DEF SeqAdd, SeqOf
  <2>3. InStream(0) /\ 0 + Len(buffer) + dropped = 0
    BY <1>2, <1>3, FreshInStream
  <2>4. NextPos' = 0
    BY <1>2, <2>1, <2>3 DEF NextPos
  <2>5. SeqOf(0) \in 0 .. SeqSpace - 1
    BY SeqOfType
  <2>6. TypeOK'
    BY <1>2, <2>1, <2>2, <2>5 DEF TypeOK
  <2>7. InStream(base)'
    BY <1>2, <2>1, <2>3 DEF InStream, Held, Close, Covered, Delivered, First
  <2>8. base' # None
    BY <2>1, StreamAssumption
  <2>. QED  BY <2>1, <2>2, <2>4, <2>6, <2>7, <2>8 DEF IInv, Fresh
<1>4. CASE base # None
  <2>1. UNCHANGED vars
    BY <1>2, <1>4, Started DEF vars
  <2>. QED  BY <2>1 DEF IInv, vars, TypeOK, Fresh, InStream, Held, Close, Covered, Delivered, First, NextPos
<1>. QED  BY <1>3, <1>4

(* During a drain: which held segments the stream has reached. *)
LEMMA ReachedPos ==
  ASSUME TypeOK, NEW b \in Nat, InStream(b), nextSeq = SeqOf(b + Len(buffer) + dropped),
         NEW k \in DOMAIN ooo
  PROVE  /\ k \in Reached <=> First(k) <= b + Len(buffer) + dropped
         /\ First(k) <= b + Len(buffer) + dropped
              => (nextSeq - k) % SeqSpace = (b + Len(buffer) + dropped) - First(k)
<1> DEFINE n == b + Len(buffer) + dropped
<1>1. /\ First(k) \in Nat /\ k = SeqOf(First(k))
      /\ First(k) <= n + Window /\ n - Reach <= First(k)
  BY DEF InStream, Held
<1>2. /\ n \in Nat /\ Window \in Nat /\ MaxSegment \in Nat /\ Reach = Window + MaxSegment
  BY Numbers
<1>3. nextSeq = SeqOf(n)
  OBVIOUS
<1>. HIDE DEF n
<1>4. First(k) - n <= Reach /\ n - First(k) <= Reach
  BY <1>1, <1>2
<1>5. /\ SeqAfter(SeqOf(First(k)), SeqOf(n)) <=> First(k) > n
      /\ n >= First(k) => (SeqOf(n) - SeqOf(First(k))) % SeqSpace = n - First(k)
  BY <1>1, <1>2, <1>4, SeqOrder
<1>6. /\ k \in Reached <=> First(k) <= n
      /\ First(k) <= n => (nextSeq - k) % SeqSpace = n - First(k)
  BY <1>1, <1>2, <1>3, <1>5 DEF Reached
<1>. QED  BY <1>6 DEF n

LEMMA DrainDoneInv ==
  ASSUME IInv, DrainDone
  PROVE  IInv'
<1>1. /\ TypeOK /\ Fresh /\ pc = "drain" /\ Reached = {} /\ pc' = "idle"
      /\ UNCHANGED <<nextSeq, buffer, ooo, dropped, base, first>>
  BY DEF IInv, DrainDone
<1>2. base # None /\ base \in Nat
  BY <1>1 DEF Fresh, TypeOK
<1>3. PICK b \in Nat : b = base
  BY <1>2
<1> DEFINE n == b + Len(buffer) + dropped
<1>4. InStream(b) /\ nextSeq = SeqOf(n) /\ NextPos = n
  BY <1>2, <1>3 DEF IInv, NextPos
<1>5. n \in Nat
  BY <1>1, Numbers
<1>6. \A k \in DOMAIN ooo : n < First(k)
  <2> SUFFICES ASSUME NEW k \in DOMAIN ooo PROVE n < First(k)
    OBVIOUS
  <2>1. ~(First(k) <= n)
    BY <1>1, <1>4, ReachedPos
  <2>2. First(k) \in Nat
    BY <1>4 DEF InStream, Held
  <2>. HIDE DEF n
  <2>. QED  BY <2>1, <2>2, <1>5
<1>7. Held(n)'
  <2>1. Held(n)
    BY <1>4 DEF InStream
  <2>2. n' = n
    BY <1>1
  <2>. HIDE DEF n
  <2>. QED  BY <2>1, <2>2, <1>1, <1>6 DEF Held, First
<1>8. Close' /\ Covered(n)' /\ Delivered(b)'
  BY <1>1, <1>4 DEF InStream, Close, Covered, Delivered, First
<1>9. InStream(b)'
  BY <1>7, <1>8 DEF InStream
<1>10. base' = b /\ nextSeq' = SeqOf(NextPos')
  BY <1>1, <1>3, <1>4 DEF NextPos
<1>11. TypeOK'
  BY <1>1 DEF TypeOK
<1>. QED  BY <1>2, <1>3, <1>9, <1>10, <1>11 DEF IInv, Fresh

(* A nonempty set of numbers has a least one. *)
LEMMA LeastNumber ==
  ASSUME NEW S \in SUBSET Nat, S # {}
  PROVE  \E k \in S : \A j \in S : k <= j
<1>1. PICK m \in S : \A y \in S : <<y, m>> \notin OpToRel(<, Nat)
  BY NatLessThanWellFounded, WFMin
<1>2. \A y \in S : ~(y < m)
  BY <1>1 DEF OpToRel
<1>. QED  BY <1>2

(* Taking out the segment under `start` leaves the rest held, and what is  *)
(* past the stream's end of it moves the stream over the whole of it.      *)
LEMMA DrainOneInv ==
  ASSUME IInv, DrainOne
  PROVE  IInv'
<1> DEFINE start == CHOOSE k \in Reached : \A j \in Reached : k <= j
           data == ooo[start]
           skip == (nextSeq - start) % SeqSpace
<1>1. /\ TypeOK /\ Fresh /\ pc = "drain" /\ Reached # {}
      /\ ooo' = [k \in DOMAIN ooo \ {start} |-> ooo[k]]
      /\ IF SeqAfter(SeqAdd(start, Len(data)), nextSeq)
           THEN AppendBytes(nextSeq, Drop(data, skip))
           ELSE UNCHANGED <<buffer, dropped, nextSeq>>
      /\ UNCHANGED <<pc, base, first>>
  BY DEF IInv, DrainOne
<1>2. start \in Reached
  <2>1. Reached \subseteq Nat /\ Reached # {}
    BY <1>1 DEF TypeOK, Reached
  <2>2. \E k \in Reached : \A j \in Reached : k <= j
    BY <2>1, LeastNumber
  <2>. QED  BY <2>2
<1>3. base # None /\ base \in Nat
  BY <1>1 DEF Fresh, TypeOK
<1>4. PICK b \in Nat : b = base
  BY <1>3
<1> DEFINE n == b + Len(buffer) + dropped
           q == First(start)
<1>5. InStream(b) /\ nextSeq = SeqOf(n) /\ NextPos = n
  BY <1>3, <1>4 DEF IInv, NextPos
<1>6. start \in DOMAIN ooo
  BY <1>2 DEF Reached
<1>. HIDE DEF start
<1>7. /\ n \in Nat /\ Window \in Nat /\ MaxSegment \in Nat /\ Reach = Window + MaxSegment
  BY <1>1, Numbers
<1>8. /\ data \in Seq(Byte) /\ Len(data) \in 1 .. MaxSegment /\ IsRun(data, q)
      /\ q \in Nat /\ start = SeqOf(q)
      /\ q <= n + Window /\ n - Reach <= q
  BY <1>1, <1>5, <1>6 DEF InStream, Held, TypeOK
<1>9. q <= n /\ skip = n - q
  BY <1>1, <1>2, <1>5, <1>6, ReachedPos
<1>. HIDE DEF data, q, skip
<1>10. SeqAfter(SeqAdd(start, Len(data)), nextSeq) <=> q + Len(data) > n
  <2>1. SeqAdd(start, Len(data)) = SeqOf(q + Len(data))
    <3>1. Len(data) \in Nat /\ q \in Int
      BY <1>8
    <3>. QED  BY <3>1, <1>8, SeqAddOf
  <2>. HIDE DEF n
  <2>2. q + Len(data) \in Int /\ (q + Len(data)) - n <= Reach /\ n - (q + Len(data)) <= Reach
    BY <1>7, <1>8, <1>9
  <2>3. SeqAfter(SeqOf(q + Len(data)), SeqOf(n)) <=> q + Len(data) > n
    BY <2>2, <1>7, SeqOrder
  <2>. QED  BY <2>1, <2>3, <1>5
<1>11. Positions(data) = q .. q + Len(data) - 1
  BY <1>8, RunPositions
(* The step on the buffer: it ends at n' = max(n, end of data). *)
<1>12. /\ buffer' \in Seq(Byte) /\ Len(buffer') <= StreamCap /\ dropped' \in Nat
       /\ Delivered(b)' /\ nextSeq' = SeqOf(n')
       /\ n' \in Nat /\ n' >= n /\ n' >= q + Len(data)
       /\ n' = n \/ n' = q + Len(data)
  <2>1. CASE q + Len(data) > n
    <3>1. AppendBytes(SeqOf(n), Drop(data, skip))
      BY <2>1, <1>1, <1>5, <1>10
    <3>2. skip \in Nat /\ skip < Len(data) /\ q + skip = n
      <4>. HIDE DEF n
      <4>. QED  BY <2>1, <1>7, <1>8, <1>9
    <3>3. /\ Drop(data, skip) \in Seq(Byte) /\ Len(Drop(data, skip)) = Len(data) - skip
          /\ IsRun(Drop(data, skip), q + skip)
      BY <3>2, <1>8, DropRun
    <3>4. IsRun(Drop(data, skip), n)
      BY <3>2, <3>3
    <3>5. /\ buffer' \in Seq(Byte) /\ Len(buffer') <= StreamCap /\ dropped' \in Nat
          /\ IsRun(buffer', b) /\ (dropped' > 0 => Len(buffer') = StreamCap)
          /\ Len(buffer') + dropped' = Len(buffer) + dropped + Len(Drop(data, skip))
          /\ nextSeq' = SeqOf(b + Len(buffer') + dropped')
      BY <3>1, <3>3, <3>4, <1>1, <1>5, AppendRun DEF InStream, Delivered, TypeOK
    <3>6. n' = n + (Len(data) - skip)
      <4>1. n' = b + Len(buffer') + dropped'
        OBVIOUS
      <4>2. /\ Len(buffer') \in Nat /\ dropped' \in Nat
            /\ Len(buffer) \in Nat /\ dropped \in Nat /\ Len(data) - skip \in Nat
        <5>1. buffer \in Seq(Byte) /\ dropped \in Nat
          BY <1>1 DEF TypeOK
        <5>2. Len(buffer') \in Nat /\ Len(buffer) \in Nat
          BY <3>5, <5>1
        <5>3. Len(data) - skip \in Nat
          BY <3>2, <1>8
        <5>. QED  BY <3>5, <5>1, <5>2, <5>3
      <4>3. Len(buffer') + dropped' = Len(buffer) + dropped + (Len(data) - skip)
        BY <3>3, <3>5
      <4>4. b + Len(buffer') + dropped' = (b + Len(buffer) + dropped) + (Len(data) - skip)
        <5>1. PICK u1 \in Nat, d1 \in Nat, u \in Nat, d \in Nat, k \in Nat :
                /\ u1 = Len(buffer') /\ d1 = dropped'
                /\ u = Len(buffer) /\ d = dropped /\ k = Len(data) - skip
          BY <4>2
        <5>2. u1 + d1 = u + d + k
          BY <5>1, <4>3
        <5>3. b + u1 + d1 = (b + u + d) + k
          BY <5>2
        <5>. QED  BY <5>1, <5>3
      <4>. QED  BY <4>1, <4>4
    <3>7. n' = q + Len(data)
      <4>. HIDE DEF n
      <4>. QED  BY <3>2, <3>6, <1>7, <1>8
    <3>8. n' \in Nat /\ n' >= n
      <4>. HIDE DEF n
      <4>. QED  BY <3>7, <2>1, <1>7, <1>8
    <3>. QED  BY <3>5, <3>7, <3>8, <1>8 DEF Delivered
  <2>2. CASE ~(q + Len(data) > n)
    <3>1. UNCHANGED <<buffer, dropped, nextSeq>>
      BY <2>2, <1>1, <1>10
    <3>2. Delivered(b)' /\ buffer' \in Seq(Byte) /\ Len(buffer') <= StreamCap /\ dropped' \in Nat
      BY <3>1, <1>1, <1>5 DEF InStream, Delivered, TypeOK
    <3>3. n' = n
      BY <3>1
    <3>4. nextSeq' = SeqOf(n')
      BY <3>1, <3>3, <1>5
    <3>5. n' >= q + Len(data) /\ n' >= n /\ n' \in Nat
      <4>. HIDE DEF n
      <4>. QED  BY <3>3, <2>2, <1>7, <1>8
    <3>. QED  BY <3>2, <3>3, <3>4, <3>5
  <2>. QED  BY <2>1, <2>2
<1>13. /\ DOMAIN ooo' = DOMAIN ooo \ {start}
       /\ \A k \in DOMAIN ooo' : ooo'[k] = ooo[k] /\ First(k)' = First(k)
  BY <1>1 DEF First
<1>14. Held(n)'
  <2> SUFFICES ASSUME NEW k \in DOMAIN ooo'
               PROVE  /\ IsRun(ooo'[k], First(k)') /\ Len(ooo'[k]) \in 1 .. MaxSegment
                      /\ First(k)' \in Nat /\ k = SeqOf(First(k)')
                      /\ First(k)' <= n' + Window
                      /\ n' - Reach <= First(k)'
    BY <1>1 DEF Held, First
  <2>1. k \in DOMAIN ooo /\ ooo'[k] = ooo[k] /\ First(k)' = First(k)
    BY <1>13
  <2>2. /\ IsRun(ooo[k], First(k)) /\ Len(ooo[k]) \in 1 .. MaxSegment
        /\ First(k) \in Nat /\ k = SeqOf(First(k))
        /\ First(k) <= n + Window /\ n - Reach <= First(k)
    BY <2>1, <1>5 DEF InStream, Held
  <2>3. q - First(k) < Window
    BY <2>1, <1>5, <1>6 DEF InStream, Close, q
  <2>4. First(k) <= n' + Window /\ n' - Reach <= First(k)
    <3>1. n' \in Nat /\ n' >= n /\ (n' = n \/ n' = q + Len(data))
      BY <1>12
    <3>2. q \in Nat /\ Len(data) \in 1 .. MaxSegment
      BY <1>8
    <3>3. First(k) \in Nat /\ First(k) <= n + Window /\ n - Reach <= First(k)
      BY <2>2
    <3>. HIDE DEF n
    <3>. QED  BY <3>1, <3>2, <3>3, <2>3, <1>7
  <2>. QED  BY <2>1, <2>2, <2>4
<1>15. Close'
  BY <1>5, <1>13 DEF InStream, Close, First
<1>16. Covered(n)'
  <2> SUFFICES ASSUME NEW x \in DOMAIN first, ~(x < n')
               PROVE  \E k \in DOMAIN ooo' : x \in Positions(ooo'[k])
    BY <1>1 DEF Covered
  <2>1. x \in Nat
    BY <1>1 DEF TypeOK
  <2>2. ~(x < n)
    <3>. HIDE DEF n
    <3>. QED  BY <2>1, <1>7, <1>12
  <2>3. PICK k \in DOMAIN ooo : x \in Positions(ooo[k])
    BY <2>2, <1>5 DEF InStream, Covered
  <2>4. k # start
    <3>1. SUFFICES ASSUME k = start PROVE FALSE
      OBVIOUS
    <3>2. x \in q .. q + Len(data) - 1
      BY <2>3, <3>1, <1>11 DEF data
    <3>. HIDE DEF n
    <3>. QED  BY <3>2, <2>1, <1>8, <1>12
  <2>. QED  BY <2>3, <2>4, <1>13
<1>17. TypeOK'
  <2>1. nextSeq' \in 0 .. SeqSpace - 1
    BY <1>12, SeqOfType
  <2>2. ooo' \in [DOMAIN ooo' -> Seq(Byte) \ {<<>>}]
    BY <1>1, <1>13 DEF TypeOK
  <2>. QED  BY <2>1, <2>2, <1>1, <1>12, <1>13 DEF TypeOK
<1>18. base' = b /\ NextPos' = n'
  BY <1>1, <1>4 DEF NextPos
<1>19. InStream(b)'
  BY <1>12, <1>14, <1>15, <1>16 DEF InStream
<1>. QED  BY <1>3, <1>4, <1>12, <1>17, <1>18, <1>19 DEF IInv, Fresh

LEMMA NextInv == IInv /\ BareSyn /\ [Next]_vars => IInv'
<1> SUFFICES ASSUME IInv, BareSyn, [Next]_vars PROVE IInv'
  OBVIOUS
<1>1. ASSUME NEW p \in 0 .. StreamLen - 1, NEW n \in 1 .. MaxSegment,
             NEW c \in Copies, Segment(p, n, c)
      PROVE  IInv'
  BY <1>1, SegmentInv
<1>2. ASSUME NEW n \in SynPayload, NEW c \in Copies, Syn(n, c)
      PROVE  IInv'
  BY <1>2, SynInv
<1>3. CASE DrainOne
  BY <1>3, DrainOneInv
<1>4. CASE DrainDone
  BY <1>4, DrainDoneInv
<1>5. CASE UNCHANGED vars
  BY <1>5 DEF vars, IInv, TypeOK, Fresh, InStream, Held, Close, Covered, Delivered, First, NextPos
<1>. QED  BY <1>1, <1>2, <1>3, <1>4, <1>5 DEF Next

LEMMA Invariant == ASSUME BareSyn PROVE Spec => []IInv
<1>1. IInv /\ [Next]_vars => IInv'
  BY NextInv
<1>. QED  BY InitInv, <1>1, PTL DEF Spec

-----------------------------------------------------------------------------
(* The state of StreamHalf keeps its types, the buffer its cap.            *)
THEOREM TypeCorrect == ASSUME BareSyn PROVE Spec => []TypeOK
<1>1. IInv => TypeOK
  BY DEF IInv
<1>. QED  BY <1>1, Invariant, PTL

(* Once a segment has been dealt with, every byte accepted from the wire   *)
(* was delivered or is held ahead of the stream: nothing waits behind it.  *)
THEOREM NeverStranded == ASSUME BareSyn PROVE Spec => []NothingStranded
<1>1. IInv => NothingStranded
  <2> SUFFICES ASSUME IInv, pc = "idle", base # None, NEW p \in DOMAIN first
               PROVE  \/ p < NextPos
                      \/ p > NextPos /\ \E k \in DOMAIN ooo : p \in Positions(ooo[k])
    BY DEF NothingStranded
  <2>1. InStream(base) /\ TypeOK /\ base \in Nat
    BY DEF IInv, TypeOK
  <2>2. Covered(NextPos) /\ Held(NextPos)
    BY <2>1 DEF InStream, NextPos
  <2>3. NextPos \in Nat
    BY <2>1, Numbers DEF NextPos
  <2>4. CASE ~(p < NextPos)
    <3>1. PICK k \in DOMAIN ooo : p \in Positions(ooo[k])
      BY <2>2, <2>4 DEF Covered
    <3>2. /\ IsRun(ooo[k], First(k)) /\ First(k) \in Nat /\ NextPos < First(k)
      BY <2>2 DEF Held
    <3>3. ooo[k] \in Seq(Byte)
      BY <2>1 DEF TypeOK
    <3>4. p \in First(k) .. First(k) + Len(ooo[k]) - 1
      BY <3>1, <3>2, <3>3, RunPositions
    <3>5. p > NextPos
      BY <3>2, <3>4, <2>3
    <3>. QED  BY <3>1, <3>5
  <2>. QED  BY <2>4
<1>. QED  BY <1>1, Invariant, PTL

-----------------------------------------------------------------------------
(* StreamHalf implements ByteStream. *)

(* append() only adds at the end. *)
LEMMA AppendGrows ==
  ASSUME TypeOK, NEW x, NEW d \in Seq(Byte), AppendBytes(x, d)
  PROVE  /\ Len(buffer) <= Len(buffer')
         /\ \A i \in 1 .. Len(buffer) : buffer'[i] = buffer[i]
         /\ dropped' >= dropped
<1> DEFINE room == StreamCap - Len(buffer)
           take == IF Len(d) <= room THEN Len(d) ELSE room
           kept == SubSeq(d, 1, take)
<1>1. buffer' = buffer \o kept /\ dropped' = dropped + Len(d) - take
  BY DEF AppendBytes
<1>2. /\ buffer \in Seq(Byte) /\ dropped \in Nat /\ Len(buffer) \in Nat /\ Len(d) \in Nat
      /\ Len(buffer) <= StreamCap /\ StreamCap \in Nat
  BY StreamAssumption DEF TypeOK
<1>3. take \in 0 .. Len(d)
  BY <1>2
<1>4. kept \in Seq(Byte) /\ Len(kept) = take
  BY <1>3
<1>. HIDE DEF kept, take
<1>5. /\ \A i \in 1 .. Len(buffer) : buffer'[i] = buffer[i]
      /\ Len(buffer') = Len(buffer) + take
  <2>1. Len(buffer \o kept) = Len(buffer) + take
    BY <1>2, <1>4
  <2>2. \A i \in 1 .. Len(buffer) : (buffer \o kept)[i] = buffer[i]
    BY <1>2, <1>4
  <2>. QED  BY <1>1, <2>1, <2>2
<1>6. dropped' >= dropped
  BY <1>1, <1>2, <1>3
<1>. QED  BY <1>2, <1>3, <1>5, <1>6

(* Whatever feed() does with a segment, the buffer keeps what it had. *)
LEMMA FeedGrows ==
  ASSUME TypeOK, NEW next \in Int, NEW s \in Int, NEW d \in Seq(Byte), Feed(next, s, d)
  PROVE  /\ Len(buffer) <= Len(buffer')
         /\ \A i \in 1 .. Len(buffer) : buffer'[i] = buffer[i]
         /\ dropped' >= dropped
<1>1. CASE UNCHANGED <<buffer, dropped>>
  BY <1>1 DEF TypeOK
<1>2. CASE AppendBytes(next, d)
  BY <1>2, AppendGrows
<1>3. CASE AppendBytes(next, Drop(d, (next - s) % SeqSpace))
  <2>1. (next - s) % SeqSpace \in Nat
    BY StreamAssumption
  <2>2. Drop(d, (next - s) % SeqSpace) \in Seq(Byte)
    BY <2>1 DEF Drop
  <2>. QED  BY <1>3, <2>2, AppendGrows
<1>. QED  BY <1>1, <1>2, <1>3 DEF Feed

LEMMA StepGrows ==
  ASSUME IInv, BareSyn, Next
  PROVE  /\ Len(buffer) <= Len(buffer')
         /\ \A i \in 1 .. Len(buffer) : buffer'[i] = buffer[i]
         /\ dropped' >= dropped
         /\ base' \in Nat
         /\ base # None => base' = base
<1>1. TypeOK /\ Fresh /\ (base # None => base \in Nat)
  BY DEF IInv, TypeOK
<1>2. nextSeq # None => nextSeq \in Int
  BY <1>1, StreamAssumption DEF TypeOK
<1>3. ASSUME NEW p \in 0 .. StreamLen - 1, NEW n \in 1 .. MaxSegment,
             NEW c \in Copies, Segment(p, n, c)
      PROVE  /\ Len(buffer) <= Len(buffer')
             /\ \A i \in 1 .. Len(buffer) : buffer'[i] = buffer[i]
             /\ dropped' >= dropped
             /\ base' \in Nat /\ (base # None => base' = base)
  <2> DEFINE next == IF nextSeq = None THEN SeqOf(p) ELSE nextSeq
  <2>1. p \in Nat /\ Payload(p, n, c) \in Seq(Byte)
    BY StreamAssumption, PayloadRun
  <2>2. SeqOf(p) \in Int /\ next \in Int
    BY <2>1, <1>2, SeqOfType
  <2>3. Feed(next, SeqOf(p), Payload(p, n, c))
    BY <1>3 DEF Segment
  <2>4. base' \in Nat /\ (base # None => base' = base)
    BY <1>1, <1>3, <2>1, Started DEF Segment
  <2>. HIDE DEF next
  <2>. QED  BY <2>1, <2>2, <2>3, <2>4, <1>1, FeedGrows
<1>4. ASSUME NEW n \in SynPayload, NEW c \in Copies, Syn(n, c)
      PROVE  /\ Len(buffer) <= Len(buffer')
             /\ \A i \in 1 .. Len(buffer) : buffer'[i] = buffer[i]
             /\ dropped' >= dropped
             /\ base' \in Nat /\ (base # None => base' = base)
  <2> DEFINE next == IF nextSeq = None THEN SeqAdd(Isn, 1) ELSE nextSeq
  <2>1. Payload(0, n, c) \in Seq(Byte)
    <3>1. n \in Nat
      BY StreamAssumption
    <3>. QED  BY <3>1, PayloadRun
  <2>2. Isn \in Int /\ next \in Int
    BY <1>2, StreamAssumption DEF SeqAdd
  <2>3. Feed(next, Isn, Payload(0, n, c))
    BY <1>4 DEF Syn
  <2>4. base' \in Nat /\ (base # None => base' = base)
    BY <1>1, <1>4, Started DEF Syn
  <2>. HIDE DEF next
  <2>. QED  BY <2>1, <2>2, <2>3, <2>4, <1>1, FeedGrows
<1>5. CASE DrainOne
  <2>1. base' = base /\ base # None
    BY <1>1, <1>5 DEF DrainOne, Fresh
  <2> DEFINE start == CHOOSE k \in Reached : \A j \in Reached : k <= j
  <2>2. \/ UNCHANGED <<buffer, dropped>>
        \/ AppendBytes(nextSeq, Drop(ooo[start], (nextSeq - start) % SeqSpace))
    BY <1>5 DEF DrainOne
  <2>3. start \in Reached
    <3>1. Reached \subseteq Nat /\ Reached # {}
      BY <1>1, <1>5, SMTT(30) DEF TypeOK, Reached, DrainOne
    <3>2. \E k \in Reached : \A j \in Reached : k <= j
      BY <3>1, LeastNumber
    <3>. QED  BY <3>2
  <2>4. start \in DOMAIN ooo
    BY <2>3 DEF Reached
  <2>. HIDE DEF start
  <2>5. nextSeq \in Int /\ start \in Int
    BY <1>1, <1>2, <2>1, <2>4, Started DEF TypeOK
  <2>6. (nextSeq - start) % SeqSpace \in Nat /\ ooo[start] \in Seq(Byte)
    <3>1. ooo[start] \in Seq(Byte)
      BY <1>1, <2>4 DEF TypeOK
    <3>2. SeqSpace \in Nat \ {0}
      BY StreamAssumption
    <3>. QED  BY <2>5, <3>1, <3>2
  <2>7. Drop(ooo[start], (nextSeq - start) % SeqSpace) \in Seq(Byte)
    BY <2>6 DEF Drop
  <2>8. CASE UNCHANGED <<buffer, dropped>>
    BY <1>1, <2>1, <2>8 DEF TypeOK
  <2>9. CASE AppendBytes(nextSeq, Drop(ooo[start], (nextSeq - start) % SeqSpace))
    BY <1>1, <2>1, <2>7, <2>9, AppendGrows
  <2>. QED  BY <2>2, <2>8, <2>9
<1>6. CASE DrainDone
  <2>1. UNCHANGED <<buffer, dropped, base>> /\ base # None
    BY <1>1, <1>6 DEF DrainDone, Fresh
  <2>. QED  BY <1>1, <2>1 DEF TypeOK
<1>. QED  BY <1>3, <1>4, <1>5, <1>6 DEF Next

(* The buffer is the sender's stream from where it was joined, in order,   *)
(* only ever extended, and short of it only when full.                     *)
THEOREM RefinesByteStream == ASSUME BareSyn PROVE Spec => ImplementsByteStream
<1>1. Init => Stream!Init
  BY DEF Init, Stream!Init
<1>2. IInv /\ IInv' /\ BareSyn /\ [Next]_vars => [Stream!Deliver]_(Stream!vars)
  <2>1. CASE UNCHANGED vars
    BY <2>1 DEF vars, Stream!vars
  <2>2. ASSUME IInv, IInv', BareSyn, Next
        PROVE  Stream!Deliver
    <3>1. /\ Len(buffer) <= Len(buffer')
          /\ \A i \in 1 .. Len(buffer) : buffer'[i] = buffer[i]
          /\ dropped' >= dropped
          /\ base' \in Nat
          /\ base # None => base' = base
      BY <2>2, StepGrows
    <3>2. base' # None
      BY <3>1, StreamAssumption
    <3>3. /\ IsRun(buffer', base') /\ (dropped' > 0 => Len(buffer') = StreamCap)
          /\ Len(buffer') <= StreamCap
      BY <2>2, <3>2 DEF IInv, InStream, Delivered, TypeOK
    <3>4. dropped \in Nat /\ dropped' \in Nat
      BY <2>2 DEF IInv, TypeOK
    <3>. QED  BY <3>1, <3>3, <3>4
              DEF IsRun, Stream!Deliver, Stream!Anchored, Stream!Extends, Stream!IsRun, Stream!KeepsWhatFits
  <2>. QED  BY <2>1, <2>2
<1>. QED  BY <1>1, <1>2, Invariant, PTL DEF Spec, ImplementsByteStream, Stream!Spec
=============================================================================
