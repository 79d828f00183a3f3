---------------------------- MODULE DecodeProofs ----------------------------
(***************************************************************************)
(* For every limit, timeout and policy, and any frames in any order: the   *)
(* reassembly table keeps its bounds, holds nothing finished or stale, and *)
(* accounts for every frame and datagram; and a datagram that is not       *)
(* complete leaves it by its own doing only.                               *)
(***************************************************************************)
EXTENDS Decode, FiniteSetTheorems, TLAPS, WellFoundedInduction

-----------------------------------------------------------------------------
(* The sweep follows the frames. *)
SweepKnown == lastSwept <= newest

IInv == TableSound /\ SweepKnown

(* What an entry of the table may be. *)
Sound(p) ==
  /\ p \in Partial
  /\ Len(p.pieces) <= MaxPieces /\ p.bytes <= MaxBytes
  /\ ~Whole(p)
Young(p, swept) == MaxLate < Timeout => p.firstSeen > swept - Timeout

(* A table without its count. *)
SoundTable(t, swept) ==
  /\ DOMAIN t \subseteq Keys /\ t \in [DOMAIN t -> Partial]
  /\ \A k \in DOMAIN t : Sound(t[k]) /\ Young(t[k], swept)

LEMMA TableIs ==
  ASSUME IInv
  PROVE  SoundTable(table, lastSwept) /\ IsFiniteSet(DOMAIN table)
<1>1. SoundTable(table, lastSwept)
  BY DEF IInv, TableSound, TypeOK, WithinLimits, NeverStale, SoundTable, Sound, Young
<1>2. DOMAIN table \in SUBSET Keys /\ IsFiniteSet(Keys)
  BY DecodeAssumption DEF IInv, TableSound, TypeOK
<1>3. IsFiniteSet(DOMAIN table)
  BY <1>2, FS_Subset
<1> QED
  BY <1>1, <1>3

-----------------------------------------------------------------------------
(* The sweep. *)

Swepts(now) ==
  /\ SoundTable(Swept(now), lastSwept')
  /\ IsFiniteSet(DOMAIN Swept(now)) /\ Cardinality(DOMAIN Swept(now)) \in Nat
  /\ Cardinality(DOMAIN Swept(now)) <= MaxDatagrams
  /\ Cardinality(Stale(now)) \in Nat
  /\ Cardinality(DOMAIN table) = Cardinality(DOMAIN Swept(now)) + Cardinality(Stale(now))
  /\ \A k \in DOMAIN Swept(now) : k \in DOMAIN table /\ Swept(now)[k] = table[k]
  /\ \A k \in DOMAIN table : k \in DOMAIN Swept(now) \/ newest' - table[k].firstSeen >= Timeout

Clocks(now) ==
  /\ lastSwept' \in Nat /\ newest' \in Nat /\ frames' \in Nat /\ now \in Nat
  /\ frames' = frames + 1
  /\ lastSwept' <= newest' /\ now <= newest' /\ now <= lastSwept'
  /\ MaxLate < Timeout => now > lastSwept' - Timeout

LEMMA SweepClocks ==
  ASSUME IInv, NEW now \in Times, Sweep(now)
  PROVE  Clocks(now)
BY DecodeAssumption DEF IInv, TableSound, TypeOK, SweepKnown, Sweep, Clocks

LEMMA SweepIs ==
  ASSUME IInv, NEW now \in Times, Sweep(now)
  PROVE  Swepts(now)
<1> USE DEF IInv
<1>1. /\ lastSwept \in Nat /\ now \in Nat /\ newest' \in Nat /\ now <= newest' /\ Timeout \in Nat
      /\ lastSwept' = IF now <= lastSwept THEN lastSwept ELSE now
  BY SweepClocks, DecodeAssumption DEF TableSound, TypeOK, Sweep, Clocks
<1>2. SoundTable(table, lastSwept) /\ IsFiniteSet(DOMAIN table)
  BY TableIs
<1>3. Swept(now) = [k \in DOMAIN table \ Stale(now) |-> table[k]]
  BY DEF Swept, Without
<1>4. Stale(now) \in SUBSET DOMAIN table
  BY DEF Stale
<1>5. \A k \in DOMAIN table : table[k] \in Partial /\ table[k].firstSeen \in Nat
  BY <1>2 DEF SoundTable, Partial
<1>6. SoundTable(Swept(now), lastSwept')
  <2>1. DOMAIN Swept(now) = DOMAIN table \ Stale(now) /\ \A k \in DOMAIN Swept(now) : Swept(now)[k] = table[k]
    BY <1>3
  <2>2. \A k \in DOMAIN Swept(now) : Young(table[k], lastSwept')
    BY <1>1, <1>2, <1>5, <2>1 DEF Stale, Young, SoundTable
  <2>3. Swept(now) \in [DOMAIN Swept(now) -> Partial]
    BY <1>3, <1>5
  <2> QED BY <1>2, <2>1, <2>2, <2>3 DEF SoundTable
<1>7. IsFiniteSet(Stale(now))
  BY <1>2, <1>4, FS_Subset
<1>8. DOMAIN Swept(now) \in SUBSET DOMAIN table
  BY <1>3
<1>9. IsFiniteSet(DOMAIN Swept(now))
  BY <1>2, <1>8, FS_Subset
<1>10. Cardinality(DOMAIN Swept(now)) \in Nat /\ Cardinality(Stale(now)) \in Nat
  BY <1>7, <1>9, FS_CardinalityType
<1>11. Cardinality(DOMAIN table) = Cardinality(DOMAIN Swept(now)) + Cardinality(Stale(now))
  <2>1. DOMAIN table = DOMAIN Swept(now) \cup Stale(now) /\ DOMAIN Swept(now) \cap Stale(now) = {}
    BY <1>3, <1>4
  <2>2. Cardinality(DOMAIN Swept(now) \cup Stale(now)) =
          Cardinality(DOMAIN Swept(now)) + Cardinality(Stale(now))
            - Cardinality(DOMAIN Swept(now) \cap Stale(now))
    BY <1>7, <1>9, FS_Union
  <2>3. Cardinality(DOMAIN Swept(now) \cap Stale(now)) = 0
    BY <2>1, FS_EmptySet
  <2> QED BY <1>10, <2>1, <2>2, <2>3
<1>12. Cardinality(DOMAIN Swept(now)) <= MaxDatagrams
  BY <1>10, <1>11, DecodeAssumption DEF TableSound, WithinLimits
<1>13. \A k \in DOMAIN Swept(now) : k \in DOMAIN table /\ Swept(now)[k] = table[k]
  BY <1>3
<1>14. \A k \in DOMAIN table : k \in DOMAIN Swept(now) \/ newest' - table[k].firstSeen >= Timeout
  BY <1>1, <1>3, <1>5 DEF Stale
<1> QED
  BY <1>6, <1>9, <1>10, <1>11, <1>12, <1>13, <1>14 DEF Swepts

-----------------------------------------------------------------------------
(* An entry, as it is begun, found and added to. *)

LEMMA HeldIs ==
  ASSUME IInv, NEW now \in Times, Sweep(now), NEW k \in Keys
  PROVE  LET p == Held(Swept(now), k, now) IN Sound(p) /\ Young(p, lastSwept')
<1>1. Swepts(now) /\ Clocks(now)
  BY SweepIs, SweepClocks
<1>2. CASE k \in DOMAIN Swept(now)
  BY <1>1, <1>2 DEF Held, Swepts, SoundTable
<1>3. CASE k \notin DOMAIN Swept(now)
  <2>1. Held(Swept(now), k, now) = Empty(now)
    BY <1>3 DEF Held
  <2>2. Empty(now) \in Partial /\ Len(Empty(now).pieces) = 0 /\ Empty(now).bytes = 0
    BY <1>1 DEF Empty, Partial, Clocks
  <2>3. ~Whole(Empty(now)) /\ Empty(now).firstSeen = now
    BY DEF Whole, Empty
  <2>4. Sound(Empty(now))
    BY <2>2, <2>3, DecodeAssumption DEF Sound
  <2>5. Young(Empty(now), lastSwept')
    BY <1>1, <2>3 DEF Young, Clocks
  <2> QED BY <2>1, <2>4, <2>5
<1> QED
  BY <1>2, <1>3

LEMMA AddIs ==
  ASSUME NEW p \in Partial, NEW f \in Fragments
  PROVE  /\ Add(p, f) \in Partial /\ Add(p, f).firstSeen = p.firstSeen
         /\ Add(p, f).pieces = Append(p.pieces, f) /\ Add(p, f).bytes = p.bytes + f.len
<1> DEFINE total == IF f.more THEN p.total ELSE f.off + f.len
           head == IF f.off = 0 THEN f.copy ELSE p.head
<1>0. f \in Fragment
  BY DecodeAssumption
<1>1. /\ f.off \in Nat /\ f.len \in Nat /\ f.copy \in Copies
      /\ p.pieces \in Seq(Fragment) /\ p.bytes \in Nat /\ p.total \in Nat \cup {None}
      /\ p.head \in Copies \cup {None} /\ p.firstSeen \in Nat
  BY <1>0 DEF Fragment, Partial
<1>2. total \in Nat \cup {None} /\ head \in Copies \cup {None}
  BY <1>1
<1>3. Append(p.pieces, f) \in Seq(Fragment) /\ p.bytes + f.len \in Nat
  BY <1>0, <1>1
<1>4. Add(p, f) = [[[[p EXCEPT !.pieces = Append(p.pieces, f)] EXCEPT !.bytes = p.bytes + f.len]
                      EXCEPT !.total = total] EXCEPT !.head = head]
  BY Zenon DEF Add
<1>5. Add(p, f) \in Partial
  <2> HIDE DEF total, head
  <2> DEFINE p1 == [p EXCEPT !.pieces = Append(p.pieces, f)]
             p2 == [p1 EXCEPT !.bytes = p.bytes + f.len]
             p3 == [p2 EXCEPT !.total = total]
             p4 == [p3 EXCEPT !.head = head]
  <2>1. p1 \in Partial
    BY <1>3 DEF Partial
  <2>2. p2 \in Partial
    <3> HIDE DEF p1
    <3> QED BY <1>3, <2>1 DEF Partial
  <2>3. p3 \in Partial
    <3> HIDE DEF p2
    <3> QED BY <1>2, <2>2 DEF Partial
  <2>4. p4 \in Partial
    <3> HIDE DEF p3
    <3> QED BY <1>2, <2>3 DEF Partial
  <2> QED BY <1>4, <2>4
<1>6. /\ Add(p, f).firstSeen = p.firstSeen /\ Add(p, f).pieces = Append(p.pieces, f)
      /\ Add(p, f).bytes = p.bytes + f.len
  BY DEF Add, Partial
<1> QED
  BY <1>5, <1>6

(* What is kept of a fragment leaves its entry within the limits. *)
LEMMA TakenIs ==
  ASSUME IInv, NEW now \in Times, Sweep(now), NEW k \in Keys, NEW f \in Fragments,
         ~Enough(Held(Swept(now), k, now), f)
  PROVE  /\ Taken(k, f, now) \in Partial
         /\ ~Whole(Taken(k, f, now)) => Sound(Taken(k, f, now))
         /\ Young(Taken(k, f, now), lastSwept')
         /\ Taken(k, f, now).pieces = Append(Held(Swept(now), k, now).pieces, f)
         /\ Taken(k, f, now).firstSeen = Held(Swept(now), k, now).firstSeen
<1> DEFINE p == Held(Swept(now), k, now)
<1>1. Sound(p) /\ Young(p, lastSwept')
  BY HeldIs
<1> HIDE DEF p
<1>2. p \in Partial
  BY <1>1 DEF Sound
<1>3. /\ Add(p, f) \in Partial /\ Add(p, f).firstSeen = p.firstSeen
      /\ Add(p, f).pieces = Append(p.pieces, f) /\ Add(p, f).bytes = p.bytes + f.len
  BY <1>2, AddIs
<1>4. p.pieces \in Seq(Fragment) /\ p.bytes \in Nat /\ f \in Fragment /\ f.len \in Nat
  BY <1>2, DecodeAssumption DEF Partial, Fragment
<1>5. Len(p.pieces) < MaxPieces /\ p.bytes + f.len <= MaxBytes
  BY <1>4, DecodeAssumption DEF Enough, p
<1>6. Len(Add(p, f).pieces) <= MaxPieces /\ Add(p, f).bytes <= MaxBytes
  BY <1>3, <1>4, <1>5, DecodeAssumption
<1>7. Taken(k, f, now) = Add(p, f)
  BY DEF Taken, p
<1>8. Young(Add(p, f), lastSwept')
  BY <1>1, <1>3 DEF Young
<1>9. ~Whole(Add(p, f)) => Sound(Add(p, f))
  BY <1>3, <1>6 DEF Sound
<1> QED
  BY <1>3, <1>7, <1>8, <1>9 DEF p

-----------------------------------------------------------------------------
(* A table with an entry put in or taken out. *)

LEMMA WithIs ==
  ASSUME NEW t, NEW swept, SoundTable(t, swept), IsFiniteSet(DOMAIN t),
         NEW k \in Keys, NEW p, Sound(p), Young(p, swept)
  PROVE  /\ SoundTable(With(t, k, p), swept)
         /\ Cardinality(DOMAIN With(t, k, p)) =
              IF k \in DOMAIN t THEN Cardinality(DOMAIN t) ELSE Cardinality(DOMAIN t) + 1
<1>1. /\ DOMAIN With(t, k, p) = DOMAIN t \cup {k}
      /\ \A j \in DOMAIN With(t, k, p) : With(t, k, p)[j] = IF j = k THEN p ELSE t[j]
  BY DEF With
<1>2. p \in Partial /\ DOMAIN t \subseteq Keys /\ \A j \in DOMAIN t : t[j] \in Partial
  BY DEF Sound, SoundTable
<1>3. With(t, k, p) \in [DOMAIN t \cup {k} -> Partial]
  BY <1>2 DEF With
<1>4. \A j \in DOMAIN With(t, k, p) : Sound(With(t, k, p)[j]) /\ Young(With(t, k, p)[j], swept)
  BY <1>1 DEF SoundTable
<1>5. SoundTable(With(t, k, p), swept)
  BY <1>1, <1>2, <1>3, <1>4 DEF SoundTable
<1>6. Cardinality(DOMAIN t \cup {k}) =
        IF k \in DOMAIN t THEN Cardinality(DOMAIN t) ELSE Cardinality(DOMAIN t) + 1
  BY FS_AddElement
<1> QED
  BY <1>1, <1>5, <1>6

LEMMA WithoutIs ==
  ASSUME NEW t, NEW swept, SoundTable(t, swept), IsFiniteSet(DOMAIN t), NEW k
  PROVE  /\ SoundTable(Without(t, {k}), swept)
         /\ Cardinality(DOMAIN Without(t, {k})) =
              IF k \in DOMAIN t THEN Cardinality(DOMAIN t) - 1 ELSE Cardinality(DOMAIN t)
<1>1. /\ DOMAIN Without(t, {k}) = DOMAIN t \ {k}
      /\ \A j \in DOMAIN Without(t, {k}) : Without(t, {k})[j] = t[j]
  BY DEF Without
<1>2. DOMAIN t \subseteq Keys /\ \A j \in DOMAIN t : t[j] \in Partial
  BY DEF SoundTable
<1>3. Without(t, {k}) \in [DOMAIN t \ {k} -> Partial]
  BY <1>2 DEF Without
<1>4. SoundTable(Without(t, {k}), swept)
  BY <1>1, <1>2, <1>3 DEF SoundTable
<1>5. Cardinality(DOMAIN t \ {k}) =
        IF k \in DOMAIN t THEN Cardinality(DOMAIN t) - 1 ELSE Cardinality(DOMAIN t)
  BY FS_RemoveElement
<1> QED
  BY <1>1, <1>4, <1>5

-----------------------------------------------------------------------------
(* A step, in parts: the table it leaves, what it counts, what it hands on. *)

TableAfter ==
  /\ policy' = policy
  /\ SoundTable(table', lastSwept')
  /\ Cardinality(DOMAIN table') <= MaxDatagrams
  /\ born' \in Nat /\ reassembled' \in Nat /\ expired' \in Nat
  /\ born' = reassembled' + expired' + Cardinality(DOMAIN table')

FrameCounted ==
  /\ fragmentsSeen' \in Nat /\ fragmentsDropped' \in Nat /\ decoded' \in Nat
  /\ undecoded' \in Nat /\ tunnelled' \in Nat /\ esp' \in Nat
  /\ frames' = decoded' + undecoded' + (fragmentsSeen' - reassembled')

Timely == MaxLate < Timeout => \A d \in out' : d.age < Timeout

LEMMA Parts ==
  ASSUME IInv, NEW now \in Times, Sweep(now), TableAfter, FrameCounted, Timely
  PROVE  IInv'
<1>1. Clocks(now)
  BY SweepClocks
<1>2. TypeOK'
  BY <1>1 DEF IInv, TableSound, TypeOK, TableAfter, FrameCounted, SoundTable, Clocks
<1>3. \A k \in DOMAIN table' : (~Whole(table[k]))'
  <2>1. \A k \in DOMAIN table' : ~Whole(table'[k])
    BY DEF TableAfter, SoundTable, Sound
  <2> QED BY <2>1 DEF TableAfter, Whole, Assemble
<1>4. WithinLimits'
  BY <1>3 DEF TableAfter, SoundTable, Sound, WithinLimits
<1>5. EveryFrameAccounted'
  BY DEF TableAfter, FrameCounted, EveryFrameAccounted
<1>6. NeverStale'
  BY DEF TableAfter, SoundTable, Young, Timely, NeverStale
<1>7. SweepKnown'
  BY <1>1 DEF SweepKnown, Clocks
<1> QED
  BY <1>2, <1>4, <1>5, <1>6, <1>7 DEF IInv, TableSound

(* What an entry is kept with. *)
NoEviction ==
  \A k \in DOMAIN table :
    \/ k \in DOMAIN table' /\ IsPrefix(table[k].pieces, table'[k].pieces)
                           /\ table'[k].firstSeen = table[k].firstSeen
    \/ newest' - table[k].firstSeen >= Timeout
    \/ \E d \in out' : d.key = k

LEMMA PrefixOfItself ==
  ASSUME NEW S, NEW s \in Seq(S)
  PROVE  IsPrefix(s, s)
BY DEF IsPrefix

LEMMA PrefixOfLonger ==
  ASSUME NEW S, NEW s \in Seq(S), NEW x \in S
  PROVE  IsPrefix(s, Append(s, x))
<1> DEFINE t == Append(s, x)
<1>1. t \in Seq(S) /\ Len(t) = Len(s) + 1 /\ Len(s) \in Nat /\ \A i \in 1 .. Len(s) : t[i] = s[i]
  OBVIOUS
<1> HIDE DEF t
<1>2. SubSeq(s, 1, Len(s)) = s
  OBVIOUS
<1>3. SubSeq(t, 1, Len(s)) \in Seq(S) /\ Len(SubSeq(t, 1, Len(s))) = Len(s)
  BY <1>1
<1>4. \A i \in 1 .. Len(s) : SubSeq(t, 1, Len(s))[i] = t[i]
  BY <1>1
<1>5. SubSeq(t, 1, Len(s)) = s
  BY <1>1, <1>3, <1>4
<1>6. IsPrefix(s, t)
  BY <1>1, <1>2, <1>5 DEF IsPrefix
<1> QED
  BY <1>6 DEF t

(* A table that was only swept. *)
LEMMA SweptOnly ==
  ASSUME IInv, NEW now \in Times, Sweep(now), table' = Swept(now),
         UNCHANGED <<policy, reassembled, born>>
  PROVE  TableAfter /\ NoEviction
<1>1. Swepts(now)
  BY SweepIs
<1>2. TableAfter
  BY <1>1 DEF IInv, TableSound, TypeOK, EveryFrameAccounted, Swepts, Sweep, TableAfter
<1>3. \A k \in DOMAIN table : IsPrefix(table[k].pieces, table[k].pieces)
  <2>1. \A k \in DOMAIN table : table[k].pieces \in Seq(Fragment)
    BY DEF IInv, TableSound, TypeOK, Partial
  <2>2. ASSUME NEW k \in DOMAIN table
        PROVE  IsPrefix(table[k].pieces, table[k].pieces)
    BY <2>1, PrefixOfItself
  <2> QED BY <2>2
<1>4. NoEviction
  BY <1>1, <1>3 DEF Swepts, NoEviction
<1> QED
  BY <1>2, <1>4

(* A table in which one entry was begun or added to. *)
LEMMA OneEntry ==
  ASSUME IInv, NEW now \in Times, Sweep(now), NEW k \in Keys, NEW f \in Fragments, NEW p,
         Sound(p), Young(p, lastSwept'), ~NoRoom(Swept(now), k, f),
         table' = With(Swept(now), k, p), born' = Begun(Swept(now), k),
         p.firstSeen = Held(Swept(now), k, now).firstSeen,
         \/ p.pieces = Held(Swept(now), k, now).pieces
         \/ p.pieces = Append(Held(Swept(now), k, now).pieces, f),
         UNCHANGED <<policy, reassembled>>
  PROVE  TableAfter /\ NoEviction
<1>1. Swepts(now)
  BY SweepIs
<1>2. SoundTable(Swept(now), lastSwept') /\ IsFiniteSet(DOMAIN Swept(now))
  BY <1>1 DEF Swepts
<1>3. /\ SoundTable(table', lastSwept')
      /\ Cardinality(DOMAIN table') =
           IF k \in DOMAIN Swept(now) THEN Cardinality(DOMAIN Swept(now))
           ELSE Cardinality(DOMAIN Swept(now)) + 1
  BY <1>2, WithIs
<1>4. k \in DOMAIN Swept(now) \/ Cardinality(DOMAIN Swept(now)) < MaxDatagrams
  BY <1>1, DecodeAssumption DEF NoRoom, Swepts
<1>5. born' = IF k \in DOMAIN Swept(now) THEN born ELSE born + 1
  BY DEF Begun
<1>6. /\ born \in Nat /\ reassembled \in Nat /\ expired \in Nat
      /\ born = reassembled + expired + Cardinality(DOMAIN table)
  BY DEF IInv, TableSound, TypeOK, EveryFrameAccounted
<1>7. /\ Cardinality(DOMAIN Swept(now)) \in Nat /\ Cardinality(Stale(now)) \in Nat
      /\ Cardinality(DOMAIN Swept(now)) <= MaxDatagrams
      /\ Cardinality(DOMAIN table) = Cardinality(DOMAIN Swept(now)) + Cardinality(Stale(now))
      /\ expired' = expired + Cardinality(Stale(now))
  BY <1>1 DEF Swepts, Sweep
<1>8. Cardinality(DOMAIN table') <= MaxDatagrams
  BY <1>3, <1>4, <1>7, DecodeAssumption
<1>9. TableAfter
  BY <1>3, <1>5, <1>6, <1>7, <1>8 DEF TableAfter
<1>10. \A j \in DOMAIN table :
         /\ table[j].pieces \in Seq(Fragment)
         /\ IsPrefix(table[j].pieces, table[j].pieces)
         /\ IsPrefix(table[j].pieces, Append(table[j].pieces, f))
  <2>1. \A j \in DOMAIN table : table[j].pieces \in Seq(Fragment)
    BY DEF IInv, TableSound, TypeOK, Partial
  <2>2. f \in Fragment
    BY DecodeAssumption
  <2>3. ASSUME NEW j \in DOMAIN table
        PROVE  /\ IsPrefix(table[j].pieces, table[j].pieces)
               /\ IsPrefix(table[j].pieces, Append(table[j].pieces, f))
    <3>1. table[j].pieces \in Seq(Fragment)
      BY <2>1, <2>3
    <3>2. IsPrefix(table[j].pieces, table[j].pieces)
      BY <3>1, PrefixOfItself
    <3>3. IsPrefix(table[j].pieces, Append(table[j].pieces, f))
      BY <2>2, <3>1, PrefixOfLonger
    <3> QED BY <3>2, <3>3
  <2> QED BY <2>1, <2>3
<1>11. /\ DOMAIN table' = DOMAIN Swept(now) \cup {k}
       /\ \A j \in DOMAIN table' : table'[j] = IF j = k THEN p ELSE Swept(now)[j]
  BY DEF With
<1>12. k \in DOMAIN Swept(now) => Held(Swept(now), k, now) = table[k]
  BY <1>1 DEF Held, Swepts
<1>13. ASSUME NEW j \in DOMAIN table, j \in DOMAIN Swept(now)
       PROVE  /\ j \in DOMAIN table' /\ IsPrefix(table[j].pieces, table'[j].pieces)
              /\ table'[j].firstSeen = table[j].firstSeen
  <2>1. CASE j = k
    BY <1>10, <1>11, <1>12, <1>13, <2>1
  <2>2. CASE j # k
    BY <1>1, <1>10, <1>11, <1>13, <2>2 DEF Swepts
  <2> QED BY <2>1, <2>2
<1>14. NoEviction
  BY <1>1, <1>13 DEF Swepts, NoEviction
<1> QED
  BY <1>9, <1>14

LEMMA ParseIs ==
  ASSUME IInv, NEW d \in Datagrams, Parse(d)
  PROVE  /\ decoded' \in Nat /\ undecoded' \in Nat /\ tunnelled' \in Nat /\ esp' \in Nat
         /\ decoded' + undecoded' = decoded + undecoded + 1
<1>1. d.depth \in Nat
  BY DecodeAssumption
<1>2. decoded \in Nat /\ undecoded \in Nat /\ tunnelled \in Nat /\ esp \in Nat /\ MaxTunnels \in Nat
  BY DecodeAssumption DEF IInv, TableSound, TypeOK
<1> QED
  BY <1>1, <1>2 DEF Parse

-----------------------------------------------------------------------------
(* One lemma for each kind of frame. *)

LEMMA SkipKeeps ==
  ASSUME IInv, NEW now \in Times, Skip(now)
  PROVE  IInv' /\ NoEviction
<1>1. Sweep(now) /\ table' = Swept(now) /\ UNCHANGED <<policy, reassembled, born>>
  BY DEF Skip
<1>2. TableAfter /\ NoEviction
  BY <1>1, SweptOnly
<1>3. FrameCounted /\ Timely
  BY <1>1 DEF Skip, Sweep, IInv, TableSound, TypeOK, EveryFrameAccounted, FrameCounted, Timely
<1> QED
  BY <1>1, <1>2, <1>3, Parts

LEMMA DatagramKeeps ==
  ASSUME IInv, NEW now \in Times, NEW d \in Datagrams, Datagram(now, d)
  PROVE  IInv' /\ NoEviction
<1>1. Sweep(now) /\ table' = Swept(now) /\ UNCHANGED <<policy, reassembled, born>>
  BY DEF Datagram
<1>2. TableAfter /\ NoEviction
  BY <1>1, SweptOnly
<1>3. /\ decoded' \in Nat /\ undecoded' \in Nat /\ tunnelled' \in Nat /\ esp' \in Nat
      /\ decoded' + undecoded' = decoded + undecoded + 1
  BY ParseIs DEF Datagram
<1>4. FrameCounted /\ Timely
  BY <1>1, <1>3
     DEF Datagram, Sweep, IInv, TableSound, TypeOK, EveryFrameAccounted, FrameCounted, Timely
<1> QED
  BY <1>1, <1>2, <1>4, Parts

LEMMA RefuseKeeps ==
  ASSUME IInv, NEW now \in Times, NEW k \in Keys, NEW f \in Fragments, Refuse(k, f, now)
  PROVE  IInv' /\ NoEviction
<1>1. Sweep(now) /\ UNCHANGED <<policy, reassembled>>
  BY DEF Refuse
<1>2. TableAfter /\ NoEviction
  <2>1. CASE NoRoom(Swept(now), k, f)
    BY <1>1, <2>1, SweptOnly DEF Refuse
  <2>2. CASE ~NoRoom(Swept(now), k, f)
    <3>1. Sound(Held(Swept(now), k, now)) /\ Young(Held(Swept(now), k, now), lastSwept')
      BY <1>1, HeldIs
    <3>2. /\ table' = With(Swept(now), k, Held(Swept(now), k, now))
          /\ born' = Begun(Swept(now), k)
      BY <2>2 DEF Refuse
    <3> QED BY <1>1, <2>2, <3>1, <3>2, OneEntry
  <2> QED BY <2>1, <2>2
<1>3. FrameCounted /\ Timely
  BY <1>1 DEF Refuse, parses, Sweep, IInv, TableSound, TypeOK, EveryFrameAccounted, FrameCounted,
              Timely
<1> QED
  BY <1>1, <1>2, <1>3, Parts

LEMMA AbsorbKeeps ==
  ASSUME IInv, NEW now \in Times, NEW k \in Keys, NEW f \in Fragments, Absorb(k, f, now)
  PROVE  IInv' /\ NoEviction
<1>1. Sweep(now) /\ UNCHANGED <<policy, reassembled>>
  BY DEF Absorb
<1>2. TableAfter /\ NoEviction
  <2>1. /\ ~NoRoom(Swept(now), k, f) /\ ~Enough(Held(Swept(now), k, now), f)
        /\ table' = With(Swept(now), k, Taken(k, f, now)) /\ born' = Begun(Swept(now), k)
        /\ ~Whole(Taken(k, f, now))
    BY DEF Absorb
  <2>2. /\ Sound(Taken(k, f, now)) /\ Young(Taken(k, f, now), lastSwept')
        /\ Taken(k, f, now).pieces = Append(Held(Swept(now), k, now).pieces, f)
        /\ Taken(k, f, now).firstSeen = Held(Swept(now), k, now).firstSeen
    BY <1>1, <2>1, TakenIs
  <2> QED BY <1>1, <2>1, <2>2, OneEntry
<1>3. FrameCounted /\ Timely
  BY <1>1 DEF Absorb, parses, Sweep, IInv, TableSound, TypeOK, EveryFrameAccounted, FrameCounted,
              Timely
<1> QED
  BY <1>1, <1>2, <1>3, Parts

LEMMA CompleteKeeps ==
  ASSUME IInv, NEW now \in Times, NEW k \in Keys, NEW f \in Fragments, NEW d \in Datagrams,
         Complete(k, f, now, d)
  PROVE  IInv' /\ NoEviction
<1> DEFINE p == Taken(k, f, now)
<1>1. /\ Sweep(now) /\ policy' = policy
      /\ ~NoRoom(Swept(now), k, f) /\ ~Enough(Held(Swept(now), k, now), f)
      /\ table' = Without(Swept(now), {k})
      /\ born' = Begun(Swept(now), k)
      /\ fragmentsSeen' = fragmentsSeen + 1 /\ reassembled' = reassembled + 1
      /\ fragmentsDropped' = fragmentsDropped
      /\ Parse(d)
      /\ out' = {[key |-> k, head |-> p.head, bytes |-> Assemble(p), pieces |-> p.pieces,
                  age |-> now - p.firstSeen]}
  BY DEF Complete
<1>2. Swepts(now) /\ Clocks(now)
  BY <1>1, SweepIs, SweepClocks
<1>3. /\ SoundTable(table', lastSwept')
      /\ Cardinality(DOMAIN table') =
           IF k \in DOMAIN Swept(now) THEN Cardinality(DOMAIN Swept(now)) - 1
           ELSE Cardinality(DOMAIN Swept(now))
  BY <1>1, <1>2, WithoutIs DEF Swepts
<1>4. TableAfter
  <2>1. /\ born \in Nat /\ reassembled \in Nat /\ expired \in Nat
        /\ born = reassembled + expired + Cardinality(DOMAIN table)
    BY DEF IInv, TableSound, TypeOK, EveryFrameAccounted
  <2>2. /\ Cardinality(DOMAIN Swept(now)) \in Nat /\ Cardinality(Stale(now)) \in Nat
        /\ Cardinality(DOMAIN Swept(now)) <= MaxDatagrams
        /\ Cardinality(DOMAIN table) = Cardinality(DOMAIN Swept(now)) + Cardinality(Stale(now))
        /\ expired' = expired + Cardinality(Stale(now))
    BY <1>1, <1>2 DEF Swepts, Sweep
  <2>3. born' = IF k \in DOMAIN Swept(now) THEN born ELSE born + 1
    BY <1>1 DEF Begun
  <2> QED BY <1>1, <1>3, <2>1, <2>2, <2>3, DecodeAssumption DEF TableAfter
<1>5. FrameCounted
  <2>1. /\ decoded' \in Nat /\ undecoded' \in Nat /\ tunnelled' \in Nat /\ esp' \in Nat
        /\ decoded' + undecoded' = decoded + undecoded + 1
    BY <1>1, ParseIs
  <2>2. frames' = frames + 1 /\ frames = decoded + undecoded + (fragmentsSeen - reassembled)
    BY <1>1 DEF Sweep, IInv, TableSound, EveryFrameAccounted
  <2>3. /\ fragmentsSeen \in Nat /\ fragmentsDropped \in Nat /\ reassembled \in Nat
        /\ decoded \in Nat /\ undecoded \in Nat /\ frames \in Nat
    BY DEF IInv, TableSound, TypeOK
  <2>4. /\ fragmentsSeen' = fragmentsSeen + 1 /\ reassembled' = reassembled + 1
        /\ fragmentsDropped' = fragmentsDropped
    BY <1>1
  <2>5. fragmentsSeen' \in Nat /\ fragmentsDropped' \in Nat /\ reassembled' \in Nat
    BY <2>3, <2>4
  <2>6. /\ fragmentsSeen' - reassembled' = fragmentsSeen - reassembled
        /\ fragmentsSeen - reassembled \in Int
    BY <2>3, <2>4
  <2>7. frames' = decoded + undecoded + 1 + (fragmentsSeen - reassembled)
    BY <2>2, <2>3, <2>6
  <2>8. frames' = decoded' + undecoded' + (fragmentsSeen' - reassembled')
    BY <2>1, <2>6, <2>7
  <2> QED BY <2>1, <2>5, <2>8 DEF FrameCounted
<1>6. Timely
  <2>1. p \in Partial /\ Young(p, lastSwept')
    BY <1>1, TakenIs
  <2>2. p.firstSeen \in Nat
    BY <2>1 DEF Partial
  <2>3. \A e \in out' : e.age = now - p.firstSeen
    BY <1>1
  <2> HIDE DEF p
  <2>4. lastSwept' \in Nat /\ now <= lastSwept' /\ now \in Nat
    BY <1>2 DEF Clocks
  <2>5. MaxLate < Timeout => p.firstSeen > lastSwept' - Timeout
    BY <2>1 DEF Young
  <2> QED BY <2>2, <2>3, <2>4, <2>5, DecodeAssumption DEF Timely
<1>7. NoEviction
  <2>1. ASSUME NEW j \in DOMAIN table, j \in DOMAIN Swept(now), j # k
        PROVE  j \in DOMAIN table' /\ table'[j] = table[j]
    BY <1>1, <1>2, <2>1 DEF Without, Swepts
  <2>2. ASSUME NEW j \in DOMAIN table
        PROVE  IsPrefix(table[j].pieces, table[j].pieces)
    <3>1. table[j].pieces \in Seq(Fragment)
      BY DEF IInv, TableSound, TypeOK, Partial
    <3> QED BY <3>1, PrefixOfItself
  <2>3. \E e \in out' : e.key = k
    BY <1>1
  <2> QED BY <1>2, <2>1, <2>2, <2>3 DEF Swepts, NoEviction
<1> QED
  BY <1>1, <1>4, <1>5, <1>6, <1>7, Parts

LEMMA StepKeeps ==
  ASSUME IInv, Next
  PROVE  IInv' /\ NoEviction
<1>1. PICK now \in Times :
        \/ Skip(now)
        \/ \E d \in Datagrams : Datagram(now, d)
        \/ \E k \in Keys, f \in Fragments :
             \/ Refuse(k, f, now)
             \/ Absorb(k, f, now)
             \/ \E d \in Datagrams : Complete(k, f, now, d)
  BY DEF Next
<1>2. CASE Skip(now)
  BY <1>2, SkipKeeps
<1>3. CASE \E d \in Datagrams : Datagram(now, d)
  BY <1>3, DatagramKeeps
<1>4. CASE \E k \in Keys, f \in Fragments : Refuse(k, f, now)
  BY <1>4, RefuseKeeps
<1>5. CASE \E k \in Keys, f \in Fragments : Absorb(k, f, now)
  BY <1>5, AbsorbKeeps
<1>6. CASE \E k \in Keys, f \in Fragments, d \in Datagrams : Complete(k, f, now, d)
  BY <1>6, CompleteKeeps
<1> QED
  BY <1>1, <1>2, <1>3, <1>4, <1>5, <1>6

-----------------------------------------------------------------------------

LEMMA Starts ==
  ASSUME Init
  PROVE  IInv
<1>1. DOMAIN table = {} /\ Cardinality(DOMAIN table) = 0
  BY FS_EmptySet DEF Init
<1>2. TypeOK
  BY <1>1 DEF Init, TypeOK
<1> QED
  BY <1>1, <1>2, DecodeAssumption
     DEF Init, IInv, TableSound, WithinLimits, EveryFrameAccounted, NeverStale, SweepKnown

LEMMA Waits ==
  ASSUME IInv, UNCHANGED vars
  PROVE  IInv'
<1>1. /\ UNCHANGED <<policy, table, lastSwept, newest, frames, born, out>>
      /\ UNCHANGED <<fragmentsSeen, fragmentsDropped, reassembled, expired>>
      /\ UNCHANGED <<decoded, undecoded, tunnelled, esp>>
  BY DEF vars, counts, parses
<1>2. TypeOK' /\ EveryFrameAccounted' /\ NeverStale' /\ SweepKnown'
  BY <1>1 DEF IInv, TableSound, TypeOK, EveryFrameAccounted, NeverStale, SweepKnown
<1>3. WithinLimits'
  BY <1>1 DEF IInv, TableSound, WithinLimits, Whole, Assemble
<1> QED
  BY <1>2, <1>3 DEF IInv, TableSound

LEMMA Always == Spec => []IInv
<1>1. Init => IInv
  BY Starts
<1>2. IInv /\ [Next]_vars => IInv'
  BY StepKeeps, Waits
<1> QED
  BY <1>1, <1>2, PTL DEF Spec

(* For any limits and any frames: Defragmenter never holds more datagrams, *)
(* pieces or bytes than configured, never a complete or (if frames are not *)
(* later than the timeout) a stale one, and every frame is counted once.   *)
THEOREM TableAlwaysSound == Spec => []TableSound
<1>1. IInv => TableSound
  BY DEF IInv
<1> QED
  BY <1>1, Always, PTL

(* "Refusing new datagrams when full, rather than evicting": for any table *)
(* size, no frame costs an incomplete datagram its place or its pieces.    *)
THEOREM NoneEvicted == Spec => NeverEvicted
<1>1. IInv /\ [Next]_vars => [NoEviction]_vars
  BY StepKeeps
<1> QED
  BY <1>1, Always, PTL DEF Spec, NeverEvicted, NoEviction

-----------------------------------------------------------------------------
(* What a datagram's pieces weigh and what they are assembled to is by     *)
(* induction on how many of them have been taken: a least number for which *)
(* it fails is not there.                                                  *)

LEMMA NoneFails ==
  ASSUME NEW S \in SUBSET Nat, 0 \notin S, \A n \in Nat : n + 1 \in S => n \in S
  PROVE  S = {}
<1> SUFFICES ASSUME S # {}
             PROVE  FALSE
  OBVIOUS
<1>1. PICK m \in S : \A y \in S : <<y, m>> \notin OpToRel(<, Nat)
  BY NatLessThanWellFounded, WFMin
<1>2. \A y \in S : ~(y < m)
  BY <1>1 DEF OpToRel
<1>3. m \in Nat /\ m # 0
  OBVIOUS
<1>4. m - 1 \in Nat /\ (m - 1) + 1 = m
  BY <1>3
<1> QED
  BY <1>2, <1>3, <1>4

Sums(f, s, n) == f = [i \in 0 .. n |-> IF i = 0 THEN 0 ELSE f[i - 1] + s[i].len]

LEMMA SumsExist ==
  ASSUME NEW s, NEW n \in Nat
  PROVE  \E f : Sums(f, s, n)
<1> DEFINE S == {m \in Nat : ~ \E f : Sums(f, s, m)}
<1>1. 0 \notin S
  <2>1. Sums([i \in 0 .. 0 |-> 0], s, 0)
    BY DEF Sums
  <2> QED BY <2>1
<1>2. ASSUME NEW m \in Nat, m \notin S
      PROVE  m + 1 \notin S
  <2>1. PICK f : Sums(f, s, m)
    BY <1>2
  <2> DEFINE g == [i \in 0 .. m + 1 |-> IF i <= m THEN f[i] ELSE f[m] + s[m + 1].len]
  <2>2. ASSUME NEW i \in 0 .. m + 1
        PROVE  g[i] = IF i = 0 THEN 0 ELSE g[i - 1] + s[i].len
    <3>1. CASE i = 0
      BY <2>1, <3>1 DEF Sums
    <3>2. CASE i # 0 /\ i <= m
      <4>1. i - 1 \in 0 .. m /\ i \in 0 .. m /\ i - 1 \in 0 .. m + 1
        BY <3>2
      <4>2. g[i - 1] = f[i - 1] /\ g[i] = f[i]
        BY <3>2, <4>1
      <4>3. f[i] = f[i - 1] + s[i].len
        BY <2>1, <3>2, <4>1 DEF Sums
      <4> HIDE DEF g
      <4> QED BY <3>2, <4>2, <4>3
    <3>3. CASE i = m + 1
      <4>1. g[i - 1] = f[m] /\ g[i] = f[m] + s[m + 1].len
        BY <3>3
      <4> HIDE DEF g
      <4> QED BY <3>3, <4>1
    <3> QED BY <3>1, <3>2, <3>3
  <2>3. g = [i \in 0 .. m + 1 |-> IF i = 0 THEN 0 ELSE g[i - 1] + s[i].len]
    <3>1. g = [i \in 0 .. m + 1 |-> g[i]]
      OBVIOUS
    <3> HIDE DEF g
    <3> QED BY <2>2, <3>1
  <2>4. Sums(g, s, m + 1)
    BY <2>3 DEF Sums
  <2> HIDE DEF g
  <2> QED BY <2>4
<1> HIDE DEF S
<1>3. \A m \in Nat : m + 1 \in S => m \in S
  BY <1>2
<1>4. S = {}
  BY <1>1, <1>3, NoneFails DEF S
<1> QED
  BY <1>4 DEF S

LEMMA WeightIs ==
  ASSUME NEW s, Len(s) \in Nat
  PROVE  \E f : Sums(f, s, Len(s)) /\ Weight(s) = f[Len(s)]
<1> DEFINE n == Len(s)
           h == CHOOSE f : Sums(f, s, n)
<1>1. Sums(h, s, n)
  BY SumsExist
<1>2. Weight(s) = h[n]
  BY DEF Weight, Sums
<1> QED
  BY <1>1, <1>2

LEMMA WeightGrows ==
  ASSUME NEW s \in Seq(Fragment), NEW x \in Fragment
  PROVE  Weight(Append(s, x)) = Weight(s) + x.len /\ Weight(<<>>) = 0
<1> DEFINE t == Append(s, x)
           n == Len(s)
<1>1. n \in Nat /\ Len(t) = n + 1 /\ \A i \in 1 .. n : t[i] = s[i]
  OBVIOUS
<1>2. t[n + 1] = x
  OBVIOUS
<1> HIDE DEF t, n
<1>3. PICK f : Sums(f, s, n) /\ Weight(s) = f[n]
  BY <1>1, WeightIs DEF n
<1>4. PICK g : Sums(g, t, n + 1) /\ Weight(t) = g[n + 1]
  BY <1>1, WeightIs
<1>5. f = [i \in 0 .. n |-> IF i = 0 THEN 0 ELSE f[i - 1] + s[i].len]
  BY <1>3 DEF Sums
<1>6. g = [i \in 0 .. n + 1 |-> IF i = 0 THEN 0 ELSE g[i - 1] + t[i].len]
  BY <1>4 DEF Sums
<1>7. f[0] = 0 /\ g[0] = 0
  BY <1>1, <1>5, <1>6
<1>8. \A i \in 1 .. n : f[i] = f[i - 1] + s[i].len
  BY <1>1, <1>5
<1>9. \A i \in 1 .. n + 1 : g[i] = g[i - 1] + t[i].len
  BY <1>1, <1>6
<1> DEFINE S == {i \in 0 .. n : f[i] # g[i]}
<1>10. S = {}
  <2>1. ASSUME NEW i \in Nat, i \notin S
        PROVE  i + 1 \notin S
    <3>1. CASE i + 1 \in 0 .. n
      <4>1. i \in 0 .. n /\ i + 1 \in 1 .. n /\ i + 1 \in 1 .. n + 1 /\ (i + 1) - 1 = i
        BY <1>1, <3>1
      <4>2. f[i] = g[i]
        BY <2>1, <4>1
      <4> QED BY <1>1, <1>8, <1>9, <4>1, <4>2
    <3> QED BY <3>1
  <2>2. S \in SUBSET Nat /\ 0 \notin S
    BY <1>1, <1>7
  <2> HIDE DEF S
  <2>3. \A i \in Nat : i + 1 \in S => i \in S
    BY <2>1
  <2> QED BY <2>2, <2>3, NoneFails
<1>11. f[n] = g[n] /\ g[n + 1] = g[n] + x.len
  <2>1. n \in 0 .. n /\ n + 1 \in 1 .. n + 1 /\ (n + 1) - 1 = n
    BY <1>1
  <2> QED BY <1>2, <1>9, <1>10, <2>1
<1>12. Weight(<<>>) = 0
  <2>1. Len(<<>>) = 0
    OBVIOUS
  <2>2. PICK h : Sums(h, <<>>, 0) /\ Weight(<<>>) = h[0]
    BY <2>1, WeightIs
  <2> QED BY <2>2 DEF Sums
<1> QED
  BY <1>3, <1>4, <1>11, <1>12 DEF t

Lays(f, order, total, n) ==
  f = [i \in 0 .. n |-> IF i = 0 THEN [at \in 0 .. total - 1 |-> None] ELSE Lay(f[i - 1], order[i])]

LEMMA LaysExist ==
  ASSUME NEW order, NEW total, NEW n \in Nat
  PROVE  \E f : Lays(f, order, total, n)
<1> DEFINE S == {m \in Nat : ~ \E f : Lays(f, order, total, m)}
           bare == [at \in 0 .. total - 1 |-> None]
<1>1. 0 \notin S
  <2>1. Lays([i \in 0 .. 0 |-> bare], order, total, 0)
    BY DEF Lays
  <2> QED BY <2>1
<1>2. ASSUME NEW m \in Nat, m \notin S
      PROVE  m + 1 \notin S
  <2>1. PICK f : Lays(f, order, total, m)
    BY <1>2
  <2> DEFINE g == [i \in 0 .. m + 1 |-> IF i <= m THEN f[i] ELSE Lay(f[m], order[m + 1])]
  <2>2. ASSUME NEW i \in 0 .. m + 1
        PROVE  g[i] = IF i = 0 THEN bare ELSE Lay(g[i - 1], order[i])
    <3>1. CASE i = 0
      BY <2>1, <3>1 DEF Lays
    <3>2. CASE i # 0 /\ i <= m
      <4>1. i - 1 \in 0 .. m /\ i \in 0 .. m /\ i - 1 \in 0 .. m + 1
        BY <3>2
      <4>2. g[i - 1] = f[i - 1] /\ g[i] = f[i]
        BY <3>2, <4>1
      <4>3. f[i] = Lay(f[i - 1], order[i])
        BY <2>1, <3>2, <4>1 DEF Lays
      <4> HIDE DEF g
      <4> QED BY <3>2, <4>2, <4>3
    <3>3. CASE i = m + 1
      <4>1. g[i - 1] = f[m] /\ g[i] = Lay(f[m], order[m + 1])
        BY <3>3
      <4> HIDE DEF g
      <4> QED BY <3>3, <4>1
    <3> QED BY <3>1, <3>2, <3>3
  <2>3. g = [i \in 0 .. m + 1 |-> IF i = 0 THEN bare ELSE Lay(g[i - 1], order[i])]
    <3>1. g = [i \in 0 .. m + 1 |-> g[i]]
      OBVIOUS
    <3> HIDE DEF g, bare
    <3> QED BY <2>2, <3>1
  <2>4. Lays(g, order, total, m + 1)
    BY <2>3 DEF Lays
  <2> HIDE DEF g
  <2> QED BY <2>4
<1> HIDE DEF S
<1>3. \A m \in Nat : m + 1 \in S => m \in S
  BY <1>2
<1>4. S = {}
  BY <1>1, <1>3, NoneFails DEF S
<1> QED
  BY <1>4 DEF S

LEMMA LaidIs ==
  ASSUME NEW order, NEW total, Len(order) \in Nat
  PROVE  \E f : Lays(f, order, total, Len(order)) /\ Laid(order, total) = f[Len(order)]
<1> DEFINE n == Len(order)
           h == CHOOSE f : Lays(f, order, total, n)
<1>1. Lays(h, order, total, n)
  BY LaysExist
<1>2. Laid(order, total) = h[n]
  BY DEF Laid, Lays
<1> QED
  BY <1>1, <1>2

(* A byte is the first of those that claim it, of the first m pieces. *)
First(b, order, at, m) ==
  \/ b[at] = None /\ \A j \in 1 .. m : ~Covers(order[j], at)
  \/ b[at] # None /\ \E i \in 1 .. m :
       /\ Covers(order[i], at) /\ b[at] = order[i].copy
       /\ \A j \in 1 .. m : Covers(order[j], at) => i <= j

LEMMA LayKeeps ==
  ASSUME NEW order, NEW at, NEW m \in Nat, NEW b, at \in DOMAIN b, First(b, order, at, m),
         order[m + 1] \in Fragment
  PROVE  First(Lay(b, order[m + 1]), order, at, m + 1)
<1> DEFINE f == order[m + 1]
           next == Lay(b, f)
<1>1. f.copy # None
  BY DecodeAssumption DEF Fragment
<1>2. next[at] = IF b[at] = None /\ Covers(f, at) THEN f.copy ELSE b[at]
  BY DEF Lay
<1>3. \A j \in 1 .. m + 1 : j \in 1 .. m \/ j = m + 1
  OBVIOUS
<1>4. m + 1 \in 1 .. m + 1 /\ \A i \in 1 .. m : i \in 1 .. m + 1 /\ i <= m + 1
  OBVIOUS
<1> HIDE DEF next
<1>5. CASE b[at] = None /\ Covers(f, at)
  <2>1. \A j \in 1 .. m : ~Covers(order[j], at)
    BY <1>5 DEF First
  <2>2. \A j \in 1 .. m + 1 : Covers(order[j], at) => m + 1 <= j
    BY <1>3, <2>1
  <2>3. next[at] # None /\ next[at] = order[m + 1].copy /\ Covers(order[m + 1], at)
    BY <1>1, <1>2, <1>5
  <2> QED BY <1>4, <2>2, <2>3 DEF First, next
<1>6. CASE b[at] = None /\ ~Covers(f, at)
  BY <1>2, <1>3, <1>6 DEF First, next
<1>7. CASE b[at] # None
  <2>1. PICK i \in 1 .. m :
          /\ Covers(order[i], at) /\ b[at] = order[i].copy
          /\ \A j \in 1 .. m : Covers(order[j], at) => i <= j
    BY <1>7 DEF First
  <2>2. next[at] = b[at]
    BY <1>2, <1>7
  <2>3. \A j \in 1 .. m + 1 : Covers(order[j], at) => i <= j
    BY <1>3, <1>4, <2>1
  <2> QED BY <1>4, <1>7, <2>1, <2>2, <2>3 DEF First, next
<1> QED
  BY <1>5, <1>6, <1>7

LEMMA LaidFirst ==
  ASSUME NEW order \in Seq(Fragment), NEW total
  PROVE  /\ DOMAIN Laid(order, total) = 0 .. total - 1
         /\ \A at \in 0 .. total - 1 : First(Laid(order, total), order, at, Len(order))
<1> DEFINE n == Len(order)
           D == 0 .. total - 1
<1>1. n \in Nat /\ \A i \in 1 .. n : order[i] \in Fragment
  OBVIOUS
<1>2. PICK f : Lays(f, order, total, n) /\ Laid(order, total) = f[n]
  BY <1>1, LaidIs
<1> HIDE DEF n, D
<1>3. f = [i \in 0 .. n |-> IF i = 0 THEN [x \in D |-> None] ELSE Lay(f[i - 1], order[i])]
  BY <1>2 DEF Lays, D
<1>4. f[0] = [x \in D |-> None] /\ \A i \in 1 .. n : f[i] = Lay(f[i - 1], order[i])
  <2>1. 0 \in 0 .. n /\ \A i \in 1 .. n : i \in 0 .. n /\ i # 0
    BY <1>1
  <2> QED BY <1>3, <2>1
<1> DEFINE Good(i) == DOMAIN f[i] = D /\ \A at \in D : First(f[i], order, at, i)
           S == {i \in 0 .. n : ~Good(i)}
<1>5. 0 \notin S
  <2>1. DOMAIN f[0] = D /\ \A at \in D : f[0][at] = None
    BY <1>4
  <2>2. \A j \in 1 .. 0 : FALSE
    OBVIOUS
  <2> QED BY <2>1, <2>2 DEF First
<1>6. ASSUME NEW i \in Nat, i + 1 \in S
      PROVE  i \in S
  <2>1. i \in 0 .. n /\ i + 1 \in 1 .. n /\ (i + 1) - 1 = i
    BY <1>1, <1>6
  <2>2. SUFFICES ASSUME DOMAIN f[i] = D, \A at \in D : First(f[i], order, at, i)
                 PROVE  FALSE
    BY <2>1
  <2>3. f[i + 1] = Lay(f[i], order[i + 1]) /\ order[i + 1] \in Fragment
    BY <1>1, <1>4, <2>1
  <2>4. \A at \in D : First(Lay(f[i], order[i + 1]), order, at, i + 1)
    BY <2>2, <2>3, LayKeeps
  <2>5. DOMAIN Lay(f[i], order[i + 1]) = D
    BY <2>2 DEF Lay
  <2> QED BY <1>6, <2>3, <2>4, <2>5
<1>7. S = {}
  <2>1. S \in SUBSET Nat
    BY <1>1
  <2> HIDE DEF S
  <2> QED BY <1>5, <1>6, <2>1, NoneFails
<1>8. Good(n)
  BY <1>1, <1>7
<1> QED
  BY <1>2, <1>8 DEF n, D

(* assemble() of a datagram that is whole. *)
PolicyFor(bytes, pieces, last) ==
  \A at \in DOMAIN bytes :
    LET claims == {i \in DOMAIN pieces : Covers(pieces[i], at)}
    IN  \E i \in claims :
          /\ bytes[at] = pieces[i].copy
          /\ \A j \in claims : IF last THEN i >= j ELSE i <= j

LEMMA LaidByPolicy ==
  ASSUME NEW s \in Seq(Fragment), NEW total, NEW last \in BOOLEAN,
         NEW order, order = (IF last THEN Reverse(s) ELSE s),
         \A at \in 0 .. total - 1 : Laid(order, total)[at] # None
  PROVE  PolicyFor(Laid(order, total), s, last)
<1> DEFINE b == Laid(order, total)
           n == Len(s)
<1>1. n \in Nat /\ DOMAIN s = 1 .. n /\ \A i \in 1 .. n : s[i] \in Fragment
  OBVIOUS
<1>2. /\ order \in Seq(Fragment) /\ Len(order) = n
      /\ \A i \in 1 .. n : order[i] = IF last THEN s[(n - i) + 1] ELSE s[i]
  <2>1. CASE ~last
    BY <1>1, <2>1
  <2>2. CASE last
    <3>1. order = [i \in 1 .. n |-> s[(n - i) + 1]]
      BY <2>2 DEF Reverse
    <3>2. \A i \in 1 .. n : (n - i) + 1 \in 1 .. n
      BY <1>1
    <3> HIDE DEF n
    <3>3. order \in [1 .. n -> Fragment]
      BY <1>1, <3>1, <3>2
    <3>4. order \in Seq(Fragment) /\ Len(order) = n
      BY <1>1, <3>3
    <3> QED BY <2>2, <3>1, <3>4
  <2> QED BY <2>1, <2>2
<1> SUFFICES ASSUME NEW at \in DOMAIN b
             PROVE  LET claims == {i \in DOMAIN s : Covers(s[i], at)}
                    IN  \E i \in claims :
                          /\ b[at] = s[i].copy
                          /\ \A j \in claims : IF last THEN i >= j ELSE i <= j
  BY DEF PolicyFor
<1>3. at \in 0 .. total - 1 /\ First(b, order, at, n)
  BY <1>2, LaidFirst
<1> HIDE DEF b, n
<1>4. b[at] # None
  BY <1>3 DEF b
<1>5. PICK i \in 1 .. n :
        /\ Covers(order[i], at) /\ b[at] = order[i].copy
        /\ \A j \in 1 .. n : Covers(order[j], at) => i <= j
  BY <1>3, <1>4 DEF First
<1>6. CASE ~last
  BY <1>1, <1>2, <1>5, <1>6
<1>7. CASE last
  <2>1. \A j \in 1 .. n : (n - j) + 1 \in 1 .. n /\ order[(n - j) + 1] = s[j]
    <3>1. \A j \in 1 .. n : (n - j) + 1 \in 1 .. n
      BY <1>1
    <3>2. ASSUME NEW j \in 1 .. n
          PROVE  order[(n - j) + 1] = s[(n - ((n - j) + 1)) + 1]
      BY <1>2, <1>7, <3>1
    <3>3. \A j \in 1 .. n : (n - ((n - j) + 1)) + 1 = j
      BY <1>1
    <3> QED BY <3>1, <3>2, <3>3
  <2>2. (n - i) + 1 \in 1 .. n /\ order[i] = s[(n - i) + 1]
    BY <1>1, <1>2, <1>7
  <2>3. \A j \in 1 .. n : Covers(s[j], at) => i <= (n - j) + 1
    BY <1>5, <2>1
  <2>4. \A j \in 1 .. n : Covers(s[j], at) => (n - i) + 1 >= j
    BY <1>1, <2>3
  <2> QED BY <1>1, <1>5, <1>7, <2>2, <2>4
<1> QED
  BY <1>6, <1>7

Weighed(t) == \A k \in DOMAIN t : t[k].bytes = Weight(t[k].pieces)

LEMMA TakenWeighed ==
  ASSUME IInv, NEW now \in Times, Sweep(now), NEW k \in Keys, NEW f \in Fragments,
         Weighed(Swept(now))
  PROVE  LET p == Held(Swept(now), k, now)
         IN  p.bytes = Weight(p.pieces) /\ Taken(k, f, now).bytes = Weight(Taken(k, f, now).pieces)
<1> DEFINE p == Held(Swept(now), k, now)
<1>1. p \in Partial
  BY HeldIs DEF Sound
<1>2. f \in Fragment
  BY DecodeAssumption
<1>3. p.pieces \in Seq(Fragment)
  BY <1>1 DEF Partial
<1>4. p.bytes = Weight(p.pieces)
  <2>1. CASE k \in DOMAIN Swept(now)
    BY <2>1 DEF Held, Weighed
  <2>2. CASE k \notin DOMAIN Swept(now)
    <3>1. p = Empty(now)
      BY <2>2 DEF Held
    <3>2. Weight(<<>>) = 0
      BY <1>2, <1>3, WeightGrows
    <3> QED BY <3>1, <3>2 DEF Empty
  <2> QED BY <2>1, <2>2
<1>5. Taken(k, f, now) = Add(p, f)
  BY DEF Taken
<1> HIDE DEF p
<1>6. Weight(Append(p.pieces, f)) = Weight(p.pieces) + f.len
  BY <1>2, <1>3, WeightGrows
<1>7. Add(p, f).pieces = Append(p.pieces, f) /\ Add(p, f).bytes = p.bytes + f.len
  BY <1>1, AddIs
<1> QED
  BY <1>4, <1>5, <1>6, <1>7 DEF p

LEMMA WithWeighed ==
  ASSUME NEW t, Weighed(t), NEW k, NEW p, p.bytes = Weight(p.pieces)
  PROVE  Weighed(With(t, k, p)) /\ Weighed(Without(t, {k}))
<1>1. Weighed(With(t, k, p))
  BY DEF Weighed, With
<1>2. Weighed(Without(t, {k}))
  BY DEF Weighed, Without
<1> QED BY <1>1, <1>2

LEMMA PiecesKeep ==
  ASSUME IInv, PiecesTrue, Next
  PROVE  PiecesTrue'
<1>1. PICK now \in Times :
        \/ Skip(now)
        \/ \E d \in Datagrams : Datagram(now, d)
        \/ \E k \in Keys, f \in Fragments :
             \/ Refuse(k, f, now)
             \/ Absorb(k, f, now)
             \/ \E d \in Datagrams : Complete(k, f, now, d)
  BY DEF Next
<1>2. Sweep(now) /\ policy' = policy
  BY <1>1 DEF Skip, Datagram, Refuse, Absorb, Complete
<1>3. Weighed(Swept(now))
  BY DEF PiecesTrue, PiecesWeighed, Weighed, Swept, Without
<1>4. SUFFICES /\ Weighed(table')
               /\ \A e \in out' : PolicyFor(e.bytes, e.pieces, policy # "first")
  <2>1. ASSUME Weighed(table') PROVE PiecesWeighed'
    BY <2>1 DEF Weighed, PiecesWeighed
  <2>2. ASSUME \A e \in out' : PolicyFor(e.bytes, e.pieces, policy # "first") PROVE PolicyKept'
    BY <1>2, <2>2 DEF PolicyFor, PolicyKept
  <2> QED BY <2>1, <2>2 DEF PiecesTrue
<1>5. ASSUME Skip(now) \/ \E d \in Datagrams : Datagram(now, d)
      PROVE  table' = Swept(now) /\ out' = {}
  BY <1>5 DEF Skip, Datagram
<1>6. ASSUME NEW k \in Keys, NEW f \in Fragments, Refuse(k, f, now)
      PROVE  Weighed(table') /\ out' = {}
  <2>1. table' = Swept(now) \/ table' = With(Swept(now), k, Held(Swept(now), k, now))
    BY <1>6 DEF Refuse
  <2>2. Held(Swept(now), k, now).bytes = Weight(Held(Swept(now), k, now).pieces)
    BY <1>2, <1>3, TakenWeighed
  <2> QED BY <1>3, <1>6, <2>1, <2>2, WithWeighed DEF Refuse
<1>7. ASSUME NEW k \in Keys, NEW f \in Fragments, Absorb(k, f, now)
      PROVE  Weighed(table') /\ out' = {}
  <2>1. table' = With(Swept(now), k, Taken(k, f, now)) /\ out' = {}
    BY <1>7 DEF Absorb
  <2>2. Taken(k, f, now).bytes = Weight(Taken(k, f, now).pieces)
    BY <1>2, <1>3, TakenWeighed
  <2> QED BY <1>3, <2>1, <2>2, WithWeighed
<1>8. ASSUME NEW k \in Keys, NEW f \in Fragments, NEW d \in Datagrams, Complete(k, f, now, d)
      PROVE  /\ Weighed(table')
             /\ \A e \in out' : PolicyFor(e.bytes, e.pieces, policy # "first")
  <2> DEFINE p == Taken(k, f, now)
             last == policy # "first"
             order == IF policy = "first" THEN p.pieces ELSE Reverse(p.pieces)
  <2>1. /\ table' = Without(Swept(now), {k}) /\ Whole(p)
        /\ ~Enough(Held(Swept(now), k, now), f)
        /\ \A e \in out' : e.bytes = Assemble(p) /\ e.pieces = p.pieces
    BY <1>8 DEF Complete
  <2>2. p.bytes = Weight(p.pieces) /\ p \in Partial
    BY <1>2, <1>3, <2>1, TakenWeighed, TakenIs
  <2>3. Weighed(table')
    BY <1>3, <2>1, <2>2, WithWeighed
  <2>4. p.pieces \in Seq(Fragment)
    BY <2>2 DEF Partial
  <2>5. Assemble(p) = Laid(order, p.total) /\ order = IF last THEN Reverse(p.pieces) ELSE p.pieces
    BY DEF Assemble
  <2>6. \A at \in 0 .. p.total - 1 : Laid(order, p.total)[at] # None
    BY <2>1, <2>5 DEF Whole
  <2> HIDE DEF p, order
  <2>7. PolicyFor(Laid(order, p.total), p.pieces, last)
    BY <2>4, <2>5, <2>6, LaidByPolicy
  <2> QED BY <2>1, <2>3, <2>5, <2>7
<1>9. CASE Skip(now) \/ \E d \in Datagrams : Datagram(now, d)
  BY <1>3, <1>5, <1>9
<1> QED
  BY <1>1, <1>6, <1>7, <1>8, <1>9

(* However a datagram's fragments overlap and in whatever order they come, *)
(* FragPolicy alone says which of them a byte is from; and the limit on a  *)
(* datagram's bytes is held against what its fragments weigh.              *)
THEOREM PiecesAlwaysTrue == Spec => []PiecesTrue
<1>1. Init => PiecesTrue
  BY DEF Init, PiecesTrue, PolicyKept, PiecesWeighed
<1>2. IInv /\ PiecesTrue /\ [Next]_vars => PiecesTrue'
  <2>1. IInv /\ PiecesTrue /\ Next => PiecesTrue'
    BY PiecesKeep
  <2>2. PiecesTrue /\ UNCHANGED vars => PiecesTrue'
    BY DEF PiecesTrue, PolicyKept, PiecesWeighed, vars
  <2> QED BY <2>1, <2>2
<1> QED
  BY <1>1, <1>2, Always, PTL DEF Spec
=============================================================================
