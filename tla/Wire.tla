-------------------------------- MODULE Wire --------------------------------
(***************************************************************************)
(* Bytes as the readers of src/engine.rs, src/enterprise.rs and            *)
(* src/tlscert.rs take them: numbers, slices, lines and DER elements, with *)
(* None for what has not arrived or is malformed.                          *)
(*                                                                         *)
(* A byte is a number up to 255.  In text a word is one symbol above 255   *)
(* and stands for all its spellings; Number(n) is the text of a number.    *)
(* Offsets count from 0, as in the code.                                   *)
(***************************************************************************)
EXTENDS Integers, Sequences, FiniteSets, SequencesExt, FiniteSetsExt

CONSTANTS None, MaxDepth, MaxField

Cr == 13
Lf == 10
Sp == 32
Colon == 58
Crlf == <<Cr, Lf>>
Number(n) == 1000 + n
IsNumber(s) == Len(s) = 1 /\ s[1] >= 1000
NumberOf(s) == s[1] - 1000

At(b, i) == b[i + 1]
Has(b, at, n) == at + n <= Len(b)
Slice(b, at, n) == SubSeq(b, at + 1, at + n)
From(b, at) == SubSeq(b, at + 1, Len(b))
Begins(b, prefix) == Has(b, 0, Len(prefix)) /\ Slice(b, 0, Len(prefix)) = prefix

BigEndian(s) == FoldLeft(LAMBDA acc, x : 256 * acc + x, 0, s)
LittleEndian(s) == FoldRight(LAMBDA x, acc : 256 * acc + x, s, 0)
BE(b, at, n) == BigEndian(Slice(b, at, n))
LE(b, at, n) == LittleEndian(Slice(b, at, n))
Bit(x, i) == (x \div 2^i) % 2 = 1

(* UTF-16: the units of a name, an odd last byte left out.                 *)
Units(s) == [i \in 1 .. Len(s) \div 2 |-> s[2 * i - 1] + 256 * s[2 * i]]
UnitsBig(s) == [i \in 1 .. Len(s) \div 2 |-> 256 * s[2 * i - 1] + s[2 * i]]

Find(b, pattern) ==
  LET at == {i \in 0 .. Len(b) - Len(pattern) : Slice(b, i, Len(pattern)) = pattern}
  IN  IF at = {} THEN None ELSE Min(at)

Trim(s) ==
  LET kept == {i \in DOMAIN s : s[i] # Sp}
  IN  IF kept = {} THEN <<>> ELSE SubSeq(s, Min(kept), Max(kept))

Grown(parts, x) == Append(Front(parts), Append(Last(parts), x))
SplitAt(s, x) ==
  FoldLeft(LAMBDA acc, y : IF y = x THEN Append(acc, <<>>) ELSE Grown(acc, y), <<<<>>>>, s)

(* A line ends at LF, and a CR before it is no part of it.                 *)
Bare(line) == IF line # <<>> /\ Last(line) = Cr THEN Front(line) ELSE line
LinesOf(s) == LET parts == SplitAt(s, Lf) IN [i \in DOMAIN Front(parts) |-> Bare(parts[i])]

(* field_at: a slice, if it is whole, not empty and not beyond reason.     *)
FieldAt(b, at, n) == IF n = 0 \/ n > MaxField \/ ~Has(b, at, n) THEN None ELSE Slice(b, at, n)

(***************************************************************************)
(* One DER element, its length short or of up to four bytes.               *)
(***************************************************************************)
Element(b, at) ==
  IF ~Has(b, at, 2) THEN None
  ELSE LET first == At(b, at + 1)
           n == IF first < 128 THEN 0 ELSE first - 128
           start == at + 2 + n
           len == IF first < 128 THEN first ELSE BE(b, at + 2, n)
       IN  IF first = 128 \/ n > 4 \/ ~Has(b, at, 2 + n) \/ ~Has(b, start, len) THEN None
           ELSE [tag |-> At(b, at), value |-> Slice(b, start, len), next |-> start + len]

RECURSIVE Siblings(_, _), AndOn(_, _), Walk(_, _)
Siblings(b, at) == AndOn(b, IF at < Len(b) THEN Element(b, at) ELSE None)
AndOn(b, e) == IF e = None THEN <<>> ELSE <<e>> \o Siblings(b, e.next)
FirstIn(e) == IF e = None THEN None ELSE Element(e.value, 0)
Within(e) == IF e = None THEN <<>> ELSE Siblings(e.value, 0)

(* Depth first, to a bounded depth; bit 5 of a tag marks a constructed     *)
(* element, whose contents are elements again.                             *)
Walk(b, depth) ==
  IF depth > MaxDepth THEN <<>>
  ELSE LET all == Siblings(b, 0)
           below(e) == <<e>> \o IF Bit(e.tag, 5) THEN Walk(e.value, depth + 1) ELSE <<>>
       IN  FlattenSeq([i \in DOMAIN all |-> below(all[i])])
=============================================================================
