------------------------------ MODULE MCRules ------------------------------
EXTENDS RuleMatch
CONSTANT MaxLoad     \* lines of a file that are left out in every way

P == INSTANCE RulePlain WITH
  bytes <- flow.bits.bytes,
  on <- {b \in flow.bits.on : IsSet(flow.bits, b)},
  marks <- [c \in 0 .. Len(Loaded[file].composites) - 1 |-> Progress(flow.bits, c) \ {PartDone}]

(* Every hit, every bit and every part is what evaluating each rule on the *)
(* whole of each buffer would give: the prefilter, the bytes already       *)
(* scanned, gates, slices and the two forms of progress change nothing.    *)
ImplementsPlain == P!Spec

(* A line that is refused leaves no trace: the rest of the file is what it *)
(* would be without it (RuleSet::load_inner, lenient), bits meaning what   *)
(* their names mean, and it can be built (RuleSetV2::build_full).          *)
Named(f, bits) == [i \in DOMAIN bits |-> <<bits[i].op, f.reg.names[bits[i].bit + 1]>>]
Meaning(f) ==
  [rules |-> [i \in DOMAIN f.rules |-> [f.rules[i] EXCEPT !.bits = Named(f, @)]],
   composites |-> [i \in DOMAIN f.composites |-> [f.composites[i] EXCEPT !.effects = Named(f, @)]],
   old |-> <<f.literals, f.regexes>>]
Taken(lines) ==
  LET errors(i) == Load(SubSeq(lines, 1, i), TRUE).errors
      keep == SelectSeq([i \in DOMAIN lines |-> i], LAMBDA i : errors(i) = errors(i - 1))
  IN  [i \in DOMAIN keep |-> lines[keep[i]]]
Without(lines, out) ==
  LET keep == SelectSeq([i \in DOMAIN lines |-> i], LAMBDA i : i \notin out) IN [i \in DOMAIN keep |-> lines[keep[i]]]
Harmless(lines) ==
  LET lenient == Load(lines, TRUE)
      strict == Load(Taken(lines), FALSE)
  IN  strict.ok /\ Buildable(lenient) /\ Meaning(lenient) = Meaning(strict)
HarmlessFiles ==
  [i \in DOMAIN Files |-> \A out \in SUBSET (1 .. AtMost(MaxLoad, Len(Files[i]))) : Harmless(Without(Files[i], out))]
BadLinesHarmNothing == HarmlessFiles[file]

(* The window of a content is what its modifiers say (ContentMatch::bounds *)
(* and find): an absolute one is counted from the front of the buffer, a   *)
(* relative one must begin `distance` after the last match and end at most *)
(* `within` after it, however far `distance` moved the start.  What is     *)
(* found is the first place in the window.                                 *)
Contents ==
  LET arg == {NoArg} \cup {Arg(n) : n \in -1 .. 2}
      plain == NewContent("literal", <<97>>, FALSE, FALSE)
      texts == {<<97>>, <<98, 97>>}
  IN  {[plain EXCEPT !.text = t, !.distance = d, !.within = w] :
        t \in texts, d \in arg, w \in {x \in arg : x.lit # -1}} \cup
      {[plain EXCEPT !.text = t, !.offset = o, !.depth = d] :
        t \in texts, o \in {x \in arg : x.lit # -1}, d \in {x \in arg : x.lit # -1}}
Between(c, i, cursor) ==
  LET end == i + Len(c.text)
      or(a, n) == IF Given(a) THEN a.lit ELSE n
  IN  IF IsRelative(c) THEN cursor + or(c.distance, 0) <= i /\ (Given(c.within) => end <= cursor + c.within.lit)
      ELSE or(c.offset, 0) <= i /\ (Given(c.depth) => end <= or(c.offset, 0) + c.depth.lit)
WindowsMeant ==
  \A n \in 0 .. 4 : \A s \in [1 .. n -> {97, 98}], c \in Contents, cursor \in 0 .. n :
    LET fits == {i \in Occurrences(c.text, s, 0) : Between(c, i, cursor)}
    IN  FindContent(c, s, cursor, [v \in Vars |-> None]) = Leftmost(fits, Len(c.text))

(* A number reads back as it was written, in either order of its bytes or  *)
(* as digits with something after them; bytes come back from their base64, *)
(* whatever breaks its lines; and arithmetic never leaves an i64 (read_by, *)
(* Base64Decode::eval, ByteMath::eval).                                    *)
Format(text, radix, little) == [text |-> text, radix |-> radix, little |-> little]
Big(v, n) == [i \in 1 .. n |-> (v \div 256 ^ (n - i)) % 256]
DigitsOf(v, radix) ==
  LET n == CHOOSE k \in 1 .. 6 : v < radix ^ k /\ \A j \in 1 .. k - 1 : v >= radix ^ j
      code(d) == IF d < 10 THEN 48 + d ELSE 87 + d
  IN  [i \in 1 .. n |-> code((v \div radix ^ (n - i)) % radix)]
Encoded(s) ==
  LET n == (8 * Len(s) + 5) \div 6
      bits == FoldLeft(LAMBDA acc, x : 256 * acc + x, 0, s) * 2 ^ (6 * n - 8 * Len(s))
      code(v) == CHOOSE x \in 1 .. 127 \ {45, 95} : Sextet(x) = v
      out == [i \in 1 .. n |-> code((bits \div 64 ^ (n - i)) % 64)]
  IN  SubSeq(out, 1, 2) \o <<10>> \o SubSeq(out, 3, n) \o <<61>>
NumbersReadBack ==
  /\ \A v \in {0, 1, 9, 255, 256, 4660} :
       LET s == <<7>> \o Big(v, 2)
       IN  /\ NumberAt(Format(FALSE, 0, FALSE), s, 1, 2) = [v |-> v, after |-> 3]
           /\ NumberAt(Format(FALSE, 0, TRUE), Reverse(s), 0, 2) = [v |-> v, after |-> 2]
           /\ \A radix \in {8, 10, 16} :
                NumberAt(Format(TRUE, radix, FALSE), DigitsOf(v, radix) \o <<59>>, 0, 20)
                  = [v |-> v, after |-> Len(DigitsOf(v, radix))]
  /\ \A n \in 1 .. 3 : \A s \in [1 .. n -> {0, 97, 255}] : Base64Decoded(Encoded(s)) = s
  /\ \A x \in {0, 1, 3, MaxInt - 1, MaxInt}, y \in {-MaxInt - 1, -1, 0, 1, 2, MaxInt},
       op \in {"+", "-", "*", "/", "<<", ">>"} :
       LET r == MathOp(op, x, y) IN r = None \/ (-MaxInt - 1 <= r /\ r <= MaxInt)

(* The terms of a rule find, read and compute what the rule's author meant *)
(* by them, whatever the data.                                             *)
TermsMeant == file \in DOMAIN Files => WindowsMeant /\ NumbersReadBack

(* A rule of the payload is tried on the whole stream again and again as   *)
(* it grows, and "absent so far" is not a claim it can make (rules.rs:2109 *)
(* and 2126).  A rule whose terms are all of what is there, each settled   *)
(* by the bytes it has read, goes on matching once it did, wherever its    *)
(* first matches, its windows and its numbers take the cursor.  A pattern  *)
(* that reaches for the end and a number in digits are not settled, for    *)
(* what follows moves their end, nor is a pattern that gives up on a long  *)
(* text: a rule of theirs may stop matching.                               *)
Asks(t) ==
  \/ t.term = "base64"
  \/ t.term \in {"extract", "math", "jump", "test"} /\ ~t.fmt.text /\ (t.term = "test" => ~t.negate)
  \/ t.term = "data_at" /\ ~t.negate
  \/ /\ IsContent(t) /\ ~t.negate
     /\ t.pattern \in {"literal", "nocase"} \/ (t.pattern = "regex" /\ t.tail = <<>> /\ ~t.toEnd)
Lasting(r) == r.buffer = "payload" /\ r.transforms = <<>> /\ \A t \in ToSet(r.terms) : Asks(t)
StaysMatched ==
  \A r \in {x \in ToSet(Loaded[file].rules) : Lasting(x)}, side \in DOMAIN stream :
    \A n \in 0 .. Len(stream[side]) - 1 :
      ContentMatches(r.terms, Vars, SubSeq(stream[side], 1, n)) => ContentMatches(r.terms, Vars, stream[side])

(* Marking a part never reaches past the table of progress: "a part with   *)
(* no composite would index out of bounds", which is why loading refuses   *)
(* one.                                                                    *)
TableFits == ~flow.bits.crashed

-----------------------------------------------------------------------------
(* The rules.                                                              *)
a == 97
b == 98
Opt(o, v) == [o |-> o, v |-> v]
Sid(n) == Opt("sid", n)
T(t) == Opt("term", t)
Text(s) == T(NewContent("literal", s, FALSE, FALSE))
Absent(s) == T(NewContent("literal", s, FALSE, TRUE))
Start(s) == T(NewContent("regex", s, TRUE, FALSE))
AtEnd(s) == T([NewContent("regex", s, FALSE, FALSE) EXCEPT !.toEnd = TRUE])
Upto(s, tail) == T([NewContent("regex", s, FALSE, FALSE) EXCEPT !.tail = tail])
Nocase == Opt("nocase", TRUE)
Num(o, n) == [o |-> o, lit |-> n, var |-> None]
ByVar(o, v) == [o |-> o, lit |-> None, var |-> v]
Bit(op, n) == [o |-> "flowbits", v |-> op, name |-> n]
In(buffer) == Opt("buffer", buffer)
On(side) == Opt("direction", side)
If(what, test) == Opt("header", [what |-> what, test |-> test])
Rule(opts) == [v2 |-> opts]
Old1(name, buffer, side, kind, text) ==
  [v1 |-> [name |-> name, buffer |-> buffer, direction |-> side, kind |-> kind, text |-> text]]
Ports(n) == [negate |-> FALSE, ranges |-> {[lo |-> n, hi |-> n]}]
Byte(var) == [term |-> "extract", bytes |-> 1, offset |-> 0, relative |-> FALSE, var |-> var, multiplier |-> 1,
              fmt |-> [text |-> TRUE, radix |-> 10, little |-> FALSE]]

(* Literals that straddle segments, windows, a bit one rule sets and       *)
(* another waits for, and lines that are refused around them.              *)
Streams == <<
  Rule(<<Sid(1), Text(<<65, b>>), Nocase>>),
  Rule(<<Bit("set", "z"), Text(<<a>>)>>),
  Rule(<<Sid(2), On("to_server"), Text(<<b>>), Text(<<a>>), Num("distance", 0), Num("within", 2)>>),
  Rule(<<Sid(3), On("to_server"), Start(<<b>>), Bit("set", "x"), Opt("noalert", TRUE)>>),
  Rule(<<Sid(4), Bit("isset", "x"), Text(<<b, a>>)>>),
  Rule(<<Sid(5), Text(<<a>>), Num("distance", 1)>>),
  Rule(<<Sid(6), Text(<<a, a>>), Bit("isnotset", "x"), Bit("toggle", "w")>>)>>

(* Rules of several buffers; more of them than a list is kept for.         *)
Several == <<
  Rule(<<Sid(11), In("uri"), Text(<<a>>), In("stat"), Text(<<b>>), Bit("toggle", "y")>>),
  Rule(<<Sid(12), In("uri"), Text(<<b>>), In("payload"), Absent(<<b>>)>>),
  Rule(<<Sid(13), In("uri"), Text(<<a>>), In("payload"), Text(<<a>>), Bit("set", "v")>>),
  Rule(<<Sid(14), Opt("noalert", TRUE), In("uri"), Absent(<<b>>), In("stat"), Text(<<a>>), Bit("unset", "v")>>),
  Rule(<<Sid(15), In("stat"), Bit("isset", "y"), Bit("isset", "v"), Text(<<b>>)>>)>>

(* Headers and sides, the first form of rule, transforms, numbers, sizes,  *)
(* a protocol that was recognised.                                         *)
Mixed == <<
  Old1(901, "payload", "any", "literal", <<b, a>>),
  Old1(902, "payload", "any", "literal", <<b>>),
  Old1(903, "uri", "to_server", "not_literal", <<b>>),
  Old1(904, "payload", "any", "not_regex", <<b>>),
  Rule(<<Sid(21), In("dns"), If("dst_port", Ports(2)), If("proto", "udp"), Text(<<a>>)>>),
  Rule(<<Sid(22), If("src_port", Ports(1)), On("to_client"), Text(<<a>>)>>),
  Rule(<<Sid(23), In("uri"), Opt("transform", "percent_decode"), Text(<<a>>)>>),
  Rule(<<Sid(24), If("stream", [side |-> "both", op |-> ">", bytes |-> 0]), Text(<<b>>)>>),
  Rule(<<Sid(25), In("uri"), T(Byte("n")), Text(<<a>>), ByVar("offset", "n")>>),
  Rule(<<Sid(26), Bit("isset", "app.http"), Text(<<b>>)>>)>>

(* Terms that compute: a number that says where to go, what to compare and *)
(* how much there must be, on bytes and after a base64_decode.             *)
Binary == [text |-> FALSE, radix |-> 0, little |-> FALSE]
Reads(term) == [term |-> term, bytes |-> 1, offset |-> 0, relative |-> FALSE, fmt |-> Binary]
Values == <<
  Rule(<<Sid(31), In("uri"), T(Reads("jump") @@
                                [multiplier |-> 1, align |-> FALSE, postOffset |-> -1, fromBeginning |-> FALSE]),
         T([Reads("extract") EXCEPT !.relative = TRUE] @@ [var |-> "n", multiplier |-> 1]),
         T([term |-> "data_at", offset |-> [lit |-> None, var |-> "n"], relative |-> FALSE, negate |-> FALSE]), Text(<<2>>)>>),
  Rule(<<Sid(32), In("uri"), T(Reads("math") @@ [op |-> "-", rvalue |-> Arg(1), var |-> "m"]),
         T([term |-> "test", bytes |-> 1, offset |-> [lit |-> None, var |-> "m"], relative |-> FALSE, negate |-> FALSE,
            op |-> "and", value |-> Arg(2), fmt |-> Binary]),
         T([term |-> "len", test |-> [op |-> "<>", a |-> 1, b |-> 4]]), Text(<<2>>)>>),
  Rule(<<Sid(33), In("uri"), Text(<<89>>), T([term |-> "base64", bytes |-> 0, offset |-> -1, relative |-> TRUE]),
         Text(<<a>>), T([term |-> "len", test |-> [op |-> "=", a |-> 1]])>>),
  Rule(<<Sid(34), In("uri"), T([Reads("extract") EXCEPT !.bytes = 3] @@ [var |-> "n", multiplier |-> 1]), Text(<<a>>)>>),
  Rule(<<Sid(35), In("uri"), Opt("transform", "strip_whitespace"), Opt("transform", "header_lowercase"), Text(<<a, a>>)>>),
  Rule(<<Sid(36), In("uri"), Opt("transform", "compress_whitespace"), Text(<<65, 32>>), T(NewContent("backtrack", <<a>>, FALSE, FALSE)),
         Opt("relative", TRUE)>>)>>

(* On a stream that grows: patterns that reach for its end, one of which a *)
(* relative content follows.                                               *)
Reaching == <<
  Rule(<<Sid(41), AtEnd(<<b>>)>>),
  Rule(<<Sid(42), Upto(<<a>>, <<b>>), Text(<<a>>), Num("distance", 0)>>),
  Rule(<<Sid(43), Text(<<a>>), Upto(<<b>>, <<b>>), Num("within", 2), Text(<<a>>), Num("distance", -2)>>),
  Rule(<<Sid(44), Text(<<b>>), T(NewContent("regex", <<a>>, FALSE, FALSE)), Opt("relative", TRUE),
         Text(<<b>>), Num("within", 1)>>)>>

(* And numbers: of a width, as digits, and in base64.                      *)
Counted == <<
  Rule(<<Sid(51), T([Byte("n") EXCEPT !.bytes = 2]), Text(<<48>>), ByVar("offset", "n")>>),
  Rule(<<Sid(52), T(Reads("extract") @@ [var |-> "n", multiplier |-> 1]), Text(<<48>>), ByVar("offset", "n")>>),
  Rule(<<Sid(53), T(Reads("math") @@ [op |-> "+", rvalue |-> Arg(1), var |-> "m"]),
         T([term |-> "data_at", offset |-> [lit |-> None, var |-> "m"], relative |-> FALSE, negate |-> FALSE]), Text(<<1>>)>>),
  Rule(<<Sid(54), T(Reads("jump") @@
                     [multiplier |-> 1, align |-> FALSE, postOffset |-> 0, fromBeginning |-> FALSE]),
         T([term |-> "test", bytes |-> 1, offset |-> Arg(0), relative |-> TRUE, negate |-> FALSE,
            op |-> ">", value |-> Arg(1), fmt |-> Binary]), Text(<<48>>)>>),
  Rule(<<Sid(55), Text(<<1>>), T([term |-> "base64", bytes |-> 0, offset |-> 0, relative |-> TRUE]), Text(<<a>>)>>)>>

TheFiles == <<Streams, Several, Mixed, Values, Reaching, Counted>>
Bounds6 == <<3, 3, 3, 3, 4, 4>>
TheSides == [uri |-> "to_server", stat |-> "to_client"]
TheTraffic == <<
  [segments |-> {<<a>>, <<b>>, <<65, b>>}, buffers |-> {}, datagrams |-> {}, apps |-> {}],
  [segments |-> {<<a>>, <<b>>}, buffers |-> {<<"uri", <<a>>>>, <<"uri", <<b>>>>, <<"stat", <<a>>>>, <<"stat", <<b>>>>},
   datagrams |-> {<<"uri", <<a>>>>}, apps |-> {}],
  [segments |-> {<<a>>, <<b>>}, buffers |-> {<<"uri", <<37, 54, 49>>>>, <<"uri", <<49, a>>>>},
   datagrams |-> {<<"dns", <<a>>>>, <<"payload", <<b, a>>>>}, apps |-> {"app.http"}],
  [segments |-> {}, datagrams |-> {}, apps |-> {},
   buffers |-> {<<"uri", s>> : s \in {<<2, 2, 0>>, <<1, 2>>, <<2, 1, 2>>, <<89, 81>>, <<89, 10, 81, 61>>, <<65, 32, 9, a>>, <<65, 32, a, 58>>}}],
  [segments |-> {<<a>>, <<b>>}, buffers |-> {}, datagrams |-> {}, apps |-> {}],
  [segments |-> {<<48>>, <<50>>, <<1>>, <<89, 81>>}, buffers |-> {}, datagrams |-> {}, apps |-> {}]>>
(* Rules that grow by one of several buffers, while a connection goes on.  *)
Grown == Append(Several, Rule(<<Sid(16), In("uri"), Text(<<b>>), In("stat"), Text(<<b>>)>>))
GrowingFiles == <<Several, Grown>>
GrowingTraffic == [i \in 1 .. 2 |-> TheTraffic[2]]
Bounds2 == <<3, 3>>
Bits32 == [v4 |-> 4]
ClientIs == <<[fam |-> "v4", n |-> 1], 1>>
ServerIs == <<[fam |-> "v4", n |-> 2], 2>>
=============================================================================
