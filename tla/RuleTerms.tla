----------------------------- MODULE RuleTerms -----------------------------
(***************************************************************************)
(* What a rule asks of one packet and one buffer (src/rules.rs): the       *)
(* header conditions, the transforms of a buffer, and the terms, a small   *)
(* program over a cursor.  A buffer is a sequence of bytes.  The regex     *)
(* libraries are external: a pattern of theirs is a text and perhaps a     *)
(* tail after anything, `text.*tail`, and it may be anchored at the front  *)
(* or at the end of what is searched.                                      *)
(***************************************************************************)
EXTENDS Integers, Sequences, FiniteSets, FiniteSetsExt, SequencesExt, Bitwise

CONSTANTS
  None,
  Width,        \* bits of an i64 and a u64
  MaxBytes,     \* bytes a binary number may have
  AddrBits,     \* family -> bits of its addresses
  Client, Server        \* <<address, port>> of a connection

ASSUME TermsAssumption == Width \in 2 .. 30 /\ 8 * MaxBytes <= Width

(* The packet that brings some bytes of the connection, or a datagram.     *)
Packet(side, data) ==
  LET from == IF side = "to_server" THEN Client ELSE Server
      to == IF side = "to_server" THEN Server ELSE Client
  IN  [proto |-> "tcp", src |-> from[1], dst |-> to[1], sport |-> from[2], dport |-> to[2],
       flags |-> {"psh", "ack"}, len |-> Len(data), icmp_type |-> 0, icmp_code |-> 0, window |-> 1]
Datagram(data) == [Packet("to_server", data) EXCEPT !.proto = "udp", !.flags = {}]

AtMost(a, b) == IF a < b THEN a ELSE b
AtLeast(a, b) == IF a > b THEN a ELSE b

-----------------------------------------------------------------------------
(* The header.  An address is a family and a number; a set of either kind  *)
(* that is empty stands for any.                                           *)
PrefixEq(net, addr, bits) ==
  /\ net.fam = addr.fam
  /\ LET low == 2 ^ (AddrBits[net.fam] - bits) IN net.n \div low = addr.n \div low

IpMatches(m, addr) ==
  IF m.prefixes = {} THEN ~m.negate
  ELSE (\E x \in m.prefixes : PrefixEq(x.net, addr, x.bits)) # m.negate
PortMatches(m, port) ==
  IF m.ranges = {} THEN ~m.negate
  ELSE (\E r \in m.ranges : r.lo <= port /\ port <= r.hi) # m.negate

Compare(op, n, a) ==
  CASE op = "=" -> n = a  [] op = "!=" -> n # a
    [] op = "<" -> n < a  [] op = ">" -> n > a
    [] op = "<=" -> n <= a [] op = ">=" -> n >= a
LenHolds(t, n) == IF t.op = "<>" THEN t.a < n /\ n < t.b ELSE Compare(t.op, n, t.a)

FlagsHold(t, p) ==
  /\ p.proto = "tcp"
  /\ LET seen == p.flags \ t.ignore
         want == t.flags \ t.ignore
     IN  CASE t.mode = "exact" -> seen = want
           [] t.mode = "all" -> want \subseteq seen
           [] t.mode = "any" -> seen \cap want # {}
           [] t.mode = "none" -> seen \cap want = {}

(* One condition of a rule's header, on the packet as the rule sees it:    *)
(* source and destination are client and server.                           *)
Swapped(p, direction) ==
  IF direction = "to_client"
  THEN [p EXCEPT !.src = p.dst, !.dst = p.src, !.sport = p.dport, !.dport = p.sport] ELSE p
ProtoNumber == [tcp |-> 6, udp |-> 17, icmp |-> 1, icmpv6 |-> 58]
ConditionHolds(c, p) ==
  CASE c.what = "proto" -> p.proto = c.test
    [] c.what = "payload_len" -> LenHolds(c.test, p.len)
    [] c.what \in {"src_ip", "dst_ip"} -> IpMatches(c.test, IF c.what = "src_ip" THEN p.src ELSE p.dst)
    [] c.what \in {"src_port", "dst_port"} ->
         PortMatches(c.test, IF c.what = "src_port" THEN p.sport ELSE p.dport)
    [] c.what \in {"icmp_type", "icmp_code"} -> p.proto \in {"icmp", "icmpv6"} /\ LenHolds(c.test, p[c.what])
    [] c.what = "ip_proto" -> LenHolds(c.test, ProtoNumber[p.proto])
    [] c.what = "window" -> p.proto = "tcp" /\ LenHolds(c.test, p.window)
    [] c.what = "flags" -> FlagsHold(c.test, p)
    [] OTHER -> TRUE
HeaderMatches(header, p, direction) ==
  \A c \in header : ConditionHolds(c, Swapped(p, direction))

(* stream_size: bytes <<to the server, to the client>>, or None for a      *)
(* datagram, which has no stream.                                          *)
StreamHolds(header, bytes) ==
  \A c \in {x \in header : x.what = "stream"} :
    /\ bytes # None
    /\ LET cmp(n) == Compare(c.test.op, n, c.test.bytes)
       IN  CASE c.test.side = "server" -> cmp(bytes[2])
             [] c.test.side = "client" -> cmp(bytes[1])
             [] c.test.side = "both" -> cmp(bytes[1]) /\ cmp(bytes[2])
             [] c.test.side = "either" -> cmp(bytes[1]) \/ cmp(bytes[2])

-----------------------------------------------------------------------------
(* Transforms of a buffer.                                                 *)
Digit(b, radix) ==
  LET d == CASE b \in 48 .. 57 -> b - 48 [] b \in 97 .. 102 -> b - 87
             [] b \in 65 .. 70 -> b - 55 [] OTHER -> radix
  IN  IF d < radix THEN d ELSE None
White == {32, 9, 13, 10, 11, 12}
Lower(b) == IF b \in 65 .. 90 THEN b + 32 ELSE b
LowerAll(s) == [i \in DOMAIN s |-> Lower(s[i])]

Escape(s, i) == s[i] = 37 /\ i + 2 <= Len(s) /\ Digit(s[i + 1], 16) # None /\ Digit(s[i + 2], 16) # None
Unescaped(s, plus) ==
  LET from[i \in 1 .. Len(s) + 1] ==
        IF i > Len(s) THEN <<>>
        ELSE IF Escape(s, i) THEN <<16 * Digit(s[i + 1], 16) + Digit(s[i + 2], 16)>> \o from[i + 3]
        ELSE <<IF plus /\ s[i] = 43 THEN 32 ELSE s[i]>> \o from[i + 1]
  IN  from[1]
NamesLowered(s) ==
  LET line(i) == CHOOSE a \in 1 .. i : (a = 1 \/ s[a - 1] = 10) /\ \A k \in a .. i - 1 : s[k] # 10
      named(i) == \E c \in i + 1 .. Len(s) : s[c] = 58 /\ \A k \in line(i) .. c - 1 : s[k] \notin {10, 58}
  IN  [i \in DOMAIN s |-> IF named(i) THEN Lower(s[i]) ELSE s[i]]
Squeezed(s) ==
  FoldLeft(LAMBDA out, b : IF b \notin White THEN Append(out, b)
                           ELSE IF out # <<>> /\ Last(out) = 32 THEN out ELSE Append(out, 32), <<>>, s)
Transformed(t, s) ==
  CASE t = "percent_decode" -> Unescaped(s, FALSE)
    [] t = "url_decode" -> Unescaped(s, TRUE)
    [] t = "header_lowercase" -> NamesLowered(s)
    [] t = "strip_whitespace" -> SelectSeq(s, LAMBDA b : b \notin White)
    [] t = "compress_whitespace" -> Squeezed(s)
ApplyTransforms(ts, s) == FoldLeft(LAMBDA cur, t : Transformed(t, cur), s, ts)

-----------------------------------------------------------------------------
(* Numbers.  Arithmetic on an i64 is checked; a u64 made of one wraps.     *)
MaxInt == 2 ^ (Width - 1) - 1
Checked(n) == IF -MaxInt - 1 <= n /\ n <= MaxInt THEN n ELSE None
Unsigned(n) == IF n < 0 THEN n + 2 ^ Width ELSE n
Shift(base, delta) == IF base + delta < 0 THEN None ELSE base + delta

(* An argument is a number or the name of a variable nothing may have set. *)
Resolve(arg, vars) == IF arg.var # None THEN vars[arg.var] ELSE arg.lit
Given(arg) == arg.var # None \/ arg.lit # None

BinaryAt(fmt, s, at, bytes) ==
  IF bytes \notin 1 .. MaxBytes \/ at + bytes > Len(s) THEN None
  ELSE LET digits == SubSeq(s, at + 1, at + bytes)
       IN  [v |-> FoldLeft(LAMBDA acc, b : acc * 256 + b, 0,
                           IF fmt.little THEN Reverse(digits) ELSE digits), after |-> at + bytes]
TextAt(fmt, s, at, bytes) ==
  LET end == AtMost(at + bytes, Len(s))
      stop == Min({end} \cup {i \in at .. end - 1 : Digit(s[i + 1], fmt.radix) = None})
      v == FoldLeft(LAMBDA acc, b : acc * fmt.radix + Digit(b, fmt.radix), 0, SubSeq(s, at + 1, stop))
  IN  IF at >= Len(s) \/ stop = at \/ v >= 2 ^ Width THEN None ELSE [v |-> v, after |-> stop]
NumberAt(fmt, s, at, bytes) == IF fmt.text THEN TextAt(fmt, s, at, bytes) ELSE BinaryAt(fmt, s, at, bytes)

(* Where a numeric term reads, and what it reads there.                    *)
ReadBy(t, offset, st) ==
  LET at == Shift(IF t.relative THEN st.cursor ELSE 0, offset)
  IN  IF at = None THEN None ELSE NumberAt(t.fmt, st.view, at, t.bytes)

ByteOp(op, read, value) ==
  CASE op = "and" -> (read & value) = value
    [] op = "or" -> (read & value) # 0
    [] OTHER -> Compare(op, read, value)

Quotient(a, b) == IF b > 0 THEN a \div b ELSE -(a \div (-b))
MathOp(op, a, b) ==
  CASE op = "+" -> Checked(a + b) [] op = "-" -> Checked(a - b) [] op = "*" -> Checked(a * b)
    [] op = "/" -> IF b = 0 THEN None ELSE Checked(Quotient(a, b))
    [] op = "<<" -> IF b \notin 0 .. Width - 1 THEN None
                    ELSE LET r == (a % 2 ^ (Width - b)) * 2 ^ b IN IF r > MaxInt THEN r - 2 ^ Width ELSE r
    [] op = ">>" -> IF b \notin 0 .. Width - 1 THEN None ELSE a \div 2 ^ b

Sextet(b) ==
  CASE b \in 65 .. 90 -> b - 65 [] b \in 97 .. 122 -> b - 71 [] b \in 48 .. 57 -> b + 4
    [] b \in {43, 45} -> 62 [] b \in {47, 95} -> 63 [] OTHER -> None
Base64Decoded(s) ==
  LET stop == Min({Len(s)} \cup {i - 1 : i \in {k \in DOMAIN s : s[k] = 61}})
      step(st, b) ==
        LET acc == st.acc * 64 + Sextet(b)
            bits == st.bits + 6
        IN  IF Sextet(b) = None THEN st
            ELSE IF bits < 8 THEN [st EXCEPT !.acc = acc, !.bits = bits]
            ELSE [out |-> Append(st.out, acc \div 2 ^ (bits - 8)), acc |-> acc % 2 ^ (bits - 8), bits |-> bits - 8]
  IN  FoldLeft(step, [out |-> <<>>, acc |-> 0, bits |-> 0], SubSeq(s, 1, stop)).out

-----------------------------------------------------------------------------
(* A content: the window it may look at, and the first match in it, as     *)
(* <<start, end>>.                                                         *)
IsRelative(c) == Given(c.distance) \/ Given(c.within) \/ c.resume

(* A slip: `within` is counted from where `distance` put the start.        *)
BoundsFromStart(c, len, cursor, vars) ==
  LET v == [k \in {"offset", "depth", "distance", "within"} |-> Resolve(c[k], vars)]
      or0(k) == IF Given(c[k]) THEN v[k] ELSE 0
      start == IF IsRelative(c) THEN AtMost(AtLeast(cursor + or0("distance"), 0), len)
               ELSE AtMost(AtLeast(or0("offset"), 0), len)
      limit == IF IsRelative(c) THEN "within" ELSE "depth"
  IN  IF \E k \in DOMAIN v : Given(c[k]) /\ v[k] = None THEN None
      ELSE <<start, IF Given(c[limit]) THEN AtMost(start + AtLeast(v[limit], 0), len) ELSE len>>
Bounds(c, len, cursor, vars) ==
  LET v == [k \in {"offset", "depth", "distance", "within"} |-> Resolve(c[k], vars)]
      or0(k) == IF Given(c[k]) THEN v[k] ELSE 0
      start == IF IsRelative(c) THEN AtMost(AtLeast(cursor + or0("distance"), 0), len)
               ELSE AtMost(AtLeast(or0("offset"), 0), len)
      limit == IF IsRelative(c) THEN "within" ELSE "depth"
      base == IF IsRelative(c) THEN cursor ELSE start
  IN  IF \E k \in DOMAIN v : Given(c[k]) /\ v[k] = None THEN None
      ELSE <<start, IF Given(c[limit]) THEN AtMost(base + AtLeast(v[limit], 0), len) ELSE len>>

Occurrences(text, s, from) == {i \in from .. Len(s) - Len(text) : SubSeq(s, i + 1, i + Len(text)) = text}
(* A slip: the last place it occurs.                                       *)
Rightmost(S, len) == IF S = {} THEN None ELSE <<Max(S), Max(S) + len>>
Leftmost(S, len) == IF S = {} THEN None ELSE <<Min(S), Min(S) + len>>

(* A regular expression begins as early and, being greedy, ends as late as *)
(* it can: where depends on the bytes that follow.                         *)
Ends(c, s, start) ==
  LET after == start + Len(c.text)
      ends == IF c.tail = <<>> THEN {after} ELSE {i + Len(c.tail) : i \in Occurrences(c.tail, s, after)}
  IN  {e \in ends : c.toEnd => e = Len(s)}
Found(c, s, from) ==
  LET starts == {i \in Occurrences(c.text, s, from) : (c.anchored => i = 0) /\ Ends(c, s, i) # {}}
  IN  IF starts = {} THEN None ELSE <<Min(starts), Max(Ends(c, s, Min(starts)))>>

(* A backtracking pattern gives up on more text than its budget is for:    *)
(* that is no match, or one if the term is negated.                        *)
PatternIn(c, s, from) ==
  LET n == Len(c.text)
  IN  CASE c.pattern = "literal" -> IF n = 0 THEN None ELSE Leftmost(Occurrences(c.text, s, from), n)
        [] c.pattern = "nocase" -> IF n = 0 THEN None ELSE Leftmost(Occurrences(c.text, LowerAll(s), from), n)
        [] c.pattern = "regex" -> Found(c, s, from)
        [] c.pattern = "backtrack" -> IF Len(s) <= c.budget THEN Found(c, s, from)
                                      ELSE IF c.negate THEN <<from, from>> ELSE None

Moved(m, by) == IF m = None THEN None ELSE <<by + m[1], by + m[2]>>
FindWithin(c, s, b) ==
  IF b = None THEN None
  ELSE IF b[1] > b[2] THEN None ELSE Moved(PatternIn(c, SubSeq(s, b[1] + 1, b[2]), 0), b[1])
FindContent(c, s, cursor, vars) ==
  IF c.resume THEN PatternIn(c, s, AtMost(cursor, Len(s)))
  ELSE FindWithin(c, s, Bounds(c, Len(s), cursor, vars))

-----------------------------------------------------------------------------
(* One term, on the state of the evaluation.                               *)
Passes(st, test) == [st EXCEPT !.ok = test]
Binds(st, var, v) == IF v = None THEN Passes(st, FALSE) ELSE [st EXCEPT !.vars[var] = v]

AfterContent(st, c, m) ==
  IF m = None THEN Passes(st, c.negate)
  ELSE IF c.negate THEN Passes(st, FALSE) ELSE [st EXCEPT !.cursor = m[2]]
Content(st, c) == AfterContent(st, c, FindContent(c, st.view, st.cursor, st.vars))
Test(st, t) ==
  LET offset == Resolve(t.offset, st.vars)
      value == Resolve(t.value, st.vars)
      r == ReadBy(t, offset, st)
      hit == r # None /\ ByteOp(t.op, r.v, Unsigned(value))
  IN  IF offset = None \/ value = None THEN Passes(st, t.negate)
      ELSE IF Shift(IF t.relative THEN st.cursor ELSE 0, offset) = None THEN Passes(st, t.negate)
      ELSE Passes(st, hit # t.negate)
Aligned(j, far) == IF j.align THEN ((far + 3) \div 4) * 4 ELSE far
Target(j, r) ==
  IF r = None THEN None
  ELSE Shift(Aligned(j, (IF j.fromBeginning THEN 0 ELSE r.after) + r.v * j.multiplier), j.postOffset)
GoTo(st, target) ==
  IF target = None THEN Passes(st, FALSE)
  ELSE IF target > Len(st.view) THEN Passes(st, FALSE) ELSE [st EXCEPT !.cursor = target]
Jump(st, j) == GoTo(st, Target(j, ReadBy(j, j.offset, st)))
Extract(st, e) ==
  LET r == ReadBy(e, e.offset, st)
  IN  Binds(st, e.var, IF r = None \/ r.v > MaxInt THEN None ELSE Checked(r.v * e.multiplier))
MathTerm(st, m) ==
  LET r == ReadBy(m, m.offset, st)
      rhs == Resolve(m.rvalue, st.vars)
  IN  Binds(st, m.var, IF r = None \/ rhs = None \/ r.v > MaxInt THEN None ELSE MathOp(m.op, r.v, rhs))
DataAt(st, d) ==
  LET offset == Resolve(d.offset, st.vars)
      base == IF d.relative THEN st.cursor ELSE 0
  IN  Passes(st, IF offset = None THEN d.negate
                 ELSE (base + AtLeast(offset, 0) < Len(st.view)) # d.negate)
Base64(st, b) ==
  LET at == Shift(IF b.relative THEN st.cursor ELSE 0, b.offset)
      start == AtMost(at, Len(st.view))
      end == IF b.bytes = 0 THEN Len(st.view) ELSE AtMost(start + b.bytes, Len(st.view))
  IN  IF at = None THEN Passes(st, FALSE)
      ELSE [st EXCEPT !.view = Base64Decoded(SubSeq(st.view, start + 1, end)), !.cursor = 0]

Term(st, t) ==
  CASE t.term = "content" -> Content(st, t)
    [] t.term = "test" -> Test(st, t)
    [] t.term = "jump" -> Jump(st, t)
    [] t.term = "len" -> Passes(st, LenHolds(t.test, Len(st.view)))
    [] t.term = "data_at" -> DataAt(st, t)
    [] t.term = "extract" -> Extract(st, t)
    [] t.term = "math" -> MathTerm(st, t)
    [] t.term = "base64" -> Base64(st, t)

ContentMatches(terms, vars, s) ==
  FoldLeft(LAMBDA st, t : IF st.ok THEN Term(st, t) ELSE st,
           [ok |-> TRUE, cursor |-> 0, vars |-> [v \in vars |-> None], view |-> s], terms).ok
=============================================================================
