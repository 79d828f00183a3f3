------------------------------ MODULE RuleLoad ------------------------------
(***************************************************************************)
(* Reading a rules file (src/rules.rs, and RuleSet::load in src/engine.rs).*)
(* A line is a sequence of options, read in order into a rule, or into one *)
(* rule per buffer and a composite that says when all have matched.  What  *)
(* an option's value looks like as text is left out: a value that does not *)
(* read is the option "bad".                                               *)
(***************************************************************************)
EXTENDS RuleTerms

CONSTANTS
  SideOf,       \* buffer -> the only side it is seen on, or "any"
  MaxParts, MaxVars

SeenOn(buffer) == IF buffer \in DOMAIN SideOf THEN SideOf[buffer] ELSE "any"
Sides(direction) == IF direction = "any" THEN {"to_server", "to_client"} ELSE {direction}

(* Names of bits, by id, and how many composite ids were handed out.       *)
NewRegistry == [names |-> <<>>, composites |-> 0]
Interned(reg, name) == IF name \in ToSet(reg.names) THEN reg ELSE [reg EXCEPT !.names = Append(@, name)]
BitOf(reg, name) == SelectInSeq(reg.names, LAMBDA n : n = name) - 1

Arg(n) == [lit |-> n, var |-> None]
NoArg == Arg(None)
NewContent(pattern, text, anchored, negate) ==
  [term |-> "content", pattern |-> pattern, text |-> text, anchored |-> anchored, tail |-> <<>>, toEnd |-> FALSE, budget |-> 8,
   negate |-> negate, offset |-> NoArg, depth |-> NoArg, distance |-> NoArg, within |-> NoArg, resume |-> FALSE]

-----------------------------------------------------------------------------
(* Reading one line.                                                       *)
NewLine(reg) ==
  [ok |-> TRUE, sid |-> None, buffer |-> "payload", direction |-> "any", header |-> {}, terms |-> <<>>,
   finished |-> <<>>, bits |-> <<>>, noalert |-> FALSE, xbits |-> FALSE, vars |-> {}, reg |-> reg]
Bad(p) == [p EXCEPT !.ok = FALSE]

IsContent(t) == t.term = "content"
IsCondition(f) == f.op \in {"isset", "isnotset"}
IsTransform(t) == t.term = "transform"

(* A modifier reaches back to the last content of its own buffer.          *)
OnContent(p, field, value) ==
  LET i == SelectLastInSeq(p.terms, IsContent)
  IN  IF i = 0 THEN Bad(p) ELSE [p EXCEPT !.terms[i][field] = value]
LastContent(p) == p.terms[SelectLastInSeq(p.terms, IsContent)]
Modified(p, x) ==
  IF SelectLastInSeq(p.terms, IsContent) = 0 \/ (x.var # None /\ x.var \notin p.vars) THEN Bad(p)
  ELSE OnContent(p, x.o, IF x.var = None THEN [LastContent(p)[x.o] EXCEPT !.lit = x.lit]
                         ELSE [LastContent(p)[x.o] EXCEPT !.var = x.var])

(* The arguments of a term that may name a variable, and the variable it   *)
(* sets.  A binary number has a width; a text may be as long as it likes.  *)
ArgsOf(t) == CASE t.term = "test" -> {t.offset, t.value} [] t.term = "data_at" -> {t.offset}
               [] t.term = "math" -> {t.rvalue} [] OTHER -> {}
WidthStated(t) == t.term \in {"test", "jump", "extract", "math"} => t.fmt.text \/ t.bytes \in 1 .. MaxBytes
AddTerm(p, t) ==
  LET defined == IF t.term \in {"extract", "math"} THEN p.vars \cup {t.var} ELSE p.vars
  IN  IF ~WidthStated(t) \/ ~({a.var : a \in ArgsOf(t)} \subseteq p.vars \cup {None}) \/ Cardinality(defined) > MaxVars
      THEN Bad(p)
      ELSE [p EXCEPT !.terms = Append(@, t), !.vars = defined]

Option(p, x) ==
  CASE x.o = "bad" -> Bad(p)
    [] x.o \in {"sid", "direction"} -> [p EXCEPT ![x.o] = x.v]
    [] x.o = "noalert" -> [p EXCEPT !.noalert = TRUE]
    [] x.o = "xbits" -> [p EXCEPT !.xbits = TRUE]
    [] x.o = "header" -> [p EXCEPT !.header = {c \in @ : c.what # x.v.what} \cup {x.v}]
    [] x.o = "buffer" ->
         IF p.terms = <<>> THEN [p EXCEPT !.buffer = x.v]
         ELSE [p EXCEPT !.buffer = x.v, !.terms = <<>>, !.finished = Append(@, <<p.buffer, p.terms>>)]
    [] x.o = "relative" ->
         IF SelectLastInSeq(p.terms, IsContent) = 0 \/ LastContent(p).pattern \in {"literal", "nocase"} THEN Bad(p)
         ELSE OnContent(OnContent(p, "resume", TRUE), "distance", [LastContent(p).distance EXCEPT !.lit = 0])
    [] x.o = "nocase" ->
         IF SelectLastInSeq(p.terms, IsContent) = 0 THEN Bad(p)
         ELSE IF LastContent(p).pattern # "literal" THEN p
         ELSE OnContent(OnContent(p, "text", LowerAll(LastContent(p).text)), "pattern", "nocase")
    [] x.o \in {"offset", "depth", "distance", "within"} -> Modified(p, x)
    [] x.o = "transform" ->
         IF \A i \in DOMAIN p.terms : IsTransform(p.terms[i])
         THEN [p EXCEPT !.terms = Append(@, [term |-> "transform", t |-> x.v])] ELSE Bad(p)
    [] x.o = "term" -> AddTerm(p, x.v)
    [] x.o = "flowbits" ->
         LET reg == Interned(p.reg, x.name)
         IN  [p EXCEPT !.reg = reg, !.bits = Append(@, [op |-> x.v, bit |-> BitOf(reg, x.name)])]

-----------------------------------------------------------------------------
(* What a line that was read to its end may say.                           *)
Positive(terms) == \E i \in DOMAIN terms : IsContent(terms[i]) /\ ~terms[i].negate
HasContent(terms) == \E i \in DOMAIN terms : IsContent(terms[i])
TestsPacket(header) ==
  \E c \in header : c.what \in {"icmp_type", "icmp_code", "ip_proto", "window", "flags", "stream"}
(* The first term must have something to be measured from.                 *)
StartsRelative(terms) ==
  LET read == SelectSeq(terms, LAMBDA t : ~IsTransform(t))
  IN  read # <<>> /\ IsContent(read[1]) /\ IsRelative(read[1])
ViewOf(terms) == LET ts == SelectSeq(terms, IsTransform) IN [i \in DOMAIN ts |-> ts[i].t]
TermsOf(terms) == SelectSeq(terms, LAMBDA t : ~IsTransform(t))

Single(p, buffer, terms) ==
  [sid |-> p.sid, buffer |-> buffer, direction |-> p.direction, header |-> p.header, terms |-> TermsOf(terms),
   transforms |-> ViewOf(terms), bits |-> p.bits, noalert |-> p.noalert, xbits |-> p.xbits, part |-> None]
SingleRefused(p, terms) ==
  LET strong == TestsPacket(p.header) \/ \E i \in DOMAIN p.bits : IsCondition(p.bits[i])
  IN  \/ ~strong /\ ~Positive(terms)
      \/ StartsRelative(terms)
      \/ p.sid = None

(* A rule of several buffers: conditions gate each part, effects wait for  *)
(* the last.  Everything is checked before an id is taken.                 *)
PartRefused(part) ==
  \/ ~Positive(part[2]) /\ ~\E i \in DOMAIN part[2] : part[2][i].term \in {"content", "len", "test"}
  \/ ~Positive(part[2]) /\ part[1] = "payload"
  \/ StartsRelative(part[2])
CompositeRefused(p, parts) ==
  \/ p.sid = None \/ Len(parts) > MaxParts
  \/ \A i \in DOMAIN parts : ~Positive(parts[i][2])
  \/ \E i \in DOMAIN parts : PartRefused(parts[i])
PartRule(p, parts, i) ==
  [Single(p, parts[i][1], parts[i][2]) EXCEPT
    !.direction = IF SeenOn(parts[i][1]) = "any" THEN p.direction ELSE SeenOn(parts[i][1]),
    !.bits = SelectSeq(p.bits, IsCondition), !.noalert = TRUE, !.xbits = FALSE,
    !.part = <<p.reg.composites, i - 1>>]
Lowered(p, parts) ==
  [rules |-> [i \in DOMAIN parts |-> PartRule(p, parts, i)],
   composite |-> [id |-> p.reg.composites, sid |-> p.sid, parts |-> Len(parts), noalert |-> p.noalert,
                  xbits |-> p.xbits, effects |-> SelectSeq(p.bits, LAMBDA f : ~IsCondition(f))]]

(* A slip: the id of a composite is taken before the line is known good.   *)
RefusedLate(reg) == [ok |-> FALSE, reg |-> [reg EXCEPT !.composites = @ + 1]]
Refused(reg) == [ok |-> FALSE, reg |-> reg]
PartsOf(p) ==
  IF p.finished = <<>> \/ p.terms # <<>> THEN Append(p.finished, <<p.buffer, p.terms>>) ELSE p.finished
Concluded(p, parts) ==
  CASE ~p.ok -> Refused(p.reg)
    [] p.ok /\ Len(parts) > 1 ->
         IF CompositeRefused(p, parts) THEN Refused(p.reg)
         ELSE [ok |-> TRUE, reg |-> [p.reg EXCEPT !.composites = @ + 1]] @@ Lowered(p, parts)
    [] OTHER ->
         IF SingleRefused(p, parts[1][2]) THEN Refused(p.reg)
         ELSE [ok |-> TRUE, reg |-> p.reg, rules |-> <<Single(p, parts[1][1], parts[1][2])>>, composite |-> None]
LineEnd(p) == Concluded(p, PartsOf(p))
Parsed(line, reg) == LineEnd(FoldLeft(LAMBDA acc, x : IF acc.ok THEN Option(acc, x) ELSE acc, NewLine(reg), line))

-----------------------------------------------------------------------------
(* A file.  The first form of rule is a name, a buffer, a direction, a     *)
(* kind and a pattern: [v1 |-> ...]; the second is [v2 |-> options].       *)
NewFile == [ok |-> TRUE, errors |-> 0, literals |-> <<>>, regexes |-> <<>>, rules |-> <<>>,
            composites |-> <<>>, reg |-> NewRegistry]

LineRefused(f, reg, lenient) ==
  IF lenient THEN [f EXCEPT !.errors = @ + 1, !.reg = reg] ELSE [f EXCEPT !.ok = FALSE]
OldLine(f, x, lenient) ==
  LET negate == x.kind \in {"not_literal", "not_regex"}
      where == SetToSeq(Sides(x.direction))
      entries == [i \in DOMAIN where |->
                   [name |-> x.name, buffer |-> x.buffer, side |-> where[i], text |-> x.text, negate |-> negate]]
  IN  CASE x.kind = "bad" \/ (negate /\ x.buffer = "payload") -> LineRefused(f, f.reg, lenient)
        [] x.kind = "literal" -> [f EXCEPT !.literals = @ \o entries]
        [] OTHER -> [f EXCEPT !.regexes = @ \o entries]
WithLine(f, r, lenient) ==
  IF ~r.ok THEN LineRefused(f, r.reg, lenient)
  ELSE [f EXCEPT !.reg = r.reg, !.rules = @ \o r.rules,
                 !.composites = IF r.composite = None THEN @ ELSE Append(@, r.composite)]
NewForm(f, line, lenient) == WithLine(f, Parsed(line, f.reg), lenient)
Load(lines, lenient) ==
  FoldLeft(LAMBDA f, x : IF ~f.ok THEN f ELSE IF "v1" \in DOMAIN x THEN OldLine(f, x.v1, lenient)
                         ELSE NewForm(f, x.v2, lenient), NewFile, lines)

(* What the matcher refuses to build from.                                 *)
Buildable(f) ==
  /\ \A i \in DOMAIN f.composites : f.composites[i].id = i - 1
  /\ \A i \in DOMAIN f.rules :
       f.rules[i].part # None =>
         /\ f.rules[i].part[1] < Len(f.composites)
         /\ f.rules[i].part[2] < f.composites[f.rules[i].part[1] + 1].parts
=============================================================================
