----------------------------- MODULE RuleMatch -----------------------------
(***************************************************************************)
(* The matcher (RuleSetV2 in src/rules.rs, RuleSet::check and its callers  *)
(* in src/engine.rs), on one connection and on datagrams.  Rules are found *)
(* through a prefilter: only a rule whose literal occurs is evaluated, and *)
(* on a stream only the new bytes are scanned for literals.  State that    *)
(* rules share on a connection is kept as bits, and progress of rules of   *)
(* several buffers as a sorted list that becomes a table.                  *)
(***************************************************************************)
EXTENDS RuleLoad

CONSTANTS
  Files,        \* the rules files, each a sequence of lines
  Traffic,      \* what traffic brings, by rules file
  Vars,         \* variables the rules may name
  MaxStream,    \* bounds the bytes of a connection, by rules file
  WordBits, DenseAfter

VARIABLES file, flow, stream, said
vars == <<file, flow, stream, said>>

PartDone == 15

-----------------------------------------------------------------------------
(* Building: rules by buffer and side, in slices that see the buffer the   *)
(* same way and wait for the same bit.                                     *)
AppliesTo(rule, buffer, side) == rule.buffer = buffer /\ side \in Sides(rule.direction)
GateOf(rule) ==
  LET set == SelectSeq(rule.bits, LAMBDA f : f.op = "isset") IN IF set = <<>> THEN None ELSE set[1].bit

(* A literal the buffer must hold for the rule to match: the longest, and  *)
(* of those the last.  After a base64_decode nothing reads the buffer.     *)
Required(rule) ==
  LET until == SelectInSeq(rule.terms, LAMBDA t : t.term = "base64")
      read == IF until = 0 THEN rule.terms ELSE SubSeq(rule.terms, 1, until - 1)
      usable == SelectSeq(read, LAMBDA t : IsContent(t) /\ ~t.negate /\ t.pattern \in {"literal", "nocase"} /\ t.text # <<>>)
  IN  FoldLeft(LAMBDA best, t : IF Len(t.text) >= Len(best) THEN t.text ELSE best, <<>>, usable)

Group(rules) ==
  LET keyed == SelectSeq(rules, LAMBDA r : Required(r) # <<>>)
  IN  [prefiltered |-> keyed, key |-> [i \in DOMAIN keyed |-> LowerAll(Required(keyed[i]))],
       always |-> SelectSeq(rules, LAMBDA r : Required(r) = <<>>),
       longest |-> Max({0} \cup {Len(Required(keyed[i])) : i \in DOMAIN keyed})]
Slices(rules) ==
  LET kind(r) == <<r.transforms, GateOf(r)>>
      kinds == FoldLeft(LAMBDA acc, r : IF kind(r) \in ToSet(acc) THEN acc ELSE Append(acc, kind(r)), <<>>, rules)
  IN  [i \in DOMAIN kinds |-> [transforms |-> kinds[i][1], gate |-> kinds[i][2],
                               rules |-> Group(SelectSeq(rules, LAMBDA r : kind(r) = kinds[i]))]]
Build(f) ==
  [composites |-> f.composites, names |-> f.reg.names, literals |-> f.literals, regexes |-> f.regexes,
   slices |-> [k \in {<<r.buffer, side>> : r \in ToSet(f.rules), side \in {"to_server", "to_client"}} |->
                Slices(SelectSeq(f.rules, LAMBDA r : AppliesTo(r, k[1], k[2])))]]
Loaded == [i \in DOMAIN Files |-> Load(Files[i], TRUE)]
Sets == [i \in DOMAIN Files |-> Build(Loaded[i])]

-----------------------------------------------------------------------------
(* What rules share on a connection: the bits set, of as many as there is  *)
(* room for; per composite, the parts matched and PartDone once it fired.  *)
NewBits == [room |-> 0, on |-> {}, partials |-> <<>>, dense |-> None, bytes |-> <<0, 0>>, crashed |-> FALSE]

IsSet(bits, bit) == bit < bits.room /\ bit \in bits.on
SetBit(bits, bit, on, names) ==
  LET words == (names + WordBits - 1) \div WordBits
      room == IF bits.room = 0 /\ on THEN WordBits * AtLeast(words, 1) ELSE bits.room
  IN  [bits EXCEPT !.room = room,
                   !.on = IF bit >= room THEN @ ELSE IF on THEN @ \cup {bit} ELSE @ \ {bit}]
Toggled(bits, bit, names) == SetBit(bits, bit, ~IsSet(bits, bit), names)
Effects(bits, effects, names) ==
  FoldLeft(LAMBDA b, f : CASE f.op = "set" -> SetBit(b, f.bit, TRUE, names)
                           [] f.op = "unset" -> SetBit(b, f.bit, FALSE, names)
                           [] f.op = "toggle" -> Toggled(b, f.bit, names)
                           [] OTHER -> b, bits, effects)

Progress(bits, id) ==
  IF bits.dense # None THEN bits.dense[id + 1]
  ELSE UNION {bits.partials[i][2] : i \in {k \in DOMAIN bits.partials : bits.partials[k][1] = id}}
Table(bits, size) ==
  [bits EXCEPT !.partials = <<>>,
    !.dense = [i \in 1 .. size |-> UNION {x[2] : x \in {y \in ToSet(bits.partials) : y[1] = i - 1}}]]
(* Room for a record of a composite: one more in the sorted list, or a     *)
(* table of all of them when the list is long.                             *)
Opened(bits, id, composites) ==
  LET known == \E i \in DOMAIN bits.partials : bits.partials[i][1] = id
      before == SelectSeq(bits.partials, LAMBDA x : x[1] < id)
  IN  CASE bits.dense # None \/ known -> bits
        [] Len(bits.partials) >= DenseAfter -> Table(bits, AtLeast(composites, id + 1))
        [] OTHER -> [bits EXCEPT !.partials = before \o <<<<id, {}>>>> \o SubSeq(@, Len(before) + 1, Len(@))]
Put(bits, id, mask) ==
  IF bits.dense # None THEN [bits EXCEPT !.dense[id + 1] = mask]
  ELSE [bits EXCEPT !.partials = [i \in DOMAIN @ |-> IF @[i][1] = id THEN <<id, mask>> ELSE @[i]]]
(* Whether marking this part completes the rule, and the record after.     *)
MarkPart(bits, id, idx, total, composites) ==
  LET opened == Opened(bits, id, composites)
      mask == Progress(opened, id) \cup {idx}
  IN  CASE opened.dense # None /\ id >= Len(opened.dense) -> [done |-> FALSE, bits |-> [bits EXCEPT !.crashed = TRUE]]
        [] PartDone \in Progress(opened, id) -> [done |-> FALSE, bits |-> opened]
        [] 0 .. total - 1 \subseteq mask -> [done |-> TRUE, bits |-> Put(opened, id, mask \cup {PartDone})]
        [] OTHER -> [done |-> FALSE, bits |-> Put(opened, id, mask)]

-----------------------------------------------------------------------------
(* One rule on one buffer, and the rules of a slice that match.            *)
BitsHold(rule, bits) ==
  \A f \in ToSet(rule.bits) :
    CASE f.op = "isset" -> bits # None /\ IsSet(bits, f.bit)
      [] f.op = "isnotset" -> ~(bits # None /\ IsSet(bits, f.bit))
      [] OTHER -> TRUE
Evaluate(rule, p, direction, data, bits) ==
  /\ rule.part # None => bits # None
  /\ HeaderMatches(rule.header, p, direction)
  /\ StreamHolds(rule.header, IF bits = None THEN None ELSE bits.bytes)
  /\ BitsHold(rule, bits)
  /\ ContentMatches(rule.terms, Vars, data)

(* The rules whose literals end at or after `from`, in the order found.    *)
FoundFrom(group, data, from) ==
  LET s == LowerAll(data)
      ends(i, at) == at - Len(group.key[i]) >= from /\ SubSeq(s, at - Len(group.key[i]) + 1, at) = group.key[i]
      found(acc, at) == acc \o SetToSeq({i \in DOMAIN group.key : ends(i, at)} \ ToSet(acc))
  IN  FoldLeft(found, <<>>, [at \in 1 .. Len(s) |-> at])
Matching(group, candidates, p, direction, data, bits) ==
  LET holds(r) == Evaluate(r, p, direction, data, bits)
  IN  SelectSeq([i \in DOMAIN candidates |-> group.prefiltered[candidates[i]]] \o group.always, holds)

RunGroup(slice, p, direction, data, bits) ==
  LET view == ApplyTransforms(slice.transforms, data)
  IN  Matching(slice.rules, FoundFrom(slice.rules, view, 0), p, direction, view, bits)

(* On a stream: from the last bytes of what was scanned, enough for a      *)
(* literal that straddles the join, and what was found before.             *)
NewScan == [upto |-> 0, words |-> 0, hits |-> <<>>]
(* A slip: only the new bytes are read.                                    *)
ScannedNew(scan, group, data) ==
  LET words == (Len(group.prefiltered) + WordBits - 1) \div WordBits
      fresh == IF scan.upto > Len(data) \/ scan.words # words THEN [NewScan EXCEPT !.words = words] ELSE scan
      found == SelectSeq(FoundFrom(group, data, fresh.upto), LAMBDA i : i \notin ToSet(fresh.hits))
  IN  IF group.prefiltered = <<>> THEN scan
      ELSE [fresh EXCEPT !.upto = Len(data), !.hits = @ \o found]
Scanned(scan, group, data) ==
  LET words == (Len(group.prefiltered) + WordBits - 1) \div WordBits
      fresh == IF scan.upto > Len(data) \/ scan.words # words THEN [NewScan EXCEPT !.words = words] ELSE scan
      start == AtLeast(fresh.upto - AtLeast(group.longest - 1, 0), 0)
      found == SelectSeq(FoundFrom(group, data, start), LAMBDA i : i \notin ToSet(fresh.hits))
  IN  IF group.prefiltered = <<>> THEN scan
      ELSE [fresh EXCEPT !.upto = Len(data), !.hits = @ \o found]

Open(slice, bits) == slice.gate = None \/ (bits # None /\ IsSet(bits, slice.gate))
SlicesAt(set, buffer, side) ==
  IF <<buffer, side>> \in DOMAIN set.slices THEN set.slices[<<buffer, side>>] ELSE <<>>
Concat(n, f) == FoldLeft(LAMBDA acc, i : acc \o f[i], <<>>, [i \in 1 .. n |-> i])

(* Every slice reads the state as it was on entry, and effects follow.     *)
HitOf(r) == [sid |-> r.sid, name |-> r.sid]
Reported(r) == IF r.noalert /\ ~r.xbits THEN {} ELSE {HitOf(r)}
Applied(set, st, rule) ==
  LET bits == Effects(st.bits, rule.bits, Len(set.names))
      c == set.composites[rule.part[1] + 1]
      m == MarkPart(bits, rule.part[1], rule.part[2], c.parts, Len(set.composites))
  IN  IF rule.part = None THEN [st EXCEPT !.bits = bits]
      ELSE IF ~m.done THEN [st EXCEPT !.bits = m.bits]
      ELSE [bits |-> Effects(m.bits, c.effects, Len(set.names)), hits |-> st.hits \cup Reported(c)]
AfterRules(set, matched, bits) ==
  LET own == UNION {Reported(r) : r \in ToSet(matched)}
  IN  IF bits = None THEN [bits |-> None, hits |-> own]
      ELSE FoldLeft(LAMBDA st, r : Applied(set, st, r), [bits |-> bits, hits |-> own], matched)

(* RuleSetV2::check, and its form for a stream.                            *)
Check(set, p, lookup, direction, buffer, data, bits) ==
  LET slices == SlicesAt(set, buffer, lookup)
      run == [i \in DOMAIN slices |-> IF Open(slices[i], bits) THEN RunGroup(slices[i], p, direction, data, bits) ELSE <<>>]
  IN  AfterRules(set, Concat(Len(slices), run), bits)

ScansFor(slices, scans) == IF slices # <<>> /\ Len(scans) < Len(slices) THEN [i \in DOMAIN slices |->
                             IF i \in DOMAIN scans THEN scans[i] ELSE NewScan] ELSE scans
ScansAfter(slices, kept, data, bits) ==
  [i \in DOMAIN kept |->
    IF i \in DOMAIN slices /\ (Open(slices[i], bits) /\ slices[i].transforms = <<>>)
    THEN Scanned(kept[i], slices[i].rules, data) ELSE kept[i]]
MatchedBy(slice, scan, p, side, data, bits) ==
  CASE ~Open(slice, bits) -> <<>>
    [] slice.transforms # <<>> -> RunGroup(slice, p, side, data, bits)
    [] OTHER -> Matching(slice.rules, scan.hits, p, side, data, bits)
StreamLook(set, slices, p, side, data, scans, bits) ==
  AfterRules(set, Concat(Len(slices), [i \in DOMAIN slices |-> MatchedBy(slices[i], scans[i], p, side, data, bits)]), bits)
    @@ [scans |-> scans]
CheckStream(set, p, side, data, scans, bits) ==
  LET slices == SlicesAt(set, "payload", side)
  IN  StreamLook(set, slices, p, side, data, ScansAfter(slices, ScansFor(slices, scans), data, bits), bits)

-----------------------------------------------------------------------------
(* Rules of the first form: of the literals, the first to be seen whole;   *)
(* every pattern that is there, or is not if that is asked.                *)
Old(set, buffer, side, data) ==
  LET here(seq) == {x \in ToSet(seq) : x.buffer = buffer /\ x.side = side}
      ends(x) == {i + Len(x.text) : i \in Occurrences(x.text, data, 0)}
      occurs == {x \in here(set.literals) : ends(x) # {}}
      first == {x \in occurs : \A y \in occurs : Min(ends(x)) <= Min(ends(y))}
  IN  {[sid |-> 0, name |-> x.name] : x \in (IF first = {} THEN {} ELSE {CHOOSE x \in first : TRUE})
                                             \cup {x \in here(set.regexes) : (ends(x) # {}) # x.negate}}

Also(r, hits) == [r EXCEPT !.hits = @ \cup hits]
CheckOne(set, p, lookup, direction, buffer, data, bits) ==
  Also(Check(set, p, lookup, direction, buffer, data, bits), Old(set, buffer, lookup, data))
(* Traffic of no known direction is looked up as both, and judged as it is. *)
CheckAny(set, p, buffer, data) ==
  UNION {CheckOne(set, p, side, "any", buffer, data, None).hits : side \in {"to_server", "to_client"}}

-----------------------------------------------------------------------------
(* The connection.                                                         *)
Init ==
  /\ file \in DOMAIN Files
  /\ flow = [bits |-> NewBits, scans |-> [side \in {"to_server", "to_client"} |-> <<>>]]
  /\ stream = [side \in {"to_server", "to_client"} |-> <<>>]
  /\ said = {}

Say(side, hits) == said' = said \cup {<<side, h>> : h \in hits}

(* A segment: its bytes are counted, and the whole stream is looked at.    *)
Segment(side, data) ==
  LET whole == stream[side] \o data
      counted == [flow.bits EXCEPT !.bytes[IF side = "to_server" THEN 1 ELSE 2] = @ + Len(data)]
  IN  /\ ~flow.bits.crashed
      /\ flow.bits.bytes[1] + flow.bits.bytes[2] < MaxStream[file]
      /\ stream' = [stream EXCEPT ![side] = whole]
      /\ \E r \in {CheckStream(Sets[file], Packet(side, data), side, whole, flow.scans[side], counted)} :
           /\ flow' = [flow EXCEPT !.bits = r.bits, !.scans[side] = r.scans]
           /\ Say(side, r.hits \cup Old(Sets[file], "payload", side, whole))
      /\ UNCHANGED file

(* A buffer a parser took from the stream.                                 *)
Structured(side, buffer, data) ==
  /\ ~flow.bits.crashed
  /\ SeenOn(buffer) \in {"any", side}
  /\ \E r \in {CheckOne(Sets[file], Packet(side, data), side, side, buffer, data, flow.bits)} :
       /\ flow' = [flow EXCEPT !.bits = r.bits]
       /\ Say(side, r.hits)
  /\ UNCHANGED <<file, stream>>

OneDatagram(buffer, data) ==
  /\ Say("any", CheckAny(Sets[file], Datagram(data), buffer, data))
  /\ UNCHANGED <<file, flow, stream>>

(* The connection is recognised as speaking a protocol some rule names.    *)
MarkApp(app) ==
  /\ app \in ToSet(Sets[file].names)
  /\ flow' = [flow EXCEPT !.bits = SetBit(@, BitOf([names |-> Sets[file].names], app), TRUE, Len(Sets[file].names))]
  /\ UNCHANGED <<file, stream, said>>

Next ==
  \/ \E side \in {"to_server", "to_client"}, data \in Traffic[file].segments : Segment(side, data)
  \/ \E side \in {"to_server", "to_client"}, b \in Traffic[file].buffers : Structured(side, b[1], b[2])
  \/ \E b \in Traffic[file].datagrams : OneDatagram(b[1], b[2])
  \/ \E app \in Traffic[file].apps : MarkApp(app)
Spec == Init /\ [][Next]_vars

(* New rules, while the connection goes on with what it knew of the old.   *)
Reload ==
  /\ \E f \in DOMAIN Files : f > file /\ file' = f
  /\ UNCHANGED <<flow, stream, said>>
ReloadSpec == Init /\ [][Next \/ Reload]_vars
=============================================================================
