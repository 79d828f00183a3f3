----------------------------- MODULE RulePlain -----------------------------
(***************************************************************************)
(* What a rules file promises: every rule is tried on every buffer it is   *)
(* about, reading the state of the connection as it is when the buffer     *)
(* comes; then what the matching rules do is done, in some order.  There   *)
(* is no prefilter, no memory of what was scanned, and no bound on state.  *)
(***************************************************************************)
EXTENDS RuleLoad

CONSTANTS Files, Traffic, Vars

VARIABLES
  file, stream, said,
  bytes,        \* bytes to the server and to the client
  on,           \* bits that are set
  marks         \* composite id -> parts that have matched
vars == <<file, stream, said, bytes, on, marks>>

Loaded == [i \in DOMAIN Files |-> Load(Files[i], TRUE)]
Rules == ToSet(Loaded[file].rules)
Whole(c) == 0 .. c.parts - 1

Holds(rule, p, direction, data, connected) ==
  /\ connected \/ rule.part = None
  /\ HeaderMatches(rule.header, p, direction)
  /\ StreamHolds(rule.header, IF connected THEN bytes' ELSE None)
  /\ \A f \in ToSet(rule.bits) : IsCondition(f) => ((connected /\ f.bit \in on) = (f.op = "isset"))
  /\ ContentMatches(rule.terms, Vars, ApplyTransforms(rule.transforms, data))
Matching(sides, p, direction, buffer, data, connected) ==
  {r \in Rules : r.buffer = buffer /\ sides \cap Sides(r.direction) # {} /\ Holds(r, p, direction, data, connected)}

After(now, effects) ==
  FoldLeft(LAMBDA s, f : CASE f.op = "set" -> s \cup {f.bit} [] f.op = "unset" -> s \ {f.bit}
                           [] f.op = "toggle" -> IF f.bit \in s THEN s \ {f.bit} ELSE s \cup {f.bit}
                           [] OTHER -> s, now, effects)
Reported(r) == IF r.noalert /\ ~r.xbits THEN {} ELSE {[sid |-> r.sid, name |-> r.sid]}
Do(st, rule) ==
  LET c == Loaded[file].composites[rule.part[1] + 1]
      now == After(st.on, rule.bits)
      seen == st.marks[c.id] \cup {rule.part[2]}
  IN  IF rule.part = None THEN [st EXCEPT !.on = now, !.hits = @ \cup Reported(rule)]
      ELSE IF st.marks[c.id] # Whole(c) /\ seen = Whole(c)
      THEN [on |-> After(now, c.effects), marks |-> [st.marks EXCEPT ![c.id] = seen], hits |-> st.hits \cup Reported(c)]
      ELSE [st EXCEPT !.on = now, !.marks[c.id] = seen]

(* Rules of the first form: one of the literals that are there is told,    *)
(* and every pattern that is as asked.                                     *)
Old(buffer, sides, data) ==
  LET about(x) == x.buffer = buffer /\ x.side \in sides
      there(x) == Occurrences(x.text, data, 0) # {}
      told(x) == [sid |-> 0, name |-> x.name]
  IN  [one |-> {told(x) : x \in {y \in ToSet(Loaded[file].literals) : about(y) /\ there(y)}},
       all |-> {told(x) : x \in {y \in ToSet(Loaded[file].regexes) : about(y) /\ there(y) # y.negate}}]

Init ==
  /\ file \in DOMAIN Files
  /\ stream = [side \in {"to_server", "to_client"} |-> <<>>]
  /\ said = {} /\ bytes = <<0, 0>> /\ on = {}
  /\ marks = [c \in 0 .. Len(Loaded[file].composites) - 1 |-> {}]

Tell(side, hits, old) ==
  \E one \in IF old.one = {} THEN {{}} ELSE {{h} : h \in old.one} :
    said' = said \cup {<<side, h>> : h \in hits \cup old.all \cup one}
Look(side, p, buffer, data) ==
  \E after \in {FoldLeft(LAMBDA st, r : Do(st, r), [on |-> on, marks |-> marks, hits |-> {}], order) :
                 order \in SetToSeqs(Matching({side}, p, side, buffer, data, TRUE))} :
    /\ on' = after.on
    /\ marks' = after.marks
    /\ Tell(side, after.hits, Old(buffer, {side}, data))

Segment(side, data) ==
  /\ stream' = [stream EXCEPT ![side] = @ \o data]
  /\ bytes' = [bytes EXCEPT ![IF side = "to_server" THEN 1 ELSE 2] = @ + Len(data)]
  /\ Look(side, Packet(side, data), "payload", stream'[side])
  /\ UNCHANGED file
Structured(side, buffer, data) ==
  /\ UNCHANGED <<file, stream, bytes>>
  /\ Look(side, Packet(side, data), buffer, data)
(* A datagram has no connection: nothing is set for it, and it sets nothing.*)
OneDatagram(buffer, data) ==
  LET both == {"to_server", "to_client"}
      hits == UNION {Reported(r) : r \in Matching(both, Datagram(data), "any", buffer, data, FALSE)}
      old == Old(buffer, both, data)
  IN  /\ UNCHANGED <<file, stream, bytes, on, marks>>
      /\ \E some \in SUBSET old.one :
           /\ old.one # {} => some # {}
           /\ said' = said \cup {<<"any", h>> : h \in hits \cup old.all \cup some}
MarkApp(app) ==
  /\ app \in ToSet(Loaded[file].reg.names)
  /\ on' = on \cup {BitOf(Loaded[file].reg, app)}
  /\ UNCHANGED <<file, stream, said, bytes, marks>>

Next ==
  \/ \E side \in {"to_server", "to_client"}, data \in Traffic[file].segments : Segment(side, data)
  \/ \E side \in {"to_server", "to_client"}, b \in Traffic[file].buffers : Structured(side, b[1], b[2])
  \/ \E b \in Traffic[file].datagrams : OneDatagram(b[1], b[2])
  \/ \E app \in Traffic[file].apps : MarkApp(app)
Spec == Init /\ [][Next]_vars
=============================================================================
