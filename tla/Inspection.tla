----------------------------- MODULE Inspection -----------------------------
(***************************************************************************)
(* One TCP connection as the readers of application protocols see it       *)
(* (src/engine.rs, the second half of FlowTable::observe).  Reassembly     *)
(* gives each side's bytes in order but in segments of any size; with      *)
(* every segment each reader that has not latched is run over what is      *)
(* buffered, cursors take what is newly complete, and a tap hashes a body  *)
(* as it passes.                                                           *)
(*                                                                         *)
(* What the rules are told is kept by side and buffer: what they make of   *)
(* it is the subject of RuleMatch.                                         *)
(***************************************************************************)
EXTENDS Http, Tls, Lan

CONSTANTS
  Scenes,       \* a connection: its port, its turns and what they say
  Cuts,         \* sizes a segment may have
  MinAppBytes   \* bytes after which a connection is judged by its port

VARIABLES
  scene,
  pos,          \* bytes delivered, over all turns
  conn,         \* the two halves and what has been told
  closed        \* side -> how its FIN came: "no", "alone" or "riding" on data

vars == <<scene, pos, conn, closed>>

Sides == {"client", "server"}
Recorded == {"http.uri", "http.host", "tls.sni", "tls.ja3", "ssh.version", "user", "rpc", "file"}

NewHalf == [buffer |-> <<>>, done |-> {}, line |-> 0, smb2 |-> 0, modbus |-> 0, dnp3 |-> 0,
            dropped |-> FALSE, tap |-> None, file |-> None]
NewConn == [half |-> [s \in Sides |-> NewHalf], head |-> FALSE,
            told |-> [s \in Sides |-> <<>>], record |-> [f \in Recorded |-> None]]

(***************************************************************************)
(* The tap: it sees whole segments, also what the buffer has no room for.  *)
(***************************************************************************)
WithTap(h, tap) ==
  IF tap.done THEN [h EXCEPT !.tap = None, !.file = Finish(tap)] ELSE [h EXCEPT !.tap = tap]
Tapped(h, data) == IF h.tap = None THEN h ELSE WithTap(h, Fed(h.tap, data))

Appended(h, data) ==
  LET take == Min({Len(data), scene.cap - Len(h.buffer)})
  IN  Tapped([h EXCEPT !.buffer = @ \o Slice(data, 0, take),
                       !.dropped = @ \/ take < Len(data)], data)

(* A slip: the tap starts with the next segment.                           *)
TapAtNext(h, m) ==
  IF m.length = 0 /\ ~m.chunked THEN h
  ELSE [h EXCEPT !.tap = NewTap(m.length, m.chunked, h.dropped)]
InstallTap(h, m) ==
  IF m.length = 0 /\ ~m.chunked THEN h
  ELSE Tapped([h EXCEPT !.tap = NewTap(m.length, m.chunked, h.dropped)], From(h.buffer, m.offset))

FinishOnClose(h) ==
  IF h.tap = None THEN h ELSE [h EXCEPT !.tap = None, !.file = Finish(h.tap)]

Framed(m) == m.length # None \/ m.chunked
WantsRequest(m) == scene.wants /\ Framed(m)
WantsResponse(m, head) == scene.wants /\ (Framed(m) \/ m.closes) /\ ~head /\ ~Bodiless(m)

FileTold(h) == IF h.file = None THEN <<>> ELSE <<<<"file", h.file>>>>
Taken(h) == [h EXCEPT !.file = None]

(***************************************************************************)
(* The readers that look at the front of the stream, until each latches.   *)
(***************************************************************************)
OneShots == <<"request", "response", "tls", "hello", "certs", "rdp">>
LateShots == <<"smb1", "ntlm", "kerberos", "ldap", "rpc">>   \* after the cursors

On(reader, side) ==
  CASE reader \in {"hello", "certs"} -> side = "server" /\ scene.wants
    [] reader = "kerberos" -> scene.port = 88
    [] reader = "ldap" -> scene.port \in {389, 3268}
    [] reader = "rpc" -> scene.port \in {135, 445}
    [] OTHER -> TRUE

(* What a reader makes of a buffer: None while it cannot tell.             *)
Reading(reader, b, side) ==
  CASE reader = "request" -> RequestTold(ParseRequest(b))
    [] reader = "response" -> ResponseTold(ParseResponse(b))
    [] reader = "tls" -> HelloTold(ParseClientHello(b))
    [] reader = "hello" -> ServerHelloTold(ServerHello(b))
    [] reader = "certs" -> CertsTold(b)
    [] reader = "rdp" -> RdpTold(b)
    [] reader = "smb1" -> Smb1Told(ParseSmb1(b))
    [] reader = "ntlm" -> NtlmTold(ParseNtlm(b))
    [] reader = "kerberos" -> KerberosTold(ParseKerberos(b), side = "server")
    [] reader = "ldap" -> LdapTold(ParseLdap(b), side = "server")
    [] reader = "rpc" -> DcerpcTold(b)

Full(h) == Len(h.buffer) >= scene.cap
Latches(reader, h, told) ==
  \/ told # None
  \/ Full(h)
  \/ reader = "response" /\ ~Begins(h.buffer, <<HttpVersion>>)

Read(st, half, told) == [st EXCEPT !.half = half, !.told = @ \o told]
Latched(st, run, told) ==
  LET latched == {run[i] : i \in {j \in DOMAIN run : Latches(run[j], st.half, told[j])}}
  IN  Read(st, [st.half EXCEPT !.done = @ \cup latched], FlattenSeq(SelectSeq(told, LAMBDA t : t # None)))
FrontRead(st, side, shots) ==
  LET run == SelectSeq(shots, LAMBDA r : r \notin st.half.done /\ On(r, side))
  IN  Latched(st, run, [i \in DOMAIN run |-> Reading(run[i], st.half.buffer, side)])

(* Hashing starts with the head, if the body is framed.  A request whose   *)
(* body is not is identified by what of it is buffered.                    *)
AfterRequest(h, req) ==
  IF req = None THEN h
  ELSE IF WantsRequest(req) THEN InstallTap(h, req)
  ELSE IF scene.wants THEN [h EXCEPT !.file = FileOf(Update(NewHasher, req.body))] ELSE h
AfterResponse(h, resp, head) ==
  IF resp = None THEN h ELSE IF WantsResponse(resp, head) THEN InstallTap(h, resp) ELSE h
TellFile(st, h) == Read(st, Taken(h), FileTold(h))
AfterHeads(st, req, resp) ==
  LET head == IF req # None THEN req.method = <<HeadMethod>> ELSE st.head
  IN  TellFile([st EXCEPT !.head = head], AfterResponse(AfterRequest(st.half, req), resp, head))
BodyRead(st, old) ==
  AfterHeads(st, IF "request" \in old.done THEN None ELSE ParseRequest(st.half.buffer),
             IF "response" \in old.done THEN None ELSE ParseResponse(st.half.buffer))

(***************************************************************************)
(* The cursors: lines, SMB2 messages, and two protocols known by port.     *)
(***************************************************************************)
Each(found, Told1(_)) == FlattenSeq([i \in DOMAIN found |-> Told1(found[i])])
LineTold(line, side) ==
  (IF side = "server" /\ FailureLine(line, scene.port) # None
   THEN <<<<"failure", FailureLine(line, scene.port)>>>> ELSE <<>>)
  \o FtpTold(line) \o SmtpTold(line)

LineRead(st, side) ==
  LET h == st.half
      new == NewLines(h.buffer, h.line)
      ssh == "ssh" \notin h.done /\ new.found # <<>>
  IN  Read(st, [h EXCEPT !.line = new.at, !.done = IF ssh \/ Full(h) THEN @ \cup {"ssh"} ELSE @],
           (IF ssh THEN SshTold(new.found[1]) ELSE <<>>) \o Each(new.found, LAMBDA l : LineTold(l, side)))

Smb2Read(st, side) ==
  LET new == Smb2Messages(st.half.buffer, st.half.smb2)
  IN  Read(st, [st.half EXCEPT !.smb2 = new.at], Each(new.found, LAMBDA m : Smb2Told(m, side = "server")))

GivenUp(h, reader, lost) == IF lost THEN h.done \cup {reader} ELSE h.done
(* A slip: a message that has been told is looked at again.                *)
ModbusReread(st) ==
  LET new == ModbusMessages(st.half.buffer, st.half.modbus)
  IN  IF scene.port # 502 \/ "modbus" \in st.half.done THEN st
      ELSE Read(st, [st.half EXCEPT !.done = GivenUp(st.half, "modbus", new.lost)], Each(new.found, ModbusTold))
ModbusRead(st) ==
  LET new == ModbusMessages(st.half.buffer, st.half.modbus)
  IN  IF scene.port # 502 \/ "modbus" \in st.half.done THEN st
      ELSE Read(st, [st.half EXCEPT !.modbus = new.at, !.done = GivenUp(st.half, "modbus", new.lost)],
                Each(new.found, ModbusTold))
Dnp3Read(st) ==
  LET new == Dnp3Frames(st.half.buffer, st.half.dnp3)
  IN  IF scene.port # 20000 \/ "dnp3" \in st.half.done THEN st
      ELSE Read(st, [st.half EXCEPT !.dnp3 = new.at, !.done = GivenUp(st.half, "dnp3", new.lost)],
                Each(new.found, Dnp3Told))

(***************************************************************************)
(* One segment of one side.                                                *)
(***************************************************************************)
(* However many attempts a segment shows, the last is the one counted.     *)
OneAttempt(told) ==
  LET is(t) == t[1] = "attempt"
      i == SelectLastInSeq(told, is)
  IN  SelectSeq(told, LAMBDA t : ~is(t)) \o (IF i = 0 THEN <<>> ELSE <<told[i]>>)

Cursors(st, side) ==
  Dnp3Read(ModbusRead(FrontRead(Smb2Read(LineRead(st, side), side), side, LateShots)))
ReadAll(h, side, head) ==
  Cursors(BodyRead(FrontRead([half |-> h, head |-> head, told |-> <<>>], side, OneShots), h), side)

Tell(f, told) ==
  LET add(acc, t) == [b \in DOMAIN acc \cup {t[1]} |->
        (IF b \in DOMAIN acc THEN acc[b] ELSE <<>>) \o (IF b = t[1] THEN <<t[2]>> ELSE <<>>)]
  IN  FoldLeft(add, f, told)

(* The connection's record keeps the first of each.                        *)
Noted(record, told) ==
  [f \in Recorded |->
     LET i == SelectLastInSeq(told, LAMBDA t : t[1] = f)
     IN  IF record[f] # None \/ i = 0 THEN record[f] ELSE told[i][2]]

(* A FIN ends a body that has no length before its own segment is read.    *)
Said(c, side, read, atFin, fin) ==
  LET told == atFin \o OneAttempt(read.told)
  IN  [c EXCEPT !.half[side] = read.half, !.head = read.head, !.told[side] = Tell(@, told),
                !.record = Noted(Noted(@, IF fin THEN atFin ELSE <<>>), told)]
Arrived(c, side, data, h, fin) ==
  Said(c, side, IF data = <<>> THEN [half |-> Taken(h), head |-> c.head, told |-> <<>>]
                ELSE ReadAll(Taken(h), side, c.head), FileTold(h), fin)
Segment(c, side, data, fin) ==
  LET came == IF data = <<>> THEN c.half[side] ELSE Appended(c.half[side], data)
  IN  Arrived(c, side, data, IF fin THEN FinishOnClose(came) ELSE came, fin)

(* At the close: a well-known port whose traffic never read as its own.    *)
ProtocolAnomaly(c) ==
  /\ Len(c.half["client"].buffer) >= MinAppBytes
  /\ \/ scene.port \in {80, 8080, 8000} /\ c.record["http.uri"] = None
     \/ scene.port \in {443, 8443} /\ c.record["tls.ja3"] = None
     \/ scene.port = 22 /\ c.record["ssh.version"] = None

-----------------------------------------------------------------------------
Turns == scene.turns
Before(i) == FoldLeft(LAMBDA n, t : n + Len(t.bytes), 0, SubSeq(Turns, 1, i - 1))
TurnAt(p) == Max({i \in DOMAIN Turns : Before(i) <= p})
Total == Before(Len(Turns) + 1)
LastTurnOf(side) == SelectLastInSeq(Turns, LAMBDA t : t.from = side)

Init ==
  /\ scene \in Scenes
  /\ pos = 0 /\ conn = NewConn /\ closed = [s \in Sides |-> "no"]

Deliver ==
  /\ pos < Total
  /\ LET i == TurnAt(pos)
         turn == Turns[i]
         at == pos - Before(i)
     IN  /\ closed[turn.from] = "no"
         /\ \E k \in Cuts, fin \in BOOLEAN :
               LET n == Min({k, Len(turn.bytes) - at})
               IN  /\ fin => at + n = Len(turn.bytes) /\ LastTurnOf(turn.from) = i
                   /\ conn' = Segment(conn, turn.from, Slice(turn.bytes, at, n), fin)
                   /\ closed' = IF fin THEN [closed EXCEPT ![turn.from] = "riding"] ELSE closed
                   /\ pos' = pos + n
  /\ UNCHANGED scene

(* A FIN may come early, with bytes still owed.                            *)
CloseSide ==
  /\ \E side \in Sides :
       /\ closed[side] = "no"
       /\ pos > 0 => pos = Total \/ Turns[TurnAt(pos - 1)].from = side
       /\ conn' = Segment(conn, side, <<>>, TRUE)
       /\ closed' = [closed EXCEPT ![side] = "alone"]
  /\ UNCHANGED <<scene, pos>>

Next == Deliver \/ CloseSide
Spec == Init /\ [][Next]_vars

-----------------------------------------------------------------------------
(* The same bytes with each turn in one piece.                             *)
WholeTurns(p) ==
  FoldLeft(LAMBDA c, i : Segment(c, Turns[i].from,
                                 Slice(Turns[i].bytes, 0, Min({Len(Turns[i].bytes), p - Before(i)})), FALSE),
           NewConn, SelectSeq([i \in DOMAIN Turns |-> i], LAMBDA i : Before(i) < p))

(* What may depend on the cuts: how much of a body is buffered when its    *)
(* head is complete, files of close-ended bodies, how many attempts share  *)
(* a segment, NTLM fields that come after the first bytes of their         *)
(* message, and a certificate that does not share a segment with the       *)
(* server's hello.                                                         *)
Certs == {"tls.cert_subject", "tls.cert_issuer", "tls.cert_serial", "tls.certs"}
Ntlm == {"ntlm.user", "ntlm.domain", "ntlm.workstation"}
Loose == Certs \cup Ntlm \cup {"http.body", "file", "attempt", "user"}
ToldOf(c, side, b) == IF b \in DOMAIN c.told[side] THEN c.told[side][b] ELSE <<>>

(* What the rules are told of a stream, and what its record and its        *)
(* closing verdict say, do not depend on how it was cut into segments.     *)
SameAsWhole(whole) ==
  /\ \A side \in Sides : \A b \in (DOMAIN conn.told[side] \cup DOMAIN whole.told[side]) \ Loose :
       ToldOf(conn, side, b) = ToldOf(whole, side, b)
  /\ \A f \in Recorded \ Loose : conn.record[f] = whole.record[f]
  /\ ProtocolAnomaly(conn) = ProtocolAnomaly(whole)

(* What depends on the cuts is still true: a body told is the start of the *)
(* body, a certificate or an account told is the one that was sent, and    *)
(* attempts are seen if any is there to be seen.                           *)
LooseIsTrue(whole) ==
  \A side \in Sides :
    /\ \A b \in Certs \cup Ntlm :
         ToldOf(conn, side, b) \in {<<>>, ToldOf(whole, side, b)}
    /\ Len(ToldOf(conn, side, "http.body")) <= 1
    /\ \A v \in ToSet(ToldOf(conn, side, "http.body")) :
         Begins(ToldOf(whole, side, "http.body")[1], v)
    /\ ToldOf(conn, side, "attempt") = <<>> <=> ToldOf(whole, side, "attempt") = <<>>

(* The stream is its author's, and not its segments'.                      *)
AsWhole(whole) == SameAsWhole(whole) /\ LooseIsTrue(whole)
ToldAsWhole == AsWhole(WholeTurns(pos))

(* The buffers keep their cap, and no cursor passes what has come.         *)
TypeOK ==
  /\ pos \in 0 .. Total /\ closed \in [Sides -> {"no", "alone", "riding"}]
  /\ \A side \in Sides :
       LET h == conn.half[side]
       IN  /\ Len(h.buffer) <= scene.cap
           /\ {h.line, h.smb2, h.modbus, h.dnp3} \subseteq 0 .. Len(h.buffer)
           /\ h.done \subseteq ToSet(OneShots \o LateShots) \cup {"ssh", "modbus", "dnp3"}
           /\ h.file = None

(* Everything the traffic was made to say is told, once it has all come;   *)
(* on the way no reader passes what it has been given.                     *)
EverythingSaid ==
  /\ TypeOK
  /\ pos = Total =>
       \A side \in Sides : \A b \in DOMAIN scene.says[side] :
         ToldOf(conn, side, b) = scene.says[side][b]

(* The digest reported for a file is the file's: its whole body without    *)
(* the framing, or what a limit or an early close left of it.  A body with *)
(* an end of its own is reported when that end has come, and one that runs *)
(* to the close at the close, unless its only segment carried the FIN; one *)
(* that overran the buffer may go untold, for the head may have been late. *)
FilesTrue ==
  \A side \in Sides :
    LET files == ToldOf(conn, side, "file")
        body == scene.body[side]
        early == closed[side] # "no" /\ pos < Total
    IN  /\ Len(files) <= 1
        /\ \A f \in ToSet(files) :
             /\ Begins(body, f.digest)
             /\ f.digest = body \/ f.truncated \/ early
             /\ f.truncated => Len(f.digest) = MaxHash
        /\ pos = Total /\ body # <<>> /\ (scene.ends[side] \/ closed[side] = "alone")
             /\ ~conn.half[side].dropped => files # <<>>
=============================================================================
