-------------------------------- MODULE Mail --------------------------------
(***************************************************************************)
(* A worker's datagrams as the readers of application protocols see them   *)
(* (src/main.rs, the datagram branch of the worker).  Each comes alone, in *)
(* any order, again or never, and may have been cut short by the capture;  *)
(* only QUIC's first packets are put together across datagrams.  A letter  *)
(* is a frame with what its sender put into it.  The last section sets the *)
(* datagrams beside the connections of Inspection.                         *)
(***************************************************************************)
EXTENDS Inspection

(***************************************************************************)
(* From a captured frame to a packet (src/packet.rs): VLAN tags, the IPv4  *)
(* header or the chain of IPv6 headers, and the transport's ports.  What a *)
(* header declares and the capture does not hold is taken as far as it     *)
(* goes; a piece of a fragmented datagram has no transport header.         *)
(***************************************************************************)

CONSTANTS MaxTags, MaxHops, MaxInspect

Tcp == 6
Udp == 17
Icmps == {1, 58}
Ipv4Type == 2048
Ipv6Type == 34525
TagTypes == {33024, 34984}

(* The innermost type and where its payload starts.                        *)
RECURSIVE Untagged(_, _, _, _)
Untagged(raw, type, offset, tags) ==
  IF type \notin TagTypes \/ tags >= MaxTags THEN [type |-> type, offset |-> offset]
  ELSE IF ~Has(raw, offset, 4) THEN None
  ELSE Untagged(raw, BE(raw, offset + 2, 2), offset + 4, tags + 1)
EthernetPayload(raw) == IF ~Has(raw, 0, 14) THEN None ELSE Untagged(raw, BE(raw, 12, 2), 14, 0)
VlanId(raw) ==
  IF ~Has(raw, 0, 16) THEN 0 ELSE IF BE(raw, 12, 2) \notin TagTypes THEN 0 ELSE BE(raw, 14, 2) % 4096

NewPacket == [src |-> <<>>, dst |-> <<>>, protocol |-> 0, from |-> 0, to |-> 0, flags |-> 0,
              icmp |-> <<0, 0>>, payload |-> <<>>, vlan |-> 0, fragment |-> FALSE]

CopyPayload(data) == Slice(data, 0, Min({Len(data), MaxInspect}))
Ported(p, t) == [p EXCEPT !.from = BE(t, 0, 2), !.to = BE(t, 2, 2)]
ParseTransport(p, t) ==
  CASE p.protocol = Tcp /\ Has(t, 0, 20) ->
         LET at == 4 * (At(t, 12) \div 16)
         IN  [Ported(p, t) EXCEPT !.flags = At(t, 13),
                                  !.payload = IF at >= 20 /\ Len(t) > at THEN CopyPayload(From(t, at)) ELSE @]
    [] p.protocol = Udp /\ Has(t, 0, 8) -> [Ported(p, t) EXCEPT !.payload = CopyPayload(From(t, 8))]
    [] p.protocol \in Icmps /\ Has(t, 0, 2) ->
         [p EXCEPT !.icmp = Slice(t, 0, 2), !.payload = CopyPayload(From(t, 8))]
    [] OTHER -> p

(* How far the datagram reaches: as declared, if that makes sense.         *)
Reach(declared, least, ip) == IF declared > Len(ip) \/ declared < least THEN Len(ip) ELSE declared

(***************************************************************************)
(* IPv4.                                                                   *)
(***************************************************************************)
HeaderLength(ip) == 4 * (At(ip, 0) % 16)
IsIpv4(ip) ==
  Has(ip, 0, 20) /\ At(ip, 0) \div 16 = 4 /\ HeaderLength(ip) >= 20 /\ Has(ip, 0, HeaderLength(ip))
Body4(ip) ==
  LET n == HeaderLength(ip) IN Slice(ip, n, Reach(BE(ip, 2, 2), n, ip) - n)
FragmentAt4(ip) == 8 * (BE(ip, 6, 2) % 8192)
More4(ip) == Bit(At(ip, 6), 5)
(* A slip: only the pieces after the first are taken for fragments.        *)
IsFragment4Later(ip) == FragmentAt4(ip) > 0
IsFragment4(ip) == More4(ip) \/ FragmentAt4(ip) > 0

ParseIpv4(ip) ==
  IF ~IsIpv4(ip) THEN None
  ELSE LET p == [NewPacket EXCEPT !.src = Slice(ip, 12, 4), !.dst = Slice(ip, 16, 4),
                                  !.protocol = At(ip, 9), !.fragment = IsFragment4(ip)]
       IN  IF p.fragment THEN p ELSE ParseTransport(p, Body4(ip))

Ipv4Fragment(ip) ==
  IF ~IsIpv4(ip) THEN None
  ELSE IF ~More4(ip) /\ FragmentAt4(ip) = 0 THEN None
  ELSE [id |-> BE(ip, 4, 2), offset |-> FragmentAt4(ip), more |-> More4(ip),
        protocol |-> At(ip, 9), payload |-> Body4(ip)]

(***************************************************************************)
(* IPv6: a chain of headers, each naming the next.                         *)
(***************************************************************************)
IsIpv6(ip) == Has(ip, 0, 40) /\ At(ip, 0) \div 16 = 6
End6(ip) == Reach(40 + BE(ip, 4, 2), 40, ip)
Options == {0, 43, 60}
FragmentHeader == 44
Authentication == 51

(* The length of an option or authentication header, if it is all there.   *)
ExtensionLength(next, ip, off) ==
  LET end == End6(ip)
      n == IF next = Authentication THEN 4 * (At(ip, off + 1) + 2) ELSE 8 * (At(ip, off + 1) + 1)
  IN  IF off + 2 > end THEN None ELSE IF off + n > end THEN None ELSE n
FragmentOffset6(ip, off) == 8 * (BE(ip, off + 2, 2) \div 8)
More6(ip, off) == Bit(BE(ip, off + 2, 2), 0)
IsFragment6(ip, off) == More6(ip, off) \/ FragmentOffset6(ip, off) > 0

(* Where the chain ends; given up when a header is cut or there are too    *)
(* many.                                                                   *)
RECURSIVE ChainEnd(_, _, _, _, _)
ChainEnd(ip, next, off, hops, fragment) ==
  LET stop(up) == [up |-> up, next |-> next, off |-> off, fragment |-> fragment]
      n == ExtensionLength(next, ip, off)
  IN  IF next = FragmentHeader
      THEN IF off + 8 > End6(ip) \/ hops > MaxHops THEN stop(TRUE)
           ELSE ChainEnd(ip, At(ip, off), off + 8, hops + 1, fragment \/ IsFragment6(ip, off))
      ELSE IF next \in Options \cup {Authentication}
      THEN IF hops > MaxHops THEN stop(TRUE)
           ELSE IF n = None THEN stop(TRUE)
           ELSE ChainEnd(ip, At(ip, off), off + n, hops + 1, fragment)
      ELSE stop(FALSE)

AfterChain(ip, c) ==
  LET p == [NewPacket EXCEPT !.src = Slice(ip, 8, 16), !.dst = Slice(ip, 24, 16), !.fragment = c.fragment]
  IN  IF c.up THEN p
      ELSE IF c.fragment THEN [p EXCEPT !.protocol = c.next]
      ELSE ParseTransport([p EXCEPT !.protocol = c.next], Slice(ip, c.off, End6(ip) - c.off))
ParseIpv6(ip) == IF ~IsIpv6(ip) THEN None ELSE AfterChain(ip, ChainEnd(ip, At(ip, 6), 40, 0, FALSE))

RECURSIVE FragmentIn(_, _, _, _)
FragmentIn(ip, next, off, hops) ==
  LET n == ExtensionLength(next, ip, off)
  IN  IF hops > MaxHops THEN None
      ELSE IF next = FragmentHeader
      THEN IF off + 8 > End6(ip) THEN None
           ELSE IF ~IsFragment6(ip, off) THEN None
           ELSE [id |-> Slice(ip, off + 4, 4), offset |-> FragmentOffset6(ip, off), more |-> More6(ip, off),
                 protocol |-> At(ip, off), payload |-> Slice(ip, off + 8, End6(ip) - off - 8)]
      ELSE IF next \notin Options \cup {Authentication} THEN None
      ELSE IF n = None THEN None
      ELSE FragmentIn(ip, At(ip, off), off + n, hops + 1)
Ipv6Fragment(ip) == IF ~IsIpv6(ip) THEN None ELSE FragmentIn(ip, At(ip, 6), 40, 0)

(***************************************************************************)
(* A frame.                                                                *)
(***************************************************************************)
ParseByType(type, ip) ==
  IF type = Ipv4Type THEN ParseIpv4(ip) ELSE IF type = Ipv6Type THEN ParseIpv6(ip) ELSE None
OnVlan(p, id) == IF p = None THEN None ELSE [p EXCEPT !.vlan = id]
ParseInner(raw, inner) ==
  IF inner = None THEN None ELSE OnVlan(ParseByType(inner.type, From(raw, inner.offset)), VlanId(raw))
ParseFrame(raw) == ParseInner(raw, EthernetPayload(raw))
FragmentInner(inner, ip) ==
  IF inner.type = Ipv4Type THEN Ipv4Fragment(ip)
  ELSE IF inner.type = Ipv6Type THEN Ipv6Fragment(ip) ELSE None
FragmentOf(raw) ==
  LET inner == EthernetPayload(raw)
  IN  IF inner = None THEN None ELSE FragmentInner(inner, From(raw, inner.offset))

(***************************************************************************)
(* The text of an IPv6 address: its groups, with the first of the longest  *)
(* runs of two or more zeros left out.                                     *)
(***************************************************************************)
Groups(a) == [i \in 1 .. 8 |-> BE(a, 2 * (i - 1), 2)]
Joined(g) == FlattenSeq([i \in DOMAIN g |-> IF i = 1 THEN <<Number(g[i])>> ELSE <<Colon, Number(g[i])>>])
ZeroRun(g, start) ==
  LET stops == {i \in start .. 8 : g[i] # 0} IN (IF stops = {} THEN 9 ELSE Min(stops)) - start
FormatIpv6(a) ==
  LET g == Groups(a)
      longest == Max({ZeroRun(g, i) : i \in 1 .. 8})
      start == Min({i \in 1 .. 8 : ZeroRun(g, i) = longest})
  IN  IF longest < 2 THEN Joined(g)
      ELSE Joined(SubSeq(g, 1, start - 1)) \o <<Colon, Colon>> \o Joined(SubSeq(g, start + longest, 8))

GroupsIn(s) ==
  IF s = <<>> THEN <<>> ELSE [i \in DOMAIN SplitAt(s, Colon) |-> NumberOf(SplitAt(s, Colon)[i])]
ParseIpv6Literal(s) ==
  LET at == Find(s, <<Colon, Colon>>)
      head == GroupsIn(IF at = None THEN s ELSE Slice(s, 0, at))
      tail == GroupsIn(From(s, at + 2))
      zeros == [i \in 1 .. 8 - Len(head) - Len(tail) |-> 0]
      all == IF at = None THEN head ELSE head \o zeros \o tail
  IN  IF at # None /\ Len(head) + Len(tail) > 8 THEN None
      ELSE IF Len(all) # 8 THEN None
      ELSE FlattenSeq([i \in 1 .. 8 |-> <<all[i] \div 256, all[i] % 256>>])

-----------------------------------------------------------------------------

CONSTANTS Mails   \* what may come: frames, cuts, and how many arrive

VARIABLES
  mail,
  sessions,   \* QUIC hellos being collected
  log         \* what came, and what was told of it

mailVars == <<mail, sessions, log>>

Port(p, ports) == {p.from, p.to} \cap ports # {}

OrNothing(told) == IF told = None THEN <<>> ELSE told
(* Over UDP the rules are told of Kerberos, and a refusal is the server's. *)
KerberosRead(b, fromServer) ==
  SelectSeq(OrNothing(KerberosTold(ParseKerberos(b), fromServer)), LAMBDA t : t[1] \notin {"user", "attempt"})

(* The readers known by their ports; QUIC is known by its shape.           *)
PortRead(p) ==
  (IF Port(p, {53}) THEN DnsTold(p.payload) ELSE <<>>)
  \o (IF Port(p, {88}) THEN KerberosRead(p.payload, p.from = 88) ELSE <<>>)
  \o (IF Port(p, {69}) THEN TftpTold(p.payload) ELSE <<>>)
  \o (IF Port(p, {161, 162}) THEN SnmpTold(p.payload) ELSE <<>>)

(* What a frame is taken for, and what is told of it.                      *)
ReadsQuic(s, p, key) ==
  IF LooksLikeInitial(p.payload) THEN QuicRead(s, p.payload, key) ELSE [sessions |-> s, hello |-> None]
HeardPacket(s, p, key) ==
  LET deaf == [packet |-> p, told |-> <<>>, hello |-> None, sessions |-> s]
  IN  IF p = None THEN deaf ELSE IF p.protocol # Udp THEN deaf
      ELSE ReadsQuic(s, p, key) @@ [packet |-> p, told |-> PortRead(p)]
Heard(s, raw, key) == HeardPacket(s, ParseFrame(raw), key)

MailInit == mail \in Mails /\ sessions = NewSessions /\ log = <<>>

Arrive ==
  /\ Len(log) < mail.arrivals
  /\ \E i \in DOMAIN mail.letters, cut \in mail.cuts :
       LET letter == mail.letters[i]
           raw == Slice(letter.frame, 0, Max({0, Len(letter.frame) - cut}))
       IN  \E heard \in {Heard(sessions, raw, letter.key)} :
             /\ sessions' = heard.sessions
             /\ log' = Append(log, [letter |-> i, whole |-> cut = 0, packet |-> heard.packet,
                                    told |-> heard.told, hello |-> heard.hello,
                                    piece |-> FragmentOf(raw) # None,
                                    cleared |-> sessions'.refused > sessions.refused])
  /\ UNCHANGED mail

-----------------------------------------------------------------------------
(* A frame is taken for what was sent, its sender named as who it is; one  *)
(* that was cut short tells a part of that and nothing else.  The packet   *)
(* and the reassembler agree on what is a piece of a datagram.             *)
PacketTrue(letter, e) ==
  LET p == e.packet
  IN  /\ p.src = letter.src /\ p.vlan = letter.vlan
      /\ Len(p.src) = 16 => ParseIpv6Literal(FormatIpv6(p.src)) = p.src
      /\ p.fragment = e.piece
      /\ e.whole /\ ~p.fragment => /\ <<p.from, p.to>> = letter.ports
                                   /\ p.payload = CopyPayload(letter.payload)
      /\ <<p.from, p.to>> \in {<<0, 0>>, letter.ports}
      /\ Begins(letter.payload, p.payload)
ReadTrue ==
  log # <<>> =>
    LET e == Last(log)
        letter == mail.letters[e.letter]
    IN  /\ e.whole => e.packet # None /\ e.told = letter.says
        /\ ToSet(e.told) \subseteq ToSet(letter.says)
        /\ e.packet # None => PacketTrue(letter, e)

(* The pieces of a hello that have come since it was last told or the      *)
(* table was last emptied.                                                 *)
KeyOf(e) == mail.letters[e.letter].key
Collected(id) ==
  LET last == Len(log)
      anew == {k \in 1 .. last : log[k].cleared}
              \cup {k + 1 : k \in {j \in 1 .. last - 1 : log[j].hello # None /\ KeyOf(log[j]) = id}}
      start == Max(anew \cup {1})
  IN  {log[k].letter : k \in {j \in start .. last : log[j].whole /\ KeyOf(log[j]) = id}}
Pieces(id) == {i \in DOMAIN mail.letters : mail.letters[i].key = id}

(* Whatever the order, the repeats and the other connections: a hello is   *)
(* told with the packet that completes it, as it was sent.  It is told     *)
(* early only when a piece between its first and its last is missing.      *)
HellosTrue ==
  log # <<>> =>
    LET e == Last(log)
        id == KeyOf(e)
        got == Collected(id)
        ends == {Min(Pieces(id)), Max(Pieces(id))}
    IN  id # None =>
          /\ got = Pieces(id) /\ e.whole => e.hello = mail.hello[id]
          /\ e.hello # None => e.whole /\ ends \subseteq got

(***************************************************************************)
(* Both kinds of a worker's traffic before its readers: a connection       *)
(* (Inspection), or datagrams.  They share the readers and no state.       *)
(***************************************************************************)

Quiet == [port |-> 0, cap |-> 0, wants |-> FALSE, turns |-> <<>>,
          says |-> [s \in Sides |-> <<>>], body |-> [s \in Sides |-> <<>>], ends |-> [s \in Sides |-> TRUE]]
NoMail == [letters |-> <<>>, cuts |-> {}, arrivals |-> 0, hello |-> <<>>]

ReadersInit ==
  \/ Init /\ mail = NoMail /\ sessions = NewSessions /\ log = <<>>
  \/ MailInit /\ scene = Quiet /\ pos = 0 /\ conn = NewConn /\ closed = [s \in Sides |-> "alone"]

ReadersNext == (Next /\ UNCHANGED mailVars) \/ (Arrive /\ UNCHANGED vars)
ReadersSpec == ReadersInit /\ [][ReadersNext]_<<vars, mailVars>>
=============================================================================
