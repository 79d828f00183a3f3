---------------------------- MODULE MCInspection ----------------------------
EXTENDS Mail
TheCuts == {1, 5, 57, 1000}
MagicTable == <<[at |-> 0, sig |-> <<77, 90>>, name |-> "pe"]>>
DescriptionTable == <<[at |-> 2, sig |-> <<7>>, name |-> "tar"], [at |-> 0, sig |-> <<77, 90>>, name |-> "PE32"]>>

Pad(n) == [i \in 1 .. n |-> 0]
L8(s) == <<Len(s)>> \o s
L16(s) == <<0, Len(s)>> \o s
L24(s) == <<0, 0, Len(s)>> \o s
D(tag, s) == <<tag>> \o L8(s)
F(tag, s) == [client |-> tag, server |-> s]
Turn(from, bytes) == [from |-> from, bytes |-> bytes]
Plain(port, turns, client, server) ==
  [port |-> port, cap |-> 200, wants |-> TRUE, turns |-> turns,
   says |-> [client |-> client, server |-> server],
   body |-> [client |-> <<>>, server |-> <<>>], ends |-> [client |-> TRUE, server |-> TRUE]]

(* HTTP: a chunked upload refused, a HEAD, a body that ends at the close.  *)
Line(s) == s \o Crlf
Header(name, v) == Line(<<name, Colon, Sp>> \o v)
RequestLine(m) == Line(<<m, Sp, 500, Sp, HttpVersion>>)
StatusLine(n) == Line(<<HttpVersion, Sp, Number(n), Sp, 501>>)
Upload == [Plain(80, <<
    Turn("client", RequestLine(311) \o Header(Host, <<502>>) \o Header(TransferEncoding, <<Chunked>>) \o Crlf
       \o Line(<<50, 59, 120>>) \o Line(<<77, 90>>) \o Line(<<49>>) \o Line(<<7>>) \o Line(<<48>>)),
    Turn("server", StatusLine(401) \o Header(ContentLength, <<Number(6)>>) \o Header(SetCookie, <<503>>)
       \o Crlf \o <<1, 2, 3, 4, 5, 6>>)>>,
    [x \in {"http.method", "http.uri", "http.host"} |->
       <<IF x = "http.method" THEN <<311>> ELSE IF x = "http.uri" THEN <<500>> ELSE <<502>>>>],
    [x \in {"failure", "http.cookie"} |-> IF x = "failure" THEN <<"HTTP">> ELSE <<<<503>>>>])
  EXCEPT !.body = [client |-> <<77, 90, 7>>, server |-> <<1, 2, 3, 4, 5, 6>>]]
HeadOnly == Plain(80, <<Turn("client", RequestLine(HeadMethod) \o Header(Cookie, <<504>>) \o Crlf),
    Turn("server", StatusLine(200) \o Header(ContentLength, <<Number(3)>>) \o Crlf),
    Turn("client", <<77, 90>>), Turn("server", <<9, 9, 9>>)>>, <<>>, <<>>)
UntilClose == [Plain(8080, <<Turn("client", RequestLine(310) \o Crlf),
    Turn("server", StatusLine(200) \o Header(Connection, <<Close>>) \o Crlf \o <<77, 90, 3>>)>>, <<>>, <<>>)
  EXCEPT !.body = [client |-> <<>>, server |-> <<77, 90, 3>>], !.ends = [client |-> TRUE, server |-> FALSE]]
LongFile == [Plain(80, <<Turn("client", RequestLine(311) \o Header(ContentLength, <<Number(8)>>) \o Crlf
    \o <<1, 2, 3, 4, 5, 6, 7, 8>>)>>, <<>>, <<>>)
  EXCEPT !.cap = 20, !.body = [client |-> <<1, 2, 3, 4, 5, 6, 7, 8>>, server |-> <<>>]]

(* TLS: hello, then the server's hello and certificate in two records.     *)
Record(s) == <<22, 3, 1>> \o L16(s)
ClientHello == <<1>> \o L24(<<3, 3>> \o Pad(Random) \o L8(<<>>) \o L16(<<10, 10, 0, 5>>) \o L8(<<0>>)
  \o L16(<<0, 0>> \o L16(L16(<<0>> \o L16(<<119, 120>>))) \o <<0, 10>> \o L16(L16(<<0, 29>>))))
Hello2 == <<2>> \o L24(<<3, 3>> \o Pad(Random) \o L8(<<>>) \o <<0, 5, 0>> \o L16(<<0, 43>> \o L16(<<3, 4>>)))
AName(x) == D(48, D(49, D(48, D(6, <<85, 4, 3>>) \o D(12, <<x>>))))
ACert == D(48, D(48, D(2, <<0, 9>>) \o D(48, <<>>) \o AName(65) \o D(48, <<>>) \o AName(66)))
TlsSays == "tls.sni" :> <<<<119, 120>>>>
Https == Plain(443, <<Turn("client", Record(ClientHello)),
    Turn("server", Record(Hello2) \o Record(<<11>> \o L24(L24(L24(ACert)))) \o <<20, 3, 3, 0, 1, 1>>)>>,
    TlsSays, "tls.version" :> <<<<772>>>>)
OneRecord == Plain(8443, <<Turn("server", Record(Hello2 \o <<11>> \o L24(L24(L24(ACert)))))>>, <<>>,
    "tls.cert_serial" :> <<<<9>>>>)

(* Lines, frames and identities.                                           *)
Ftp == Plain(21, <<Turn("client", Line(<<User, Sp, 510>>) \o Line(<<Pass, Sp, 511>>)),
    Turn("server", Line(<<Number(530)>>) \o Line(<<Number(331)>>) \o Line(<<Number(530)>>))>>,
    "ftp.command" :> <<<<User, Sp, 510>>, <<Pass, Sp, 511>>>>, "failure" :> <<"FTP", "FTP">>)
Smtp == Plain(25, <<Turn("client", Line(<<MailFrom, 60, 512, 62>>) \o Line(<<RcptTo, Sp, 513>>) \o <<Auth, Lf>>),
    Turn("server", Line(<<Number(535)>>))>>,
    "smtp.sender" :> <<<<512>>>> @@ "smtp.recipient" :> <<<<513>>>>, "failure" :> <<"SMTP">>)
Ssh == Plain(22, <<Turn("client", Line(<<SshVersion, 514>>) \o Line(<<SshVersion>>))>>,
    "ssh.version" :> <<<<SshVersion, 514>>>>, <<>>)
Rdp == Plain(3389, <<Turn("client", <<3, 0, 0, 15, 10, 224, 0, 0, 0, 0, 0, CookieWord, 515, Cr, Lf, 9>>)>>,
    "rdp.cookie" :> <<<<515>>>>, <<>>)
Smb2Head(status, command) == <<254, 83, 77, 66, 64, 0, 0, 0>> \o status \o <<command, 0>> \o Pad(50)
Smb2 == Plain(445, <<
    Turn("client", <<0>> \o L24(Smb2Head(Pad(4), 5) \o Pad(44) \o <<112, 0, 4, 0, 65, 0, 66, 0>>)),
    Turn("server", <<0>> \o L24(Smb2Head(<<109, 0, 0, 192>>, 1)))>>,
    "smb.filename" :> <<<<65, 66>>>>, "failure" :> <<"SMB">>)
Smb1 == Plain(139, <<Turn("client", <<255, 83, 77, 66, 117>> \o Pad(6) \o <<128>> \o Pad(21)
    \o <<8, 0, 92, 0, 92, 0, 65, 0, 0, 0>>)>>, "smb.share" :> <<<<92, 92, 65>>>>, <<>>)
Ntlm3 == Plain(445, <<Turn("client", Signature \o <<3, 0, 0, 0>> \o Pad(16) \o <<2, 0, 0, 0, 52, 0, 0, 0>>
    \o <<4, 0, 0, 0, 54, 0, 0, 0>> \o <<2, 0, 0, 0, 58, 0, 0, 0>> \o <<68, 0, 85, 0, 86, 0, 87, 0>>)>>, <<>>, <<>>)
Kerberos == Plain(88, <<
    Turn("client", <<0>> \o L24(D(106, D(48, D(27, <<97>>) \o D(27, <<65, 46, 66>>) \o D(27, <<98>>))))),
    Turn("server", <<0>> \o L24(D(126, D(48, D(166, D(2, <<24>>)) \o D(27, <<65, 46, 66>>)))))>>,
    "kerberos.realm" :> <<<<65, 46, 66>>>> @@ "kerberos.service" :> <<<<98>>>>, "failure" :> <<"Kerberos">>)
Ldap == Plain(389, <<
    Turn("client", D(48, D(2, <<1>>) \o D(96, D(2, <<3>>) \o D(4, <<97>>) \o D(128, <<9>>)))),
    Turn("server", D(48, D(2, <<1>>) \o D(97, D(10, <<49>>))))>>,
    "ldap.dn" :> <<<<97>>>>, "failure" :> <<"LDAP">>)
AnInterface == [i \in 1 .. 16 |-> i]
Rpc == Plain(135, <<Turn("client", <<5, 0, 11>> \o Pad(29) \o AnInterface)>>,
    "rpc" :> <<AnInterface>>, <<>>)
Modbus == Plain(502, <<Turn("client", <<0, 1, 0, 0, 0, 6, 1, 6, 0, 10, 0, 1, 0, 2, 0, 0, 0, 2, 1, 131, 0, 0, 9, 9, 0, 0, 0>>)>>,
    "modbus.function" :> <<6, 3>> @@ "modbus.address" :> <<10>>, <<>>)
Dnp3 == Plain(20000, <<Turn("client", <<5, 100, 23>> \o Pad(7) \o <<0, 192, 4>> \o Pad(19) \o <<5, 100, 8>> \o Pad(7)
    \o <<0, 192, 5, 0, 0>>)>>, "dnp3.function" :> <<4, 5>>, <<>>)
Noise == [Plain(443, <<Turn("client", [i \in 1 .. 12 |-> 9])>>, <<>>, <<>>) EXCEPT !.cap = 9]

AllScenes == {Upload, HeadOnly, UntilClose, LongFile, Https, OneRecord, Ftp, Smtp, Ssh, Rdp,
              Smb2, Smb1, Ntlm3, Kerberos, Ldap, Rpc, Modbus, Dnp3, Noise}
Interfaces == {AnInterface}

(***************************************************************************)
(* Datagrams in their frames: tagged, with options, with chains of IPv6    *)
(* headers, in pieces.                                                     *)
(***************************************************************************)
V4Source == <<10, 0, 0, 1>>
V6Source == <<32, 1>> \o Pad(13) \o <<7>>
Word(n) == <<n \div 256, n % 256>>
UdpBytes(ports, data) == Word(ports[1]) \o Word(ports[2]) \o Word(8 + Len(data)) \o Pad(2) \o data
V4(protocol, flags, options, data) ==
  <<69 + Len(options) \div 4, 0>> \o Word(20 + Len(options) + Len(data))
  \o <<0, 5, flags, 0, 64, protocol>> \o Pad(2) \o V4Source \o <<10, 0, 0, 2>> \o options \o data
V6(source, next, data) ==
  <<96, 0, 0, 0>> \o Word(Len(data)) \o <<next, 64>> \o source \o [i \in 1 .. 16 |-> i] \o data
Ether(tags, type, ip) ==
  Pad(12) \o FlattenSeq([i \in DOMAIN tags |-> Word(IF i = 1 THEN 34984 ELSE 33024) \o Word(tags[i])])
  \o Word(type) \o ip
Letter(frame, src, ports, payload, says) ==
  [frame |-> frame, src |-> src, vlan |-> 0, ports |-> ports, payload |-> payload, says |-> says, key |-> None]

Plain4(ports, data, says) ==
  Letter(Ether(<<>>, Ipv4Type, V4(Udp, 0, <<>>, UdpBytes(ports, data))), V4Source, ports, data, says)
Tagged4(ports, data, says) ==
  [Letter(Ether(<<8195, 7>>, Ipv4Type, V4(Udp, 64, Pad(4), UdpBytes(ports, data))), V4Source, ports, data, says)
   EXCEPT !.vlan = 3]
Chain6(chain, next, ports, data, says) ==
  Letter(Ether(<<>>, Ipv6Type, V6(V6Source, next, chain \o UdpBytes(ports, data))), V6Source, ports, data, says)
Piece(frame, src) == Letter(frame, src, <<0, 0>>, <<>>, <<>>)

Question(name) == Pad(5) \o <<1>> \o Pad(6) \o name \o <<0, 1, 0, 1>>
Letters == <<
  Plain4(<<1000, 53>>, Question(<<1, 97, 2, 98, 98, 0>>), <<<<"dns.query", <<<<97>>, <<98, 98>>>>>>>>),
  Tagged4(<<53, 1000>>, Question(<<1, 97, 192, 17, 0, 1, 98, 192, 21, 1, 99, 0>>),
          <<<<"dns.query", <<<<97>>, <<98>>, <<99>>>>>>>>),
  Chain6(<<60, 0>> \o Pad(6) \o <<51, 0>> \o Pad(6) \o <<44, 1>> \o Pad(10) \o <<Udp>> \o Pad(7), 0,
         <<1000, 69>>, <<0, 1, 102, 103, 0, 111, 0>>, <<<<"tftp.opcode", 1>>, <<"tftp.filename", <<102, 103>>>>>>),
  Plain4(<<69, 1000>>, <<0, 1>> \o [i \in 1 .. 80 |-> 102] \o <<0>>, <<>>),
  Tagged4(<<1000, 161>>, D(48, D(2, <<1>>) \o D(4, <<112>>) \o D(160, <<>>)), <<<<"snmp.community", <<112>>>>>>),
  Chain6(<<>>, Udp, <<88, 1000>>, D(126, D(48, D(166, D(2, <<24>>)) \o D(27, <<65, 46, 66>>))),
         <<<<"kerberos.realm", <<65, 46, 66>>>>, <<"failure", "Kerberos">>>>),
  Piece(Ether(<<>>, Ipv4Type, V4(Udp, 32, <<>>, UdpBytes(<<1000, 69>>, <<0, 3>>))), V4Source),
  Piece(Ether(<<>>, Ipv6Type, V6(V6Source, 60, <<44, 0>> \o Pad(6) \o <<Udp, 0, 0, 9, 0, 0, 0, 4>> \o Pad(8))), V6Source),
  Letter(Ether(<<>>, Ipv4Type, V4(1, 0, <<>>, <<8, 0>> \o Pad(6) \o <<5>>)), V4Source, <<0, 0>>, <<5>>, <<>>),
  Letter(Ether(<<>>, Ipv4Type, V4(Tcp, 0, <<>>, Word(7) \o Word(69) \o Pad(8) \o <<96, 2>> \o Pad(10) \o <<0, 3>>)),
         V4Source, <<7, 69>>, <<0, 3>>, <<>>)>>
Singles == [letters |-> Letters, cuts |-> 0 .. 125, arrivals |-> 1, hello |-> <<>>]

Addresses == [i \in 1 .. 256 |-> [g \in 1 .. 8 |-> IF Bit(i - 1, g - 1) THEN 258 ELSE 0]]
Bytes(g) == FlattenSeq([i \in DOMAIN g |-> Word(g[i])])
Senders == [letters |-> [i \in DOMAIN Addresses |->
              Letter(Ether(<<>>, Ipv6Type, V6(Bytes(Addresses[i]), 59, <<>>)), Bytes(Addresses[i]), <<0, 0>>, <<>>, <<>>)],
            cuts |-> {0}, arrivals |-> 1, hello |-> <<>>]

(* QUIC: hellos in three pieces, in two after an acknowledgement, in one.  *)
HelloWith(name) == <<1>> \o L24(<<3, 3>> \o Pad(Random) \o L8(<<>>) \o L16(<<10, 10, 0, 5>>) \o L8(<<0>>)
  \o L16(<<0, 0>> \o L16(L16(<<0>> \o L16(name)))))
Hello3(name) == [sni |-> name, ja3 |-> <<<<771>>, <<5>>, <<0>>, <<>>, <<>>>>]
Part(name, from, to) ==
  <<6, from, to - from>> \o Slice(HelloWith(name), from, to - from)
Long(bits, version, id, frames) == <<bits>> \o version \o L8(id) \o <<1, 9, 0, 64, Len(frames)>> \o frames
Sealed(id, bits, version, frames) ==
  LET data == Long(bits, version, id, frames \o Pad(MinInitial))
  IN  [Plain4(<<1000, 443>>, data, <<>>) EXCEPT !.key = id]
IdA == <<1>>
IdB == <<2, 2>>
IdC == <<3>>
V1 == <<0, 0, 0, 1>>
Size(name) == Len(HelloWith(name))
QuicLetters == <<
  Sealed(IdA, 192, V1, Part(<<97>>, 0, 9)), Sealed(IdA, 195, V1, <<0, 0>> \o Part(<<97>>, 9, 20)),
  Sealed(IdA, 192, V1, Part(<<97>>, 20, Size(<<97>>))),
  Sealed(IdB, 208, Version2, <<2, 0, 0, 1, 0, 0, 0, 1>> \o Part(<<98>>, 0, 18)),
  Sealed(IdB, 208, Version2, Part(<<98>>, 15, Size(<<98>>)) \o <<28, 0>>),
  Sealed(IdC, 192, V1, <<3, 0, 0, 0, 0, 0, 0, 0>> \o Part(<<99>>, 0, Size(<<99>>)))>>
Hellos == IdA :> Hello3(<<97>>) @@ IdB :> Hello3(<<98>>) @@ IdC :> Hello3(<<99>>)
QuicMail == [letters |-> QuicLetters, cuts |-> {0}, arrivals |-> 5, hello |-> Hellos]
QuicCut == [QuicMail EXCEPT !.cuts = {0, 1}, !.arrivals = 3]

AllMails == {Singles, Senders, QuicMail, QuicCut}
=============================================================================
