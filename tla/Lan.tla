-------------------------------- MODULE Lan --------------------------------
(***************************************************************************)
(* The protocols of an internal network: NTLM, SMB1, Kerberos, LDAP and    *)
(* DCERPC (src/enterprise.rs), and SMB2 (src/engine.rs); then those that   *)
(* come in lines, frames or one to a datagram.  Each reader takes the      *)
(* identifying fields and stops.                                           *)
(***************************************************************************)
EXTENDS Wire

CONSTANTS KnownInterfaces   \* the interfaces worth naming

Told(buffer, v) == IF v = None THEN <<>> ELSE <<<<buffer, v>>>>

(***************************************************************************)
(* NTLM, found by its signature.  A field is a length and an offset from   *)
(* the signature; one that is not there whole is left out.                 *)
(***************************************************************************)
Signature == <<78, 84, 76, 77, 83, 83, 80, 0>>
NtlmField(m, at) ==
  LET raw == IF Has(m, at, 8) THEN FieldAt(m, LE(m, at + 4, 4), LE(m, at, 2)) ELSE None
  IN  IF raw = None THEN None ELSE IF Units(raw) = <<>> THEN None ELSE Units(raw)

NtlmMessage(b) == IF Find(b, Signature) = None THEN <<>> ELSE From(b, Find(b, Signature))
ParseNtlm(b) ==
  LET m == NtlmMessage(b)
      kind == LE(m, 8, 4)
      field(t, at) == IF kind = t THEN NtlmField(m, at) ELSE None
  IN  IF ~Has(m, 0, 12) THEN None
      ELSE IF kind \notin 1 .. 3 THEN None
      ELSE [kind |-> kind, user |-> field(3, 36),
            domain |-> IF kind = 1 THEN NtlmField(m, 16) ELSE field(3, 28),
            workstation |-> IF kind = 1 THEN NtlmField(m, 24) ELSE field(3, 44)]

NtlmTold(n) ==
  IF n = None THEN None
  ELSE Told("ntlm.user", n.user) \o Told("user", n.user) \o Told("ntlm.domain", n.domain)
       \o Told("ntlm.workstation", n.workstation)
       \o (IF n.kind = 3 THEN <<<<"attempt", "NTLM">>>> ELSE <<>>)

(***************************************************************************)
(* SMB1: a parameter block in words, then a counted data block.            *)
(***************************************************************************)
SmbShare(s) == Begins(s, <<92, 92>>) \/ 36 \in ToSet(s)
Cut(s) == Slice(s, 0, Min({Len(s), MaxField}))
(* Strings ended by NUL, of bytes or of two-byte units from either         *)
(* alignment.                                                              *)
Strings(data) == SplitAt(data, 0)
UnitStrings(data, skip) == SplitAt(Units(From(data, skip)), 0)
FirstWith(Good(_), s) ==
  IF SelectInSeq(s, Good) = 0 THEN None ELSE s[SelectInSeq(s, Good)]
LastWith(Good(_), s) ==
  IF SelectLastInSeq(s, Good) = 0 THEN None ELSE s[SelectLastInSeq(s, Good)]

FirstString(data, unicode) ==
  IF ~unicode THEN IF Strings(data)[1] = <<>> THEN None ELSE Cut(Strings(data)[1])
  ELSE FirstWith(LAMBDA s : s # <<>> /\ \A i \in DOMAIN s : s[i] >= 32,
                 [k \in 1 .. 2 |-> UnitStrings(data, k - 1)[1]])
LastString(data, unicode) ==
  IF ~unicode THEN FirstWith(LAMBDA s : SmbShare(s) /\ Len(s) <= MaxField, Strings(data))
  ELSE LET aligned == LastWith(SmbShare, UnitStrings(data, 0))
       IN  IF aligned # None THEN aligned ELSE LastWith(SmbShare, UnitStrings(data, 1))

ParseSmb1(b) ==
  LET start == 33 + 2 * At(b, 32)
      data == Slice(b, start + 2, LE(b, start, 2))
      unicode == At(b, 11) >= 128
      code == At(b, 4)
  IN  IF ~Has(b, 0, 33) \/ ~Begins(b, <<255, 83, 77, 66>>) THEN None
      ELSE IF ~Has(b, start, 2) THEN None
      ELSE IF ~Has(b, start + 2, LE(b, start, 2)) THEN None
      ELSE [command |-> code,
            path |-> IF code = 117 THEN LastString(data, unicode)
                     ELSE IF code \in {162, 45} THEN FirstString(data, unicode) ELSE None]
Smb1Told(s) ==
  IF s = None THEN None ELSE <<<<"smb.command", s.command>>>> \o Told("smb.share", s.path)

(***************************************************************************)
(* SMB2: messages with a length in front; a CREATE names a file.           *)
(***************************************************************************)
RefusedLogons == {<<109, 0, 0, 192>>, <<106, 0, 0, 192>>, <<52, 2, 0, 192>>, <<114, 0, 0, 192>>}
CreateName(m) ==
  LET raw == Slice(m, LE(m, 108, 2), LE(m, 110, 2))
  IN  IF ~Has(m, 64, 48) THEN None
      ELSE IF LE(m, 110, 2) = 0 \/ ~Has(m, LE(m, 108, 2), LE(m, 110, 2)) \/ Len(raw) % 2 = 1 THEN None
      ELSE Units(raw)
Smb2Told(m, fromServer) ==
  IF ~Has(m, 0, 64) \/ ~Begins(m, <<254, 83, 77, 66, 64, 0>>) THEN <<>>
  ELSE LET command == LE(m, 12, 2)
           refused == fromServer /\ command = 1 /\ Slice(m, 8, 4) \in RefusedLogons
       IN  <<<<"smb.command", command>>>>
           \o (IF command = 5 THEN Told("smb.filename", CreateName(m)) ELSE <<>>)
           \o (IF refused THEN <<<<"failure", "SMB">>>> ELSE <<>>)

(***************************************************************************)
(* Kerberos, with the length in front that TCP adds.                       *)
(***************************************************************************)
AppTags == {106, 107, 108, 109, 110, 126}
Unmarked(b) ==
  IF Len(b) > 5 /\ At(b, 0) \notin AppTags /\ At(b, 4) \in AppTags
  THEN IF Has(b, 4, BE(b, 0, 4)) THEN Slice(b, 4, BE(b, 0, 4)) ELSE b
  ELSE b

CodeOf(int) ==
  IF int = None THEN None
  ELSE IF int.tag # 2 \/ Len(int.value) \notin 1 .. 8 THEN None ELSE BigEndian(int.value)
ErrorCode(m) ==
  LET codes == SelectSeq(Within(FirstIn(Element(m, 0))), LAMBDA e : e.tag = 166)
  IN  CodeOf(IF codes = <<>> THEN None ELSE FirstIn(codes[1]))

Realm(s) == 46 \in ToSet(s) /\ \A x \in ToSet(s) : x \notin 97 .. 122
KerberosNames(m, realm, names) ==
  LET request == At(m, 0) \in {106, 108}
  IN  [realm |-> realm, client |-> IF names = <<>> THEN None ELSE names[1],
       service |-> IF request /\ Len(names) > 1 THEN FlattenSeq(Tail(names)) ELSE None,
       request |-> request, error |-> IF At(m, 0) = 126 THEN ErrorCode(m) ELSE None]
KerberosMessage(m, found) ==
  LET strings == [i \in DOMAIN found |-> found[i].value]
      realm == FirstWith(Realm, strings)
  IN  IF found = <<>> THEN None ELSE KerberosNames(m, realm, SelectSeq(strings, LAMBDA s : s # realm))
ParseKerberos(b) ==
  LET m == Unmarked(b)
  IN  IF m = <<>> THEN None
      ELSE IF At(m, 0) \notin AppTags \/ Element(m, 0) = None THEN None
      ELSE KerberosMessage(m, SelectSeq(Walk(m, 0), LAMBDA e : e.tag = 27 /\ Len(e.value) \in 1 .. MaxField))

KerberosTold(k, fromServer) ==
  IF k = None THEN None
  ELSE Told("kerberos.realm", k.realm) \o Told("kerberos.principal", k.client)
       \o Told("user", k.client) \o Told("kerberos.service", k.service)
       \o (IF k.request THEN <<<<"attempt", "Kerberos">>>> ELSE <<>>)
       \o (IF fromServer /\ k.error \in {24, 6, 18} THEN <<<<"failure", "Kerberos">>>> ELSE <<>>)

(***************************************************************************)
(* LDAP.                                                                   *)
(***************************************************************************)
DnIn(e) == IF e = None THEN None
           ELSE IF e.tag = 4 /\ Len(e.value) \in 1 .. MaxField THEN e.value ELSE None
Operations == {96, 97, 99, 100, 102, 104, 106, 119}
LdapOperation(op, inner) ==
  LET at(i) == IF i \in DOMAIN inner THEN inner[i] ELSE None
  IN  IF (op.tag = 96 /\ Len(inner) < 2) \/ (op.tag \in {99, 100} /\ inner = <<>>) THEN None
      ELSE [op |-> op.tag,
            dn |-> IF op.tag = 97 THEN None ELSE DnIn(at(IF op.tag = 96 THEN 2 ELSE 1)),
            simple |-> op.tag = 96 /\ Len(inner) > 2 /\ at(3).tag = 128,
            refused |-> /\ op.tag = 97 /\ inner # <<>> /\ at(1).tag = 10
                        /\ Len(at(1).value) \in 1 .. 4 /\ BigEndian(at(1).value) = 49]
LdapMessage(outer, parts) ==       \* an id, then the operation
  IF Len(parts) < 2 THEN None
  ELSE IF outer.tag # 48 \/ parts[1].tag # 2 \/ parts[2].tag \notin Operations THEN None
  ELSE LdapOperation(parts[2], Within(parts[2]))
ParseLdap(b) == LdapMessage(Element(b, 0), Within(Element(b, 0)))

LdapTold(l, fromServer) ==
  IF l = None THEN None
  ELSE Told("ldap.dn", l.dn) \o (IF l.op = 96 THEN Told("user", l.dn) ELSE <<>>)
       \o (IF l.simple THEN <<<<"attempt", "LDAP">>>> ELSE <<>>)
       \o (IF fromServer /\ l.refused THEN <<<<"failure", "LDAP">>>> ELSE <<>>)

(***************************************************************************)
(* DCERPC: a bind names the interface.                                     *)
(***************************************************************************)
DcerpcTold(b) ==
  LET kind == At(b, 2)
      id == Slice(b, 32, 16)
  IN  IF ~Has(b, 0, 24) THEN None
      ELSE IF At(b, 0) # 5 \/ kind \notin {0, 2, 3, 11, 12, 13, 14, 15} THEN None
      ELSE IF kind \notin {11, 14} THEN <<>>
      ELSE IF ~Has(b, 32, 16) THEN None
      ELSE <<<<"dcerpc.interface", id>>>>
           \o (IF id \in KnownInterfaces THEN <<<<"rpc", id>>>> ELSE <<>>)

(***************************************************************************)
(* Lines, framed messages and single datagrams (src/engine.rs): SSH, FTP   *)
(* and SMTP lines; SMB2, Modbus and DNP3 messages taken from a stream by a *)
(* cursor; RDP's connection request; DNS, TFTP and SNMP datagrams.         *)
(***************************************************************************)

(* Words.                                                                  *)
SshVersion == 340
FtpVerbs == 350 .. 370
User == 350
Pass == 351
SmtpVerbs == 380 .. 387
Auth == 386
MailFrom == 388      \* "MAIL FROM:"
RcptTo == 389        \* "RCPT TO:"
CookieWord == 390    \* "Cookie: "

(***************************************************************************)
(* Cursors: everything complete past the cursor, and where it ends.        *)
(***************************************************************************)
NewLines(b, at) ==
  LET ends == {i \in at .. Len(b) - 1 : At(b, i) = Lf}
      end == IF ends = {} THEN at ELSE Max(ends) + 1
  IN  [found |-> LinesOf(Slice(b, at, end - at)), at |-> end, lost |-> FALSE]

RECURSIVE Smb2Messages(_, _)
Smb2Messages(b, at) ==
  IF ~Has(b, at, 4) THEN [found |-> <<>>, at |-> at, lost |-> FALSE]
  ELSE IF ~Has(b, at + 4, BE(b, at + 1, 3)) THEN [found |-> <<>>, at |-> at, lost |-> FALSE]
  ELSE LET n == BE(b, at + 1, 3)
           rest == Smb2Messages(b, at + 4 + n)
       IN  [rest EXCEPT !.found = <<Slice(b, at + 4, n)>> \o @]

(* A slip: the unit identifier is taken to be outside the length.          *)
RECURSIVE ModbusMessagesLong(_, _)
ModbusMessagesLong(b, at) ==
  IF ~Has(b, at, 7) THEN [found |-> <<>>, at |-> at, lost |-> FALSE]
  ELSE LET n == BE(b, at + 4, 2)
       IN  IF BE(b, at + 2, 2) # 0 \/ n = 0 THEN [found |-> <<>>, at |-> at, lost |-> TRUE]
           ELSE IF ~Has(b, at, 7 + n) THEN [found |-> <<>>, at |-> at, lost |-> FALSE]
           ELSE LET rest == ModbusMessagesLong(b, at + 7 + n)
                IN  [rest EXCEPT !.found = <<Slice(b, at + 7, n)>> \o @]

(* Modbus and DNP3 are given up for good at the first header that cannot   *)
(* be one of theirs.                                                       *)
RECURSIVE ModbusMessages(_, _)
ModbusMessages(b, at) ==
  IF ~Has(b, at, 7) THEN [found |-> <<>>, at |-> at, lost |-> FALSE]
  ELSE LET n == BE(b, at + 4, 2)
       IN  IF BE(b, at + 2, 2) # 0 \/ n = 0 THEN [found |-> <<>>, at |-> at, lost |-> TRUE]
           ELSE IF ~Has(b, at, 6 + n) THEN [found |-> <<>>, at |-> at, lost |-> FALSE]
           ELSE LET rest == ModbusMessages(b, at + 6 + n)
                IN  [rest EXCEPT !.found = <<Slice(b, at + 7, n - 1)>> \o @]

Blocks(n) == (n + 15) \div 16
RECURSIVE Dnp3Frames(_, _)
Dnp3Frames(b, at) ==
  IF ~Has(b, at, 10) THEN [found |-> <<>>, at |-> at, lost |-> FALSE]
  ELSE LET user == At(b, at + 2) - 5
           total == 10 + user + 2 * Blocks(user)
       IN  IF Slice(b, at, 2) # <<5, 100>> \/ user < 0
           THEN [found |-> <<>>, at |-> at, lost |-> TRUE]
           ELSE IF ~Has(b, at, total) THEN [found |-> <<>>, at |-> at, lost |-> FALSE]
           ELSE LET rest == Dnp3Frames(b, at + total)
                IN  [rest EXCEPT !.found = <<Slice(b, at, total)>> \o @]

(***************************************************************************)
(* Lines.                                                                  *)
(***************************************************************************)
FailureLine(line, port) ==
  IF port = 21 /\ Begins(line, <<Number(530)>>) THEN "FTP"
  ELSE IF port \in {25, 587} /\ Begins(line, <<Number(535)>>) THEN "SMTP" ELSE None

Address(s) ==
  LET bare == IF Begins(Trim(s), <<60>>) THEN Tail(Trim(s)) ELSE Trim(s)
      addr == Trim(SplitAt(bare, 62)[1])
  IN  IF addr = <<>> THEN None ELSE addr

Verb(line) == SplitAt(line, Sp)[1]
FtpTold(line) ==
  IF Verb(line) \notin {<<v>> : v \in FtpVerbs} THEN <<>>
  ELSE <<<<"ftp.command", line>>>>
       \o (IF line[1] \in {User, Pass} THEN <<<<"attempt", "FTP">>>> ELSE <<>>)
SmtpTold(line) ==
  IF Begins(line, <<MailFrom>>)
  THEN <<<<"smtp.command", line>>>> \o Told("smtp.sender", Address(Tail(line)))
  ELSE IF Begins(line, <<RcptTo>>)
  THEN <<<<"smtp.command", line>>>> \o Told("smtp.recipient", Address(Tail(line)))
  ELSE IF Verb(line) \notin {<<v>> : v \in SmtpVerbs} THEN <<>>
  ELSE <<<<"smtp.command", line>>>> \o (IF line[1] = Auth THEN <<<<"attempt", "SMTP">>>> ELSE <<>>)
SshTold(line) == IF Begins(line, <<SshVersion>>) THEN <<<<"ssh.version", line>>>> ELSE <<>>

(***************************************************************************)
(* Messages.                                                               *)
(***************************************************************************)
ModbusTold(pdu) ==
  IF pdu = <<>> THEN <<>>
  ELSE LET code == pdu[1] % 128
       IN  <<<<"modbus.function", code>>>>
           \o (IF code \in {5, 6, 15, 16, 22} /\ Has(pdu, 1, 2)
               THEN <<<<"modbus.address", BE(pdu, 1, 2)>>>> ELSE <<>>)

(* The user data of a frame without the checks after every 16 bytes.       *)
Deblocked(frame) ==
  LET n == At(frame, 2) - 5
  IN  [i \in 1 .. n |-> frame[10 + i + 2 * ((i - 1) \div 16)]]
Dnp3Told(frame) ==
  IF Len(Deblocked(frame)) < 3 THEN <<>> ELSE <<<<"dnp3.function", Deblocked(frame)[3]>>>>

RdpTold(b) ==
  LET n == BE(b, 2, 2)
      user == Slice(b, 11, n - 11)
      at == Find(user, <<CookieWord>>)
      line == LinesOf(From(user, at + 1) \o <<Lf>>)[1]
      cookie == IF at = None THEN <<>> ELSE Trim(line)
  IN  IF ~Has(b, 0, 4) \/ ~Begins(b, <<3>>) THEN None
      ELSE IF n < 11 \/ ~Has(b, 0, n) THEN None
      ELSE IF At(b, 5) \div 16 # 14 THEN None
      ELSE <<<<"rdp.cookie", cookie>>>> \o (IF cookie = <<>> THEN <<>> ELSE <<<<"attempt", "RDP">>>>)

(***************************************************************************)
(* Datagrams.                                                              *)
(***************************************************************************)
MaxJumps == 5
RECURSIVE Labels(_, _, _)
Labels(b, at, jumps) ==     \* the labels of a name, or None
  IF ~Has(b, at, 1) THEN None
  ELSE LET n == At(b, at)
       IN  IF n = 0 THEN <<>>
           ELSE IF n >= 192
           THEN IF jumps > MaxJumps \/ ~Has(b, at, 2) THEN None
                ELSE Labels(b, 256 * (n - 192) + At(b, at + 1), jumps + 1)
           ELSE IF ~Has(b, at + 1, n) THEN None
           ELSE LET rest == Labels(b, at + 1 + n, jumps)
                IN  IF rest = None THEN None ELSE <<Slice(b, at + 1, n)>> \o rest
DnsTold(b) ==
  IF ~Has(b, 0, 12) THEN <<>>
  ELSE IF BE(b, 4, 2) = 0 THEN <<>>
  ELSE LET name == Labels(b, 12, 0)
       IN  IF name = None THEN <<>> ELSE IF name = <<>> THEN <<>> ELSE <<<<"dns.query", name>>>>

TftpTold(b) ==
  LET code == BE(b, 0, 2)
  IN  IF ~Has(b, 0, 2) THEN <<>>
      ELSE IF code \notin 1 .. 6 THEN <<>>
      ELSE IF code > 2 THEN <<<<"tftp.opcode", code>>>>
      ELSE IF Find(From(b, 2), <<0>>) = None THEN <<>>
      ELSE <<<<"tftp.opcode", code>>, <<"tftp.filename", Slice(b, 2, Find(From(b, 2), <<0>>))>>>>

Community(outer, parts) ==      \* a version, then the community
  IF Len(parts) < 2 THEN <<>>
  ELSE IF outer.tag # 48 \/ parts[1].tag # 2 \/ parts[2].tag # 4 THEN <<>>
  ELSE IF parts[1].value = <<>> THEN <<>>
  ELSE IF parts[1].value[1] > 1 THEN <<>> ELSE <<<<"snmp.community", parts[2].value>>>>
SnmpTold(b) == Community(Element(b, 0), Within(Element(b, 0)))
=============================================================================
