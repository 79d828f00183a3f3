-------------------------------- MODULE Tls --------------------------------
(***************************************************************************)
(* The clear part of a TLS handshake: the client's hello (src/engine.rs),  *)
(* which QUIC carries too, and the server's hello and certificates         *)
(* (src/tlscert.rs); then QUIC, up to the hello it carries.  A fingerprint *)
(* is what is hashed for it.                                               *)
(***************************************************************************)
EXTENDS Wire

CONSTANT Random      \* bytes of randomness in a hello, 32 in the code

Handshake == 22
Length8(b, at) == IF Has(b, at, 1) THEN At(b, at) ELSE None
Length16(b, at) == IF Has(b, at, 2) THEN BE(b, at, 2) ELSE None

(* A cursor past a field with its own length, or None.                     *)
Past(b, at, width) ==
  IF at = None \/ ~Has(b, at, width) THEN None
  ELSE LET next == at + width + BE(b, at, width) IN IF next > Len(b) THEN None ELSE next
Inner(b, at, width) == Slice(b, at + width, BE(b, at, width))

Numbers16(s) == [i \in 1 .. Len(s) \div 2 |-> BE(s, 2 * (i - 1), 2)]
IsGrease(v) == v \div 256 = v % 256 /\ v % 16 = 10
NotGrease(s) == SelectSeq(s, LAMBDA v : ~IsGrease(v))

(* Extensions as far as they are whole.                                    *)
RECURSIVE Extensions(_)
Extensions(b) ==
  IF ~Has(b, 0, 4) \/ ~Has(b, 4, BE(b, 2, 2)) THEN <<>>
  ELSE <<[kind |-> BE(b, 0, 2), data |-> Slice(b, 4, BE(b, 2, 2))]>>
       \o Extensions(From(b, 4 + BE(b, 2, 2)))
LastOf(exts, kind) == SelectLastInSeq(exts, LAMBDA e : e.kind = kind)

(* A list with its length in front; what was declared may be missing.      *)
List(data, width) ==
  IF ~Has(data, 0, width) THEN <<>>
  ELSE Slice(data, width, Min({BE(data, 0, width), Len(data) - width}))

(* The first name of type 0 in a server_name extension.                    *)
RECURSIVE NameIn(_, _)
NameIn(b, left) ==
  IF left < 3 \/ ~Has(b, 0, 3) THEN None
  ELSE IF ~Has(b, 3, BE(b, 1, 2)) THEN None
  ELSE IF At(b, 0) = 0 THEN Slice(b, 3, BE(b, 1, 2))
  ELSE NameIn(From(b, 3 + BE(b, 1, 2)), left - 3 - BE(b, 1, 2))
Sni(data) == IF Has(data, 0, 2) THEN NameIn(From(data, 2), BE(data, 0, 2)) ELSE None

(***************************************************************************)
(* parse_client_hello_body.                                                *)
(***************************************************************************)
ExtensionsAt(b, at) ==
  IF ~Has(b, at, 2) THEN <<>> ELSE Extensions(Slice(b, at + 2, Min({BE(b, at, 2), Len(b) - at - 2})))
HelloOf(b, ciphers, exts) ==
  LET of(kind) == IF LastOf(exts, kind) = 0 THEN <<>> ELSE exts[LastOf(exts, kind)].data
  IN  [sni |-> IF LastOf(exts, 0) = 0 THEN None ELSE Sni(of(0)),
       ja3 |-> <<<<BE(b, 4, 2)>>, NotGrease(Numbers16(Inner(b, ciphers, 2))),
                 NotGrease([i \in DOMAIN exts |-> exts[i].kind]),
                 NotGrease(Numbers16(List(of(10), 2))), List(of(11), 1)>>]
HelloPast(b, ciphers, after) == IF after = None THEN None ELSE HelloOf(b, ciphers, ExtensionsAt(b, after))
HelloFields(b) ==      \* session, ciphers, compression, extensions
  LET ciphers == Past(b, 4 + 2 + Random, 1)
  IN  HelloPast(b, ciphers, Past(b, Past(b, ciphers, 2), 1))

ParseHelloBody(b) ==
  IF ~Has(b, 0, 4) \/ ~Begins(b, <<1>>) \/ ~Has(b, 4, BE(b, 1, 3)) THEN None ELSE HelloFields(b)

(* The record must have arrived whole.                                     *)
ParseClientHello(b) ==
  IF ~Has(b, 0, 5) \/ ~Begins(b, <<Handshake>>) \/ ~Has(b, 5, BE(b, 3, 2)) THEN None
  ELSE ParseHelloBody(From(b, 5))

HelloTold(h) ==
  IF h = None THEN None
  ELSE (IF h.sni = None THEN <<>> ELSE <<<<"tls.sni", h.sni>>>>) \o <<<<"tls.ja3", h.ja3>>>>

(***************************************************************************)
(* The server's side: handshake messages run across records.               *)
(***************************************************************************)
RECURSIVE Records(_)
Records(b) ==   \* the whole handshake records in front, and what stopped it
  IF b = <<>> THEN [bytes |-> <<>>, why |-> "end"]
  ELSE IF ~Has(b, 0, 5) THEN [bytes |-> <<>>, why |-> "cut"]
  ELSE IF At(b, 0) # Handshake THEN [bytes |-> <<>>, why |-> "other"]
  ELSE IF ~Has(b, 5, BE(b, 3, 2)) THEN [bytes |-> <<>>, why |-> "cut"]
  ELSE LET rest == Records(From(b, 5 + BE(b, 3, 2)))
       IN  [rest EXCEPT !.bytes = Inner(b, 3, 2) \o @]

ServerHelloOf(b, cipher, exts, total) ==   \* an extension that is cut voids it
  LET chosen == SelectLastInSeq(exts, LAMBDA e : e.kind = 43 /\ Len(e.data) >= 2)
      read == FoldLeft(LAMBDA n, e : n + 4 + Len(e.data), 0, exts)
  IN  IF total - read >= 4 THEN None
      ELSE [version |-> IF chosen = 0 THEN BE(b, 0, 2) ELSE BE(exts[chosen].data, 0, 2),
            ja3s |-> <<BE(b, 0, 2), BE(b, cipher, 2), [i \in DOMAIN exts |-> exts[i].kind]>>]
ServerHelloPast(b, cipher) ==
  IF cipher = None THEN None
  ELSE IF ~Has(b, cipher, 2) THEN None
  ELSE IF ~Has(b, cipher + 3, 2) THEN ServerHelloOf(b, cipher, <<>>, 0)
  ELSE IF ~Has(b, cipher + 5, BE(b, cipher + 3, 2)) THEN None
  ELSE ServerHelloOf(b, cipher, Extensions(Inner(b, cipher + 3, 2)), BE(b, cipher + 3, 2))
ServerHelloBody(b) == ServerHelloPast(b, Past(b, 2 + Random, 1))

ServerHello(b) ==
  LET h == Records(b).bytes
  IN  IF ~Has(h, 0, 4) \/ ~Begins(h, <<2>>) \/ ~Has(h, 4, BE(h, 1, 3)) THEN None
      ELSE ServerHelloBody(Inner(h, 1, 3))
ServerHelloTold(h) ==
  IF h = None THEN None ELSE <<<<"tls.version", <<h.version>>>>, <<"tls.ja3s", h.ja3s>>>>

(* A name is its attributes, as they are encoded.                          *)
EachWithin(s) == [i \in DOMAIN s |-> Within(s[i])]
Attributes(avas) ==
  LET whole == SelectSeq(avas, LAMBDA a : Len(a) >= 2)
      text(e) == IF e.tag = 30 THEN UnitsBig(e.value) ELSE e.value
  IN  [i \in DOMAIN whole |-> <<whole[i][1].value, text(whole[i][2])>>]
NameOf(rdns) == Attributes(EachWithin(FlattenSeq(EachWithin(Siblings(rdns, 0)))))
Serial(raw) == IF Len(raw) > 1 /\ raw[1] = 0 THEN Tail(raw) ELSE raw

(* Version, serial, signature, issuer, validity, subject: the version may  *)
(* be left out.                                                            *)
Unversioned(all) == IF all # <<>> /\ all[1].tag = 160 THEN Tail(all) ELSE all
CertificateOf(der, parts) ==
  IF Len(parts) < 5 \/ parts[1].tag # 2 THEN None
  ELSE [serial |-> Serial(parts[1].value), issuer |-> NameOf(parts[3].value),
        subject |-> NameOf(parts[5].value), der |-> der]
Certificate(der) == CertificateOf(der, Unversioned(Within(FirstIn(Element(der, 0)))))

RECURSIVE Chain(_)
Chain(list) ==
  IF ~Has(list, 0, 3) THEN <<>>
  ELSE LET der == Inner(list, 0, 3)
       IN  SelectSeq(<<Certificate(der)>>, LAMBDA c : c # None) \o Chain(From(list, 3 + Len(der)))

(* certificate_list: lengths that do not fit void all of it.               *)
RECURSIVE Fits(_)
Fits(list) == Has(list, 0, 3) => Has(list, 3, BE(list, 0, 3)) /\ Fits(From(list, 3 + BE(list, 0, 3)))
CertificateList(body) ==
  IF ~Has(body, 0, 3) THEN <<>>
  ELSE IF ~Has(body, 3, BE(body, 0, 3)) THEN <<>>
  ELSE IF ~Fits(Inner(body, 0, 3)) THEN <<>> ELSE Chain(Inner(body, 0, 3))

(* finish: the handshake messages in order, up to the certificate.  When   *)
(* all that has come is read and none was a certificate, none will be.     *)
RECURSIVE Messages(_, _)
Messages(h, more) ==
  IF ~Has(h, 0, 4) THEN IF more \/ h # <<>> THEN "incomplete" ELSE "none"
  ELSE IF ~Has(h, 4, BE(h, 1, 3)) THEN "incomplete"
  ELSE IF At(h, 0) # 11 THEN Messages(From(h, 4 + BE(h, 1, 3)), more)
  ELSE IF CertificateList(Inner(h, 1, 3)) = <<>> THEN "none" ELSE "found"
RECURSIVE ChainIn(_)
ChainIn(h) ==
  IF At(h, 0) = 11 THEN CertificateList(Inner(h, 1, 3)) ELSE ChainIn(From(h, 4 + BE(h, 1, 3)))

ChainTold(chain) ==
  <<<<"tls.cert_subject", chain[1].subject>>, <<"tls.cert_issuer", chain[1].issuer>>,
    <<"tls.cert_serial", chain[1].serial>>>> \o [i \in DOMAIN chain |-> <<"tls.certs", chain[i].der>>]
CertsFound(found, h) ==
  IF found = "incomplete" THEN None ELSE IF found = "none" THEN <<>> ELSE ChainTold(ChainIn(h))
CertsIn(r) == CertsFound(Messages(r.bytes, r.why = "cut"), r.bytes)
CertsTold(b) == IF b = <<>> THEN None ELSE CertsIn(Records(b))

(***************************************************************************)
(* QUIC's first packets (src/quic.rs).  A long header is read as it is;    *)
(* what it covers is sealed with a key made from the destination id, and   *)
(* opening it is the cipher library's: it gives the frames when the key is *)
(* the sender's and the packet is whole.  The CRYPTO frames of one         *)
(* destination id are put together until they hold the client's hello.     *)
(***************************************************************************)

CONSTANTS
  MaxSessions,    \* connections whose hello is being collected
  MinInitial,     \* payload below which no first packet is looked for
  MaxCid,         \* longest connection id
  MaxHandshake    \* furthest offset a CRYPTO frame may reach

Varint(b, at) ==
  LET n == 2 ^ (At(b, at) \div 64)
  IN  IF ~Has(b, at, 1) THEN None
      ELSE IF ~Has(b, at, n) THEN None
      ELSE [value |-> BigEndian(<<At(b, at) % 64>> \o Slice(b, at + 1, n - 1)), next |-> at + n]

ConnectionId(b, at) ==
  IF ~Has(b, at, 1) THEN None
  ELSE IF ~Has(b, at + 1, At(b, at)) \/ At(b, at) > MaxCid THEN None
  ELSE [id |-> Slice(b, at + 1, At(b, at)), next |-> at + 1 + At(b, at)]

(* The two bits of the type do not mean the same in both versions.         *)
Version2 == <<107, 51, 67, 207>>
IsInitial(first, version) == (first \div 16) % 4 = IF version = Version2 THEN 1 ELSE 0

InitialHeader(b, dcid, scid) ==
  LET token == Varint(b, scid.next)
      length == Varint(b, token.next + token.value)
  IN  IF token = None THEN None
      ELSE IF ~Has(b, token.next, token.value) THEN None
      ELSE IF length = None THEN None
      ELSE [initial |-> TRUE, dcid |-> dcid.id, offset |-> length.next, length |-> length.value]

LongHeader(b) ==
  LET version == Slice(b, 1, 4)
      dcid == ConnectionId(b, 5)
      scid == ConnectionId(b, dcid.next)
  IN  IF ~Has(b, 0, 5) THEN None
      ELSE IF At(b, 0) < 128 \/ version = <<0, 0, 0, 0>> THEN None
      ELSE IF dcid = None THEN None
      ELSE IF scid = None THEN None
      ELSE IF ~IsInitial(At(b, 0), version)
      THEN [initial |-> FALSE, dcid |-> dcid.id, offset |-> scid.next, length |-> 0]
      ELSE InitialHeader(b, dcid, scid)

(* Opening: key is the id the sender sealed the packet with.               *)
Opened(b, header, key) ==
  IF header.dcid = key /\ Has(b, header.offset, header.length)
  THEN Slice(b, header.offset, header.length) ELSE None

(***************************************************************************)
(* collect_crypto: frames are written at their offsets, and what lies      *)
(* before an offset and has not come is zero.                              *)
(***************************************************************************)
(* A slip: frames are taken to come in order.                              *)
WrittenNext(out, offset, data) == out \o data
Written(out, offset, data) ==
  LET n == Max({Len(out), offset + Len(data)})
  IN  [i \in 1 .. n |-> IF i \in offset + 1 .. offset + Len(data) THEN data[i - offset]
                        ELSE IF i <= Len(out) THEN out[i] ELSE 0]

RECURSIVE Skipped(_, _, _)
Skipped(f, at, n) ==
  IF n = 0 THEN at
  ELSE IF Varint(f, at) = None THEN None ELSE Skipped(f, Varint(f, at).next, n - 1)

AfterAck(f, at, ecn) ==
  LET ranges == Skipped(f, at, 2)
  IN  IF ranges = None THEN None
      ELSE IF Varint(f, ranges) = None THEN None
      ELSE Skipped(f, Varint(f, ranges).next, 1 + 2 * Varint(f, ranges).value + IF ecn THEN 3 ELSE 0)

CryptoFrame(f, at) ==
  LET offset == Varint(f, at)
      length == Varint(f, offset.next)
  IN  IF offset = None THEN None
      ELSE IF length = None THEN None
      ELSE IF ~Has(f, length.next, length.value) \/ offset.value + length.value > MaxHandshake THEN None
      ELSE [offset |-> offset.value, data |-> Slice(f, length.next, length.value),
            next |-> length.next + length.value]

(* Padding and pings are skipped, anything unknown ends the reading, and a *)
(* frame that does not parse fails it with what was written kept.          *)
RECURSIVE CollectCrypto(_, _, _), FrameFrom(_, _, _), GoOn(_, _, _), AfterCrypto(_, _, _)
CollectCrypto(f, at, out) ==
  IF at >= Len(f) THEN [out |-> out, ok |-> TRUE] ELSE FrameFrom(f, Varint(f, at), out)
GoOn(f, next, out) == IF next = None THEN [out |-> out, ok |-> FALSE] ELSE CollectCrypto(f, next, out)
AfterCrypto(f, c, out) ==
  IF c = None THEN [out |-> out, ok |-> FALSE] ELSE CollectCrypto(f, c.next, Written(out, c.offset, c.data))
FrameFrom(f, kind, out) ==
  CASE kind = None -> [out |-> out, ok |-> FALSE]
    [] kind # None /\ kind.value \in {0, 1} -> CollectCrypto(f, kind.next, out)
    [] kind # None /\ kind.value \in {2, 3} -> GoOn(f, AfterAck(f, kind.next, kind.value = 3), out)
    [] kind # None /\ kind.value = 6 -> AfterCrypto(f, CryptoFrame(f, kind.next), out)
    [] OTHER -> [out |-> out, ok |-> TRUE]

(***************************************************************************)
(* QuicSessions.  A full table is emptied for a new id, which is entered   *)
(* before its packet is opened; a hello that is read ends its entry.       *)
(***************************************************************************)
NewSessions == [byCid |-> <<>>, refused |-> 0]
Entered(s, id) ==
  LET clear == id \notin DOMAIN s.byCid /\ Cardinality(DOMAIN s.byCid) >= MaxSessions
      kept == IF clear THEN <<>> ELSE s.byCid
  IN  [byCid |-> IF id \in DOMAIN kept THEN kept ELSE kept @@ (id :> <<>>),
       refused |-> IF clear THEN s.refused + 1 ELSE s.refused]

LooksLikeInitial(b) ==
  /\ Len(b) >= MinInitial
  /\ At(b, 0) >= 192
  /\ LongHeader(b) # None
  /\ LongHeader(b).initial

Kept(s, id, out, hello) ==
  LET others == [i \in DOMAIN s.byCid \ {id} |-> s.byCid[i]]
  IN  [sessions |-> [s EXCEPT !.byCid = IF hello # None THEN others ELSE others @@ (id :> out)], hello |-> hello]
Gathered(s, id, got) == Kept(s, id, got.out, IF got.ok THEN ParseHelloBody(got.out) ELSE None)
AfterFrames(s, id, frames) ==
  IF frames = None THEN [sessions |-> s, hello |-> None]
  ELSE Gathered(s, id, CollectCrypto(frames, 0, s.byCid[id]))
QuicPacket(s, b, header, key) ==
  IF header.dcid = <<>> THEN [sessions |-> s, hello |-> None]
  ELSE AfterFrames(Entered(s, header.dcid), header.dcid, Opened(b, header, key))
QuicRead(s, b, key) == QuicPacket(s, b, LongHeader(b), key)
=============================================================================
