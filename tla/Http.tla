-------------------------------- MODULE Http --------------------------------
(***************************************************************************)
(* HTTP/1 heads (src/engine.rs): a request or a response is read once the  *)
(* blank line that ends its head has come, and what it says is told to the *)
(* rules buffer by buffer; and the bodies that follow, hashed as files.    *)
(***************************************************************************)
EXTENDS Wire

(* Words.                                                                  *)
HttpVersion == 300
Methods == 310 .. 318
HeadMethod == 314
Host == 320
UserAgent == 321
Cookie == 322
ContentLength == 323
TransferEncoding == 324
Chunked == 325
Connection == 326
Close == 327
ContentType == 328
Server == 329
Location == 330
SetCookie == 331

Blank == Crlf \o Crlf
RECURSIVE CrlfLines(_)
CrlfLines(s) ==
  LET at == Find(s, Crlf)
  IN  IF at = None THEN <<s>> ELSE <<Slice(s, 0, at)>> \o CrlfLines(From(s, at + 2))

(* A head's text has no byte outside ASCII that is not part of a word.     *)
IsText(s) == \A i \in DOMAIN s : s[i] \notin 128 .. 255
HeadOf(b) ==
  LET sep == Find(b, Blank)
  IN  IF sep = None \/ ~IsText(Slice(b, 0, sep)) THEN None ELSE Slice(b, 0, sep)

Field(line) ==
  LET at == Find(line, <<Colon>>)
  IN  IF at = None THEN None
      ELSE [name |-> Trim(Slice(line, 0, at)), value |-> Trim(From(line, at + 1))]
Fields(head) == SelectSeq([i \in 1 .. Len(CrlfLines(head)) - 1 |-> Field(CrlfLines(head)[i + 1])],
                          LAMBDA f : f # None)
Values(fields, name) ==
  LET mine == SelectSeq(fields, LAMBDA f : f.name = <<name>>)
  IN  [i \in DOMAIN mine |-> mine[i].value]

(* What frames the body: the first length that is a number, chunking said  *)
(* anywhere, a connection to be closed.                                    *)
DeclaredLength(fields) ==
  LET good == SelectSeq(Values(fields, ContentLength), IsNumber)
  IN  IF good = <<>> THEN None ELSE NumberOf(good[1])
IsChunked(fields) == \E v \in ToSet(Values(fields, TransferEncoding)) : Chunked \in ToSet(v)
ClosesAfter(fields) == <<Close>> \in ToSet(Values(fields, Connection))

FramedBy(b, head, fields) ==
  [head |-> head, fields |-> fields, length |-> DeclaredLength(fields),
   chunked |-> IsChunked(fields), closes |-> ClosesAfter(fields),
   offset |-> Len(head) + 4, body |-> From(b, Len(head) + 4)]
Framing(b, head) == FramedBy(b, head, Fields(head))

ParseRequest(b) ==
  LET head == HeadOf(b)
      parts == SplitAt(CrlfLines(head)[1], Sp)
  IN  IF head = None THEN None
      ELSE IF parts[1] \notin {<<m>> : m \in Methods} \/ Len(parts) < 2 THEN None
      ELSE Framing(b, head) @@ [method |-> parts[1], uri |-> parts[2]]

IsCode(s) == IsNumber(s) /\ NumberOf(s) \in 100 .. 999
ParseResponse(b) ==
  LET head == IF Begins(b, <<HttpVersion>>) THEN HeadOf(b) ELSE None
      parts == SplitAt(CrlfLines(head)[1], Sp)
  IN  IF head = None THEN None
      ELSE IF Len(parts) < 2 \/ ~IsCode(parts[2]) THEN None
      ELSE Framing(b, head) @@ [code |-> NumberOf(parts[2]),
                                message |-> FlattenSeq(SubSeq(parts, 3, Len(parts)))]
Bodiless(r) == r.code < 200 \/ r.code \in {204, 304}

(***************************************************************************)
(* What the rules are told.                                                *)
(***************************************************************************)
HeaderBlock(head) ==
  LET at == Find(head, Crlf) IN IF at = None THEN Crlf ELSE From(head, at + 2) \o Blank
HeaderNames(fields) ==
  Crlf \o FlattenSeq([i \in DOMAIN fields |-> fields[i].name \o Crlf]) \o Crlf
FirstOf(buffer, fields, name) ==
  LET v == Values(fields, name) IN IF v = <<>> THEN <<>> ELSE <<<<buffer, v[1]>>>>

(* Content-Length and Connection stand for the six headers whose value is  *)
(* told from either side.                                                  *)
HeadTold(m) ==
  LET line == CrlfLines(m.head)[1]
  IN  <<<<"http.header", HeaderBlock(m.head)>>, <<"http.header_names", HeaderNames(m.fields)>>,
        <<"http.start", m.head \o Blank>>, <<"http.line", line>>>>
      \o FirstOf("http.content_len", m.fields, ContentLength)
      \o FirstOf("http.connection", m.fields, Connection)
      \o (IF HttpVersion \in ToSet(line) THEN <<<<"http.protocol", <<HttpVersion>>>>>> ELSE <<>>)
      \o (IF m.body = <<>> THEN <<>> ELSE <<<<"http.body", m.body>>>>)

RequestTold(m) ==
  IF m = None THEN None
  ELSE <<<<"http.method", m.method>>, <<"http.uri", m.uri>>>> \o HeadTold(m)
       \o FirstOf("http.host", m.fields, Host)
       \o FirstOf("http.user_agent", m.fields, UserAgent)
       \o FirstOf("http.cookie", m.fields, Cookie)

Cookies(fields) == Values(fields, SetCookie)
ResponseTold(m) ==
  IF m = None THEN None
  ELSE <<<<"http.stat_code", <<m.code>>>>, <<"http.stat_msg", m.message>>>> \o HeadTold(m)
       \o FirstOf("http.content_type", m.fields, ContentType)
       \o FirstOf("http.server", m.fields, Server)
       \o FirstOf("http.location", m.fields, Location)
       \o (IF Cookies(m.fields) = <<>> THEN <<>>
           ELSE <<<<"http.cookie", FlattenSeq(Cookies(m.fields))>>>>)
       \o (IF m.code = 401 THEN <<<<"failure", "HTTP">>>> ELSE <<>>)

(***************************************************************************)
(* A body hashed as its bytes come in (src/files.rs and BodyTap of         *)
(* src/engine.rs): by declared length, by chunks, or until the close.  The *)
(* digest of some content is that content: two files have the same digest  *)
(* exactly when they are the same bytes.                                   *)
(***************************************************************************)
CONSTANTS
  MaxHash,        \* MAX_STREAM_HASH
  HeadBytes,      \* leading bytes kept for the type
  MaxChunk,       \* the largest chunk accepted
  Magic, Descriptions   \* sequences of [at, sig, name]

Named(table, data) ==
  LET i == SelectInSeq(table, LAMBDA m : Begins(From(data, m.at), m.sig))
  IN  IF i = 0 THEN None ELSE table[i].name
Identify(data) == Named(Magic, data)
Describe(data) == Named(Descriptions, data)

(* FileHasher.                                                             *)
NewHasher == [hashed |-> <<>>, truncated |-> FALSE]
Update(h, data) ==
  IF h.truncated THEN h
  ELSE LET take == Min({Len(data), MaxHash - Len(h.hashed)})
       IN  [hashed |-> h.hashed \o Slice(data, 0, take), truncated |-> take < Len(data)]
FileOf(h) ==
  IF h.hashed = <<>> THEN None
  ELSE LET first == Slice(h.hashed, 0, Min({Len(h.hashed), HeadBytes}))
       IN  [digest |-> h.hashed, truncated |-> h.truncated,
            kind |-> Identify(first), magic |-> Describe(first)]

(***************************************************************************)
(* Dechunker: one byte at a time, whatever the cuts.                       *)
(***************************************************************************)
NewDechunker == [state |-> "size", left |-> 0, size |-> 0, seen |-> FALSE,
                 done |-> FALSE, bad |-> FALSE, out |-> <<>>]
Failed(c) == [c EXCEPT !.bad = TRUE, !.done = TRUE]
HexDigit(x) == IF x \in 48 .. 57 THEN x - 48 ELSE IF x \in 97 .. 102 THEN x - 87 ELSE None

SizeByte(c, x) ==
  IF x = Lf THEN IF ~c.seen THEN Failed(c)
                 ELSE IF c.size = 0 THEN [c EXCEPT !.done = TRUE]
                 ELSE [c EXCEPT !.state = "data", !.left = c.size]
  ELSE IF x = Cr THEN c
  ELSE IF x = 59 THEN [c EXCEPT !.state = "extension"]
  ELSE IF c.state = "extension" THEN c
  ELSE IF HexDigit(x) = None \/ 16 * c.size + HexDigit(x) > MaxChunk THEN Failed(c)
  ELSE [c EXCEPT !.size = 16 * @ + HexDigit(x), !.seen = TRUE]

ChunkByte(c, x) ==
  IF c.done THEN c
  ELSE IF c.state \in {"size", "extension"} THEN SizeByte(c, x)
  ELSE IF c.state = "data"
  THEN [c EXCEPT !.out = Append(@, x), !.left = IF @ = 1 THEN 2 ELSE @ - 1,
                 !.state = IF c.left = 1 THEN "end" ELSE "data"]
  ELSE IF c.left <= 1 THEN [c EXCEPT !.state = "size", !.size = 0, !.seen = FALSE]
  ELSE [c EXCEPT !.left = @ - 1]

Dechunked(c, data) == FoldLeft(ChunkByte, [c EXCEPT !.out = <<>>], data)

(***************************************************************************)
(* BodyTap.                                                                *)
(***************************************************************************)
NewTap(length, chunked, dropped) ==
  [hash |-> NewHasher, remaining |-> IF chunked THEN None ELSE length,
   chunk |-> IF chunked THEN NewDechunker ELSE None, done |-> FALSE, incomplete |-> dropped]

Fed(tap, data) ==
  IF tap.done THEN tap
  ELSE IF tap.chunk # None
  THEN LET c == Dechunked(tap.chunk, data)
       IN  [tap EXCEPT !.chunk = c, !.hash = Update(@, c.out),
                       !.incomplete = @ \/ c.bad, !.done = c.done]
  ELSE IF tap.remaining # None
  THEN LET take == Min({tap.remaining, Len(data)})
       IN  [tap EXCEPT !.hash = Update(@, Slice(data, 0, take)),
                       !.remaining = @ - take, !.done = tap.remaining = take]
  ELSE [tap EXCEPT !.hash = Update(@, data)]

Finish(tap) == IF tap.incomplete THEN None ELSE FileOf(tap.hash)
=============================================================================
