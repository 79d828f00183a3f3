------------------------------- MODULE Sinks -------------------------------
(***************************************************************************)
(* The destinations of an alert (src/output.rs): files that rotate by      *)
(* size, standard output, and a syslog collector over UDP or TCP; and the  *)
(* packets dumped on an alert, at the end.                                 *)
(*                                                                         *)
(* The files of a sink are a function of their number: 0 is the path that  *)
(* was configured, 1 .. KeepLogs its older generations, Moved where        *)
(* logrotate puts it.  The sink writes to the file it has open, `at`,      *)
(* whatever that is called by now, through a buffer.  A line has a number  *)
(* of its own; its format is that of the sink, and one is the measure of   *)
(* its size.                                                               *)
(*                                                                         *)
(* env says what works: whether the disk takes a write, whether the        *)
(* directory takes a rename and a new file ("good"), neither ("readonly"), *)
(* or no file can be opened for want of descriptors ("noopen"), and        *)
(* whether the collector is there.                                         *)
(***************************************************************************)
EXTENDS Integers, Sequences, FiniteSets, SequencesExt

CONSTANTS
  MaxSize,    \* max_size; 0 if the file is not to rotate itself
  KeepLogs,   \* keep
  BufLines    \* lines that a BufWriter holds

ASSUME SinksAssumption ==
  MaxSize \in Nat /\ KeepLogs \in Nat /\ BufLines \in Nat \ {0}

Moved == -1
Nowhere == -2   \* the file was replaced by another: it has no name any more

WithFile(f, k, v) == [x \in DOMAIN f \cup {k} |-> IF x = k THEN v ELSE f[x]]

NewFile(format) ==
  [kind |-> "file", format |-> format, files |-> [i \in {0} |-> <<>>], at |-> 0, buf |-> <<>>, written |-> 0]
NewStream(kind, format) ==
  [kind |-> kind, format |-> format, got |-> <<>>, conn |-> "live"]

-----------------------------------------------------------------------------
(* What BufWriter cannot write it keeps. *)
Flushed(s, env) ==
  IF ~env.disk THEN s
  ELSE [s EXCEPT !.buf = <<>>,
                 !.files = IF s.at = Nowhere THEN @ ELSE WithFile(@, s.at, @[s.at] \o s.buf)]
FlushFails(s, env) == s.buf # <<>> /\ ~env.disk

(* One rename of rotate(): an open file goes where its name goes. *)
Renamed(s, i) ==
  IF i - 1 \notin DOMAIN s.files THEN s
  ELSE [s EXCEPT !.files = [j \in (DOMAIN @ \ {i - 1}) \cup {i} |-> @[IF j = i THEN i - 1 ELSE j]],
                 !.at = IF @ = i - 1 THEN i ELSE IF @ = i THEN Nowhere ELSE @]

(* A slip: the newest is renamed first. *)
ShiftedNewestFirst(s, n) ==
  LET after[j \in 0 .. n] == IF j = 0 THEN s ELSE Renamed(after[j - 1], j) IN after[n]

(* The first n renames, the oldest generation first. *)
Shifted(s, n) ==
  LET after[j \in 0 .. n] == IF j = 0 THEN s ELSE Renamed(after[j - 1], KeepLogs + 1 - j) IN after[n]

CanOpen(s, env) ==
  \/ env.dir = "good"
  \/ env.dir = "readonly" /\ 0 \in DOMAIN s.files

Result(s, ok) == [sink |-> s, ok |-> ok]

Rotated(s, env) ==
  IF FlushFails(s, env) THEN Result(s, FALSE)
  ELSE LET f == Flushed(s, env)
           r == IF env.dir = "readonly" THEN f ELSE Shifted(f, KeepLogs)
       IN  IF CanOpen(r, env)
           THEN Result([r EXCEPT !.files = WithFile(@, 0, <<>>), !.at = 0, !.written = 0], TRUE)
           ELSE Result(r, FALSE)

Full(s) == MaxSize > 0 /\ s.written >= MaxSize

Buffered(s, line, env) ==
  LET room == IF Len(s.buf) < BufLines THEN s ELSE Flushed(s, env)
  IN  [room EXCEPT !.buf = Append(@, line), !.written = @ + 1]

EmitFile(s, line, env) ==
  IF Len(s.buf) >= BufLines /\ FlushFails(s, env) THEN Result(s, FALSE)
  ELSE LET b == Buffered(s, line, env)
       IN  IF Full(b) THEN Rotated(b, env) ELSE Result(b, TRUE)

ReopenFile(s, env) ==
  LET f == Flushed(s, env)
      files == IF 0 \in DOMAIN f.files THEN f.files ELSE WithFile(f.files, 0, <<>>)
  IN  IF FlushFails(s, env) THEN Result(s, FALSE)
      ELSE IF ~CanOpen(f, env) THEN Result(f, FALSE)
      ELSE Result([f EXCEPT !.files = files, !.at = 0, !.written = Len(files[0])], TRUE)

(***************************************************************************)
(* A connection whose collector has gone may take one more write before    *)
(* that shows (env.silent).  The next alert after a failure connects anew. *)
(***************************************************************************)
EmitTcp(s, line, env) ==
  LET conn == IF s.conn = "none" /\ env.collector THEN "live" ELSE s.conn
  IN  CASE conn = "live" -> Result([s EXCEPT !.conn = conn, !.got = Append(@, line)], TRUE)
        [] conn = "stale" -> Result([s EXCEPT !.conn = IF env.silent THEN @ ELSE "none"], env.silent)
        [] conn = "none" -> Result(s, FALSE)

EmitLine(s, line, env) ==
  CASE s.kind = "file" -> EmitFile(s, line, env)
    [] s.kind = "tcp" -> EmitTcp(s, line, env)
    [] s.kind = "udp" -> Result(IF env.collector THEN [s EXCEPT !.got = Append(@, line)] ELSE s, TRUE)
    [] s.kind = "stdout" -> Result([s EXCEPT !.got = Append(@, line)], TRUE)

-----------------------------------------------------------------------------
(* Output: every sink is tried, and its failures are counted. *)
NewOutput(sinks) == [sinks |-> sinks, errors |-> [i \in DOMAIN sinks |-> 0]]

ToSinks(o, wanting, line, env) ==
  LET res == [i \in DOMAIN o.sinks |-> EmitLine(o.sinks[i], line, env)]
  IN  [sinks |-> [i \in DOMAIN o.sinks |-> IF i \in wanting THEN res[i].sink ELSE o.sinks[i]],
       errors |-> [i \in DOMAIN o.sinks |->
                     o.errors[i] + IF i \in wanting /\ ~res[i].ok THEN 1 ELSE 0]]

Written(o, line, env) == ToSinks(o, DOMAIN o.sinks, line, env)
NoteTo(o, line, env) == ToSinks(o, {i \in DOMAIN o.sinks : o.sinks[i].format = "text"}, line, env)

ReopenAll(o, env) ==
  [o EXCEPT !.sinks = [i \in DOMAIN @ |-> IF @[i].kind = "file" THEN ReopenFile(@[i], env).sink ELSE @[i]]]
FlushAll(o, env) ==
  [o EXCEPT !.sinks = [i \in DOMAIN @ |-> IF @[i].kind = "file" THEN Flushed(@[i], env) ELSE @[i]]]

(* FileSink::open and SyslogSink::connect in a new process. *)
Started(o, env) ==
  NewOutput([i \in DOMAIN o.sinks |->
    LET s == o.sinks[i]
    IN  IF s.kind = "file" THEN ReopenFile([s EXCEPT !.buf = <<>>], env).sink
        ELSE [s EXCEPT !.conn = IF env.collector THEN "live" ELSE "none"]])

(***************************************************************************)
(* The packets dumped on an alert (src/main.rs): PcapRing, the last frames *)
(* that were captured, DumpService, which opens a file for each request    *)
(* of the alert writer, and the thread that writes the files.              *)
(*                                                                         *)
(* A frame is its number and its length.  A file is opened, empty, on the  *)
(* capture thread, and written later from a copy of the ring made then.    *)
(***************************************************************************)
CONSTANTS
  Retain,       \* pcap_retain
  RetainBytes   \* PCAP_RETAIN_BYTES

ASSUME DumpAssumption == Retain \in Nat \ {0} /\ RetainBytes \in Nat \ {0}

NoFrame == [n |-> 0, len |-> 0, caplen |-> 0]

NewDumps ==
  [ring |-> [i \in 0 .. Retain - 1 |-> NoFrame], writeIdx |-> 0, requests |-> <<>>, seq |-> 0, jobs |-> <<>>,
   files |-> <<>>, failed |-> 0, capturing |-> TRUE, lengths |-> <<>>]

(* Every frame read is kept, whatever becomes of it, up to a length.       *)
(* (lengths is a ghost: all the frames there were.)                        *)
Captured(d, len) ==
  [d EXCEPT !.ring[d.writeIdx] =
              [n |-> Len(d.lengths) + 1, len |-> len, caplen |-> IF len < RetainBytes THEN len ELSE RetainBytes],
            !.writeIdx = (@ + 1) % Retain,
            !.lengths = Append(@, len)]

(* The oldest frame is where the next will be put, once the ring is full. *)
Ordered(d) ==
  LET turn(i) == d.ring[(d.writeIdx + i - 1) % Retain]
      kept[i \in 0 .. Retain] ==
        IF i = 0 THEN <<>> ELSE IF turn(i) = NoFrame THEN kept[i - 1] ELSE Append(kept[i - 1], turn(i))
  IN  kept[Retain]

FileName(r, seq) == <<r.ts, seq, r.category, r.proto, r.src>>

(* DumpService::start; `after` is a ghost, the frames there had been. *)
Start(d, r, canOpen) ==
  LET seq == d.seq + 1
      name == FileName(r, seq)
      file == [frames |-> <<>>, written |-> FALSE, after |-> Len(d.lengths), request |-> r]
  IN  IF ~canOpen THEN [d EXCEPT !.seq = seq, !.failed = @ + 1]
      ELSE [d EXCEPT !.seq = seq,
                     !.jobs = Append(@, [name |-> name, frames |-> Ordered(d)]),
                     !.files = [x \in DOMAIN @ \cup {name} |-> IF x = name THEN file ELSE @[x]]]

(* service() takes all that are pending, drain_remaining() one at a time. *)
Served(d, canOpen) ==
  LET n == IF d.capturing THEN Len(d.requests) ELSE 1
      after[i \in 0 .. n] ==
        IF i = 0 THEN [d EXCEPT !.requests = SubSeq(@, n + 1, Len(@))]
        ELSE Start(after[i - 1], d.requests[i], canOpen)
  IN  after[n]

(* The writer of the files; a write that fails leaves the file as it is. *)
Saved(d, disk) ==
  LET job == Head(d.jobs)
  IN  [d EXCEPT !.jobs = Tail(@),
                !.files[job.name] = IF disk THEN [@ EXCEPT !.frames = job.frames, !.written = TRUE] ELSE @]
=============================================================================
