------------------------------ MODULE Delivery ------------------------------
(***************************************************************************)
(* From an alert to a line somewhere: the alert writer (AlertWriter), what *)
(* it knows of the endpoints (Intel), where its lines go and the packets   *)
(* it has dumped (Sinks), with the disk, the directory, the collector and  *)
(* logrotate around them, and a process that may be killed and started     *)
(* again.                                                                  *)
(*                                                                         *)
(* A setting is what one behaviour is about: the alerts and times it may   *)
(* have, the sinks configured, the feed loaded and what may go wrong.      *)
(***************************************************************************)
EXTENDS AlertWriter, Intel, Sinks

CONSTANTS
  Settings,
  Home,        \* -home-net
  Pairs,       \* endpoints of the flows a worker sees
  Meets        \* what it may see of one: the flow, a name in it, its client

Addresses == UNION {[family : {f}, addr : 0 .. Block(AddrBits[f]) - 1] : f \in DOMAIN AddrBits}
InFamily(net) ==
  /\ net.family \in DOMAIN AddrBits /\ net.addr \in 0 .. Block(AddrBits[net.family]) - 1
  /\ net.bits \in Nat
WellTyped(line) ==
  /\ line.says \in {"bare", "ip", "domain", "ja3"} /\ line.is \in {"ip", "domain", "ja3"}
  /\ line.tag # Unlisted
  /\ KindOf(line) = "ip" /\ line.is = "ip" => InFamily(line.net)
  /\ KindOf(line) = "domain" => line.is = "domain" /\ line.name \in Seq(Nat)

ASSUME DeliveryAssumption ==
  /\ \A s \in Settings :
       /\ s.dumps \in BOOLEAN
       /\ s.feed \in Seq(ToSet(s.feed)) /\ \A line \in ToSet(s.feed) : WellTyped(line)
       /\ \A name \in s.names : name \in Seq(Nat) /\ Len(Undotted(name)) <= MaxName
       /\ s.sinks \in Seq(ToSet(s.sinks))
       /\ \A k \in ToSet(s.sinks) :
            \E format \in {"text", "json", "eve"} :
              k \in {NewFile(format)} \cup {NewStream(kind, format) : kind \in {"stdout", "tcp", "udp"}}
  /\ \A p \in Pairs : p.src \in Addresses /\ p.dst \in Addresses
  /\ \A m \in Meets : m.is \in {"flow", "name", "client"}

VARIABLES
  setting,
  intel,       \* the Intel loaded at start
  output,      \* the Output
  text,        \* ghost: what the lines said, by number
  base,        \* lines that earlier processes wrote
  reopen,      \* the flag that the signal thread raises
  moved,       \* logrotate moved the file and has not signalled yet
  env,         \* see Sinks
  spent,       \* faults so far
  worker,      \* IntelSeen of a worker, its alerts and its hits
  sights,      \* ghost: what the worker saw
  dumps        \* the DumpService, if the setting has one

outside == <<moved, env, spent>>
seeing == <<worker, sights>>
dvars == <<vars, setting, intel, output, text, base, reopen, outside, seeing, dumps>>

Healthy == [disk |-> TRUE, dir |-> "good", collector |-> TRUE, silent |-> FALSE]

DeliveryInit ==
  /\ Init
  /\ setting \in Settings
  /\ intel = Load(setting.feed, Home)
  /\ output = NewOutput(setting.sinks)
  /\ text = <<>> /\ base = 0
  /\ reopen = FALSE /\ moved = FALSE
  /\ env = Healthy /\ spent = 0
  /\ worker = NewWorker /\ sights = {}
  /\ dumps = NewDumps

-----------------------------------------------------------------------------
(* A fault is an occasion of the setting, at most setting.faults of them. *)
Spend(kind) == kind \in setting.may /\ spent < setting.faults /\ spent' = spent + 1

Comes(a, t) ==
  /\ received < setting.most /\ a \in setting.alerts
  /\ IF setting.step = 0 THEN t \in setting.times ELSE t = setting.step * received

(* Each turn of the loop takes the flag first. *)
Turned == IF reopen THEN ReopenAll(output, env) ELSE output

(* An alert that is allowlisted or a repeat. *)
Quiet(a, t) ==
  /\ Comes(a, t)
  /\ Allow(a, t) \/ Suppress(a, t)
  /\ output' = Turned /\ reopen' = FALSE
  /\ UNCHANGED <<setting, intel, text, base, outside, seeing, dumps>>

Request(a, t) == [ts |-> t, category |-> a.category, proto |-> a.proto, src |-> a.src]

Tell(a, t) ==
  /\ Comes(a, t)
  /\ Emit(a, t)
  /\ \E silent \in BOOLEAN :
       LET e == [env EXCEPT !.silent = silent]
           note == IF Withheld(a, t) > 0 THEN <<[kind |-> "note"]>> ELSE <<>>
           noteSaid == IF note = <<>> THEN Turned ELSE NoteTo(Turned, Len(text) + 1, e)
       IN  /\ silent => \E i \in DOMAIN output.sinks : output.sinks[i].kind = "tcp"
           /\ text' = text \o note \o <<[kind |-> "alert", alert |-> a, tags |-> TagsOf(intel, a)]>>
           /\ output' = Written(noteSaid, Len(text'), e)
  /\ reopen' = FALSE
  /\ dumps' = [dumps EXCEPT !.requests = IF setting.dumps THEN Append(@, Request(a, t)) ELSE @]
  /\ UNCHANGED <<setting, intel, base, outside, seeing>>

(* A slip: the receive times out and nothing is done. *)
FlushTimeoutIdle == open /\ reopen /\ UNCHANGED dvars

(* Nothing for FLUSH_INTERVAL. *)
FlushTimeout ==
  /\ open
  /\ output' = FlushAll(Turned, env) /\ reopen' = FALSE
  /\ UNCHANGED <<vars, setting, intel, text, base, outside, seeing, dumps>>

Stop ==
  /\ (setting.dumps => ~dumps.capturing) /\ Disconnected
  /\ output' = FlushAll(output, env)
  /\ UNCHANGED <<setting, intel, text, base, reopen, outside, seeing, dumps>>

(***************************************************************************)
(* A process that is killed loses its buffers and its tables, and what it  *)
(* had to dump.  Killed while it rotates, it has written a last line and   *)
(* done n of the renames.                                                  *)
(***************************************************************************)
Interruptible(s) == s.kind = "file" /\ Full([s EXCEPT !.written = @ + 1])
Interrupted(s, n) ==
  IF n = 0 \/ ~Interruptible(s) THEN s
  ELSE Shifted(Flushed(Buffered(s, Len(text) + 1, env), env), n - 1)

Crash(a, n) ==
  /\ open /\ Spend("crash") /\ env.dir = "good" /\ a \in setting.alerts
  /\ n > 0 => env.disk /\ \E i \in DOMAIN output.sinks : Interruptible(output.sinks[i])
  /\ text' = IF n > 0 THEN Append(text, [kind |-> "alert", alert |-> a, tags |-> TagsOf(intel, a)]) ELSE text
  /\ base' = Len(text')
  /\ output' = Started([output EXCEPT !.sinks =
                         [i \in DOMAIN @ |-> Interrupted(@[i], n)]], env)
  /\ lastSeen' = <<>> /\ suppressed' = <<>> /\ newest' = None /\ lastPruned' = None
  /\ emitted' = 0 /\ hidden' = 0 /\ allowlisted' = 0 /\ resets' = 0 /\ noted' = 0 /\ asked' = 0
  /\ received' = 0 /\ memory' = <<>> /\ out' = <<>>
  /\ reopen' = FALSE /\ dumps' = NewDumps
  /\ worker' = NewWorker /\ sights' = {}
  /\ UNCHANGED <<open, setting, intel, moved, env>>

-----------------------------------------------------------------------------
(* The world around. *)
DiskTurns ==
  /\ Spend("disk") /\ env' = [env EXCEPT !.disk = ~@]
  /\ UNCHANGED <<vars, setting, intel, output, text, base, reopen, moved, seeing, dumps>>

DirTurns(d) ==
  /\ Spend("dir") /\ d # env.dir /\ env' = [env EXCEPT !.dir = d]
  /\ UNCHANGED <<vars, setting, intel, output, text, base, reopen, moved, seeing, dumps>>

(* A connection does not learn that its peer has gone. *)
CollectorTurns ==
  /\ Spend("collector") /\ env' = [env EXCEPT !.collector = ~@]
  /\ output' = [output EXCEPT !.sinks = [i \in DOMAIN @ |->
       IF @[i].kind = "tcp" /\ @[i].conn = "live" THEN [@[i] EXCEPT !.conn = "stale"] ELSE @[i]]]
  /\ UNCHANGED <<vars, setting, intel, text, base, reopen, moved, seeing, dumps>>

Archived(s) ==
  IF s.kind # "file" \/ 0 \notin DOMAIN s.files THEN s
  ELSE [s EXCEPT !.files = [f \in (DOMAIN @ \ {0}) \cup {Moved} |->
                              IF f # Moved THEN @[f]
                              ELSE IF Moved \in DOMAIN @ THEN @[Moved] \o @[0] ELSE @[0]],
                 !.at = IF @ = 0 THEN Moved ELSE @]

LogMoved ==
  /\ Spend("logrotate") /\ ~moved /\ env.dir = "good" /\ moved' = TRUE
  /\ output' = [output EXCEPT !.sinks = [i \in DOMAIN @ |-> Archived(@[i])]]
  /\ UNCHANGED <<vars, setting, intel, text, base, reopen, env, seeing, dumps>>

LogSignal ==
  /\ moved /\ moved' = FALSE /\ reopen' = TRUE
  /\ UNCHANGED <<vars, setting, intel, output, text, base, env, spent, seeing, dumps>>

(* A worker meets an address, a name or a client. *)
Sees(w, sight) ==
  /\ Spend("sight")
  /\ worker' = w /\ sights' = sights \cup {sight}
  /\ UNCHANGED <<vars, setting, intel, output, text, base, reopen, moved, env, dumps>>

Sight(pair, what) ==
  /\ intel.ok
  /\ LET w == CASE what.is = "flow" -> NewFlow(worker, intel, pair)
                [] what.is = "name" -> NamedIn(worker, intel, pair, what.name)
                [] what.is = "client" -> ClientOf(worker, intel, pair, what.hash)
     IN  Sees(w, [pair |-> pair, what |-> what])

(* The capture thread and the writer of dumps.  A capture that has ended   *)
(* still serves what the alert writer asks, until that has ended too.      *)
Dumping(d) ==
  /\ setting.dumps /\ dumps' = d
  /\ UNCHANGED <<vars, setting, intel, output, text, base, reopen, moved, env, seeing>>

Frame(len) == dumps.capturing /\ Spend("frame") /\ Dumping(Captured(dumps, len))
EndCapture == dumps.capturing /\ Dumping([dumps EXCEPT !.capturing = FALSE]) /\ UNCHANGED spent
Serve == dumps.requests # <<>> /\ Dumping(Served(dumps, env.dir = "good")) /\ UNCHANGED spent
Save == dumps.jobs # <<>> /\ Dumping(Saved(dumps, env.disk)) /\ UNCHANGED spent

DeliveryNext ==
  \/ \E a \in Alerts, t \in Times : Quiet(a, t) \/ Tell(a, t)
  \/ FlushTimeout
  \/ Stop
  \/ \E a \in Alerts, n \in 0 .. KeepLogs + 1 : Crash(a, n)
  \/ DiskTurns
  \/ \E d \in {"good", "readonly", "noopen"} : DirTurns(d)
  \/ CollectorTurns
  \/ LogMoved
  \/ LogSignal
  \/ \E pair \in Pairs, what \in Meets : Sight(pair, what)
  \/ \E len \in {1, RetainBytes + 1} : Frame(len)
  \/ EndCapture \/ Serve \/ Save

(* The receive has a timeout, so the loop turns even on a quiet link; the  *)
(* alerts of a behaviour end.                                              *)
DeliverySpec == DeliveryInit /\ [][DeliveryNext]_dvars /\ WF_dvars(FlushTimeout)

-----------------------------------------------------------------------------
SinkOf(i) == output.sinks[i]
IsFile(i) == SinkOf(i).kind = "file"
OnDisk(s) == UNION {ToSet(s.files[f]) : f \in DOMAIN s.files}
Holds(s) == IF s.kind = "file" THEN OnDisk(s) \cup ToSet(s.buf) ELSE ToSet(s.got)

(* What the path and its generations hold, or will of the buffer. *)
Generations(s) == (UNION {ToSet(s.files[f]) : f \in DOMAIN s.files \cap 0 .. KeepLogs}) \cup ToSet(s.buf)
Increasing(seq) == \A i, j \in DOMAIN seq : i < j => seq[i] < seq[j]
Ahead(older, newer) == \A m \in older, n \in newer : m < n

(* The generations of a log hold its lines in order and once, whatever     *)
(* interrupted a rotation ("every intermediate state is a valid set of     *)
(* logs"), and standard output has every line but notes that are not in    *)
(* its format.                                                             *)
LogInOrder(s) ==
  /\ Increasing(s.buf) /\ \A f \in DOMAIN s.files : Increasing(s.files[f])
  /\ \A f \in DOMAIN s.files \cap 0 .. KeepLogs :
       /\ Ahead(ToSet(s.files[f]), ToSet(s.buf))
       /\ \A g \in DOMAIN s.files \cap 0 .. f - 1 : Ahead(ToSet(s.files[f]), ToSet(s.files[g]))
  /\ Moved \in DOMAIN s.files => ToSet(s.files[Moved]) \cap Generations(s) = {}
InOrder ==
  \A i \in DOMAIN output.sinks :
    LET s == SinkOf(i)
    IN  CASE s.kind = "file" -> LogInOrder(s)
          [] s.kind = "stdout" ->
               \A n \in base + 1 .. Len(text) : text[n].kind = "alert" \/ s.format = "text" => n \in ToSet(s.got)
          [] OTHER -> Increasing(s.got)

(* Lines leave a log only with its oldest generation, one for each line    *)
(* told, or with a buffer whose process was killed; a buffer is pushed out *)
(* as it is written if there are no more generations than new files in a   *)
(* turn.  The file of a directory that takes no rename is emptied, which   *)
(* is noted in the README.                                                 *)
LeavesRightly(s, t) ==
  LET gone == Holds(s) \ Holds(t)
      told == Len(text') - Len(text)
      turns == told + (IF reopen THEN 1 ELSE 0)
  IN  /\ gone \cap OnDisk(s) \subseteq
           CASE env.dir = "good" -> UNION {ToSet(s.files[f]) : f \in {g \in DOMAIN s.files \ {Moved} : g + told > KeepLogs}}
             [] env.dir = "noopen" -> {n \in OnDisk(s) : \A m \in Generations(t) : n < m}
             [] env.dir = "readonly" -> OnDisk(s)
      /\ gone \cap ToSet(s.buf) # {} => base' # base \/ env.dir = "readonly" \/ turns > KeepLogs

(* A sink that is told a line has it, or counts a failure, unless it went  *)
(* to a collector that was not there; a connection that failed is dropped, *)
(* so that the next line asks for a new one.                               *)
SaidOrCounted(i) ==
  LET n == Len(text')
  IN  \/ n \in Holds(SinkOf(i)')
      \/ output'.errors[i] > output.errors[i] /\ (SinkOf(i).kind = "tcp" => SinkOf(i)'.conn = "none")
      \/ SinkOf(i).kind = "tcp" /\ SinkOf(i).conn = "stale" /\ output'.errors[i] = output.errors[i]
      \/ SinkOf(i).kind = "udp" /\ ~env.collector
      \/ IsFile(i) /\ (env.dir = "readonly" \/ KeepLogs = 0)

(* No line is lost on the way but as the comments of output.rs say, and    *)
(* one sink that fails takes no line from another.                         *)
LinesKept ==
  /\ []InOrder
  /\ [][\A i \in DOMAIN output.sinks :
          /\ IsFile(i) => LeavesRightly(SinkOf(i), SinkOf(i)')
          /\ Len(text') > Len(text) /\ base' = base => SaidOrCounted(i)]_dvars

(* Pruning is not seen: while nothing was cleared, the writer writes and   *)
(* withholds exactly what it would had it kept every key for ever          *)
(* ("only ever discards entries far older than anything still in flight"). *)
Remembered == INSTANCE Suppression WITH Key <- Keys, Time <- Times, last <- memory
ImplementsSuppression ==
  Remembered!Init /\ [][resets' = 0 /\ base' = base => Remembered!Next]_(Remembered!vars)

(* Buffered lines reach the disk even if no further alert comes, and a     *)
(* signal is answered.                                                     *)
BuffersEmpty == \A i \in DOMAIN output.sinks : IsFile(i) => SinkOf(i).buf = <<>>
LinesReachDisk ==
  /\ open /\ ~BuffersEmpty ~> BuffersEmpty \/ ~env.disk
  /\ reopen ~> ~reopen \/ ~open

-----------------------------------------------------------------------------
(* What the feed says of an address, line by line. *)
NetHas(net, a) ==
  LET size == Block(AddrBits[net.family] - net.bits)
  IN  net.family = a.family /\ net.addr \div size = a.addr \div size
LinesOn(a) == {l \in ToSet(setting.feed) : KindOf(l) = "ip" /\ NetHas(l.net, a)}
NameLines == {l \in ToSet(setting.feed) : KindOf(l) = "domain"}

(* An address has the tag of a line that covers it, of those that begin    *)
(* last; merging ranges is not seen.                                       *)
TagTrue(a) ==
  LET tag == Lookup(intel.reputation, a)
      start(l) == RangeOf(l.net, l.tag).start
  IN  IF LinesOn(a) = {} THEN tag = Unlisted
      ELSE \E l \in LinesOn(a) : l.tag = tag /\ \A m \in LinesOn(a) : start(m) <= start(l)

(* A name is listed if it or a parent of two labels or more is, whatever   *)
(* its case and the dots around it.                                        *)
Plain(name) == Lowered(Undotted(name))
Under(name, n) == \E i \in DOMAIN Plain(name) : Plain(n) = SubSeq(Plain(name), i, Len(Plain(name)))
NameTrue(name) ==
  LookupName(intel.names, name) # Unlisted <=>
    \E l \in NameLines : Under(name, l.name) /\ (Len(Plain(l.name)) > 1 \/ Plain(l.name) = Plain(name))

(* Every listed thing a worker met was said of its pair, and said again    *)
(* only after the table of pairs had been full.                            *)
ListedSight(s) ==
  CASE s.what.is = "flow" -> LinesOn(s.pair.src) \cup LinesOn(s.pair.dst) # {}
    [] s.what.is = "name" -> LookupName(intel.names, s.what.name) # Unlisted
    [] s.what.is = "client" -> \E l \in ToSet(setting.feed) : KindOf(l) = "ja3" /\ l.hash = s.what.hash
SightsSaid ==
  /\ ToSet(worker.raised) = {s.pair : s \in {x \in sights : ListedSight(x)}}
  /\ \A i, j \in DOMAIN worker.raised :
       i < j /\ worker.raised[i] = worker.raised[j] =>
         Cardinality({worker.raised[k] : k \in 1 .. j - 1}) >= SeenCap

TagsTrue ==
  IF ~intel.ok THEN (\E l \in ToSet(setting.feed) : ~WellFormed(l)) \/ \E net \in ToSet(Home) : net.bits > AddrBits[net.family]
  ELSE /\ \A a \in Addresses : TagTrue(a)
       /\ \A name \in setting.names : NameTrue(name)
       /\ SightsSaid
       /\ \A n \in DOMAIN text : text[n].kind = "alert" =>
            text[n].tags.src = Lookup(intel.reputation, text[n].alert.src)

(* The lines of a process are its alerts and its notes, never one that the *)
(* operator allowlisted.                                                   *)
TellsOnlyEmitted ==
  LET alerts == {n \in base + 1 .. Len(text) : text[n].kind = "alert"}
  IN  /\ Cardinality(alerts) = emitted
      /\ \A n \in alerts : text[n].alert \notin Allowed

(* Each alert written has a file of its own, or waits for one, or was told *)
(* to have none; and a file has the last frames before it was opened, in   *)
(* order and none twice, with the length each had and the length kept.     *)
LastFrames(n) ==
  LET first == IF n < Retain THEN 0 ELSE n - Retain
      kept(len) == IF len < RetainBytes THEN len ELSE RetainBytes
  IN  [i \in 1 .. n - first |->
         [n |-> first + i, len |-> dumps.lengths[first + i], caplen |-> kept(dumps.lengths[first + i])]]
DumpsTrue ==
  setting.dumps =>
    /\ emitted = Len(dumps.requests) + Cardinality(DOMAIN dumps.files) + dumps.failed
    /\ \A name \in DOMAIN dumps.files :
         LET file == dumps.files[name]
         IN  /\ file.written => file.frames = LastFrames(file.after)
             /\ \E i \in DOMAIN out : out[i].ts = file.request.ts

(* Every alert taken is accounted for, and the lines are those written.    *)
DeliverySound == WriterSound /\ TellsOnlyEmitted

(* What is recorded of an alert is true: the tags of its line, and the     *)
(* frames of its dump.                                                     *)
RecordsTrue == TagsTrue /\ DumpsTrue
=============================================================================
