# A verification of ARGUS

ARGUS is a network intrusion detection sensor: it captures packets (or replays
a file), decodes and reassembles them, runs detectors and rules over what they
say, and writes alerts. This directory models the parts of it where state,
order, limits and threads meet, checks them with TLC on small instances, and
proves some of the results for every value of the parameters with TLAPS.

Line numbers below are those of the sources under `src/src/`.

## 1. The system

```
 interface or file
       |  frames
   capture thread --- Decoder (decode.rs): link layers, fragments, tunnels
       |  a buffer of the packet pool, to the worker of the packet's host pair
   worker threads --- FlowTable, DatagramFlows, AnomalyEngine, rules (engine.rs,
       |               rules.rs), StreamHalf: one reassembler per direction
       |--- observations --> aggregator (behavior.rs, window.rs)
       |--- flow records --> flow writer
       '--- alerts, also the aggregator's
                |
            threshold gate (threshold.rs)
                |
            alert writer (engine.rs run_alert_writer) --> sinks (output.rs)
                '--- dump requests --> capture thread --> pcap writer
   reloader, signal bridge (reload.rs), metrics server (metrics.rs)
```

| component | state | operations | what makes it correct |
|---|---|---|---|
| capture, pool, sharding (`main.rs`) | free list, worker queues, counters | take a buffer, decode, send or shed, dump requests, end | no buffer is lost; a replay sheds nothing; a live capture never blocks |
| decoder (`decode.rs`) | table of incomplete datagrams, counters | sweep, offer a fragment, rebuild, strip tunnels, parse | every byte follows the overlap policy; limits hold without evicting; stale fragments never mix in |
| stream reassembly (`engine.rs` `StreamHalf`) | next sequence number, buffer, held segments | SYN, feed, drain | what parsers see is the sender's stream; nothing is stranded |
| flow table (`engine.rs` `FlowTable`) | flows, sweep times, records, observations | observe, pressure, sweep, retire, interim report, flush | bytes told once, each flow retired once, live flows stay |
| datagram conversations (`engine.rs` `DatagramFlows`) | conversations by pair of endpoints | observe, refuse, expire, flush | every packet admitted is in one record, in its own direction |
| anomaly engine (`engine.rs` `AnomalyEngine`, `UdpPairTracker`) | rate buckets and ports per source, pairs that spoke over UDP, volume not yet reported | observe, make room, sweep, flush | floods and scans are what the last packets are; a reply is no probe; every volume is reported |
| aggregator (`behavior.rs`, `window.rs`) | sources, pairs, domains, held observations | put observations in order, count distinct and rates in windows | order does not change the alerts; evidence is not forgotten early |
| threshold gate (`threshold.rs`) | windows, shared bits, held alerts | admit, apply bits, settle a batch, reload | a rule reports what its threshold says; a replay counts in time order |
| alert writer (`engine.rs`) | suppression table, repeats, sinks | allow, suppress, write, flush, prune | no alert vanishes without being counted; pruning is invisible |
| hot reload (`reload.rs`, `main.rs`) | slot and generation, watch stamps, flags | store, get, poll, load, signal | a reader has what its generation promises; changes and signals are not lost |
| sinks (`output.rs`) | files and their generations, buffers, connections, error counts | write, rotate, reopen, flush | each sink has every line once, or counts the failure; a rotation interrupted anywhere leaves logs in order |
| packet dump (`main.rs` `PcapRing`, `DumpService`) | the last frames, requests, files to write | capture, ask, open, write | each alert has its file, with the frames before it |
| enrichment (`intel.rs`) | ranges of addresses, names, client fingerprints, pairs already told | load, look up, first time | what is listed is found, whatever else is listed |
| rules (`rules.rs`, `engine.rs` `RuleSet`) | rules by buffer and side, literal index, bits and parts per connection, scans of streams | load leniently, match a buffer, match a stream that grows | a bad line harms nothing; the index finds what a plain reading finds, however the stream was cut |
| application parsers (`engine.rs`, `enterprise.rs`, `tlscert.rs`, `quic.rs`) | latches and cursors per direction, a body tap, partial QUIC hellos | read a stream from the front, take what is newly complete, hash a body, read a datagram | what is told does not depend on the segments; files are those that were sent |
| packet parsing (`packet.rs`) | | read a frame | a frame is what was sent, or a part of it |
| options and metrics (`config.rs`, `metrics.rs`), conversion tools (`tools/`) | | | not modelled: section 8 |

What is hard to test here:

* **Threads.** Every stage is a thread; channels are closed by dropping the last
  sender, and `main` joins the threads in turn. A sender kept too long hangs the
  shutdown. Rules and enrichment are replaced while workers read them.
* **Order.** Times are the packets' own. They step back between threads, and a
  worker's alerts reach the gate and the writer in scheduling order.
* **Limits.** Every table is bounded, and each has its own answer when it is
  full: refuse, make room from the idle, prune, or clear.
* **Cuts.** A stream comes in segments of any size and each reader runs over
  what is buffered with every one of them. A latch that is set a segment early,
  or a cursor that moves past half a message, loses something for good.
* **Failures.** The disk, the log directory and the collector fail and recover
  in the middle of a rotation or a burst; logrotate moves a file away; the
  process is killed between two renames.
* **Arithmetic at an edge.** Sequence numbers wrap; windows and timeouts are
  compared with `<` or `<=`.
* **Long histories.** Bytes are reported in parts over the life of a
  connection, and a flow may leave in four ways.

`PROJECT.json` lists the hazards one by one, at their lines.

## 2. The modules

| module | models | kind |
|---|---|---|
| `ByteStream` | what reassembly promises: a stream that only grows, from one place, cut at a cap | abstract |
| `TcpStream` | `StreamHalf`: `init_seq_from_syn`, `feed`, `append`, `drain_out_of_order` | detailed; refines `ByteStream` |
| `TcpStreamProofs` | the theorems about `TcpStream` | proofs |
| `FlowTable` | `FlowTable`: `observe`, `expire`, `retire`, `flush_open_flows`, the worker's drain | detailed |
| `HotReload` | `Hot`, `Cached`, `Watch`, the reloader, the signal bridge, a worker's refresh, the gate's | detailed |
| `Suppression` | what suppression promises with an unbounded memory | abstract |
| `AlertWriter` | `run_alert_writer` | detailed; refines `Suppression` |
| `Intel` | feeds, ranges, names, the allowlist, directions, the table of pairs | operators |
| `Sinks` | `FileSink`, `SyslogSink`, standard output, the fan-out; `PcapRing`, `DumpService`, the writer of capture files | operators |
| `Delivery` | the alert writer with its enrichment, sinks and dumps, and the world around them | composition |
| `Pipeline` | the threads and channels of `main`, `run_capture`, and the stages' receive loops | composition |
| `Decode` | `Decoder`, `Defragmenter`, `decapsulate` | detailed |
| `RateControl` | what a threshold promises: matches are numbered and the number decides | abstract |
| `ThresholdGate` | `Gate`, `run_threshold_gate` | detailed; refines `RateControl` |
| `Behavior` | `BehaviorEngine`, `run_behavior_engine`, on the windows of `window.rs` (`WindowSet`, `RateWindow`, `AlertGate`, `Periodicity`) | detailed |
| `Anomaly` | `AnomalyEngine`, `UdpPairTracker` | detailed |
| `Datagrams` | `DatagramFlows` | detailed |
| `WorkerTables` | both, as the worker's loop drives and stops them | composition |
| `RuleTerms` | header conditions, transforms, contents and the terms that compute | operators |
| `RuleLoad` | reading a rules file, strictly and leniently; composites; bits | operators |
| `RulePlain` | what a rules file promises: every rule tried on every whole buffer | abstract |
| `RuleMatch` | `RuleSetV2`, `RuleSet::check`, `StreamScan`, `FlowBits` | detailed; refines `RulePlain` |
| `Wire` | numbers, slices, lines and DER elements, over bytes | operators |
| `Http`, `Tls`, `Lan` | the readers of each protocol; in `Http` a body hashed as it comes, in `Tls` QUIC's first packets and their sessions | operators |
| `Inspection` | the part of `FlowTable::observe` that reads a stream: latches, cursors, the tap | detailed |
| `Mail` | frames and their headers; a worker's datagrams before their readers; `Inspection` and the datagrams side by side | composition |
| `ThreadProofs` | the theorems about `HotReload` and `Behavior` | proofs |
| `FlowTableProofs`, `PipelineProofs`, `DeliveryProofs`, `DecodeProofs`, `ThresholdGateProofs`, `WorkerTablesProofs` | the theorems about the module each is named for | proofs |
| `MC...` | values for the constants | model checking |

Some operators are marked as a *slip* in their comment. They are not part of
any specification: each is what a nearby definition would be with a plausible
mistake in it, and putting it in that definition's place must break a property.

### How state and actions correspond to the code

**TcpStream.** `nextSeq`, `buffer`, `ooo` and `dropped` are the fields of
`StreamHalf`. A byte is its position in the sender's stream and the copy it came
in, so that a byte out of place is visible; the code only ever sees sequence
numbers, which wrap at `SeqSpace`. `Syn` and `Segment` are the two ways
`observe` reaches `feed`; `DrainOne` is one turn of the loop of
`drain_out_of_order`, `DrainDone` its end. The ghosts `base` and `first` say
where the stream was joined and which copy of a byte was accepted first.

**FlowTable.** `Observe` is the whole of `FlowTable::observe`: making room,
refusing, creating, counting, the interim report, retiring a closed flow and
the sweep. `Drain` is what the worker takes after each packet, `FlushOpenFlows`
the end of the worker. The ghosts count bytes and flows from outside.

**HotReload.** `store` is two steps (the slot, then the generation) and `get`
two (the generation, then the slot), so all interleavings with the reloader are
behaviours. A publication is numbered; generation `g` promises publication
`g - 1` or a later one. Files are a version, whether it parses, and whether the
path exists. The handler of SIGHUP makes two stores (`Signal`, `HandlerEnds`) and
the bridge a swap and a store for each of two flags (`BridgeSwap`, `BridgeStore`);
each is a step, and `owed` is the ghost of what was asked for and not begun since.
A worker whose place is "off" gets no packets, and a gate no alerts.

**AlertWriter.** One action per way an alert leaves the loop body (`Allow`,
`Suppress`, `Emit`), each with the pruning that precedes it, and `Disconnected`
for the end of the channel; a receive that times out is `FlushTimeout` of
`Delivery`.

**Delivery.** `Quiet` and `Tell` are `AlertWriter`'s actions with what they do
to the sinks: each turn first answers a request to reopen, a note of repeats goes
before its alert, and every sink is offered every line. The files of a sink are
kept by generation, and `at` is the one it has open, whatever its name is by
now, as a descriptor does. `Crash` stops the process between any two renames
of a rotation; `DiskTurns`, `DirTurns`, `CollectorTurns`, `LogMoved` and
`LogSignal` are the world's. `Frame`, `EndCapture`, `Serve` and `Save` are the
threads of the packet dump. `Sight` is a worker that meets an address, a name or
a client. A behaviour has one of the `Settings`, so that each is about one thing.

**WorkerTables.** `Observe` of `Anomaly` is `AnomalyEngine::observe` for one
packet: making room, counting, the checks and the sweep; `Observe` of `Datagrams`
is `DatagramFlows::observe`. `WorkerPacket` is the worker's turn over both,
`WorkerStop` its end. The sweep that every 4096th packet brings, of either table,
may fall on any packet. `active` is the list of sources with volume to report, as
how often each is listed: the order of the reports does not matter. The ghost `log`
keeps every packet and what was said of it; `counted` and `told` count datagrams by
direction.

**RuleLoad, RuleMatch.** A line is a sequence of options, taken in order by
`Option` as the loop of `parse_any` does. `Load` is `load_inner`. A side's
segment goes through `CheckStream`, a buffer through `CheckOne`, a datagram
through `CheckAny`; each finds candidates through the index, evaluates them, then
does what the matching rules do. Bits are kept in words and parts in a list that
becomes a table, as in `FlowBits`; a rule of several buffers is one rule per
buffer and a composite. `Reload` (only in `ReloadSpec`) replaces the rules under a
connection.

**Inspection.** A reader is an operator from bytes to what it tells. `OneShots`
and `LateShots` are the readers that latch, in the order of the code; `Latches`
says when. `Cursors` are the readers that take what is newly complete. `Segment`
is the whole of `observe` for one segment, with the tap fed before the readers and
closed by a FIN. A scene is a connection with what its author meant it to say;
`Deliver` cuts it anywhere the `Cuts` allow and `CloseSide` may end it early.

**Mail.** `Arrive` takes one letter, whole or cut short, through
the packet's headers, the reader of its port and QUIC. Opening a packet is external: it
gives the frames sealed under the key of its destination id, if it is whole.

**Pipeline.** A channel is the number of messages in it. A capture goes through
`read`, `buffer`, `decode`, `send` and `drain`; a worker through `recv` and
`busy`; each later stage has its receive, its work and its end. A `try_send`
takes as many as fit. `Join` is one join of `main`. The process is started in
one of the `Modes`: replay or live, with or without dumps, one interface or
several. A dump file may fail to open. The reloader, which only reads `running`,
is `HotReload`'s.

**Decode.** `Sweep` comes first in every frame, as in `decode`. `Refuse`,
`Absorb` and `Complete` are the outcomes of `offer`; `Assemble` lays the pieces one over
another in the order of the policy, as `assemble` does. Headers are abstracted to
what a frame decodes to.

**ThresholdGate.** `Settle` is `settle`: conditions on the bits, effects, the
threshold. `Receive` is one turn of the loop with its refresh, `SettleHeld` one
alert of a sorted batch. The ghosts number every match with nothing pruned, and
keep every bit.

**Behavior.** `Observed` is `observe`: the sweep, then the visit each kind of
observation pays to its source, its pair and its domain. Each visit (`VisitSource`, ...) is
refused or makes the entry, puts the observation in its windows
(`SourceAfter`, ...), and raises what its counts call for (`SourceClaims`, ...)
where a gate allows it. `Receive` and
`Quiet` are the turns of the live loop, with what is let go of in `ready`; `Hold`
is the replay's; `Process` gives the engine the next; `Finish` is the end of
either. A category stands for an alert. The ghost `processed` is everything the
engine was given and what it raised, so that `Fact` can be read from all of it
and never from a window. A `RateWindow` is a map from the seconds that own a
bucket to their amounts; the ring of gaps is a sequence, since the verdict on
them does not depend on their order, and is exact where the code uses floats.

## 3. What the runs check

| run | properties | what it shows |
|---|---|---|
| `TcpStream` | `TypeOK`, `NothingStranded`, `ImplementsByteStream`, `DrainEnds` | every order, overlap, repeat and hole of segments, across the wrap of the sequence space, gives the sender's stream cut at the cap; no accepted byte is left behind the stream; the loop ends |
| `FlowTable` | `TableSound`, `BytesToldOnce`, `LiveFlowsStay` | bytes are reported exactly once over interim reports and four ways of leaving; each flow is logged once; no closed flow is kept; timeouts are honoured from both sides |
| `HotReload` | `ReadersCurrent`, `RulesFollow`, `SignalServed` | no packet or alert is judged by rules older than its arrival; a rule file left good ends up in use, though it changed during a reload, between its stamp and its read, or while the other file was absent or refused; what a signal asks for is done after it came, between whichever two accesses to the flags it falls |
| `Delivery` | `DeliverySound`, `RecordsTrue`, `ImplementsSuppression`, `LinesReachDisk`, `LinesKept` | until the table is cleared, pruning never changes what is written; feeds of every shape are looked up as their lines say; logs that rotate under a failing disk or directory, logrotate and kills stay in order and lose only what they may; one sink's failure takes no line from another; lines are flushed on a quiet link; a dump has the frames before its alert |
| `Pipeline` | `NothingLost`, `EndsClean`, `ShutdownEnds` | no buffer leaks on any path; nothing is left in a channel at exit; a replay sheds no frame; every alert is settled, counted as shed, or left by the aggregator; shutdown never hangs |
| `Decode` | `TableSound`, `PiecesTrue`, `NeverEvicted` | both overlap policies decide every byte; limits hold; refusing never evicts; expired fragments are not used |
| `Gate` | `GateSound`, `ImplementsRateControl` | every kind of threshold, with pruning and reloads, reports what the numbering of matches says; no live bit is lost; a replay counts in one order |
| `Behavior` | `AlertsExact`, `HeldInOrder`, `HeldProcessed` | with observations in order, every detector says what a count over the whole history says, alerts of a kind are spaced, no pruning, sweep, shared bucket or gate loses one, and a full table only makes it silent; skew within the window and any order of a replay is undone; nothing stays held on a quiet link |
| `WorkerTables` | `FloodsTrue`, `ScansTrue`, `RepliesKnown`, `VolumeReported`, `ConversationsTrue` | with tables at their limit, floods and scans are alerts exactly when the recent packets say so; a UDP reply is never an attempt; every volume is reported; a conversation holds its own packets |
| `Rules` | `BadLinesHarmNothing`, `TermsMeant`, `StaysMatched`, `ImplementsPlain` | whatever lines are refused, the others mean what they would without them; windows, numbers and base64 mean what a reference definition says; a match that rests on settled bytes is kept as the stream grows; the index, the scan of new bytes, gates, slices and both forms of progress find exactly what trying every rule on every whole buffer finds |
| `Inspection` | `ToldAsWhole`, `EverythingSaid`, `FilesTrue`, `ReadTrue`, `HellosTrue` | nineteen connections cut in every way tell what they tell whole, but for the exceptions named in the module, and all that was put into them; a digest is the file's; datagrams cut short by the capture tell a part of the truth; QUIC hellos survive any order, repetition and a table that is cleared |

A property with a name like `TableSound` is the conjunction of the named parts
above it in its module, the type invariant among them.

One run checks what the code's own text says and finds that the code does
otherwise:

| run | property | what happens |
|---|---|---|
| `RulesReload` | `TableFits` | a connection keeps its table of partial matches when the rules are reloaded; the table is as long as the old rules need, and `mark_part` indexes it with an id of the new ones: out of bounds (rules.rs:1376), which the check of ids at load is there to prevent (rules.rs:2642) |

Four more disagreements are seen by changing a configuration, with the property
named in the place of its own:

| change | property that fails | what happens |
|---|---|---|
| `TcpStream.cfg` with `SynPayload <- DataSyn` | `INVARIANT JoinedAtSyn` | data in a SYN is trimmed by a byte and shifts the stream: the SYN's number is not stepped over before `feed` (engine.rs:3912 against 3110) |
| `TcpStream.cfg` with `Copies <- TwoCopies`, `StreamLen = 4`, `StreamCap = 4` | `INVARIANT FirstCopyWins` | the lowest held number is appended first whenever it arrived, so the later copy of a byte may win (engine.rs:3186 against README:337) |
| `HotReload.cfg` | `INVARIANT IntelFresh` | a worker reads the enrichment generation a second time after taking the set, and may mark one it has not got (main.rs:1811 against reload.rs:24) |
| `Behavior.cfg` with `Settings <- LongFlow`, `MaxSources = 2` | `INVARIANT KeptWhileRecent` | a connection longer than the window is observed when it ends, with the time it began; `last_seen` steps back to it, and the next sweep forgets all that is held of its source (behavior.rs:471 against 386) |

### Bounds

* `TcpStream`: 8 bytes sent in segments of 1 to 3, at most 5 ahead, 3 segments
  held, a cap of 5, and a sequence space of 20 that starts at 17: the stream
  crosses the wrap, the cap and the limit on held segments, and three holes can
  be open at once. `Window` stands for the receiver's window; comparisons need
  it to be under half the space, which `StreamAssumption` says and 2^32 gives.
* `FlowTable`: three connections, room for two, four packets over five seconds
  with one second of lateness, timeouts of 1 and 3 and reports every 2: pressure,
  refusal, both timeouts and two reports of one flow all occur. Keys are
  symmetric.
* `HotReload`: two edits with one worker reading or with the gate, or two signals
  and an edit with the gate (`TheBudgets`). An edit rewrites either file well or
  badly or takes it away, to come back later. Two edits are a reload and a change
  while it runs: before the file is read, after, or with the other file refused or
  absent. With two signals one is being passed on, or a reload is running, when the
  other comes, and an edit may be what began the reload. Readers do not interact,
  so they read in turn. With `EarlyEdits = TRUE` or `SameReturns = TRUE`,
  `RulesFollow` fails: section 6.
* `Delivery`: suppression has four alerts of three keys, one allowlisted, a cap
  of 2 (pruning starts at 1), four alerts over five seconds with two of lateness:
  a key is pruned and comes back, and the table is cleared. Files rotate at two
  lines, keep two generations and buffer two lines; five alerts and three faults
  of disk, directory, kill and logrotate, or of the collector, fall between any
  two steps. Feeds are all sequences of three of ten ranges over 3-bit addresses
  of two families, and of two of six names. Dumps keep two frames of one unit;
  four frames or failures.
* `Pipeline`: two buffers, queues of one; a replay and a live capture of
  two frames, with dumps, a live capture of three without, two interfaces of one
  frame each, and two workers. Every channel fills, the pool runs out, and Ctrl-C comes anywhere.
* `Decode`: two datagrams in a table of one, up to three pieces of four units,
  four frames over three seconds with one of lateness, a timeout of two.
* `Gate`: four alerts over five seconds; a table of two windows, pruned at an age
  of four; batches of two; one reload.

* `Behavior`: four or five observations over six seconds (six for beacons), a window of
  three, floods over two, alerts spaced by two; a detector at a time, where each
  limit is passed, an alert is gated and then raised again, and entries expire;
  a table of one source that two press; and, live with a reorder window of two
  seconds and up to four of lateness, in replays held whole or by two, three kinds
  whose ties of time must be broken. Detectors meet only in the tables. In the
  settings of one detector the batch is one observation, so that the engine is
  given them as they come.
* `WorkerTables`: three hosts over four seconds, a window of two; room for two
  sources, one destination, two pairs and two conversations; five packets of a flood,
  four of the rest, which may be a second late in one setting. Each setting fills one table: a source makes room for
  another, a sweep finds entries of exactly the window's age.
* `Rules`: six files of four to ten rules: streams, rules of several buffers,
  headers and the first form of rule, terms that compute, and on streams patterns
  that reach for the end and numbers that say where to go. A connection has three
  bytes a side (four in the last two files) in segments of one or two, so that a
  literal is cut and found again, and a table replaces the list after one composite (64 in the code).
  `BadLinesHarmNothing` leaves out every subset of the first six lines;
  `TermsMeant` takes every buffer of four bytes over two, every pair of modifiers
  from -1 to 2, and numbers about the edges of a byte and of an `i64` of 16 bits.
  `StaysMatched` is of rules whose terms the bytes that follow cannot change
  (`Asks`). A regex with `$`, a greedy one that another term follows and a number in
  digits are no such terms (rules.rs:687): the last two files have a rule of each,
  and each stops matching as its stream grows if the property is asked of it.
* `Inspection`: segments of 1, 5 or 57 bytes or the whole turn, which cut every
  field of every protocol, with a FIN alone or riding; a cap that some scenes pass;
  files hashed to six bytes. Frames are cut at each of their last 125 bytes. Five
  QUIC packets of three connections arrive in any order with a table of two.

### Fairness

* `TcpStream`: the drain loop runs on (it is a loop in one thread).
* `HotReload`: the signal handlers, the bridge, the reloader, the alert writer, the
  workers and the gate each keep running (weak fairness on each thread: they poll or
  wait with a timeout, and traffic goes on), and a path that a rename left absent
  comes back. Nothing is assumed of edits and signals.
* `Delivery`: the receive has a timeout (`FLUSH_INTERVAL`), so `FlushTimeout` is
  weakly fair. An alert, a disconnection or the end of a fault is not needed.
* `Behavior`: the receive has a timeout of half a second, so `Quiet` is weakly
  fair; the engine takes what it is given; a replay comes to its end. A live
  capture need not end.
* `Pipeline`: each thread is scheduled. A live capture need not see another
  frame, and Ctrl-C need not come: `ShutdownEnds` starts from it.

`CHECK_DEADLOCK FALSE` stands where the system really may stop: the process
exits, or the bound on a behaviour's inputs is reached.

## 4. What is proved

Eight modules hold theorems. Each is for every value of the constants under the
named assumptions of its module, which TLC evaluates on every run, and each goes
the same way: an inductive invariant, one lemma per action, and the property from
the invariant. A stronger invariant was checked by TLC before it was proved.

| theorem | states | assumes |
|---|---|---|
| `TcpStreamProofs.TypeCorrect` | `[]TypeOK` | `StreamAssumption`, `BareSyn` |
| `TcpStreamProofs.NeverStranded` | `[]NothingStranded` | the same |
| `TcpStreamProofs.RefinesByteStream` | `ImplementsByteStream` | the same |
| `ThreadProofs.AlwaysCurrent` | `[]ReadersCurrent` | `ReloadAssumption` (types) |
| `ThreadProofs.ObservationsInOrder` | `[]HeldInOrder` of `Behavior` | `BehaviorAssumption` (types; `Never` and `Forever` are beyond every time; a DNS observation has a name) |
| `ThreadProofs.AlertsAlwaysExact` | `[]AlertsExact` of `Behavior` | the same, whose intervals but a beacon's are within the window, and `NamesFit` |
| `FlowTableProofs.AlwaysSound` | `[]TableSound` | `FlowAssumption` (types, limits above zero) |
| `FlowTableProofs.EveryByteToldOnce` | `[]BytesToldOnce` | the same |
| `FlowTableProofs.LiveFlowsAlwaysStay` | `LiveFlowsStay` | the same |
| `PipelineProofs.LosesNothing` | `[]NothingLost` | `PipelineAssumption` (types; a replay and a dump have one capture) |
| `PipelineProofs.LeavesNothing` | `[]EndsClean` | the same |
| `DeliveryProofs.EachAlertAccounted` | `[]DeliverySound` | `WriterAssumption` (types) |
| `DeliveryProofs.PruningIsNotSeen` | `ImplementsSuppression` | and `InFlightAssumption` |
| `DeliveryProofs.RecordsAlwaysTrue` | `[]RecordsTrue` | `WriterAssumption`, `IntelAssumption`, `SinksAssumption`, `DumpAssumption`, `DeliveryAssumption` (types; the names asked for are within the length of a name) |
| `DeliveryProofs.LinesAlwaysKept` | `LinesKept` | `WriterAssumption`, `SinksAssumption`, `DeliveryAssumption` (types; a sink is configured empty) |
| `DecodeProofs.TableAlwaysSound` | `[]TableSound` | `DecodeAssumption` (types; a first fragment has more to follow) |
| `DecodeProofs.NoneEvicted` | `NeverEvicted` | the same |
| `DecodeProofs.PiecesAlwaysTrue` | `[]PiecesTrue` | the same |
| `ThresholdGateProofs.CountsAsPromised` | `ImplementsRateControl` | `GateAssumption` (types), `SpanAssumption` |
| `ThresholdGateProofs.ReplayInOrder` | `[]CountedInOrder` | the same |
| `ThresholdGateProofs.AlwaysSound` | `[]GateSound` | the same |
| `WorkerTablesProofs.FloodsAlwaysTrue` | `[]FloodsTrue` | `AnomalyAssumption` (types; the interval between alerts is within the window), `DatagramAssumption` (types; an idle time) |
| `WorkerTablesProofs.ScansAlwaysTrue` | `[]ScansTrue` | the same |
| `WorkerTablesProofs.RepliesAlwaysKnown` | `[]RepliesKnown` | the same |
| `WorkerTablesProofs.VolumeAlwaysReported` | `[]VolumeReported` | the same |
| `WorkerTablesProofs.ConversationsAlwaysTrue` | `[]ConversationsTrue` | the same |

Six assumptions are more than types:

* `BareSyn`: a SYN carries no data. Section 3 shows that it is needed.
* `InFlightAssumption`: no alert is later than what the suppression table keeps
  beyond a window. engine.rs:265 says that pruning discards only what is "far
  older than anything still in flight"; nothing in the code bounds it.
* `SpanAssumption`: the longest window and the lateness of alerts fit in what the
  gate keeps, a day (threshold.rs:298). The parser of rules does not enforce it:
  section 6.
* `AnomalyAssumption`: the interval between alerts, a second that no option changes
  (engine.rs:2386), is no longer than the window, a whole second or more, or a table
  swept by the window could forget the alert that holds the next one back. A window
  of less than a second may be asked for: section 6.
* `BehaviorAssumption`: the intervals between alerts of a kind, a minute and for floods
  ten seconds (behavior.rs:282, main.rs:1720), and the window of floods are no longer
  than the window, for the same reason. It is five minutes (main.rs:120);
  `-behavior-window` may ask for less than one, and then a source that was swept is
  alerted on again early.
* `NamesFit`: no name asked for is longer than what is carried of one. Section 6 says
  what becomes of longer names.

The invariants, and why the property alone does not do:

* **TcpStream.** `NothingStranded` says nothing of where held segments are,
  and the next drain could compare them wrongly. `IInv` adds what the code relies
  on. Before the first segment nothing is known (`Fresh`). Afterwards, with `n` the
  absolute position expected next: what is in the buffer is the run of the stream
  from where it was joined, and short of `n` only when full (`Delivered`); each
  held segment is a run filed under the number of its first position, within
  `Reach` of `n` and, outside a drain, ahead of it (`Held`); held segments are
  within a window of each other (`Close`), so that the map's order by raw number
  and the wrapped comparison cannot disagree about which has been reached; every
  byte accepted has been delivered or is held (`Covered`). The lemmas are in three
  groups: arithmetic (`ModUnique`, `DiffMod`, `SeqOrder`: within half the space the
  wrapped comparison is that of the positions), runs (`AppendRun`, `DropRun`,
  `ConcatRun`), and one per way of feeding a segment (`FeedAppend`, `FeedAhead`)
  and per action. The refinement adds `StepGrows`: a step only extends the buffer.
* **HotReload.** A reader that has just read the generation holds nothing yet. What
  carries it through is that the slot is written first (`Stored`: the generation is
  one ahead of the publication except between the two writes), so that whatever is
  found in the slot after a generation was read is at least what that generation
  promised (`Reached`, `GateMarked`).
* **Behavior.** `HeldInOrder` compares the observations the engine was given; what
  it will be given is in `held` and `ready`. `OrderInv` says of these that a batch let
  go of is in order (`BatchOrdered`, from the lemma that `Sorted` sorts), that an
  observation which comes before one already let go of was marked late when it came
  (`ReadyAfter`, `HeldAfter`), and that whatever comes next before it would be
  (`AllGone`: the reorder window has passed it). `EngineTyped` bounds each table
  through the sweep and the three visits; `OldestTrue` is the cached least time.
  `AlertsExact` compares one verdict with everything ever observed, of which an entry
  keeps a summary that is pruned, overwritten and swept at other times. So the proof
  says what each summary has left of the evidence: a set has the last time of every
  key still in the window, and no key that was never seen (`SetOK`); a ring, the sum
  over each last second of the window, whichever buckets were taken over (`RingOK`); a
  gate, the last alert that may still hold one back (`AlertGateOK`, `GatesOK`); a
  beat, the last gaps, back to one at least as long as the window (`BeatOK`). An entry
  has these of its own key (`SourceIs`, `PairIs`, `DomainIs`), all of them while its
  table and sets have refused nothing, and part of them otherwise, which is why a full
  table only silences. A table has an entry for whatever was seen in the window and has
  forgotten only what is older (`TableOK`, `Aged`), so an entry begun again is begun
  rightly (`EntryFresh`). `EngineTrue` is that of the three tables, for as long as
  observations come in order; one observation visits, refuses or passes by each
  (`TableTaken`), and `LastJudged` keeps what was found at the visit, from which the
  verdict and the fact, read from the whole history, are the same (`EntrySays`). Sums
  over sets of observations are the folds of the library, whose value is shown not to
  depend on the order (`SumSame`).
* **FlowTable.** `BytesToldOnce` is about totals; a step that takes a flow out needs
  that the flow was never reported for more than it had (`ReportedHad`), and the
  sweep's promise needs that it is never ahead of the packets (`SweepKnown`).
* **Pipeline.** The books are over cardinalities of sets of threads at a place, so
  `IInv` has them for every kind of thing (`FramesAccounted`, `BuffersConserved`,
  `AlertsConserved`), and the order in which the stages end (`WorkersLast`,
  `StagesLast`, `Joined`): a stage ends only when all that send to it have, which
  is why its channel is empty for good.
* **Delivery.** The ghost memory agrees with the table where the table has a key
  (`Coherent`), was never ahead of the newest alert (`Bounded`), and where the
  table has forgotten is too old for any alert in flight (`Forgotten`). The line
  of an alert is told in the same turn (`LinesInv`), whatever becomes of the sinks.
  `RecordsTrue` is of two parts. What was loaded does not change, so what a lookup
  finds is a matter of lemmas: a block of addresses is what its number divides
  (`BlocksDivide`); sorting keeps every range and leaves them ascending (`SortedIs`);
  merging puts each into one entry that covers it, later ones into later entries
  (`MergedIs`); hence the last entry that covers an address is that of a line that
  begins last (`LookupIs`, `TagIs`). Each line of a feed leaves its trace whatever
  follows it (`LoadedIs`, `ReadIs`). Over the steps, `SeenInv` says that a pair told
  is in the table or the table was full since; `DumpsInv` that the ring holds the
  last frames at the places their numbers give (`NumberAt`), and that each job and
  file has the frames there were when it was opened.
  `LinesKept` needs to know which file is the newest. `FileOK` says that the file a
  sink writes to is the configured one, if that is there, and otherwise the newest
  generation or the one archived; that older generations have older lines, and the
  buffer the newest of all (`Sorts`). A rotation interrupted after any rename is then
  one function of the files, which pushes the generations from some one on
  (`ShiftedIs`, by descent over the renames), and pushing keeps them in order and
  drops only what the oldest was pushed upon (`PushedOK`, `Survives`). `Turn` bounds
  what a step does to a sink: it pushes no more than a generation for each line told
  and begins one file more if it reopens; in a directory that opens no file, what is
  lost is older than all that is left. Turns compose (`TurnsCompose`), so a step is the turns
  of its calls: the reopening, the note, the alert, the flush. `SinksInv` adds that
  a buffer has no line of an earlier process and standard output all of this one's.
* **Decode.** `TableSound` with `SweepKnown`. `PiecesTrue` needs the fold over a
  datagram's pieces (below): what is laid first stays under `first`, and reversing
  the pieces makes `last` the same statement.
* **ThresholdGate.** `Follows` relates each window that is kept to the number the
  abstract counter has reached in it, through resets in the middle of a window and
  modulo the count of a rule, and says that a window that was discarded has passed.
  In a replay the batch is a sorted sequence of which some is logged already and
  the rest is not before it (`LogFirst`). For the bits, `BitsInv` says that what
  is kept agrees with the ghost of all that was ever set, as long as alerts come in
  order.

* **WorkerTables.** What a table says must be compared with the whole history, of
  which it keeps a summary that reuses its room and is swept at other times than it
  is asked. `Recalled` says of each summary what is left of the truth. A source
  forgotten has nothing in the window (`SourcesKept`). A bucket with a time in the
  window counts the packets of its second, all of them, and each second of the
  window is in its own bucket (`BucketsTrue`); `SumCounts` makes the sum of the
  buckets the number of packets in the window. The last alert is known as long as it
  may hold one back (`Alarm`, in `FloodsKnown` and `DstsKept`). A port is kept with
  its last time; those of the window are all there, and older ones only until the
  next prune (`PortsTrue`). It holds while packets are in order, which is what
  the properties ask for. For volume: a count waits only in the engine's newest
  second (`InSecond`), and what was lost has a window without admitted packets after
  it (`Lost`). For conversations: `Balanced` has the books per direction for any
  pair of endpoints, `FlowsOK` that a conversation is filed under its own two, and
  `Quiet` that all are younger than the last sweep. TLC checked this invariant with
  the run's options before it was proved, with the quantifiers over all hosts and
  times cut to those of the run.

What an effect of several bits does (`Applied`), what a datagram is made of
(`Laid`), what its pieces weigh (`Weight`), what buckets add up to (`SumOf`), and
what sorting, merging, reading a feed and serving requests come to are recursive
functions on the length of a sequence or ring. The library's induction rules cannot
be instantiated here, so the inductions are by least counterexample: `NoneFails` (in
`DeliveryProofs`, `Climbs`) takes the set of naturals at which something fails and,
by the well-foundedness of `<`, shows it empty if zero is not in it and no least
element can be. The function is shown to exist in the same way (`TurnsExist`,
`LaysExist`, `SumsExist`, `LoopExists`).

## 5. What is only model-checked

* Liveness (`DrainEnds`, `RulesFollow`, `SignalServed`, `LinesReachDisk`,
  `HeldProcessed`, `ShutdownEnds`): the prover does not do liveness under fairness.
* What the readers of streams and datagrams tell (`Inspection`, `Mail` and the
  modules under them) and what rules match (`Rule...`): recursive operators over
  bytes and lines, and `Bitwise`, which the prover does not take. They are checked
  over bounded inputs, which are cut everywhere.

## 6. Where the code and its text part, beyond the runs

Met while modelling, and reproducible in the modules where a constant is named:

* A file rewritten between being read at start-up and the watch's first stamps
  is not re-read (main.rs:928): `EarlyEdits = TRUE` violates `RulesFollow`.
* `changed()` stamps a file before it is read: if it is absent by then and
  returns with the same stamp, the reload that failed is not retried
  (reload.rs:147 against 141): `SameReturns = TRUE` violates
  `RulesFollow`.
* A reload for any reason reads an enrichment file that is absent as an empty
  one (intel.rs:634 against reload.rs:139).
* The alert writer is given the enrichment once, so an allowlist that changes is
  not applied until a restart (main.rs:1684 against README:1055).
* The last FIN or RST of a connection already retired starts a flow that is then
  reported as unanswered (engine.rs:3811 against 3791).
* The suppression table is pruned at most once a second and may outgrow
  `MAX_SUPPRESSION_KEYS` in between (engine.rs:269 against 188).
* Alerts the aggregator cannot send are counted nowhere (behavior.rs:845):
  `left` in `Pipeline` is what `AlertsConserved` needs to balance.
* A replay offers its alerts with `try_send`, so which are shed depends on the
  scheduler (main.rs:2043 against README:89).
* Every final fragment sets the length of its datagram, so a shorter second one
  cuts off bytes of the first under `FirstWins` (decode.rs:423 against 230).
* `seconds` of a threshold has no upper bound, and a window longer than a day may
  be discarded while open (threshold.rs:301 against 299).
* The interim report of a long connection is pushed whether or not a behaviour
  engine takes it, and the list only grows (engine.rs:3889 against main.rs:1761).
* An alert earlier than the last one written of its key is written too, so which
  of two is written depends on their order (engine.rs:341 against 266).
* The map of sets by port is "bounded" by dropping empty sets (behavior.rs:488),
  but a set is pruned only when a host is added to it and is then not empty, so
  nothing is ever dropped: `Probed` restricts to all of its domain.
* A name is cut at 128 bytes, "which costs nothing that matters"
  (behavior.rs:46), but `split_dns_name` takes the domain from its end: every
  longer name is counted under a domain of its own and `DNS_TUNNEL` is not
  raised. With `NameMax = 4` and names that differ in the third of five labels
  (and `NamesFit`, which rules that out, dropped), `NothingMissed` fails.
* A full set of hosts or subdomains counts what it refuses (window.rs:70), and
  "every table has a hard cap and counts refusals" (window.rs:19), but only the
  refusals of the three tables reach the statistics (behavior.rs:348): a set that
  fills keeps what it has and its detector goes quiet unseen. `NothingMissed`
  therefore asks that no set has been full ("sets" in `engine.refused`); with
  `MaxPairs = 2` and that excuse dropped it fails.
* A pair idle for a window is forgotten, so connections a window or more apart
  never make a beacon, where window.rs:191 has those an hour apart count like
  those a minute apart; and `beacon_gate` goes with it, so that two alerts may be
  nearer than `beacon_alert_interval_secs` (behavior.rs:235 to 243). This is why
  `Noticeable` asks for gaps shorter than the window and `AlertsTrue` leaves the
  spacing of beacons out.
* A late amount takes its bucket from a newer second, which window.rs:121 calls
  "a full lap stale"; `AlertsTrue` and `NothingMissed` therefore ask for
  observations in order.

Of rules:

* Flow state outlives the rules it is about: besides `TableFits`, bits keep ids of
  the old file, where rules.rs:1739 has them shared only within one load, and
  `StreamScan` never looks for a new literal in bytes already scanned.
* A rule of the first form reports the leftmost literal of its buffer only
  (engine.rs:1078), where each is a rule of its own (engine.rs:968).
* A variable read in one buffer's part and used in another's is accepted and is
  never set there; `content:""` is accepted and never matches; `isdataat:4` before
  a relative content satisfies the check that something comes before it
  (rules.rs:2062).
* `flowbits:toggle` on a rule over a stream is applied again with every segment
  that comes after its match.

Of the tables of a worker (`ListedOnce` of `Anomaly` and `RefusesOnlyWhenBusy` of
`WorkerTables` may be added to `WorkerTables.cfg` as invariants and fail):

* A source dropped to make room and seen again in its second is listed twice
  among those with volume to report (engine.rs:2677).
* The table of conversations refuses before it sweeps, so that idle ones keep it
  full until a packet of a tracked one comes (engine.rs:4634 against 2631).
* A window of less than a second, which the option takes (main.rs:422), has the
  cutoff at the packet's own second, so that nothing is counted and no flood or scan
  is reported (engine.rs:2552 makes one bucket of it, 2620 cuts it off).
* A packet that is refused does not advance the engine's clock, so volume of an
  evicted source may be lost: `VolumeReported` says when.

Of the readers of streams (`Loose` in `Inspection` names what they touch):

* The body told with a request's head is what had come with it
  (engine.rs:4017), and a body that passed the cap with its head is not told.
* A file that a FIN ends while bytes are owed is reported as whole
  (engine.rs:3920 against 2952); one that ends at the close, all of it in the
  segment with the FIN, is never hashed (engine.rs:3912 against 3917).
* NTLM is latched by the first bytes of a message, whose fields may not have come
  (engine.rs:4311).
* `tlscert::scan` answers "and never will" of a stream that so far is whole
  records without a certificate (tlscert.rs:31), so a certificate that comes
  in the next segment is not seen.
* SMB1 and DCERPC over port 445 are looked for at the front of the stream, where
  a session header of four bytes is (enterprise.rs:181, engine.rs:4399).
* Attempts to authenticate are counted once a segment, however many it holds
  (engine.rs:4490 against 3962).
* A DER integer is read without its sign, so a negative Kerberos code is a large
  one; the extensions of a client's hello may run past the message's length when
  it has none (engine.rs:1627).
* A hole in a QUIC handshake reads as zeros (quic.rs:420), so a hello whose middle
  packet is missing is told wrong; `HellosTrue` allows it. A full table of
  sessions is cleared, where quic.rs:473 says it sweeps, and a session is entered
  before its packet is opened.
* An IPv6 atomic fragment followed by another fragment header is marked a
  fragment by the parser and is none to the reassembler (packet.rs:584 and 657).

Of enrichment and output:

* A name of hexadecimal letters alone (`dead.be`) is taken for an address, and the
  whole feed is refused (intel.rs:593), where a value that does not parse as one is to be a domain
  (intel.rs:589): `WellFormed` in `Intel`.
* Of two ranges with one start and different tags the lookup finds one
  (`TagTrue` asks for no more). A pair is told of one indicator, so a second kind
  is silent; and when the table of pairs is cleared it forgets the pair that is
  asked about.
* A flush that fails is counted nowhere, where output.rs counts failures "so a
  silently dead destination is visible" (output.rs:252); a rotation in a directory that takes no
  rename truncates the log; a file that will not open after the renames shifts the
  generations again with the next line; a line that was written is counted as an
  error when the rotation after it fails. With `-log-keep 0` a rotation empties the
  file, the line just written with it (output.rs:330 renames nothing); and a line and
  its note may each rotate, so a turn can begin more files than there are generations
  and lose lines of its own. `LeavesRightly` and `SaidOrCounted` say
  what is left of the promise.

## 7. What is abstracted

In `TcpStream`, `FlowTable`, `Pipeline`, `Behavior` and the gate, payloads,
addresses and names are model values; the hash that shards packets is an arbitrary
choice of worker; the parse of a frame, the rules that match and the alerts a
packet raises are arbitrary choices where only their number or key matters. Times
are whole seconds, and how late a packet may be is a bound.

In the readers a byte is a byte, but a word of text is one symbol for all its
spellings, so that case and decimal notation are not put together letter by
letter. The text of a rule is its options, a regular expression a literal and
perhaps a greedy tail, anchored at either end or not; a digest is what was
digested, a fingerprint what is hashed for it, a sealed QUIC packet its frames
under its key. Replays are read from files that end; one that cannot be read
part-way is a shorter one. The layout of lines
and of capture files, and logging, are left out.

## 8. What is left

Next: larger connections for `Rules` on a longer run, and rules of several
connections at once.

Not modelled: the option parser (`config.rs`) and the metrics server
(`metrics.rs`), which have no behaviour of their own; the conversion tools, which
run outside the sensor; `inspect_blacklist` and the rendering of alerts, flows and
statistics. Times are the packets' own everywhere the detectors look; the clock of
the machine appears only as the timeout of a receive.
