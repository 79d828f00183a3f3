------------------------------- MODULE Intel -------------------------------
(***************************************************************************)
(* Enrichment (src/intel.rs): what is known of addresses, names and        *)
(* clients besides their packets.  A feed is read once into sorted ranges  *)
(* and maps; the alert writer and the workers look things up in them.      *)
(*                                                                         *)
(* An address is a number in its family, a name the sequence of its        *)
(* labels; a label in upper case is Upper more than in lower case, and     *)
(* what is empty, between two dots or at an end, is the label 0.           *)
(***************************************************************************)
EXTENDS Integers, Sequences, FiniteSets, SequencesExt

CONSTANTS
  AddrBits,     \* family -> bits of its addresses: 32 and 128
  Upper,
  HexLabels,    \* labels that are hexadecimal digits and nothing else
  MaxName,      \* labels of the longest name that is lowered: 256 bytes
  SeenCap       \* pairs an IntelSeen holds

ASSUME IntelAssumption ==
  /\ AddrBits \in [DOMAIN AddrBits -> Nat]
  /\ Upper \in Nat \ {0} /\ MaxName \in Nat /\ SeenCap \in Nat \ {0}

Unlisted == "-"
Failed == [ok |-> FALSE]   \* what is loaded of a feed with a line in error

(***************************************************************************)
(* IpSet: ranges by where they start, in the order of the feed if they     *)
(* start together; one that begins in the last and has its tag joins it.   *)
(***************************************************************************)
(* The addresses of a block that leaves so many bits open. *)
Block(open) == LET size[n \in 0 .. open] == IF n = 0 THEN 1 ELSE 2 * size[n - 1] IN size[open]

RangeOf(net, tag) ==
  LET size == Block(AddrBits[net.family] - net.bits)
      start == (net.addr \div size) * size
  IN  [family |-> net.family, start |-> start, end |-> start + size - 1, tag |-> tag]

Placed(ranges, r) ==
  LET at == CHOOSE i \in 1 .. Len(ranges) + 1 :
              /\ \A j \in 1 .. i - 1 : ranges[j].start <= r.start
              /\ \A j \in i .. Len(ranges) : ranges[j].start > r.start
  IN  [i \in 1 .. Len(ranges) + 1 |->
         IF i < at THEN ranges[i] ELSE IF i = at THEN r ELSE ranges[i - 1]]

Sorted(ranges, f) ==
  LET placed[i \in 0 .. Len(ranges)] ==
        IF i = 0 THEN <<>>
        ELSE IF ranges[i].family = f THEN Placed(placed[i - 1], ranges[i]) ELSE placed[i - 1]
  IN  placed[Len(ranges)]

(* A slip: ranges are joined whatever their tags.                          *)
JoinedAnyTag(ranges, r) ==
  IF ranges = <<>> THEN <<r>>
  ELSE IF r.start <= Last(ranges).end
  THEN [ranges EXCEPT ![Len(ranges)].end = IF @ < r.end THEN r.end ELSE @]
  ELSE Append(ranges, r)
Joined(ranges, r) ==
  IF ranges = <<>> THEN <<r>>
  ELSE IF r.start <= Last(ranges).end /\ Last(ranges).tag = r.tag
  THEN [ranges EXCEPT ![Len(ranges)].end = IF @ < r.end THEN r.end ELSE @]
  ELSE Append(ranges, r)

Merged(sorted) ==
  LET joined[i \in 0 .. Len(sorted)] == IF i = 0 THEN <<>> ELSE Joined(joined[i - 1], sorted[i])
  IN  joined[Len(sorted)]

Finished(ranges) == [f \in DOMAIN AddrBits |-> Merged(Sorted(ranges, f))]

Lookup(set, a) ==
  LET covering == {i \in DOMAIN set[a.family] :
                     set[a.family][i].start <= a.addr /\ a.addr <= set[a.family][i].end}
  IN  IF covering = {} THEN Unlisted
      ELSE set[a.family][CHOOSE i \in covering : \A j \in covering : j <= i].tag
Listed(set, a) == Lookup(set, a) # Unlisted

(***************************************************************************)
(* DomainSet: a name, then its parents, but never a last label alone.      *)
(***************************************************************************)
Lower(label) == label % Upper
Lowered(name) == [i \in DOMAIN name |-> Lower(name[i])]
Undotted(name) ==
  LET kept == {i \in DOMAIN name : name[i] # 0}
  IN  IF kept = {} THEN <<>>
      ELSE SubSeq(name, CHOOSE i \in kept : \A j \in kept : i <= j,
                        CHOOSE i \in kept : \A j \in kept : i >= j)

Parents(name) ==
  {i \in DOMAIN name : i = 1 \/ Len(name) - i >= 1}
LookupName(names, asked) ==
  LET trimmed == Undotted(asked)
      name == IF Len(trimmed) <= MaxName THEN Lowered(trimmed) ELSE trimmed
      found == {i \in Parents(name) : SubSeq(name, i, Len(name)) \in DOMAIN names}
  IN  IF name = <<>> \/ found = {} THEN Unlisted
      ELSE names[SubSeq(name, CHOOSE i \in found : \A j \in found : i <= j, Len(name))]

(***************************************************************************)
(* Loading a feed: each line says what it lists and of what kind it is, or *)
(* leaves the kind to be guessed.  One line in error fails the feed.       *)
(***************************************************************************)
LooksLikeIp(line) ==
  \/ line.is = "ip"
  \/ line.is = "domain" /\ Len(line.name) > 1 /\ \A l \in ToSet(line.name) : l = 0 \/ Lower(l) \in HexLabels
KindOf(line) ==
  IF line.says # "bare" THEN line.says ELSE IF LooksLikeIp(line) THEN "ip" ELSE line.is

WellFormed(line) ==
  \/ KindOf(line) = "ip" /\ line.is = "ip" /\ line.net.bits <= AddrBits[line.net.family]
  \/ KindOf(line) = "ja3" /\ line.is = "ja3"
  \/ KindOf(line) = "domain"

NewIntel == [ranges |-> <<>>, names |-> <<>>, ja3 |-> <<>>]
Put(f, k, v) == [x \in DOMAIN f \cup {k} |-> IF x = k THEN v ELSE f[x]]
Loaded(intel, line) ==
  CASE KindOf(line) = "ip" -> [intel EXCEPT !.ranges = Append(@, RangeOf(line.net, line.tag))]
    [] KindOf(line) = "ja3" -> [intel EXCEPT !.ja3 = Put(@, line.hash, line.tag)]
    [] KindOf(line) = "domain" ->
         [intel EXCEPT !.names = Put(@, Lowered(Undotted(line.name)), line.tag)]

Read(lines) ==
  LET read[i \in 0 .. Len(lines)] == IF i = 0 THEN NewIntel ELSE Loaded(read[i - 1], lines[i])
  IN  read[Len(lines)]

(* load_reputation, add_home_net and finish.                               *)
Load(lines, home) ==
  IF \/ \E line \in ToSet(lines) : ~WellFormed(line)
     \/ \E net \in ToSet(home) : net.bits > AddrBits[net.family]
  THEN Failed
  ELSE LET read == Read(lines)
       IN  [ok |-> TRUE, reputation |-> Finished(read.ranges), names |-> read.names, ja3 |-> read.ja3,
            home |-> Finished([i \in DOMAIN home |-> RangeOf(home[i], "home")]), hasHome |-> home # <<>>]

(***************************************************************************)
(* What is said of an alert, and whether an allowlist entry covers it: an  *)
(* entry is a function of the fields it names, and names at least one.     *)
(***************************************************************************)
Direction(intel, src, dst) ==
  IF ~intel.hasHome THEN "none"
  ELSE CASE Listed(intel.home, src) /\ Listed(intel.home, dst) -> "internal"
         [] Listed(intel.home, src) /\ ~Listed(intel.home, dst) -> "outbound"
         [] ~Listed(intel.home, src) /\ Listed(intel.home, dst) -> "inbound"
         [] OTHER -> "external"

TagsOf(intel, alert) ==
  [direction |-> Direction(intel, alert.src, alert.dst),
   src |-> Lookup(intel.reputation, alert.src), dst |-> Lookup(intel.reputation, alert.dst)]

Covers(entry, alert) ==
  \A field \in DOMAIN entry :
    IF field \in {"src", "dst"}
    THEN Listed(Finished(<<RangeOf(entry[field], "")>>), alert[field])
    ELSE entry[field] = alert[field]
WellFormedEntry(entry) == DOMAIN entry # {}
Matched(entries, alert) == \E e \in ToSet(entries) : WellFormedEntry(e) /\ Covers(e, alert)

(***************************************************************************)
(* What a worker says of a listed address, name or client: once per pair,  *)
(* until the table of pairs is full and is cleared.  seen is that table,   *)
(* raised the alerts and hits the count of matches.                        *)
(***************************************************************************)
NewWorker == [seen |-> {}, raised |-> <<>>, hits |-> 0]

(* intel_alert() and first_time(). *)
Sighted(w, tag, pair) ==
  LET seen == IF Cardinality(w.seen) >= SeenCap THEN {} ELSE w.seen
  IN  IF tag = Unlisted THEN w
      ELSE [seen |-> seen \cup {pair},
            raised |-> IF pair \in seen THEN w.raised ELSE Append(w.raised, pair),
            hits |-> w.hits + 1]

(* A new flow: its source is asked about only if its target is not listed. *)
NewFlow(w, intel, pair) ==
  LET dst == Lookup(intel.reputation, pair.dst)
  IN  Sighted(w, IF dst # Unlisted THEN dst ELSE Lookup(intel.reputation, pair.src), pair)

NamedIn(w, intel, pair, name) == Sighted(w, LookupName(intel.names, name), pair)
ClientOf(w, intel, pair, ja3) ==
  Sighted(w, IF ja3 \in DOMAIN intel.ja3 THEN intel.ja3[ja3] ELSE Unlisted, pair)
=============================================================================
