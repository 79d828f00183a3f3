---------------------------- MODULE MCDelivery ----------------------------
EXTENDS Delivery

V4(n) == [family |-> "v4", addr |-> n]
Net(f, n, bits) == [family |-> f, addr |-> n, bits |-> bits]
SmallFamilies == [f \in {"v4", "v6"} |-> 3]

Flood(dst) == [category |-> "PACKET_FLOOD", src |-> V4(1), dst |-> dst, proto |-> "tcp", port |-> 80, message |-> "-"]
Scan(dst, port) == [Flood(dst) EXCEPT !.category = "PORT_SCAN", !.port = port]
Match(rule) == [Flood(V4(2)) EXCEPT !.category = "SIGNATURE_MATCH", !.message = rule]

(* A flood, a scan, one like it that is allowlisted for its port, and a     *)
(* rule's match: three keys.                                               *)
Raised == {Flood(V4(2)), Scan(V4(2), 80), Scan(V4(2), 443), Match("r1")}
AllowEntries == <<[category |-> "PORT_SCAN", dst |-> Net("v4", 2, 3), port |-> 443]>>
AllowedHere == {a \in Raised : Matched(AllowEntries, a)}

HomeNet == <<Net("v4", 0, 2), Net("v4", 4, 3)>>
MeetsHere == {[is |-> "flow"], [is |-> "name", name |-> <<1, 2>>], [is |-> "client", hash |-> "h"]}
PairsHere == {[src |-> V4(s), dst |-> V4(d)] : s \in {0, 1}, d \in {2, 6}}

-----------------------------------------------------------------------------
IpLine(says, net, tag) == [says |-> says, is |-> "ip", net |-> net, tag |-> tag]
NameLine(says, name) == [says |-> says, is |-> "domain", name |-> name, tag |-> "a"]
NetsHere == {Net("v4", 0, 0), Net("v4", 5, 1), Net("v4", 4, 2), Net("v4", 5, 3), Net("v6", 4, 2)}
IpLines == {IpLine("bare", n, tag) : n \in NetsHere, tag \in {"a", "b"}}
NameLinesHere ==
  {NameLine("bare", <<1, 2>>), NameLine("domain", <<3, 1, 2>>), NameLine("bare", <<2>>),
   NameLine("bare", <<0, 9, 2, 0>>), NameLine("bare", <<4, 4>>), NameLine("domain", <<4, 4>>)}
Client == [says |-> "bare", is |-> "ja3", hash |-> "h", tag |-> "a"]
Asked ==
  {<<1, 2>>, <<3, 1, 2>>, <<5, 2>>, <<9, 2>>, <<3, 9, 10>>, <<2>>, <<0, 1, 2, 0>>, <<>>, <<0>>, <<4, 4>>}

Feeds ==
  {<<x, y, z>> : x, y, z \in IpLines} \cup {<<x, y>> : x, y \in NameLinesHere}
  \cup {<<NameLine("ip", <<1, 2>>)>>, <<IpLine("ip", Net("v4", 1, 4), "a")>>,
        <<Client>>}

-----------------------------------------------------------------------------
Quiescent ==
  [alerts |-> {}, times |-> {}, step |-> 0, most |-> 0, sinks |-> <<>>, faults |-> 0, may |-> {},
   feed |-> <<>>, names |-> {}, dumps |-> FALSE]
OneAlert == [Quiescent EXCEPT !.alerts = {Flood(V4(2))}, !.step = 2, !.most = 5]

OnlyFeeds ==
  {[Quiescent EXCEPT !.feed = f, !.names = Asked] : f \in Feeds}
Repeating ==
  [Quiescent EXCEPT !.alerts = Raised \ {Scan(V4(2), 443)}, !.times = 0 .. 4, !.most = 4,
                    !.sinks = <<NewStream("stdout", "text")>>]
Allowing == [Repeating EXCEPT !.alerts = Raised, !.most = 3]
Rotating ==
  [OneAlert EXCEPT !.sinks = <<NewFile("eve"), NewStream("stdout", "text")>>,
                   !.faults = 3, !.may = {"disk", "dir", "crash", "logrotate"}]
Noting2 ==
  [OneAlert EXCEPT !.step = 1, !.sinks = <<NewFile("text"), NewFile("eve")>>,
                   !.faults = 2, !.may = {"disk", "dir"}]
Collecting ==
  [OneAlert EXCEPT !.sinks = <<NewStream("tcp", "eve"), NewStream("udp", "eve"), NewStream("stdout", "text")>>,
                   !.faults = 3, !.may = {"collector"}]
Sighting ==
  [Quiescent EXCEPT !.faults = 4, !.may = {"sight"},
                    !.feed = <<IpLine("bare", Net("v4", 5, 1), "a"), IpLine("ip", Net("v4", 1, 3), "b"),
                               Client>>]
Saving ==
  [Quiescent EXCEPT !.alerts = {Flood(V4(2)), Match("r1")}, !.step = 1, !.most = 2,
                    !.faults = 4, !.may = {"frame", "dir", "disk"}, !.dumps = TRUE]
SettingsHere == OnlyFeeds \cup {Saving, Repeating, Allowing, Rotating, Noting2, Collecting, Sighting}
=============================================================================
