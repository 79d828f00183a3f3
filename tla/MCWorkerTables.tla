--------------------------- MODULE MCWorkerTables ---------------------------
EXTENDS WorkerTables
CONSTANTS a, b, c

P(src, sport, dst, dport, proto, syn) ==
  [src |-> src, sport |-> sport, dst |-> dst, dport |-> dport, proto |-> proto, syn |-> syn, t |-> 0]

(* What each start watches: three sources for a table of two; ports in two *)
(* protocols, and a second destination for a table of one; questions and   *)
(* answers over UDP; volume, in order and with packets a second late.      *)
Plain == [window |-> 2, floodLimit |-> 2, gap |-> 1, scanLimit |-> 1, viaObservations |-> FALSE,
          maxSources |-> 2, maxDsts |-> 1, maxPairs |-> 2, late |-> 0, maxPackets |-> 5, packets |-> {}]

Rates == [Plain EXCEPT !.packets = {P(s, 1, c, 1, "tcp", FALSE) : s \in {a, b, c}}]
Ports == [Plain EXCEPT !.gap = 2, !.maxPackets = 4, !.packets =
           {P(a, 1, c, q, "tcp", TRUE) : q \in {1, 2}} \cup
           {P(a, 1, c, 1, "udp", FALSE), P(a, 1, b, 1, "tcp", TRUE)}]
Talk == [Plain EXCEPT !.scanLimit = 0, !.maxPackets = 4, !.packets =
           {P(a, 1, b, 2, "udp", FALSE), P(b, 2, a, 1, "udp", FALSE),
            P(c, 1, b, 2, "udp", FALSE), P(c, 2, b, 2, "udp", FALSE)}]
Volume == [Rates EXCEPT !.viaObservations = TRUE, !.maxPackets = 4]
VolumeLate == [Volume EXCEPT !.late = 1, !.maxSources = 3]
Options == {Rates, Ports, Talk, Volume, VolumeLate}
Seconds == 1 .. 4
=============================================================================
