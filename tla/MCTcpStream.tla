---------------------------- MODULE MCTcpStream ----------------------------
(* The sequence space is small enough for the stream to wrap around it.    *)
EXTENDS TcpStream
CONSTANTS c1, c2

BareSyn == {0}
DataSyn == {0, 2}
OneCopy == {c1}
TwoCopies == {c1, c2}
=============================================================================
