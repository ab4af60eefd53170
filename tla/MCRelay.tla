------------------------------- MODULE MCRelay -------------------------------
(* Small instances of Relay: the server's id sorts after one device, before  *)
(* another.                                                                  *)
EXTENDS Relay

Two == {1, 3}

\* Every way an op can be settled: merged, refused on its value, logged without
\* being merged, kept in the inbox only.
EverySettlement == {"row", "badvalue", "reader", "badreader"}
=============================================================================
