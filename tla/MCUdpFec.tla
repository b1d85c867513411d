------------------------------ MODULE MCUdpFec ------------------------------
(* Instance of UdpFec for TLC.                                              *)
EXTENDS UdpFec

\* Bound: one frame at most is evicted, timed out or spoiled.
OneDropped == Cardinality(dropped) <= 1
=============================================================================
