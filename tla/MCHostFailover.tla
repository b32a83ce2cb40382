--------------------------- MODULE MCHostFailover ---------------------------
(* Instances of HostFailover for TLC. *)
EXTENDS HostFailover

TwoHosts == [stock |-> 2, index |-> 1, exIndex |-> 1]
=============================================================================
