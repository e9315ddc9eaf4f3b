--------------------------- MODULE MCReplication ---------------------------
(* Instances of Replication for TLC. *)
EXTENDS Replication, TLC

CONSTANTS ann, bob

Users == {ann, bob}

\* Two servers in the first cluster, one in the second.
TwoClusters == <<1, 1, 2>>
=============================================================================
