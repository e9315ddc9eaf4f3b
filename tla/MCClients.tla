----------------------------- MODULE MCClients -----------------------------
(* Instances of Clients for TLC. *)
EXTENDS Clients

\* Two servers in the first cluster, one in the second.
TwoClusters == <<1, 1, 2>>
=============================================================================
