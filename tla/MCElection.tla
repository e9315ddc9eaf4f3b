----------------------------- MODULE MCElection -----------------------------
(* Instances of Election for TLC. *)
EXTENDS Election

\* Two servers of one cluster.
OneCluster == <<1, 1>>
=============================================================================
