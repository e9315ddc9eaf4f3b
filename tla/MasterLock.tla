----------------------------- MODULE MasterLock -----------------------------
(***************************************************************************)
(* What the coordinator's file lock service promises: each cluster has one *)
(* master lock, a server acquires it only while nobody holds it, and the   *)
(* lock is given back before anybody else can have it.  Election           *)
(* implements this with a file, the flags of the zNodes and the threads of *)
(* the coordinator.                                                        *)
(***************************************************************************)
CONSTANTS Server, Cluster, ClusterOf

VARIABLE holders   \* per cluster, the servers that hold its master lock

Init == holders = [c \in Cluster |-> {}]

Acquire(s) ==
    /\ holders[ClusterOf[s]] = {}
    /\ holders' = [holders EXCEPT ![ClusterOf[s]] = {s}]

Release(s) ==
    /\ holders[ClusterOf[s]] = {s}
    /\ holders' = [holders EXCEPT ![ClusterOf[s]] = {}]

Next == \E s \in Server : Acquire(s) \/ Release(s)

Spec == Init /\ [][Next]_holders
=============================================================================
