------------------------------ MODULE Election ------------------------------
(***************************************************************************)
(* Leader election between the servers of each cluster and the            *)
(* coordinator: the Heartbeat RPC (SNSCoordinator::Heartbeat), the         *)
(* checkHeartbeats thread of the coordinator, and the heartbeat loop of    *)
(* a server (SNSServer::connectToCoordinator and sendHeartbeat).           *)
(*                                                                         *)
(* The coordinator is a synchronous gRPC service: every Heartbeat runs in  *)
(* a thread of its own, and checkHeartbeats runs in another.  zNodes are   *)
(* shared without a lock (v_mutex is never taken); FSMemory, which holds   *)
(* the lock files, takes its mutex in create, write and remove only.  A    *)
(* step below is therefore what one thread does between two accesses to    *)
(* shared state that another thread may observe.                           *)
(***************************************************************************)
EXTENDS Naturals

CONSTANTS
    NumServers,   \* the server processes of the deployment
    NumClusters,  \* the -n option of the coordinator
    ClusterOf,    \* the -c option of each server
    Slow,         \* servers whose heartbeats may be late although they live
    Overlap,      \* TRUE: a heartbeat may arrive while its own zNode is being released
    MaxCrashes    \* bound on the number of crashes in a behaviour

Server   == 1 .. NumServers
Cluster  == 1 .. NumClusters
NoServer == 0     \* the empty address, and the NULL zNode
NoFile   == NumServers + 1   \* the master file does not exist
NoPath   == "none"           \* the empty path

\* Servers are numbered in the order in which the coordinator's nested loops
\* visit them: by cluster, then by server id (the key order of std::map).
ASSUME ElectionAssumption ==
    /\ NumServers \in Nat \ {0}
    /\ NumClusters \in Nat \ {0}
    /\ ClusterOf \in [Server -> Cluster]
    /\ \A s, t \in Server : s <= t => ClusterOf[s] <= ClusterOf[t]
    /\ Slow \subseteq Server
    /\ Overlap \in BOOLEAN
    /\ MaxCrashes \in Nat

VARIABLES
    \* zNodes of the coordinator, one per (cluster id, server id)
    known,        \* the zNode is in its cluster's map
    master,       \* zNode::master
    path,         \* zNode::path, the lock file the server holds
    late,         \* difftime(now, last_heartbeat) > maxHeartbeatDelay
    missed,       \* zNode::missed_heartbeats, counted up to 3
    \* FSMemory, as far as the coordinator uses it.  Slave files are written and
    \* removed but never read, so only the mutex their operations take is kept.
    masterFile,   \* per cluster: NoFile, or the address the file holds
    fsLocked,     \* fsMutex stays locked: an operation returned without unlocking
    \* the checkHeartbeats thread
    chkAt,        \* the server it visits; NumServers + 1 at the end of a pass
    chkPc,
    \* the Heartbeat call of each server: the caller waits for the reply, so
    \* there is at most one at a time
    pc,
    hPath,        \* local variable rawPath; master is true iff it is "master"
    hSync,        \* local variable syncAddress
    \* the server processes
    alive,
    registered,   \* initialised and listening; serverInfo.registered
    believes,     \* SNSServer::master
    crashes       \* number of crashes so far

zNodes   == <<known, master, path, late, missed>>
files    == <<masterFile, fsLocked>>
checker  == <<chkAt, chkPc>>
handlers == <<pc, hPath, hSync>>
servers  == <<alive, registered, believes, crashes>>
vars     == <<zNodes, files, checker, handlers, servers>>

Paths       == {NoPath, "master", "slave"}
HandlerPcs  == {"idle", "sent", "writeSlave", "create", "read", "writeMaster",
                "assign", "reply"}
CheckerPcs  == {"visit", "count", "demote", "release"}
MissedCap   == 3   \* the code only compares missed_heartbeats with 1 and 2

\* The types of the variables.
TypeOK ==
    /\ known \in [Server -> BOOLEAN]
    /\ master \in [Server -> BOOLEAN]
    /\ path \in [Server -> Paths]
    /\ late \in [Server -> BOOLEAN]
    /\ missed \in [Server -> 0 .. MissedCap]
    /\ masterFile \in [Cluster -> 0 .. NumServers + 1]
    /\ fsLocked \in BOOLEAN
    /\ chkAt \in 1 .. NumServers + 1
    /\ chkPc \in CheckerPcs
    /\ chkPc # "visit" => chkAt \in Server
    /\ pc \in [Server -> HandlerPcs]
    /\ hPath \in [Server -> Paths]
    /\ hSync \in [Server -> 0 .. NumServers]
    /\ alive \in [Server -> BOOLEAN]
    /\ registered \in [Server -> BOOLEAN]
    /\ believes \in [Server -> BOOLEAN]
    /\ crashes \in 0 .. MaxCrashes

Init ==
    /\ known = [s \in Server |-> FALSE]
    /\ master = [s \in Server |-> FALSE]
    /\ path = [s \in Server |-> NoPath]
    /\ late = [s \in Server |-> FALSE]
    /\ missed = [s \in Server |-> 0]
    /\ masterFile = [c \in Cluster |-> NoFile]
    /\ fsLocked = FALSE
    /\ chkAt = 1
    /\ chkPc = "visit"
    /\ pc = [s \in Server |-> "idle"]
    /\ hPath = [s \in Server |-> NoPath]
    /\ hSync = [s \in Server |-> NoServer]
    /\ alive = [s \in Server |-> FALSE]
    /\ registered = [s \in Server |-> FALSE]
    /\ believes = [s \in Server |-> FALSE]
    /\ crashes = 0

-----------------------------------------------------------------------------
(* The server process *)

\* The operator starts a server process that does not run.
Start(s) ==
    /\ ~alive[s]
    /\ pc[s] = "idle"
    /\ alive' = [alive EXCEPT ![s] = TRUE]
    /\ registered' = [registered EXCEPT ![s] = FALSE]
    /\ UNCHANGED <<zNodes, files, checker, handlers, believes, crashes>>

\* connectToCoordinator sends the first heartbeat, sendHeartbeat every later one.
SendHeartbeat(s) ==
    /\ alive[s]
    /\ pc[s] = "idle"
    /\ pc' = [pc EXCEPT ![s] = "sent"]
    /\ UNCHANGED <<zNodes, files, checker, hPath, hSync, servers>>

\* initializeData has nothing to copy, or its sync address answers GetLog: that
\* server runs, has been initialised and listens.
CanInitialize(s) ==
    hSync[s] \in {NoServer} \cup {t \in Server : alive[t] /\ registered[t]}

\* The call is over and its local variables are gone.
Return(s) ==
    /\ pc' = [pc EXCEPT ![s] = "idle"]
    /\ hPath' = [hPath EXCEPT ![s] = NoPath]
    /\ hSync' = [hSync EXCEPT ![s] = NoServer]

\* A variant of Reply that BeliefBacked must reject: a master stays one.
ReplyOnceMaster(s) ==
    /\ pc[s] = "reply" /\ alive[s] /\ (registered[s] \/ CanInitialize(s))
    /\ Return(s)
    /\ believes' = [believes EXCEPT ![s] = @ \/ hPath[s] = "master"]
    /\ registered' = [registered EXCEPT ![s] = TRUE]
    /\ UNCHANGED <<zNodes, files, checker, alive, crashes>>

\* The reply reaches a running server.  A registered one takes over the master
\* flag.  A new one first copies the log of its sync address and exits if that
\* server cannot answer; with an empty address it reads its own files.
Reply(s) ==
    /\ pc[s] = "reply"
    /\ alive[s]
    /\ Return(s)
    /\ \/ /\ registered[s] \/ CanInitialize(s)
          /\ believes' = [believes EXCEPT ![s] = (hPath[s] = "master")]
          /\ registered' = [registered EXCEPT ![s] = TRUE]
          /\ UNCHANGED alive
       \/ /\ ~registered[s] /\ ~CanInitialize(s)
          /\ alive' = [alive EXCEPT ![s] = FALSE]
          /\ UNCHANGED <<believes, registered>>
    /\ UNCHANGED <<zNodes, files, checker, crashes>>

\* The reply of a Heartbeat whose caller died is dropped.
DropReply(s) ==
    /\ pc[s] = "reply"
    /\ ~alive[s]
    /\ Return(s)
    /\ UNCHANGED <<zNodes, files, checker, servers>>

\* A server process dies.  A heartbeat it has sent is still delivered, with
\* the registered flag it was sent with.
Crash(s) ==
    /\ alive[s]
    /\ crashes < MaxCrashes
    /\ crashes' = crashes + 1
    /\ alive' = [alive EXCEPT ![s] = FALSE]
    /\ believes' = [believes EXCEPT ![s] = FALSE]
    /\ UNCHANGED <<zNodes, files, checker, handlers, registered>>

-----------------------------------------------------------------------------
(* SNSCoordinator::Heartbeat *)

\* A variant of IsActive that NoSkippedElection must reject: no leeway.
IsActiveStrict(s) == missed[s] = 0

\* zNode::isActive
IsActive(s) == missed[s] <= 2

\* checkHeartbeats is between its test for the second missed heartbeat of s
\* and the removal of the lock file of s.
Releasing(s) == chkAt = s /\ chkPc \in {"demote", "release"}

\* A server that starts although its zNode still counts as active is turned
\* away with ALREADY_EXISTS, and exits.
Reject(s) ==
    /\ pc[s] = "sent"
    /\ known[s] /\ ~registered[s] /\ IsActive(s)
    /\ pc' = [pc EXCEPT ![s] = "idle"]
    /\ alive' = [alive EXCEPT ![s] = FALSE]
    /\ UNCHANGED <<zNodes, files, checker, hPath, hSync, registered, believes, crashes>>

\* The zNode is found or made and refreshed by setFromServerInfo.  The call
\* returns at once if the zNode is master; if not, filesys.exists, which takes
\* no lock, tells whether the cluster has a master file.
Receive(s) ==
    /\ pc[s] = "sent"
    /\ ~(known[s] /\ ~registered[s] /\ IsActive(s))
    /\ Overlap \/ ~Releasing(s)
    /\ known' = [known EXCEPT ![s] = TRUE]
    /\ late' = [late EXCEPT ![s] = FALSE]
    /\ missed' = [missed EXCEPT ![s] = 0]
    /\ \/ /\ master[s]
          /\ pc' = [pc EXCEPT ![s] = "reply"]
          /\ hPath' = [hPath EXCEPT ![s] = "master"]
       \/ /\ ~master[s] /\ masterFile[ClusterOf[s]] # NoFile
          /\ pc' = [pc EXCEPT ![s] = "writeSlave"]
          /\ hPath' = [hPath EXCEPT ![s] = "slave"]
       \/ /\ ~master[s] /\ masterFile[ClusterOf[s]] = NoFile
          /\ pc' = [pc EXCEPT ![s] = "create"]
          /\ UNCHANGED hPath
    /\ UNCHANGED <<master, path, files, checker, hSync, servers>>

\* filesys.write(rawPath, address, false, true) of the slave file.
WriteSlave(s) ==
    /\ pc[s] = "writeSlave"
    /\ ~fsLocked
    /\ pc' = [pc EXCEPT ![s] = "read"]
    /\ UNCHANGED <<zNodes, files, checker, hPath, hSync, servers>>

\* A variant of CreateMaster that OneMaster must reject: creating a file that
\* exists succeeds.
CreateMasterAnyway(s) ==
    /\ pc[s] = "create" /\ ~fsLocked
    /\ masterFile' = [masterFile EXCEPT ![ClusterOf[s]] = NoServer]
    /\ hPath' = [hPath EXCEPT ![s] = "master"]
    /\ pc' = [pc EXCEPT ![s] = "writeMaster"]
    /\ UNCHANGED <<zNodes, fsLocked, checker, hSync, servers>>

\* filesys.create(masterFilepath, false, true): the file is made, empty, or the
\* call fails because another server made it in the meantime; rawPath is then
\* still the empty string.
CreateMaster(s) ==
    /\ pc[s] = "create"
    /\ ~fsLocked
    /\ \/ /\ masterFile[ClusterOf[s]] = NoFile
          /\ masterFile' = [masterFile EXCEPT ![ClusterOf[s]] = NoServer]
          /\ hPath' = [hPath EXCEPT ![s] = "master"]
          /\ pc' = [pc EXCEPT ![s] = "writeMaster"]
       \/ /\ masterFile[ClusterOf[s]] # NoFile
          /\ pc' = [pc EXCEPT ![s] = "read"]
          /\ UNCHANGED <<masterFile, hPath>>
    /\ UNCHANGED <<zNodes, fsLocked, checker, hSync, servers>>

\* filesys.read(masterFilepath, syncAddress), in both branches that lose the
\* election.  A file that is gone leaves the address empty.
ReadMaster(s) ==
    /\ pc[s] = "read"
    /\ hSync' = [hSync EXCEPT ![s] = IF masterFile[ClusterOf[s]] = NoFile
                                      THEN NoServer
                                      ELSE masterFile[ClusterOf[s]]]
    /\ pc' = [pc EXCEPT ![s] = "assign"]
    /\ UNCHANGED <<zNodes, files, checker, hPath, servers>>

\* getFirstAvailableClusterMaster: the first master in a cluster other than c.
IsFirstAvailableClusterMaster(t, c) ==
    LET others == {u \in Server : ClusterOf[u] # c /\ master[u]}
    IN  IF others = {} THEN t = NoServer
                       ELSE t \in others /\ \A u \in others : t <= u

\* filesys.write(masterFilepath, address, false, true), which makes the file
\* again should it be gone.  A new master that is not registered yet is told to
\* copy the data of another cluster's master.
WriteMaster(s) ==
    /\ pc[s] = "writeMaster"
    /\ ~fsLocked
    /\ masterFile' = [masterFile EXCEPT ![ClusterOf[s]] = s]
    /\ \E t \in 0 .. NumServers :
          /\ IF registered[s] THEN t = NoServer
                              ELSE IsFirstAvailableClusterMaster(t, ClusterOf[s])
          /\ hSync' = [hSync EXCEPT ![s] = t]
    /\ pc' = [pc EXCEPT ![s] = "assign"]
    /\ UNCHANGED <<zNodes, fsLocked, checker, hPath, servers>>

\* server->path = rawPath; if(master) server->master = true; and the reply.
Assign(s) ==
    /\ pc[s] = "assign"
    /\ path' = [path EXCEPT ![s] = hPath[s]]
    /\ master' = [master EXCEPT ![s] = @ \/ hPath[s] = "master"]
    /\ pc' = [pc EXCEPT ![s] = "reply"]
    /\ UNCHANGED <<known, late, missed, files, checker, hPath, hSync, servers>>

-----------------------------------------------------------------------------
(* Time, and SNSCoordinator::checkHeartbeats *)

\* The Heartbeat call of s waits for a mutex that is never released.
Blocked(s) == fsLocked /\ pc[s] \in {"writeSlave", "create", "writeMaster"}

\* More than maxHeartbeatDelay seconds have passed since the last heartbeat of
\* s that was accepted.  A call that the coordinator is working on takes less
\* than that, unless it is blocked; the network may take any time.  A server
\* that is down, starts or initialises sends no accepted heartbeat.
Expire(s) ==
    /\ known[s] /\ ~late[s]
    /\ pc[s] \in {"idle", "sent", "reply"} \/ Blocked(s)
    /\ s \in Slow \/ ~(alive[s] /\ registered[s])
    /\ late' = [late EXCEPT ![s] = TRUE]
    /\ UNCHANGED <<known, master, path, missed, files, checker, handlers, servers>>

\* The test of the last heartbeat's age.
Visit ==
    /\ chkPc = "visit"
    /\ chkAt \in Server
    /\ \/ /\ known[chkAt] /\ late[chkAt]
          /\ chkPc' = "count"
          /\ UNCHANGED chkAt
       \/ /\ ~(known[chkAt] /\ late[chkAt])
          /\ chkAt' = chkAt + 1
          /\ UNCHANGED chkPc
    /\ UNCHANGED <<zNodes, files, handlers, servers>>

\* missed_heartbeats += 1; only the second one has a consequence.
Count ==
    /\ chkPc = "count"
    /\ missed' = [missed EXCEPT ![chkAt] = IF @ < MissedCap THEN @ + 1 ELSE @]
    /\ \/ /\ missed[chkAt] = 1
          /\ chkPc' = "demote"
          /\ UNCHANGED chkAt
       \/ /\ missed[chkAt] # 1
          /\ chkPc' = "visit"
          /\ chkAt' = chkAt + 1
    /\ UNCHANGED <<known, master, path, late, files, handlers, servers>>

\* A variant of Demote that TypeOK must reject: the loop moves on too early.
DemoteAdvancing ==
    /\ chkPc = "demote"
    /\ master' = [master EXCEPT ![chkAt] = FALSE]
    /\ chkPc' = "release"
    /\ chkAt' = chkAt + 1
    /\ UNCHANGED <<known, path, late, missed, files, handlers, servers>>

\* server->master = false
Demote ==
    /\ chkPc = "demote"
    /\ master' = [master EXCEPT ![chkAt] = FALSE]
    /\ chkPc' = "release"
    /\ UNCHANGED <<known, path, late, missed, files, chkAt, handlers, servers>>

\* Variants of Release: the file stays (LockNotOrphaned and FailOverUnlessLeaked
\* must reject it), or the cluster's master file goes whichever file the server
\* holds (ImplementsMasterLock must reject it).
ReleaseNothing ==
    /\ chkPc = "release" /\ ~fsLocked
    /\ chkPc' = "visit"
    /\ chkAt' = chkAt + 1
    /\ UNCHANGED <<zNodes, files, handlers, servers>>

ReleaseMasterFile ==
    /\ chkPc = "release" /\ ~fsLocked
    /\ masterFile' = [masterFile EXCEPT ![ClusterOf[chkAt]] = NoFile]
    /\ chkPc' = "visit"
    /\ chkAt' = chkAt + 1
    /\ UNCHANGED <<zNodes, fsLocked, handlers, servers>>

\* filesys.remove(server->path).  With an empty path FSMemory::remove returns
\* after it has locked fsMutex and does not unlock it.
Release ==
    /\ chkPc = "release"
    /\ ~fsLocked
    /\ masterFile' = IF path[chkAt] = "master"
                     THEN [masterFile EXCEPT ![ClusterOf[chkAt]] = NoFile]
                     ELSE masterFile
    /\ fsLocked' = (path[chkAt] = NoPath)
    /\ chkPc' = "visit"
    /\ chkAt' = chkAt + 1
    /\ UNCHANGED <<zNodes, handlers, servers>>

\* sleep(heartbeatCheckDelay), then the next pass.
NextPass ==
    /\ chkPc = "visit"
    /\ chkAt = NumServers + 1
    /\ chkAt' = 1
    /\ UNCHANGED <<zNodes, files, chkPc, handlers, servers>>

checkHeartbeats == Visit \/ Count \/ Demote \/ Release \/ NextPass

\* The steps of the thread that serves the Heartbeat of s.
Heartbeat(s) ==
    \/ Reject(s) \/ Receive(s)
    \/ WriteSlave(s) \/ CreateMaster(s) \/ ReadMaster(s) \/ WriteMaster(s)
    \/ Assign(s)

\* The steps of the server process s that follow from its program.
serverLoop(s) == SendHeartbeat(s) \/ Reply(s) \/ DropReply(s)

Next ==
    \/ checkHeartbeats
    \/ \E s \in Server :
          Heartbeat(s) \/ serverLoop(s) \/ Start(s) \/ Crash(s) \/ Expire(s)

Spec == Init /\ [][Next]_vars

\* The threads of the coordinator and of a running server keep running, and a
\* server without heartbeats is late in the end.  Nobody is obliged to start,
\* restart or crash a server, and no heartbeat of a running one need be late.
Fairness ==
    /\ WF_vars(checkHeartbeats)
    /\ \A s \in Server :
          /\ WF_vars(Heartbeat(s))
          /\ WF_vars(serverLoop(s))
          /\ WF_vars(Expire(s) /\ ~(alive[s] /\ registered[s]))

FairSpec == Spec /\ Fairness

-----------------------------------------------------------------------------
(* Properties *)

\* A server holds the master lock of its cluster from the moment it made the
\* file until checkHeartbeats removes it.
Owns(s) ==
    \/ master[s]
    \/ pc[s] \in {"writeMaster", "assign"} /\ hPath[s] = "master"
    \/ chkPc = "release" /\ chkAt = s /\ path[s] = "master" /\ ~Blocked(s)

\* A cluster has at most one master zNode: getActiveMaster and
\* GetOtherClusterMasters stop at the first one they find.
OneMaster ==
    \A s, t \in Server :
        master[s] /\ master[t] /\ ClusterOf[s] = ClusterOf[t] => s = t

\* A master file always has an owner who will use it or whose death will
\* remove it; without one no server of the cluster could ever become master.
LockNotOrphaned ==
    \A c \in Cluster :
        masterFile[c] # NoFile => \E s \in Server : ClusterOf[s] = c /\ Owns(s)

\* A running server that acts as master, is not waiting for a new answer and
\* has missed fewer than two heartbeats in the coordinator's count, is the
\* coordinator's master, and the address in the master file is its own.
BeliefBacked ==
    \A s \in Server :
        alive[s] /\ believes[s] /\ pc[s] \in {"idle", "sent"} /\ missed[s] < 2 =>
            master[s] /\ masterFile[ClusterOf[s]] = s

\* A server that starts is never told that it is master without an election:
\* it would serve clients from the files its previous run left, without a
\* sync address.  The zNode of that run must have been demoted (at 2 missed
\* heartbeats) before isActive lets the new one in (at 3).
NoSkippedElection ==
    [][\A s \in Server : pc[s] = "sent" /\ pc'[s] = "reply" => registered[s]]_vars

\* The lock service the coordinator promises (MasterLock) is what the zNodes,
\* the master files and the threads implement.
Lock == INSTANCE MasterLock WITH
            holders <- [c \in Cluster |->
                           {s \in Server : ClusterOf[s] = c /\ Owns(s)}]

ImplementsMasterLock == Lock!Spec

\* Seen through the master flags of the zNodes alone, which is all that
\* GetServer and GetOtherClusterMasters look at, it is the same lock service:
\* a flag is set only after the last one of the cluster was cleared.
Flags == INSTANCE MasterLock WITH
             holders <- [c \in Cluster |->
                            {s \in Server : ClusterOf[s] = c /\ master[s]}]

FlagsImplementMasterLock == Flags!Spec

\* The cluster of s has, from some time on, a master that runs.
HasMaster(c) ==
    <>[](\E t \in Server : ClusterOf[t] = c /\ alive[t] /\ registered[t] /\ master[t])

\* If a server of a cluster stays up, the cluster comes to have a master that
\* runs (fail-over by heartbeat and file lock).
FailOver ==
    \A s \in Server : <>[](alive[s] /\ registered[s]) => HasMaster(ClusterOf[s])

\* Fail-over works as long as the mutex of the file system is not leaked.
FailOverUnlessLeaked == [](~fsLocked) => FailOver

=============================================================================
