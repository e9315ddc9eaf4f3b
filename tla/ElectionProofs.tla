--------------------------- MODULE ElectionProofs ---------------------------
(***************************************************************************)
(* Theorems about Election, for any number of servers and clusters, any    *)
(* set of slow servers and any number of crashes.                          *)
(***************************************************************************)
EXTENDS Election, TLAPS

\* The server's Heartbeat call is past the point where setFromServerInfo
\* refreshed the zNode and has not yet answered.
InCall(s) == pc[s] \in {"writeSlave", "create", "read", "writeMaster", "assign"}

\* What the local variables hold at each point of the call.
Locals ==
    \A s \in Server :
        /\ pc[s] \in {"idle", "sent", "create"} => hPath[s] = NoPath
        /\ pc[s] = "writeSlave" => hPath[s] = "slave"
        /\ pc[s] = "read" => hPath[s] # "master"
        /\ pc[s] = "writeMaster" => hPath[s] = "master"

\* A call that does not wait for a leaked mutex ends before its heartbeat is
\* late, so checkHeartbeats counts at most one stale miss against it and never
\* releases the file of its server meanwhile.
Timely ==
    /\ \A s \in Server :
          InCall(s) /\ ~Blocked(s) =>
             /\ ~late[s]
             /\ missed[s] <= 1
             /\ chkPc = "count" /\ chkAt = s => missed[s] = 0
             /\ ~Releasing(s)
    /\ chkPc \in {"demote", "release"} => missed[chkAt] >= 2

\* The fields of a zNode agree; zNode::path still names the master file after
\* the file was removed, but only until the next heartbeat is accepted.  A
\* master that missed a second heartbeat is about to be demoted.
Fields ==
    /\ \A s \in Server :
          /\ master[s] => path[s] = "master" /\ ~InCall(s)
          /\ master[s] \/ InCall(s) => known[s]
          /\ master[s] => missed[s] <= 1 \/ (chkPc = "demote" /\ chkAt = s /\ missed[s] = 2)
          /\ path[s] = "master" /\ ~master[s] /\ ~InCall(s) => missed[s] >= 2
    /\ chkPc = "demote" /\ path[chkAt] = "master" /\ ~Blocked(chkAt) => master[chkAt]
    /\ chkPc = "release" => ~master[chkAt]

\* A cluster's master file exists iff one server owns it, and it holds the
\* owner's address once that is written.
OneOwner ==
    /\ \A s, t \in Server :
          Owns(s) /\ Owns(t) /\ ClusterOf[s] = ClusterOf[t] => s = t
    /\ \A s \in Server :
          Owns(s) => masterFile[ClusterOf[s]] = IF pc[s] = "writeMaster" THEN NoServer ELSE s

\* What a server was told of being master, as long as it may still rely on it.
Belief ==
    /\ \A s \in Server :
          /\ pc[s] = "reply" /\ hPath[s] = "master" => master[s] \/ missed[s] >= 2
          /\ believes[s] => alive[s] /\ registered[s]
          /\ believes[s] /\ pc[s] \in {"idle", "sent"} => master[s] \/ missed[s] >= 2

\* The inductive invariant, for a coordinator in which no heartbeat arrives
\* while its own zNode is being released.
IInv == TypeOK /\ Locals /\ Timely /\ Fields /\ OneOwner /\ LockNotOrphaned /\ Belief

-----------------------------------------------------------------------------

\* What the proofs use of the constants.
LEMMA Constants ==
    /\ NumServers \in Nat
    /\ MaxCrashes \in Nat
    /\ ClusterOf \in [Server -> Cluster]
BY ElectionAssumption

\* Every step keeps the types.
LEMMA TypeOKKept ==
    ASSUME TypeOK, [Next]_vars
    PROVE  TypeOK'
<1>1. ASSUME NEW s \in Server, Start(s) PROVE TypeOK'
  BY <1>1 DEF TypeOK, Start, zNodes, files, checker, handlers
<1>2. ASSUME NEW s \in Server, SendHeartbeat(s) PROVE TypeOK'
  BY <1>2 DEF TypeOK, HandlerPcs, SendHeartbeat, zNodes, files, checker,
     servers
<1>3. ASSUME NEW s \in Server, Reply(s) PROVE TypeOK'
  <2>1. believes' \in [Server -> BOOLEAN] /\ alive' \in [Server -> BOOLEAN]
    <3>1. (hPath[s] = "master") \in BOOLEAN
      OBVIOUS
    <3> QED BY <1>3, <3>1 DEF TypeOK, Reply
  <2>2. registered' \in [Server -> BOOLEAN]
    BY <1>3 DEF TypeOK, Reply
  <2>3. /\ pc' \in [Server -> HandlerPcs]
        /\ hPath' \in [Server -> Paths]
        /\ hSync' \in [Server -> 0 .. NumServers]
    BY <1>3, Constants DEF TypeOK, Reply, Return, HandlerPcs, Paths, NoPath, NoServer
  <2> QED BY <1>3, <2>1, <2>2, <2>3 DEF TypeOK, Reply, zNodes, files, checker
<1>4. ASSUME NEW s \in Server, DropReply(s) PROVE TypeOK'
  BY <1>4, Constants DEF TypeOK, HandlerPcs, Paths, NoPath, NoServer,
     DropReply, Return, zNodes, files, checker, servers
<1>5. ASSUME NEW s \in Server, Crash(s) PROVE TypeOK'
  BY <1>5, Constants DEF TypeOK, Server, Crash, zNodes, files, checker,
     handlers
<1>6. ASSUME NEW s \in Server, Reject(s) PROVE TypeOK'
  BY <1>6 DEF TypeOK, HandlerPcs, Reject, zNodes, files, checker
<1>7. ASSUME NEW s \in Server, Receive(s) PROVE TypeOK'
  <2>1. known' \in [Server -> BOOLEAN] /\ late' \in [Server -> BOOLEAN]
    BY <1>7 DEF TypeOK, Receive
  <2>2. missed' \in [Server -> 0 .. MissedCap]
    BY <1>7 DEF TypeOK, Receive, MissedCap
  <2>3. pc' \in [Server -> HandlerPcs] /\ hPath' \in [Server -> Paths]
    BY <1>7 DEF TypeOK, Receive, HandlerPcs, Paths
  <2> QED BY <1>7, <2>1, <2>2, <2>3 DEF TypeOK, Receive, files, checker, servers
<1>8. ASSUME NEW s \in Server, WriteSlave(s) PROVE TypeOK'
  BY <1>8 DEF TypeOK, HandlerPcs, WriteSlave, zNodes, files, checker, servers
<1>9. ASSUME NEW s \in Server, CreateMaster(s) PROVE TypeOK'
  <2>1. pc' \in [Server -> HandlerPcs] /\ hPath' \in [Server -> Paths]
    BY <1>9 DEF TypeOK, CreateMaster, HandlerPcs, Paths
  <2>2. masterFile' \in [Cluster -> 0 .. NumServers + 1]
    BY <1>9, Constants DEF TypeOK, CreateMaster, NoServer
  <2> QED BY <1>9, <2>1, <2>2 DEF TypeOK, CreateMaster, zNodes, checker, servers
<1>10. ASSUME NEW s \in Server, ReadMaster(s) PROVE TypeOK'
  <2>1. hSync' \in [Server -> 0 .. NumServers]
    <3>1. masterFile[ClusterOf[s]] \in 0 .. NumServers + 1
      BY Constants DEF TypeOK
    <3>2. masterFile[ClusterOf[s]] # NoFile => masterFile[ClusterOf[s]] \in 0 .. NumServers
      BY <3>1, Constants DEF NoFile
    <3>3. NoServer \in 0 .. NumServers
      BY Constants DEF NoServer
    <3> QED BY <1>10, <3>2, <3>3 DEF TypeOK, ReadMaster
  <2>2. pc' \in [Server -> HandlerPcs]
    BY <1>10 DEF TypeOK, ReadMaster, HandlerPcs
  <2> QED BY <1>10, <2>1, <2>2 DEF TypeOK, ReadMaster, zNodes, files, checker, servers
<1>11. ASSUME NEW s \in Server, WriteMaster(s) PROVE TypeOK'
  BY <1>11, Constants DEF TypeOK, HandlerPcs, Server, WriteMaster, zNodes,
     checker, servers
<1>12. ASSUME NEW s \in Server, Assign(s) PROVE TypeOK'
  BY <1>12 DEF TypeOK, HandlerPcs, Assign, files, checker, servers
<1>13. ASSUME NEW s \in Server, Expire(s) PROVE TypeOK'
  BY <1>13 DEF TypeOK, Expire, files, checker, handlers, servers
<1>14. CASE Visit
  <2>1. /\ chkAt' \in 1 .. NumServers + 1
        /\ chkPc' \in CheckerPcs
        /\ chkPc' # "visit" => chkAt' \in Server
    BY <1>14, Constants DEF TypeOK, Visit, Server, CheckerPcs
  <2> QED BY <1>14, <2>1 DEF TypeOK, Visit, zNodes, files, handlers, servers
<1>15. CASE Count
  <2>1. missed' \in [Server -> 0 .. MissedCap]
    BY <1>15 DEF TypeOK, Count, MissedCap
  <2>2. /\ chkAt' \in 1 .. NumServers + 1
        /\ chkPc' \in CheckerPcs
        /\ chkPc' # "visit" => chkAt' \in Server
    BY <1>15, Constants DEF TypeOK, Count, Server, CheckerPcs
  <2> QED BY <1>15, <2>1, <2>2 DEF TypeOK, Count, files, handlers, servers
<1>16. CASE Demote
  BY <1>16, Constants DEF TypeOK, CheckerPcs, Demote, files, handlers, servers
<1>17. CASE Release
  BY <1>17, Constants DEF TypeOK, Server, CheckerPcs, NoFile, Release, zNodes,
     handlers, servers
<1>18. CASE NextPass
  BY <1>18, Constants DEF TypeOK, CheckerPcs, NextPass, zNodes, files,
     handlers, servers
<1>19. CASE UNCHANGED vars
  BY <1>19 DEF TypeOK, vars, zNodes, files, checker, handlers, servers
<1> QED
  BY <1>1, <1>2, <1>3, <1>4, <1>5, <1>6, <1>7, <1>8, <1>9, <1>10, <1>11,
     <1>12, <1>13, <1>14, <1>15, <1>16, <1>17, <1>18, <1>19 DEF Next,
     checkHeartbeats, Heartbeat, serverLoop

\* Every step of a call leaves its local variables as Locals says.
LEMMA LocalsKept ==
    ASSUME IInv, Overlap = FALSE, [Next]_vars
    PROVE  Locals'
<1>1. CASE UNCHANGED <<pc, hPath>>
  BY <1>1 DEF IInv, Locals
<1>2. ASSUME NEW s \in Server, SendHeartbeat(s) PROVE Locals'
  BY <1>2, Constants DEF IInv, TypeOK, Paths, NoPath, HandlerPcs, Locals,
     SendHeartbeat
<1>3. ASSUME NEW s \in Server, Reply(s) PROVE Locals'
  BY <1>3, Constants DEF IInv, TypeOK, Paths, NoPath, HandlerPcs, Locals,
     Reply, Return
<1>4. ASSUME NEW s \in Server, DropReply(s) PROVE Locals'
  BY <1>4, Constants DEF IInv, TypeOK, Paths, NoPath, HandlerPcs, Locals,
     DropReply, Return
<1>5. ASSUME NEW s \in Server, Reject(s) PROVE Locals'
  BY <1>5, Constants DEF IInv, TypeOK, Paths, NoPath, HandlerPcs, Locals,
     Reject
<1>6. ASSUME NEW s \in Server, Receive(s) PROVE Locals'
  BY <1>6, Constants DEF IInv, TypeOK, Paths, NoPath, HandlerPcs, Locals,
     Receive
<1>7. ASSUME NEW s \in Server, WriteSlave(s) PROVE Locals'
  BY <1>7, Constants DEF IInv, TypeOK, Paths, NoPath, HandlerPcs, Locals,
     WriteSlave
<1>8. ASSUME NEW s \in Server, CreateMaster(s) PROVE Locals'
  BY <1>8, Constants DEF IInv, TypeOK, Paths, NoPath, HandlerPcs, Locals,
     CreateMaster
<1>9. ASSUME NEW s \in Server, ReadMaster(s) PROVE Locals'
  BY <1>9, Constants DEF IInv, TypeOK, Paths, NoPath, HandlerPcs, Locals,
     ReadMaster
<1>10. ASSUME NEW s \in Server, WriteMaster(s) PROVE Locals'
  BY <1>10, Constants DEF IInv, TypeOK, Paths, NoPath, HandlerPcs, Locals,
     WriteMaster
<1>11. ASSUME NEW s \in Server, Assign(s) PROVE Locals'
  BY <1>11, Constants DEF IInv, TypeOK, Paths, NoPath, HandlerPcs, Locals,
     Assign
<1> QED
  BY <1>1, <1>2, <1>3, <1>4, <1>5, <1>6, <1>7, <1>8, <1>9, <1>10, <1>11 DEF
     Next, checkHeartbeats, Heartbeat, serverLoop, Start, Crash, Expire,
     Visit, Count, Demote, Release, NextPass, vars, handlers

\* No step lets checkHeartbeats catch up with a call that still runs.
LEMMA TimelyKept ==
    ASSUME IInv, Overlap = FALSE, [Next]_vars
    PROVE  Timely'
<1>1. CASE UNCHANGED <<pc, fsLocked, late, missed, chkPc, chkAt>>
  BY <1>1 DEF IInv, Timely, InCall, Blocked, Releasing
<1>2. ASSUME NEW s \in Server, SendHeartbeat(s) PROVE Timely'
  BY <1>2, Constants DEF IInv, TypeOK, MissedCap, Timely, InCall, Blocked,
     Releasing, SendHeartbeat, zNodes, files, checker
<1>3. ASSUME NEW s \in Server, Reply(s) PROVE Timely'
  BY <1>3, Constants DEF IInv, TypeOK, MissedCap, Timely, InCall, Blocked,
     Releasing, Reply, Return, zNodes, files, checker
<1>4. ASSUME NEW s \in Server, DropReply(s) PROVE Timely'
  BY <1>4, Constants DEF IInv, TypeOK, MissedCap, Timely, InCall, Blocked,
     Releasing, DropReply, Return, zNodes, files, checker
<1>5. ASSUME NEW s \in Server, Reject(s) PROVE Timely'
  BY <1>5, Constants DEF IInv, TypeOK, MissedCap, Timely, InCall, Blocked,
     Releasing, Reject, zNodes, files, checker
<1>6. ASSUME NEW s \in Server, Receive(s) PROVE Timely'
  BY <1>6, Constants DEF IInv, TypeOK, MissedCap, Timely, InCall, Blocked,
     Releasing, Receive, files, checker
<1>7. ASSUME NEW s \in Server, WriteSlave(s) PROVE Timely'
  BY <1>7, Constants DEF IInv, TypeOK, MissedCap, Timely, InCall, Blocked,
     Releasing, WriteSlave, zNodes, files, checker
<1>8. ASSUME NEW s \in Server, CreateMaster(s) PROVE Timely'
  BY <1>8, Constants DEF IInv, TypeOK, MissedCap, Timely, InCall, Blocked,
     Releasing, CreateMaster, zNodes, checker
<1>9. ASSUME NEW s \in Server, ReadMaster(s) PROVE Timely'
  BY <1>9, Constants DEF IInv, TypeOK, MissedCap, Timely, InCall, Blocked,
     Releasing, ReadMaster, zNodes, files, checker
<1>10. ASSUME NEW s \in Server, WriteMaster(s) PROVE Timely'
  BY <1>10, Constants DEF IInv, TypeOK, MissedCap, Timely, InCall, Blocked,
     Releasing, WriteMaster, zNodes, checker
<1>11. ASSUME NEW s \in Server, Assign(s) PROVE Timely'
  BY <1>11, Constants DEF IInv, TypeOK, MissedCap, Timely, InCall, Blocked,
     Releasing, Assign, files, checker
<1>12. ASSUME NEW s \in Server, Expire(s) PROVE Timely'
  BY <1>12, Constants DEF IInv, TypeOK, MissedCap, Timely, InCall, Blocked,
     Releasing, Expire, files, checker, handlers
<1>13. CASE Visit
  BY <1>13, Constants DEF IInv, TypeOK, MissedCap, Timely, InCall, Blocked,
     Releasing, Visit, zNodes, files, handlers
<1>14. CASE Count
  BY <1>14, Constants DEF IInv, TypeOK, MissedCap, Timely, InCall, Blocked,
     Releasing, Count, files, handlers
<1>15. CASE Demote
  BY <1>15, Constants DEF IInv, TypeOK, MissedCap, Timely, InCall, Blocked,
     Releasing, Demote, files, handlers
<1>16. CASE Release
  BY <1>16, Constants DEF IInv, TypeOK, MissedCap, Timely, InCall, Blocked,
     Releasing, Release, zNodes, handlers
<1>17. CASE NextPass
  BY <1>17, Constants DEF IInv, TypeOK, MissedCap, Timely, InCall, Blocked,
     Releasing, NextPass, zNodes, files, handlers
<1> QED
  BY <1>1, <1>2, <1>3, <1>4, <1>5, <1>6, <1>7, <1>8, <1>9, <1>10, <1>11,
     <1>12, <1>13, <1>14, <1>15, <1>16, <1>17 DEF Next, checkHeartbeats,
     Heartbeat, serverLoop, Start, Crash, vars, zNodes, files, checker,
     handlers

\* Every step keeps the fields of the zNodes in agreement.
LEMMA FieldsKept ==
    ASSUME IInv, Overlap = FALSE, [Next]_vars
    PROVE  Fields'
<1>1. CASE UNCHANGED <<known, master, path, pc, missed, fsLocked, chkPc, chkAt>>
  BY <1>1 DEF IInv, Fields, InCall, Blocked
<1>2. ASSUME NEW s \in Server, SendHeartbeat(s) PROVE Fields'
  BY <1>2, Constants DEF IInv, TypeOK, Paths, NoPath, MissedCap, Fields,
     Timely, InCall, Blocked, Releasing, Locals, SendHeartbeat, zNodes, files,
     checker
<1>3. ASSUME NEW s \in Server, Reply(s) PROVE Fields'
  BY <1>3, Constants DEF IInv, TypeOK, Paths, NoPath, MissedCap, Fields,
     Timely, InCall, Blocked, Releasing, Locals, Reply, Return, zNodes, files,
     checker
<1>4. ASSUME NEW s \in Server, DropReply(s) PROVE Fields'
  BY <1>4, Constants DEF IInv, TypeOK, Paths, NoPath, MissedCap, Fields,
     Timely, InCall, Blocked, Releasing, Locals, DropReply, Return, zNodes,
     files, checker
<1>5. ASSUME NEW s \in Server, Reject(s) PROVE Fields'
  BY <1>5, Constants DEF IInv, TypeOK, Paths, NoPath, MissedCap, Fields,
     Timely, InCall, Blocked, Releasing, Locals, Reject, zNodes, files,
     checker
<1>6. ASSUME NEW s \in Server, Receive(s) PROVE Fields'
  BY <1>6, Constants DEF IInv, TypeOK, Paths, NoPath, MissedCap, Fields,
     Timely, InCall, Blocked, Releasing, Locals, Receive, files, checker
<1>7. ASSUME NEW s \in Server, WriteSlave(s) PROVE Fields'
  BY <1>7, Constants DEF IInv, TypeOK, Paths, NoPath, MissedCap, Fields,
     Timely, InCall, Blocked, Releasing, Locals, WriteSlave, zNodes, files,
     checker
<1>8. ASSUME NEW s \in Server, CreateMaster(s) PROVE Fields'
  BY <1>8, Constants DEF IInv, TypeOK, Paths, NoPath, MissedCap, Fields,
     Timely, InCall, Blocked, Releasing, Locals, CreateMaster, zNodes, checker
<1>9. ASSUME NEW s \in Server, ReadMaster(s) PROVE Fields'
  BY <1>9, Constants DEF IInv, TypeOK, Paths, NoPath, MissedCap, Fields,
     Timely, InCall, Blocked, Releasing, Locals, ReadMaster, zNodes, files,
     checker
<1>10. ASSUME NEW s \in Server, WriteMaster(s) PROVE Fields'
  BY <1>10, Constants DEF IInv, TypeOK, Paths, NoPath, MissedCap, Fields,
     Timely, InCall, Blocked, Releasing, Locals, WriteMaster, zNodes, checker
<1>11. ASSUME NEW s \in Server, Assign(s) PROVE Fields'
  BY <1>11, Constants DEF IInv, TypeOK, Paths, NoPath, MissedCap, Fields,
     Timely, InCall, Blocked, Releasing, Locals, Assign, files, checker
<1>12. CASE Visit
  BY <1>12, Constants DEF IInv, TypeOK, Paths, NoPath, MissedCap, Fields,
     Timely, InCall, Blocked, Releasing, Locals, Visit, zNodes, files,
     handlers
<1>13. CASE Count
  BY <1>13, Constants DEF IInv, TypeOK, Paths, NoPath, MissedCap, Fields,
     Timely, InCall, Blocked, Releasing, Locals, Count, files, handlers
<1>14. CASE Demote
  BY <1>14, Constants DEF IInv, TypeOK, Paths, NoPath, MissedCap, Fields,
     Timely, InCall, Blocked, Releasing, Locals, Demote, files, handlers
<1>15. CASE Release
  BY <1>15, Constants DEF IInv, TypeOK, Paths, NoPath, MissedCap, Fields,
     Timely, InCall, Blocked, Releasing, Locals, Release, zNodes, handlers
<1>16. CASE NextPass
  BY <1>16, Constants DEF IInv, TypeOK, Paths, NoPath, MissedCap, Fields,
     Timely, InCall, Blocked, Releasing, Locals, NextPass, zNodes, files,
     handlers
<1> QED
  BY <1>1, <1>2, <1>3, <1>4, <1>5, <1>6, <1>7, <1>8, <1>9, <1>10, <1>11,
     <1>12, <1>13, <1>14, <1>15, <1>16 DEF Next, checkHeartbeats, Heartbeat,
     serverLoop, Start, Crash, Expire, vars, zNodes, files, checker, handlers

\* Every step keeps what the servers believe backed by the coordinator.
LEMMA BeliefKept ==
    ASSUME IInv, Overlap = FALSE, [Next]_vars
    PROVE  Belief'
<1>1. CASE UNCHANGED <<pc, hPath, master, missed, believes, alive, registered>>
  BY <1>1 DEF IInv, Belief
<1>2. ASSUME NEW s \in Server, Start(s) PROVE Belief'
  BY <1>2, Constants DEF IInv, TypeOK, MissedCap, Belief, Fields, Timely,
     InCall, Blocked, Releasing, Locals, Start, zNodes, handlers
<1>3. ASSUME NEW s \in Server, SendHeartbeat(s) PROVE Belief'
  BY <1>3, Constants DEF IInv, TypeOK, MissedCap, Belief, Fields, Timely,
     InCall, Blocked, Releasing, Locals, SendHeartbeat, zNodes, servers
<1>4. ASSUME NEW s \in Server, Reply(s) PROVE Belief'
  BY <1>4, Constants DEF IInv, TypeOK, MissedCap, Belief, Fields, Timely,
     InCall, Blocked, Releasing, Locals, Reply, Return, zNodes
<1>5. ASSUME NEW s \in Server, DropReply(s) PROVE Belief'
  BY <1>5, Constants DEF IInv, TypeOK, MissedCap, Belief, Fields, Timely,
     InCall, Blocked, Releasing, Locals, DropReply, Return, zNodes, servers
<1>6. ASSUME NEW s \in Server, Crash(s) PROVE Belief'
  BY <1>6, Constants DEF IInv, TypeOK, MissedCap, Belief, Fields, Timely,
     InCall, Blocked, Releasing, Locals, Crash, zNodes, handlers
<1>7. ASSUME NEW s \in Server, Reject(s) PROVE Belief'
  BY <1>7, Constants DEF IInv, TypeOK, MissedCap, Belief, Fields, Timely,
     InCall, Blocked, Releasing, Locals, Reject, zNodes
<1>8. ASSUME NEW s \in Server, Receive(s) PROVE Belief'
  BY <1>8, Constants DEF IInv, TypeOK, MissedCap, Belief, Fields, Timely,
     InCall, Blocked, Releasing, Locals, Receive, servers
<1>9. ASSUME NEW s \in Server, WriteSlave(s) PROVE Belief'
  BY <1>9, Constants DEF IInv, TypeOK, MissedCap, Belief, Fields, Timely,
     InCall, Blocked, Releasing, Locals, WriteSlave, zNodes, servers
<1>10. ASSUME NEW s \in Server, CreateMaster(s) PROVE Belief'
  BY <1>10, Constants DEF IInv, TypeOK, MissedCap, Belief, Fields, Timely,
     InCall, Blocked, Releasing, Locals, CreateMaster, zNodes, servers
<1>11. ASSUME NEW s \in Server, ReadMaster(s) PROVE Belief'
  BY <1>11, Constants DEF IInv, TypeOK, MissedCap, Belief, Fields, Timely,
     InCall, Blocked, Releasing, Locals, ReadMaster, zNodes, servers
<1>12. ASSUME NEW s \in Server, WriteMaster(s) PROVE Belief'
  BY <1>12, Constants DEF IInv, TypeOK, MissedCap, Belief, Fields, Timely,
     InCall, Blocked, Releasing, Locals, WriteMaster, zNodes, servers
<1>13. ASSUME NEW s \in Server, Assign(s) PROVE Belief'
  BY <1>13, Constants DEF IInv, TypeOK, MissedCap, Belief, Fields, Timely,
     InCall, Blocked, Releasing, Locals, Assign, servers
<1>14. CASE Count
  BY <1>14, Constants DEF IInv, TypeOK, MissedCap, Belief, Fields, Timely,
     InCall, Blocked, Releasing, Locals, Count, handlers, servers
<1>15. CASE Demote
  BY <1>15, Constants DEF IInv, TypeOK, MissedCap, Belief, Fields, Timely,
     InCall, Blocked, Releasing, Locals, Demote, handlers, servers
<1> QED
  BY <1>1, <1>2, <1>3, <1>4, <1>5, <1>6, <1>7, <1>8, <1>9, <1>10, <1>11,
     <1>12, <1>13, <1>14, <1>15 DEF Next, checkHeartbeats, Heartbeat,
     serverLoop, Expire, Visit, Release, NextPass, vars, zNodes, handlers,
     servers

\* Only CreateMaster and Release change who owns a master lock.
LEMMA OwnersKept ==
    ASSUME IInv, Overlap = FALSE, [Next]_vars,
           \A s \in Server : ~CreateMaster(s),
           ~Release
    PROVE  \A t \in Server : Owns(t)' <=> Owns(t)
<1> DEFINE Same == \A t \in Server : Owns(t)' <=> Owns(t)
<1>1. CASE UNCHANGED <<master, path, pc, hPath, fsLocked, chkPc, chkAt>>
  BY <1>1 DEF Owns, Blocked
<1>2. ASSUME NEW s \in Server, SendHeartbeat(s) PROVE Same
  BY <1>2, Constants DEF IInv, TypeOK, Owns, Fields, Timely, InCall, Blocked,
     Releasing, Locals, HandlerPcs, SendHeartbeat, zNodes, files, checker
<1>3. ASSUME NEW s \in Server, Reply(s) PROVE Same
  BY <1>3, Constants DEF IInv, TypeOK, Owns, Fields, Timely, InCall, Blocked,
     Releasing, Locals, HandlerPcs, Reply, Return, zNodes, files, checker
<1>4. ASSUME NEW s \in Server, DropReply(s) PROVE Same
  BY <1>4, Constants DEF IInv, TypeOK, Owns, Fields, Timely, InCall, Blocked,
     Releasing, Locals, HandlerPcs, DropReply, Return, zNodes, files, checker
<1>5. ASSUME NEW s \in Server, Reject(s) PROVE Same
  BY <1>5, Constants DEF IInv, TypeOK, Owns, Fields, Timely, InCall, Blocked,
     Releasing, Locals, HandlerPcs, Reject, zNodes, files, checker
<1>6. ASSUME NEW s \in Server, Receive(s) PROVE Same
  BY <1>6, Constants DEF IInv, TypeOK, Owns, Fields, Timely, InCall, Blocked,
     Releasing, Locals, HandlerPcs, Receive, files, checker
<1>7. ASSUME NEW s \in Server, WriteSlave(s) PROVE Same
  BY <1>7, Constants DEF IInv, TypeOK, Owns, Fields, Timely, InCall, Blocked,
     Releasing, Locals, HandlerPcs, WriteSlave, zNodes, files, checker
<1>8. ASSUME NEW s \in Server, ReadMaster(s) PROVE Same
  BY <1>8, Constants DEF IInv, TypeOK, Owns, Fields, Timely, InCall, Blocked,
     Releasing, Locals, HandlerPcs, ReadMaster, zNodes, files, checker
<1>9. ASSUME NEW s \in Server, WriteMaster(s) PROVE Same
  BY <1>9, Constants DEF IInv, TypeOK, Owns, Fields, Timely, InCall, Blocked,
     Releasing, Locals, HandlerPcs, WriteMaster, zNodes, checker
<1>10. ASSUME NEW s \in Server, Assign(s) PROVE Same
  BY <1>10, Constants DEF IInv, TypeOK, Owns, Fields, Timely, InCall, Blocked,
     Releasing, Locals, HandlerPcs, Assign, files, checker
<1>11. CASE Visit
  BY <1>11, Constants DEF IInv, TypeOK, Owns, Fields, Timely, InCall, Blocked,
     Releasing, Locals, HandlerPcs, Visit, zNodes, files, handlers
<1>12. CASE Count
  BY <1>12, Constants DEF IInv, TypeOK, Owns, Fields, Timely, InCall, Blocked,
     Releasing, Locals, HandlerPcs, Count, files, handlers
<1>13. CASE Demote
  BY <1>13, Constants DEF IInv, TypeOK, Owns, Fields, Timely, InCall, Blocked,
     Releasing, Locals, HandlerPcs, Demote, files, handlers
<1>14. CASE NextPass
  BY <1>14, Constants DEF IInv, TypeOK, Owns, Fields, Timely, InCall, Blocked,
     Releasing, Locals, HandlerPcs, NextPass, zNodes, files, handlers
<1> QED
  BY <1>1, <1>2, <1>3, <1>4, <1>5, <1>6, <1>7, <1>8, <1>9, <1>10, <1>11,
     <1>12, <1>13, <1>14 DEF Next, checkHeartbeats, Heartbeat, serverLoop,
     Start, Crash, Expire, vars, zNodes, files, checker, handlers

\* CreateMaster gives the lock of a cluster that has no owner to its server, or
\* leaves the owners alone.
LEMMA CreateMasterOwners ==
    ASSUME IInv, NEW s \in Server, CreateMaster(s)
    PROVE  \/ /\ masterFile[ClusterOf[s]] = NoFile
              /\ \A t \in Server : Owns(t)' <=> Owns(t) \/ t = s
           \/ /\ UNCHANGED masterFile
              /\ \A t \in Server : Owns(t)' <=> Owns(t)
<1>1. CASE masterFile[ClusterOf[s]] = NoFile
  BY <1>1 DEF IInv, TypeOK, Owns, Blocked, CreateMaster, zNodes, checker
<1>2. CASE masterFile[ClusterOf[s]] # NoFile
  BY <1>2 DEF IInv, TypeOK, Owns, Blocked, Locals, CreateMaster, zNodes, checker
<1> QED BY <1>1, <1>2

\* Release takes the lock from the server that checkHeartbeats visits if it
\* owns it, with the file, and leaves everything alone if it does not.
LEMMA ReleaseOwners ==
    ASSUME IInv, Release
    PROVE  /\ chkAt \in Server
           /\ \/ /\ Owns(chkAt)
                 /\ masterFile' = [masterFile EXCEPT ![ClusterOf[chkAt]] = NoFile]
                 /\ \A t \in Server : Owns(t)' <=> Owns(t) /\ t # chkAt
              \/ /\ UNCHANGED masterFile
                 /\ \A t \in Server : Owns(t)' <=> Owns(t)
<1>1. chkAt \in Server /\ ~Blocked(chkAt) /\ ~InCall(chkAt) /\ ~master[chkAt]
  BY DEF IInv, TypeOK, Fields, Timely, InCall, Blocked, Releasing, Release
<1>2. CASE path[chkAt] = "master"
  BY <1>1, <1>2 DEF Owns, InCall, Release, zNodes, handlers
<1>3. CASE path[chkAt] # "master"
  BY <1>1, <1>3 DEF Owns, InCall, Release, zNodes, handlers
<1> QED BY <1>1, <1>2, <1>3

\* Every step keeps the master files and their owners in agreement.
LEMMA OneOwnerKept ==
    ASSUME IInv, Overlap = FALSE, [Next]_vars
    PROVE  OneOwner' /\ LockNotOrphaned'
<1>1. ASSUME NEW s \in Server, CreateMaster(s)
      PROVE  OneOwner' /\ LockNotOrphaned'
  <2>1. CASE /\ masterFile[ClusterOf[s]] = NoFile
             /\ \A t \in Server : Owns(t)' <=> Owns(t) \/ t = s
    <3>1. masterFile' = [masterFile EXCEPT ![ClusterOf[s]] = NoServer]
      BY <1>1, <2>1 DEF CreateMaster
    <3>2. /\ pc'[s] = "writeMaster"
          /\ \A t \in Server \ {s} : pc'[t] = pc[t]
      BY <1>1, <2>1 DEF IInv, TypeOK, CreateMaster
    <3>3. \A t \in Server : Owns(t) => ClusterOf[t] # ClusterOf[s]
      BY <2>1, Constants DEF IInv, OneOwner, NoFile, NoServer, Server
    <3> QED
      BY <2>1, <3>1, <3>2, <3>3, Constants
      DEF IInv, TypeOK, OneOwner, LockNotOrphaned
  <2>2. CASE /\ UNCHANGED masterFile
             /\ \A t \in Server : Owns(t)' <=> Owns(t)
    <3>1. \A t \in Server : Owns(t) => pc[t] # "create" /\ t # s
      BY <1>1 DEF IInv, Owns, Fields, Timely, InCall, Blocked, CreateMaster, Locals, Releasing
    <3>2. \A t \in Server \ {s} : pc'[t] = pc[t]
      BY <1>1 DEF IInv, TypeOK, CreateMaster
    <3> QED BY <2>2, <3>1, <3>2 DEF IInv, OneOwner, LockNotOrphaned
  <2> QED BY <1>1, <2>1, <2>2, CreateMasterOwners
<1>2. ASSUME Release PROVE OneOwner' /\ LockNotOrphaned'
  <2>1. chkAt \in Server /\ pc' = pc
    BY <1>2, ReleaseOwners DEF Release, handlers
  <2>2. CASE /\ Owns(chkAt)
             /\ masterFile' = [masterFile EXCEPT ![ClusterOf[chkAt]] = NoFile]
             /\ \A t \in Server : Owns(t)' <=> Owns(t) /\ t # chkAt
    <3>1. \A t \in Server : Owns(t)' => ClusterOf[t] # ClusterOf[chkAt]
      BY <2>1, <2>2 DEF IInv, OneOwner
    <3> QED
      BY <2>1, <2>2, <3>1, Constants DEF IInv, TypeOK, OneOwner, LockNotOrphaned
  <2>3. CASE /\ UNCHANGED masterFile
             /\ \A t \in Server : Owns(t)' <=> Owns(t)
    BY <2>1, <2>3 DEF IInv, OneOwner, LockNotOrphaned
  <2> QED BY <1>2, <2>2, <2>3, ReleaseOwners
<1>3. ASSUME NEW s \in Server, WriteMaster(s), ~Release,
             \A t \in Server : ~CreateMaster(t)
      PROVE  OneOwner' /\ LockNotOrphaned'
  <2>1. \A t \in Server : Owns(t)' <=> Owns(t)
    BY <1>3, OwnersKept
  <2>2. /\ Owns(s)
        /\ masterFile' = [masterFile EXCEPT ![ClusterOf[s]] = s]
        /\ pc'[s] = "assign"
        /\ \A t \in Server \ {s} : pc'[t] = pc[t]
    BY <1>3 DEF IInv, TypeOK, Locals, Owns, WriteMaster
  <2>3. \A t \in Server : Owns(t) => t = s \/ ClusterOf[t] # ClusterOf[s]
    BY <2>2 DEF IInv, OneOwner
  <2> QED
    BY <2>1, <2>2, <2>3, Constants DEF IInv, TypeOK, OneOwner, LockNotOrphaned
<1>4. ASSUME ~Release, \A s \in Server : ~CreateMaster(s) /\ ~WriteMaster(s)
      PROVE  OneOwner' /\ LockNotOrphaned'
  <2>1. \A t \in Server : Owns(t)' <=> Owns(t)
    BY <1>4, OwnersKept
  <2>2. UNCHANGED masterFile
    BY <1>4
    DEF Next, checkHeartbeats, Heartbeat, serverLoop, Start, SendHeartbeat, Reply,
        DropReply, Crash, Reject, Receive, WriteSlave, ReadMaster, Assign, Expire,
        Visit, Count, Demote, NextPass, vars, files
  <2>3. \A t \in Server : pc'[t] = "writeMaster" <=> pc[t] = "writeMaster"
    BY <1>4
    DEF Next, checkHeartbeats, Heartbeat, serverLoop, Start, SendHeartbeat, Reply,
        DropReply, Return, Crash, Reject, Receive, WriteSlave, ReadMaster, Assign,
        Expire, Visit, Count, Demote, NextPass, vars, handlers, IInv, TypeOK
  <2> QED BY <2>1, <2>2, <2>3 DEF IInv, OneOwner, LockNotOrphaned
<1> QED BY <1>1, <1>2, <1>3, <1>4

-----------------------------------------------------------------------------
(* Theorems *)

\* The initial states satisfy the inductive invariant.
LEMMA InitIInv == Init => IInv
<1> SUFFICES ASSUME Init PROVE IInv
  OBVIOUS
<1>1. TypeOK
  <2>1. /\ NoFile \in 0 .. NumServers + 1
        /\ NoServer \in 0 .. NumServers
        /\ 1 \in 1 .. NumServers + 1
        /\ 0 \in 0 .. MaxCrashes
        /\ 0 \in 0 .. MissedCap
    BY Constants DEF NoFile, NoServer, MissedCap
  <2>2. /\ NoPath \in Paths
        /\ "idle" \in HandlerPcs
        /\ "visit" \in CheckerPcs
    BY DEF Paths, HandlerPcs, CheckerPcs
  <2> QED BY <2>1, <2>2 DEF Init, TypeOK
<1>2. Locals /\ Timely /\ Fields /\ Belief
  BY DEF Init, Locals, Timely, Fields, Belief, InCall, Blocked, NoPath
<1>3. \A s \in Server : ~Owns(s)
  BY DEF Init, Owns
<1>4. OneOwner /\ LockNotOrphaned
  BY <1>3 DEF Init, OneOwner, LockNotOrphaned
<1> QED BY <1>1, <1>2, <1>4 DEF IInv

\* The variables keep their types, whether heartbeats and releases overlap or not.
THEOREM TypeCorrect == Spec => []TypeOK
<1>1. Init => TypeOK
  BY InitIInv DEF IInv
<1>2. TypeOK /\ [Next]_vars => TypeOK'
  BY TypeOKKept
<1> QED BY <1>1, <1>2, PTL DEF Spec

\* The inductive invariant holds if no heartbeat arrives while checkHeartbeats
\* releases the file of its server.
THEOREM Invariance ==
    ASSUME Overlap = FALSE
    PROVE  Spec => []IInv
<1>1. IInv /\ [Next]_vars => IInv'
  <2> SUFFICES ASSUME IInv, [Next]_vars PROVE IInv'
    OBVIOUS
  <2>1. TypeOK'
    BY TypeOKKept DEF IInv
  <2> QED
    BY <2>1, LocalsKept, TimelyKept, FieldsKept, OneOwnerKept, BeliefKept DEF IInv
<1> QED BY <1>1, InitIInv, PTL DEF Spec

\* Of each cluster at most one zNode is master.
THEOREM MutualExclusion ==
    ASSUME Overlap = FALSE
    PROVE  Spec => []OneMaster
<1>1. IInv => OneMaster
  BY DEF IInv, OneOwner, Owns, OneMaster
<1> QED BY <1>1, Invariance, PTL

\* No master file is left without an owner.
THEOREM LockHasOwner ==
    ASSUME Overlap = FALSE
    PROVE  Spec => []LockNotOrphaned
<1>1. IInv => LockNotOrphaned
  BY DEF IInv
<1> QED BY <1>1, Invariance, PTL

\* A server that acts as master is the coordinator's master until the
\* coordinator has counted two missed heartbeats.
THEOREM BeliefSound ==
    ASSUME Overlap = FALSE
    PROVE  Spec => []BeliefBacked
<1>1. IInv => BeliefBacked
  <2> SUFFICES ASSUME IInv, NEW s \in Server, believes[s], missed[s] < 2,
                      pc[s] \in {"idle", "sent"}
               PROVE  master[s] /\ masterFile[ClusterOf[s]] = s
    BY DEF BeliefBacked
  <2>1. master[s]
    BY Constants DEF IInv, TypeOK, MissedCap, Belief
  <2> QED BY <2>1 DEF IInv, OneOwner, Owns
<1> QED BY <1>1, Invariance, PTL

\* No server that starts is answered as master before an election.
THEOREM ElectionNotSkipped ==
    ASSUME Overlap = FALSE
    PROVE  Spec => NoSkippedElection
<1>1. IInv /\ [Next]_vars =>
         [\A s \in Server : pc[s] = "sent" /\ pc'[s] = "reply" => registered[s]]_vars
  <2> SUFFICES ASSUME IInv, Next, NEW s \in Server, pc[s] = "sent", pc'[s] = "reply"
               PROVE  registered[s]
    OBVIOUS
  <2>1. Receive(s)
    BY DEF IInv, TypeOK, Next, checkHeartbeats, Heartbeat, serverLoop, Start,
       SendHeartbeat, Reply, DropReply, Return, Crash, Reject, Receive, WriteSlave,
       CreateMaster, ReadMaster, WriteMaster, Assign, Expire, Visit, Count, Demote,
       Release, NextPass, handlers
  <2>2. master[s]
    BY <2>1 DEF IInv, TypeOK, Receive
  <2>3. known[s] /\ missed[s] <= 2
    BY <2>2, Constants DEF IInv, TypeOK, MissedCap, Fields
  <2> QED BY <2>1, <2>3 DEF Receive, IsActive
<1> QED BY <1>1, Invariance, PTL DEF Spec, NoSkippedElection

\* Files, zNodes and threads together implement the master lock.
THEOREM Refinement ==
    ASSUME Overlap = FALSE
    PROVE  Spec => ImplementsMasterLock
<1> DEFINE Holders == [c \in Cluster |-> {s \in Server : ClusterOf[s] = c /\ Owns(s)}]
<1>1. Init => Lock!Init
  BY DEF Init, Lock!Init, Owns
<1>2. IInv /\ [Next]_vars => [Lock!Next]_Holders
  <2> SUFFICES ASSUME IInv, [Next]_vars PROVE [Lock!Next]_Holders
    OBVIOUS
  <2>1. ASSUME \A t \in Server : Owns(t)' <=> Owns(t) PROVE UNCHANGED Holders
    BY <2>1
  <2>2. ASSUME NEW s \in Server, CreateMaster(s) PROVE [Lock!Next]_Holders
    <3>1. CASE /\ masterFile[ClusterOf[s]] = NoFile
               /\ \A t \in Server : Owns(t)' <=> Owns(t) \/ t = s
      <4>1. \A t \in Server : Owns(t) => ClusterOf[t] # ClusterOf[s]
        BY <3>1, Constants DEF IInv, OneOwner, NoFile, NoServer, Server
      <4>2. Holders[ClusterOf[s]] = {}
        BY <4>1, Constants
      <4>3. Holders' = [Holders EXCEPT ![ClusterOf[s]] = {s}]
        BY <3>1, <4>1, Constants
      <4> QED BY <4>2, <4>3 DEF Lock!Next, Lock!Acquire
    <3> QED BY <2>1, <2>2, <3>1, CreateMasterOwners
  <2>3. ASSUME Release PROVE [Lock!Next]_Holders
    <3>1. CASE /\ Owns(chkAt)
               /\ \A t \in Server : Owns(t)' <=> Owns(t) /\ t # chkAt
      <4>1. chkAt \in Server
        BY <2>3, ReleaseOwners
      <4>2. \A t \in Server : Owns(t) /\ ClusterOf[t] = ClusterOf[chkAt] => t = chkAt
        BY <3>1, <4>1 DEF IInv, OneOwner
      <4>3. Holders[ClusterOf[chkAt]] = {chkAt}
        BY <3>1, <4>1, <4>2, Constants
      <4>4. Holders' = [Holders EXCEPT ![ClusterOf[chkAt]] = {}]
        BY <3>1, <4>1, <4>2, Constants
      <4> QED BY <4>1, <4>3, <4>4 DEF Lock!Next, Lock!Release
    <3> QED BY <2>1, <2>3, <3>1, ReleaseOwners
  <2>4. ASSUME ~Release, \A s \in Server : ~CreateMaster(s)
        PROVE  UNCHANGED Holders
    BY <2>1, <2>4, OwnersKept
  <2> QED BY <2>2, <2>3, <2>4
<1> QED BY <1>1, <1>2, Invariance, PTL DEF Spec, ImplementsMasterLock, Lock!Spec

\* The master flags alone are the master lock that clients see.
THEOREM FlagsRefinement ==
    ASSUME Overlap = FALSE
    PROVE  Spec => FlagsImplementMasterLock
<1> DEFINE Masters == [c \in Cluster |-> {s \in Server : ClusterOf[s] = c /\ master[s]}]
<1>1. Init => Flags!Init
  BY DEF Init, Flags!Init
<1>2. IInv /\ IInv' /\ [Next]_vars => [Flags!Next]_Masters
  <2> SUFFICES ASSUME IInv, IInv', [Next]_vars PROVE [Flags!Next]_Masters
    OBVIOUS
  <2>1. ASSUME UNCHANGED master PROVE UNCHANGED Masters
    BY <2>1
  <2>2. ASSUME NEW s \in Server, Assign(s) PROVE [Flags!Next]_Masters
    <3>1. CASE hPath[s] = "master"
      <4>1. master' = [master EXCEPT ![s] = TRUE] /\ master \in [Server -> BOOLEAN]
        BY <2>2, <3>1 DEF Assign, IInv, TypeOK
      <4>2. \A t \in Server : Owns(t)' /\ Owns(s)' /\ ClusterOf[t] = ClusterOf[s] => t = s
        BY DEF IInv, OneOwner
      <4>3. \A t \in Server : master[t] /\ ClusterOf[t] = ClusterOf[s] => t = s
        BY <4>1, <4>2 DEF Owns
      <4>4. ~master[s]
        BY <2>2 DEF IInv, Fields, InCall, Assign
      <4>5. Masters[ClusterOf[s]] = {}
        BY <4>3, <4>4, Constants
      <4>6. Masters' = [Masters EXCEPT ![ClusterOf[s]] = {s}]
        BY <4>1, <4>3, Constants
      <4> QED BY <4>5, <4>6 DEF Flags!Next, Flags!Acquire
    <3>2. CASE hPath[s] # "master"
      <4>1. UNCHANGED master
        BY <2>2, <3>2 DEF Assign, IInv, TypeOK
      <4> QED BY <2>1, <4>1
    <3> QED BY <3>1, <3>2
  <2>3. ASSUME Demote PROVE [Flags!Next]_Masters
    <3>1. chkAt \in Server
      BY <2>3 DEF Demote, IInv, TypeOK
    <3>2. CASE master[chkAt]
      <4>1. master' = [master EXCEPT ![chkAt] = FALSE] /\ master \in [Server -> BOOLEAN]
        BY <2>3 DEF Demote, IInv, TypeOK
      <4>2. \A t \in Server : master[t] /\ ClusterOf[t] = ClusterOf[chkAt] => t = chkAt
        BY <3>1, <3>2 DEF IInv, OneOwner, Owns
      <4>3. Masters[ClusterOf[chkAt]] = {chkAt}
        BY <3>1, <3>2, <4>2, Constants
      <4>4. Masters' = [Masters EXCEPT ![ClusterOf[chkAt]] = {}]
        BY <3>1, <4>1, <4>2, Constants
      <4> QED BY <3>1, <4>3, <4>4 DEF Flags!Next, Flags!Release
    <3>3. CASE ~master[chkAt]
      <4>1. UNCHANGED master
        BY <2>3, <3>1, <3>3 DEF Demote, IInv, TypeOK
      <4> QED BY <2>1, <4>1
    <3> QED BY <3>2, <3>3
  <2>4. ASSUME ~Demote, \A s \in Server : ~Assign(s)
        PROVE  UNCHANGED master
    BY <2>4 DEF Next, checkHeartbeats, Heartbeat, serverLoop, Start, SendHeartbeat,
       Reply, DropReply, Crash, Reject, Receive, WriteSlave, CreateMaster, ReadMaster,
       WriteMaster, Expire, Visit, Count, Release, NextPass, vars, zNodes
  <2> QED BY <2>1, <2>2, <2>3, <2>4
<1> QED BY <1>1, <1>2, Invariance, PTL DEF Spec, FlagsImplementMasterLock, Flags!Spec

=============================================================================
