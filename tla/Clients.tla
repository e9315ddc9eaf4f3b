------------------------------ MODULE Clients ------------------------------
(***************************************************************************)
(* Clients and the coordinator: GetUniqueClientID, GetServer with          *)
(* getActiveMaster, and the connect, getServerInfo and refreshServer of a  *)
(* client, which follows the master that the coordinator assigns to it.    *)
(*                                                                         *)
(* The master flags of the zNodes change while calls run: MasterLock says  *)
(* how, which is what Election implements (its property FlagsImplement-    *)
(* MasterLock).  A step of a call is one access to clientAssignments or to *)
(* one master flag; neither is protected by a lock.                        *)
(***************************************************************************)
EXTENDS Integers, FiniteSets

CONSTANTS
    Client,       \* the client processes
    NumServers, NumClusters, ClusterOf,   \* as in Election
    MaxRetries,   \* MAX_RETRIES of the client
    MaxChanges    \* bound on the number of changes of the masters

Server   == 1 .. NumServers
Cluster  == 1 .. NumClusters
NoServer == 0
NoId     == -1

ASSUME ClientsAssumption ==
    /\ IsFiniteSet(Client)
    /\ NumServers \in Nat \ {0}
    /\ NumClusters \in Nat \ {0}
    /\ ClusterOf \in [Server -> Cluster]
    /\ MaxRetries \in Nat
    /\ MaxChanges \in Nat

VARIABLES
    \* the coordinator
    holders,      \* per cluster, the servers whose zNode is master
    changes,      \* number of changes of holders so far
    assigned,     \* clientAssignments: from the ids it has to servers
    \* the call of each client that the coordinator serves, one at a time
    pc,
    left,         \* the servers getActiveMaster has not looked at
    result,       \* the server that was found
    during,       \* history: masters and masterless clusters since the call began
    met,          \* history: clients whose GetUniqueClientID overlapped one's own
    \* the clients
    phase, id, retries,
    target        \* the server of stub_

vars == <<holders, changes, assigned, pc, left, result, during, met,
          phase, id, retries, target>>

Lock == INSTANCE MasterLock

IsMaster(s) == s \in holders[ClusterOf[s]]

Unseen == [masters |-> {}, empty |-> {}]

\* The types of the variables.
TypeOK ==
    /\ holders \in [Cluster -> SUBSET Server]
    /\ changes \in 0 .. MaxChanges
    /\ DOMAIN assigned \subseteq 0 .. Cardinality(Client) - 1
    /\ \A i \in DOMAIN assigned : assigned[i] \in Server \cup {NoServer}
    /\ pc \in [Client -> {"idle", "insert", "look", "assign", "reply"}]
    /\ left \in [Client -> SUBSET Server]
    /\ result \in [Client -> Server \cup {NoServer}]
    /\ during \in [Client -> [masters : SUBSET Server, empty : SUBSET Cluster]]
    /\ met \in [Client -> SUBSET Client]
    /\ phase \in [Client -> {"new", "connect", "login", "up", "exited"}]
    /\ id \in [Client -> {NoId} \cup 0 .. Cardinality(Client) - 1]
    /\ retries \in [Client -> 0 .. MaxRetries]
    /\ target \in [Client -> Server \cup {NoServer}]

Init ==
    /\ Lock!Init
    /\ changes = 0
    /\ assigned = [i \in {} |-> NoServer]
    /\ pc = [c \in Client |-> "idle"]
    /\ left = [c \in Client |-> {}]
    /\ result = [c \in Client |-> NoServer]
    /\ during = [c \in Client |-> Unseen]
    /\ met = [c \in Client |-> {}]
    /\ phase = [c \in Client |-> "new"]
    /\ id = [c \in Client |-> NoId]
    /\ retries = [c \in Client |-> 0]
    /\ target = [c \in Client |-> NoServer]

-----------------------------------------------------------------------------
(* The masters *)

InGetServer(c) == pc[c] \in {"look", "assign", "reply"}

\* A server becomes master (Heartbeat).
BecomeMaster(s) ==
    /\ changes < MaxChanges
    /\ changes' = changes + 1
    /\ Lock!Acquire(s)
    /\ during' = [c \in Client |->
                     IF InGetServer(c) THEN [during[c] EXCEPT !.masters = @ \cup {s}]
                                       ELSE during[c]]
    /\ UNCHANGED <<assigned, pc, left, result, phase, id, retries, target, met>>

\* A master is demoted (checkHeartbeats).
LoseMaster(s) ==
    /\ changes < MaxChanges
    /\ changes' = changes + 1
    /\ Lock!Release(s)
    /\ during' = [c \in Client |->
                     IF InGetServer(c) THEN [during[c] EXCEPT !.empty = @ \cup {ClusterOf[s]}]
                                       ELSE during[c]]
    /\ UNCHANGED <<assigned, pc, left, result, phase, id, retries, target, met>>

-----------------------------------------------------------------------------
(* SNSCoordinator::GetUniqueClientID *)

\* The clients whose call has got its id and has not yet inserted it.
Inserting == {d \in Client : pc[d] = "insert"}

\* A variant of NextId that TypeOK must reject: ids count from one.
NextIdFromOne == Cardinality(DOMAIN assigned) + 1

\* A variant of NextId that SharedIdsOverlap must reject: only clients that
\* have been given a server are counted.
NextIdServed == Cardinality({i \in DOMAIN assigned : assigned[i] # NoServer})

\* clientAssignments.size()
NextId == Cardinality(DOMAIN assigned)

\* rawId = clientAssignments.size()
RequestId(c) ==
    /\ phase[c] = "new" /\ pc[c] = "idle"
    /\ id' = [id EXCEPT ![c] = NextId]
    /\ pc' = [pc EXCEPT ![c] = "insert"]
    /\ met' = [d \in Client |->
                  IF d = c THEN Inserting
                  ELSE IF d \in Inserting THEN met[d] \cup {c} ELSE met[d]]
    /\ UNCHANGED <<holders, changes, assigned, left, result, during, phase, retries, target>>

\* clientAssignments[i] = s
Put(i, s) ==
    assigned' = [j \in DOMAIN assigned \cup {i} |-> IF j = i THEN s ELSE assigned[j]]

\* clientAssignments[rawId] = NULL, and the id goes to the client.
InsertId(c) ==
    /\ pc[c] = "insert"
    /\ Put(id[c], NoServer)
    /\ pc' = [pc EXCEPT ![c] = "idle"]
    /\ phase' = [phase EXCEPT ![c] = "connect"]
    /\ UNCHANGED <<holders, changes, left, result, during, id, retries, target, met>>

-----------------------------------------------------------------------------
(* SNSCoordinator::GetServer and getActiveMaster *)

\* A variant of StillMaster that ServerWasMaster and FollowsMaster must reject.
StillAssigned(c) == assigned[id[c]] # NoServer

\* The client has an assignment, and the server is still master.
StillMaster(c) == assigned[id[c]] # NoServer /\ IsMaster(assigned[id[c]])

\* How many clusters getActiveMaster visits before cluster k for client id i.
Distance(k, i) == (k - 1 + NumClusters - (i % NumClusters)) % NumClusters

\* A variant of ToVisit that UnavailableMeansEmpty must reject: the loop ends
\* one cluster early.
ToVisitButLast(c) == {s \in Server : Distance(ClusterOf[s], id[c]) < NumClusters - 1}

\* The servers of all clusters.
ToVisit(c) == Server

\* A variant of IsNext that FirstAvailable must reject: every search begins at
\* the first cluster.
IsNextById(s, c) == s \in left[c] /\ \A t \in left[c] : s <= t

\* s is the next server that getActiveMaster looks at: by cluster, starting
\* at clientId % numClusters, and by server id.
IsNext(s, c) ==
    /\ s \in left[c]
    /\ \A t \in left[c] :
          \/ Distance(ClusterOf[s], id[c]) < Distance(ClusterOf[t], id[c])
          \/ ClusterOf[s] = ClusterOf[t] /\ s <= t

\* A call of GetServer, the first of a client (connect) or one of its
\* refreshServer thread.
GetServer(c) ==
    /\ phase[c] \in {"connect", "login", "up"} /\ pc[c] = "idle"
    /\ during' = [during EXCEPT ![c] =
                     [masters |-> {s \in Server : IsMaster(s)},
                      empty   |-> {k \in Cluster : holders[k] = {}}]]
    /\ \/ /\ StillMaster(c)
          /\ pc' = [pc EXCEPT ![c] = "reply"]
          /\ result' = [result EXCEPT ![c] = assigned[id[c]]]
          /\ UNCHANGED left
       \/ /\ ~StillMaster(c)
          /\ pc' = [pc EXCEPT ![c] = "look"]
          /\ left' = [left EXCEPT ![c] = ToVisit(c)]
          /\ UNCHANGED result
    /\ UNCHANGED <<holders, changes, assigned, phase, id, retries, target, met>>

\* getActiveMaster looks at one server.
Look(c) ==
    /\ pc[c] = "look"
    /\ \E s \in left[c] :
          /\ IsNext(s, c)
          /\ \/ /\ IsMaster(s)
                /\ pc' = [pc EXCEPT ![c] = "assign"]
                /\ left' = [left EXCEPT ![c] = {}]
                /\ result' = [result EXCEPT ![c] = s]
             \/ /\ ~IsMaster(s)
                /\ left' = [left EXCEPT ![c] = @ \ {s}]
                /\ UNCHANGED <<pc, result>>
    /\ UNCHANGED <<holders, changes, assigned, during, phase, id, retries, target, met>>

\* No master was found: the call returns UNAVAILABLE.
Unavailable(c) ==
    /\ pc[c] = "look"
    /\ left[c] = {}
    /\ pc' = [pc EXCEPT ![c] = "reply"]
    /\ UNCHANGED <<holders, changes, assigned, left, result, during, phase, id, retries, target, met>>

\* clientAssignments[rawId] = server, and the reply.
Assign(c) ==
    /\ pc[c] = "assign"
    /\ Put(id[c], result[c])
    /\ pc' = [pc EXCEPT ![c] = "reply"]
    /\ UNCHANGED <<holders, changes, left, result, during, phase, id, retries, target, met>>

-----------------------------------------------------------------------------
(* The client *)

\* The rest of getServerInfo.  UNAVAILABLE leaves the address as it is, and is
\* tolerated MAX_RETRIES times in a row.  connect goes on to Login in any case.
getServerInfo(c) ==
    /\ pc[c] = "reply"
    /\ phase[c] # "exited"
    /\ \/ /\ result[c] # NoServer
          /\ target' = [target EXCEPT ![c] = result[c]]
          /\ retries' = [retries EXCEPT ![c] = 0]
          /\ phase' = [phase EXCEPT ![c] = IF @ = "connect" THEN "login" ELSE @]
       \/ /\ result[c] = NoServer /\ retries[c] < MaxRetries
          /\ retries' = [retries EXCEPT ![c] = @ + 1]
          /\ phase' = [phase EXCEPT ![c] = IF @ = "connect" THEN "login" ELSE @]
          /\ UNCHANGED target
       \/ /\ result[c] = NoServer /\ retries[c] >= MaxRetries
          /\ phase' = [phase EXCEPT ![c] = "exited"]
          /\ UNCHANGED <<retries, target>>
    /\ pc' = [pc EXCEPT ![c] = "idle"]
    /\ result' = [result EXCEPT ![c] = NoServer]
    /\ during' = [during EXCEPT ![c] = Unseen]
    /\ UNCHANGED <<holders, changes, assigned, left, id, met>>

\* The reply to a client that has exited is dropped.
DropReply(c) ==
    /\ pc[c] = "reply"
    /\ phase[c] = "exited"
    /\ pc' = [pc EXCEPT ![c] = "idle"]
    /\ result' = [result EXCEPT ![c] = NoServer]
    /\ during' = [during EXCEPT ![c] = Unseen]
    /\ UNCHANGED <<holders, changes, assigned, left, phase, id, retries, target, met>>

\* Login at the server of stub_, while refreshServer may already run.  If that
\* server does not answer, or if there is none, the client exits.
Login(c) ==
    /\ phase[c] = "login"
    /\ \/ /\ target[c] # NoServer
          /\ phase' = [phase EXCEPT ![c] = "up"]
       \/ phase' = [phase EXCEPT ![c] = "exited"]
    /\ UNCHANGED <<holders, changes, assigned, pc, left, result, during, id, retries, target, met>>

-----------------------------------------------------------------------------

\* The steps of a client and of the coordinator's threads that serve it.
Step(c) ==
    \/ RequestId(c) \/ InsertId(c)
    \/ GetServer(c) \/ Look(c) \/ Unavailable(c) \/ Assign(c)
    \/ getServerInfo(c) \/ DropReply(c)

Next ==
    \/ \E s \in Server : BecomeMaster(s) \/ LoseMaster(s)
    \/ \E c \in Client : Step(c) \/ Login(c)

Spec == Init /\ [][Next]_vars

\* refreshServer and the coordinator's threads keep running, and Login ends.
\* Nothing makes a server become master or stop being one.
FairSpec ==
    Spec /\ \A c \in Client : WF_vars(Step(c)) /\ WF_vars(Login(c))

-----------------------------------------------------------------------------
(* Properties *)

\* Two clients get the same id, and with it one assignment, only if their calls
\* of GetUniqueClientID overlapped: an id that has been given out is never
\* given again, however calls interleave and whatever GetServer assigns.
SharedIdsOverlap ==
    \A c, d \in Client : c # d /\ id[c] # NoId /\ id[c] = id[d] => d \in met[c]

\* GetServer answers with a server that was master at some moment of the call,
\* be it an assignment made long before or one found in this call.
ServerWasMaster ==
    \A c \in Client :
        pc[c] = "reply" /\ result[c] # NoServer => result[c] \in during[c].masters

\* A client is assigned to a cluster only if every cluster that comes before it
\* in the client's order was without a master at some moment of the call, though
\* getActiveMaster looks at one server after the other while masters change.
FirstAvailable ==
    \A c \in Client : pc[c] = "assign" =>
        \A k \in Cluster :
            Distance(k, id[c]) < Distance(ClusterOf[result[c]], id[c]) =>
                k \in during[c].empty

\* The answer UNAVAILABLE means that each cluster was without a master at some
\* moment of the call: a fail-over within a cluster cannot hide its master
\* unless there was a moment between the two masters.
UnavailableMeansEmpty ==
    \A c \in Client :
        pc[c] = "reply" /\ result[c] = NoServer => during[c].empty = Cluster

\* Once the masters stop changing (MaxChanges) and there is one, every client
\* comes to talk to a master, whatever it was assigned before, or has exited.
FollowsMaster ==
    \A c \in Client :
        <>[](\E s \in Server : IsMaster(s)) =>
            <>[](phase[c] = "exited" \/ (target[c] # NoServer /\ IsMaster(target[c])))

=============================================================================
