--------------------------- MODULE ClientsProofs ---------------------------
(***************************************************************************)
(* Theorems about Clients, for any number of clients, servers, clusters,   *)
(* retries and changes of masters.  The first invariant is about ids: those*)
(* in clientAssignments are the first ones.  The second is about a search  *)
(* for a master: one that it has passed by was not master all the time.    *)
(***************************************************************************)
EXTENDS Clients, FiniteSetTheorems, TLAPS

\* How many ids clientAssignments has.
Count == Cardinality(DOMAIN assigned)

\* The clients that have got their id.
Served == {c \in Client : phase[c] # "new"}

\* The ids in the map are the first ones, and there are no more of them than
\* clients that have got one.  A client has an id from its call on; while the
\* call runs it may be one that is in the map already.
Ids ==
    /\ Count \in Nat
    /\ DOMAIN assigned = 0 .. Count - 1
    /\ Count <= Cardinality(Served)
    /\ \A c \in Client :
          /\ phase[c] = "new" => pc[c] \in {"idle", "insert"}
          /\ phase[c] = "new" /\ pc[c] = "idle" => id[c] = NoId
          /\ pc[c] = "insert" => phase[c] = "new" /\ id[c] \in 0 .. Count
          /\ phase[c] # "new" => id[c] \in 0 .. Count - 1

IdInv == TypeOK /\ Ids /\ SharedIdsOverlap

-----------------------------------------------------------------------------
(* Ids and types *)

\* The assumption on the constants, and what the provers need of Server.
LEMMA Constants ==
    /\ IsFiniteSet(Client)
    /\ NumServers \in Nat \ {0}
    /\ NumClusters \in Nat \ {0}
    /\ ClusterOf \in [Server -> Cluster]
    /\ MaxRetries \in Nat
    /\ MaxChanges \in Nat
    /\ NoServer = 0
    /\ NoId = -1
    /\ 0 \notin Server
BY ClientsAssumption DEF NoServer, NoId, Server

\* The number of clients bounds the ids.
LEMMA Bounded ==
    ASSUME Ids, TypeOK, NEW c \in Client, phase[c] = "new"
    PROVE  /\ Cardinality(Client) \in Nat
           /\ Cardinality(Served) \in Nat
           /\ Cardinality(Served \cup {c}) = Cardinality(Served) + 1
           /\ Count \in 0 .. Cardinality(Client) - 1
<1>1. IsFiniteSet(Client) /\ Cardinality(Client) \in Nat
  BY Constants, FS_CardinalityType
<1>2. Served \in SUBSET Client /\ Served \cup {c} \in SUBSET Client
  BY DEF Served
<1>3. IsFiniteSet(Served) /\ Cardinality(Served) \in Nat
  BY <1>1, <1>2, FS_Subset, FS_CardinalityType
<1>4. c \notin Served
  BY DEF Served
<1>5. Cardinality(Served \cup {c}) = Cardinality(Served) + 1
  BY <1>3, <1>4, FS_AddElement
<1>6. Cardinality(Served \cup {c}) <= Cardinality(Client)
  BY <1>1, <1>2, FS_Subset
<1> QED BY <1>1, <1>3, <1>5, <1>6 DEF Ids

\* Whatever neither gives out an id nor inserts one keeps Ids.
LEMMA IdsFrame ==
    ASSUME IdInv,
           UNCHANGED <<id, met>>,
           DOMAIN assigned' = DOMAIN assigned,
           \A c \in Client : /\ phase'[c] = "new" <=> phase[c] = "new"
                             /\ phase[c] = "new" => pc'[c] = pc[c]
                             /\ pc'[c] = "insert" <=> pc[c] = "insert"
    PROVE  Ids' /\ SharedIdsOverlap'
<1>1. Count' = Count /\ Served' = Served
  BY DEF Count, Served
<1> QED BY <1>1 DEF IdInv, Ids, SharedIdsOverlap

\* The id that comes next is one a running call may have got, and no other.
LEMMA NextIsInserting ==
    ASSUME Ids, NEW c \in Client, id[c] = Count
    PROVE  pc[c] = "insert"
<1>1. Count \in Nat /\ Count \notin 0 .. Count - 1 /\ Count # NoId
  BY DEF Ids, NoId
<1>2. phase[c] = "new"
  BY <1>1 DEF Ids
<1>3. pc[c] \in {"idle", "insert"} /\ pc[c] # "idle"
  BY <1>1, <1>2 DEF Ids
<1> QED BY <1>3

\* Whoever has the id that is given out now is inserting it: those are the calls
\* that the new one meets.
LEMMA RequestIdKeeps ==
    ASSUME IdInv, NEW c \in Client, RequestId(c)
    PROVE  IdInv'
<1>1. Count \in 0 .. Cardinality(Client) - 1
  BY Bounded DEF IdInv, RequestId
<1>2. /\ Count' = Count /\ Served' = Served
      /\ id' = [id EXCEPT ![c] = Count]
  BY DEF RequestId, NextId, Count, Served
<1>3. TypeOK'
  <2>1. met' \in [Client -> SUBSET Client]
    BY DEF IdInv, TypeOK, RequestId, Inserting
  <2>2. id' \in [Client -> {NoId} \cup 0 .. Cardinality(Client) - 1]
    BY <1>1, <1>2 DEF IdInv, TypeOK
  <2> QED BY <2>1, <2>2 DEF IdInv, TypeOK, RequestId
<1>4. Ids'
  BY <1>1, <1>2 DEF IdInv, TypeOK, Ids, RequestId
<1>5. SharedIdsOverlap'
  <2> SUFFICES ASSUME NEW d \in Client, NEW e \in Client,
                      d # e, id'[d] # NoId, id'[d] = id'[e]
               PROVE  e \in met'[d]
    BY DEF SharedIdsOverlap
  <2>1. CASE d # c /\ e # c
    <3>1. e \in met[d]
      BY <2>1, <1>2 DEF IdInv, TypeOK, SharedIdsOverlap
    <3> QED BY <2>1, <3>1 DEF RequestId
  <2>2. CASE d = c
    <3>1. id[e] = Count /\ e # c
      BY <2>2, <1>1, <1>2 DEF IdInv, TypeOK
    <3>2. e \in Inserting
      BY <3>1, NextIsInserting DEF IdInv, Inserting
    <3> QED BY <2>2, <3>2 DEF RequestId
  <2>3. CASE e = c /\ d # c
    <3>1. id[d] = Count
      BY <2>3, <1>1, <1>2 DEF IdInv, TypeOK
    <3>2. d \in Inserting
      BY <3>1, NextIsInserting DEF IdInv, Inserting
    <3> QED BY <2>3, <3>2 DEF RequestId
  <2> QED BY <2>1, <2>2, <2>3
<1> QED BY <1>3, <1>4, <1>5 DEF IdInv

\* The map grows by the next id, or an id is inserted a second time.
LEMMA InsertIdKeeps ==
    ASSUME IdInv, NEW c \in Client, InsertId(c)
    PROVE  IdInv'
<1>1. /\ phase[c] = "new" /\ id[c] \in 0 .. Count
      /\ Cardinality(Client) \in Nat
      /\ Count \in 0 .. Cardinality(Client) - 1
      /\ Cardinality(Served \cup {c}) = Cardinality(Served) + 1
      /\ Cardinality(Served) \in Nat
  BY Bounded DEF IdInv, Ids, InsertId
<1>2. Served' = Served \cup {c}
  BY DEF Served, InsertId, IdInv, TypeOK
<1>3. DOMAIN assigned' = 0 .. (IF id[c] = Count THEN Count ELSE Count - 1)
  BY <1>1 DEF IdInv, Ids, InsertId, Put
<1>4. /\ Count' = IF id[c] = Count THEN Count + 1 ELSE Count
      /\ DOMAIN assigned' = 0 .. Count' - 1
  <2>1. Count \in Int /\ Count - 1 \in Int /\ 0 \in Int /\ Count >= 0
    BY <1>1
  <2>2. Cardinality(0 .. Count) = Count + 1 /\ Cardinality(0 .. Count - 1) = Count
    <3>1. Cardinality(0 .. Count) = Count - 0 + 1
      BY <2>1, FS_Interval
    <3>2. CASE Count = 0
      <4>1. Cardinality(0 .. Count - 1) = 0
        BY <2>1, <3>2, FS_Interval
      <4> QED BY <2>1, <3>1, <3>2, <4>1
    <3>3. CASE Count # 0
      <4>1. Cardinality(0 .. Count - 1) = Count - 1 - 0 + 1
        BY <2>1, <3>3, FS_Interval
      <4> QED BY <2>1, <3>1, <4>1
    <3> QED BY <3>2, <3>3
  <2>3. Count' = Cardinality(DOMAIN assigned')
    BY DEF Count
  <2>4. CASE id[c] = Count
    BY <2>1, <2>2, <2>3, <2>4, <1>3
  <2>5. CASE id[c] # Count
    BY <2>1, <2>2, <2>3, <2>5, <1>3
  <2> QED BY <2>4, <2>5
<1>5. TypeOK'
  <2>1. /\ DOMAIN assigned' \subseteq 0 .. Cardinality(Client) - 1
        /\ \A i \in DOMAIN assigned' : assigned'[i] \in Server \cup {NoServer}
    BY <1>1, <1>3 DEF IdInv, TypeOK, InsertId, Put
  <2> QED BY <2>1 DEF IdInv, TypeOK, InsertId
<1>6. Ids'
  BY <1>1, <1>2, <1>4 DEF IdInv, TypeOK, Ids, InsertId
<1>7. SharedIdsOverlap'
  BY DEF IdInv, SharedIdsOverlap, InsertId
<1> QED BY <1>5, <1>6, <1>7 DEF IdInv

\* Every step keeps the types and what is said of ids.
LEMMA IdStep ==
    ASSUME IdInv, [Next]_vars
    PROVE  IdInv'
<1> USE DEF IdInv
<1>1. ASSUME NEW s \in Server, BecomeMaster(s) \/ LoseMaster(s) PROVE IdInv'
  <2>1. holders' \in [Cluster -> SUBSET Server]
    BY <1>1 DEF TypeOK, BecomeMaster, LoseMaster, Lock!Acquire, Lock!Release
  <2>2. changes' \in 0 .. MaxChanges
    BY <1>1, Constants DEF TypeOK, BecomeMaster, LoseMaster
  <2>3. during' \in [Client -> [masters : SUBSET Server, empty : SUBSET Cluster]]
    <3>1. ClusterOf[s] \in Cluster
      BY Constants
    <3>2. CASE BecomeMaster(s)
      <4>1. \A c \in Client : [during[c] EXCEPT !.masters = @ \cup {s}]
                                 \in [masters : SUBSET Server, empty : SUBSET Cluster]
        BY DEF TypeOK
      <4> QED BY <3>2, <4>1 DEF TypeOK, BecomeMaster
    <3>3. CASE LoseMaster(s)
      <4>1. \A c \in Client : [during[c] EXCEPT !.empty = @ \cup {ClusterOf[s]}]
                                 \in [masters : SUBSET Server, empty : SUBSET Cluster]
        BY <3>1 DEF TypeOK
      <4> QED BY <3>3, <4>1 DEF TypeOK, LoseMaster
    <3> QED BY <1>1, <3>2, <3>3
  <2>4. TypeOK'
    BY <1>1, <2>1, <2>2, <2>3 DEF TypeOK, BecomeMaster, LoseMaster
  <2>5. Ids' /\ SharedIdsOverlap'
    BY <1>1, IdsFrame DEF BecomeMaster, LoseMaster
  <2> QED BY <2>4, <2>5
<1>2. ASSUME NEW c \in Client, RequestId(c) \/ InsertId(c) PROVE IdInv'
  BY <1>2, RequestIdKeeps, InsertIdKeeps
<1>3. ASSUME NEW c \in Client, GetServer(c) PROVE IdInv'
  <2>1. during' \in [Client -> [masters : SUBSET Server, empty : SUBSET Cluster]]
    BY <1>3 DEF TypeOK, GetServer
  <2>2. id[c] \in DOMAIN assigned
    BY <1>3 DEF TypeOK, Ids, GetServer
  <2>3. /\ pc' \in [Client -> {"idle", "insert", "look", "assign", "reply"}]
        /\ left' \in [Client -> SUBSET Server]
        /\ result' \in [Client -> Server \cup {NoServer}]
    BY <1>3, <2>2 DEF TypeOK, GetServer, ToVisit
  <2>4. TypeOK'
    BY <1>3, <2>1, <2>3 DEF TypeOK, GetServer
  <2>5. Ids' /\ SharedIdsOverlap'
    BY <1>3, IdsFrame DEF TypeOK, GetServer
  <2> QED BY <2>4, <2>5
<1>4. ASSUME NEW c \in Client, Look(c) PROVE IdInv'
  <2>1. /\ pc' \in [Client -> {"idle", "insert", "look", "assign", "reply"}]
        /\ left' \in [Client -> SUBSET Server]
        /\ result' \in [Client -> Server \cup {NoServer}]
    <3>1. PICK s \in left[c] :
             \/ /\ pc' = [pc EXCEPT ![c] = "assign"]
                /\ left' = [left EXCEPT ![c] = {}]
                /\ result' = [result EXCEPT ![c] = s]
             \/ /\ left' = [left EXCEPT ![c] = @ \ {s}]
                /\ UNCHANGED <<pc, result>>
      BY <1>4 DEF Look
    <3>2. s \in Server
      BY <3>1 DEF TypeOK
    <3>3. CASE /\ pc' = [pc EXCEPT ![c] = "assign"]
               /\ left' = [left EXCEPT ![c] = {}]
               /\ result' = [result EXCEPT ![c] = s]
      BY <3>2, <3>3 DEF TypeOK
    <3>4. CASE /\ left' = [left EXCEPT ![c] = @ \ {s}]
               /\ UNCHANGED <<pc, result>>
      <4>1. left[c] \ {s} \in SUBSET Server
        BY DEF TypeOK
      <4> QED BY <3>4, <4>1 DEF TypeOK
    <3> QED BY <3>1, <3>3, <3>4
  <2>2. TypeOK'
    BY <1>4, <2>1 DEF TypeOK, Look
  <2>3. phase[c] # "new"
    BY <1>4 DEF Ids, Look
  <2>4. /\ UNCHANGED <<id, met, phase, assigned>>
        /\ pc[c] # "insert" /\ pc'[c] # "insert"
        /\ \A d \in Client : d # c => pc'[d] = pc[d]
    BY <1>4 DEF TypeOK, Look
  <2>5. Ids' /\ SharedIdsOverlap'
    BY <2>3, <2>4, IdsFrame
  <2> QED BY <2>2, <2>5
<1>5. ASSUME NEW c \in Client, Unavailable(c) PROVE IdInv'
  <2>1. TypeOK'
    BY <1>5 DEF TypeOK, Unavailable
  <2>2. Ids' /\ SharedIdsOverlap'
    <3>1. phase[c] # "new"
      BY <1>5 DEF Ids, Unavailable
    <3>2. /\ UNCHANGED <<id, met, phase, assigned>>
          /\ pc[c] # "insert" /\ pc'[c] # "insert"
          /\ \A d \in Client : d # c => pc'[d] = pc[d]
      BY <1>5 DEF TypeOK, Unavailable
    <3> QED BY <3>1, <3>2, IdsFrame
  <2> QED BY <2>1, <2>2
<1>6. ASSUME NEW c \in Client, Assign(c) PROVE IdInv'
  <2>1. id[c] \in DOMAIN assigned
    BY <1>6 DEF TypeOK, Ids, Assign
  <2>2. /\ DOMAIN assigned' = DOMAIN assigned
        /\ \A i \in DOMAIN assigned' : assigned'[i] \in Server \cup {NoServer}
    <3>1. assigned' = [j \in DOMAIN assigned \cup {id[c]} |->
                          IF j = id[c] THEN result[c] ELSE assigned[j]]
      BY <1>6 DEF Assign, Put
    <3>2. DOMAIN assigned \cup {id[c]} = DOMAIN assigned
      BY <2>1
    <3>3. DOMAIN assigned' = DOMAIN assigned
      BY <3>1, <3>2
    <3>4. result[c] \in Server \cup {NoServer}
      BY DEF TypeOK
    <3> QED BY <3>1, <3>2, <3>3, <3>4 DEF TypeOK
  <2>3. TypeOK'
    BY <1>6, <2>2 DEF TypeOK, Assign
  <2>4. Ids' /\ SharedIdsOverlap'
    <3>1. phase[c] # "new"
      BY <1>6 DEF Ids, Assign
    <3>2. /\ UNCHANGED <<id, met, phase>>
          /\ pc[c] # "insert" /\ pc'[c] # "insert"
          /\ \A d \in Client : d # c => pc'[d] = pc[d]
      BY <1>6 DEF TypeOK, Assign
    <3> QED BY <2>2, <3>1, <3>2, IdsFrame
  <2> QED BY <2>3, <2>4
<1>7. ASSUME NEW c \in Client, getServerInfo(c) PROVE IdInv'
  <2>1. retries' \in [Client -> 0 .. MaxRetries]
    BY <1>7, Constants DEF TypeOK, getServerInfo
  <2>2. /\ phase' \in [Client -> {"new", "connect", "login", "up", "exited"}]
        /\ target' \in [Client -> Server \cup {NoServer}]
        /\ during' \in [Client -> [masters : SUBSET Server, empty : SUBSET Cluster]]
        /\ result' \in [Client -> Server \cup {NoServer}]
    BY <1>7 DEF TypeOK, getServerInfo, Unseen
  <2>3. TypeOK'
    BY <1>7, <2>1, <2>2 DEF TypeOK, getServerInfo
  <2>4. phase[c] # "new" /\ phase'[c] # "new"
    BY <1>7 DEF TypeOK, Ids, getServerInfo
  <2>5. Ids' /\ SharedIdsOverlap'
    BY <1>7, <2>4, IdsFrame DEF TypeOK, getServerInfo
  <2> QED BY <2>3, <2>5
<1>8. ASSUME NEW c \in Client, DropReply(c) PROVE IdInv'
  <2>1. TypeOK'
    BY <1>8 DEF TypeOK, DropReply, Unseen
  <2>2. Ids' /\ SharedIdsOverlap'
    BY <1>8, IdsFrame DEF TypeOK, DropReply
  <2> QED BY <2>1, <2>2
<1>9. ASSUME NEW c \in Client, Login(c) PROVE IdInv'
  <2>1. TypeOK'
    BY <1>9 DEF TypeOK, Login
  <2>2. Ids' /\ SharedIdsOverlap'
    BY <1>9, IdsFrame DEF TypeOK, Login
  <2> QED BY <2>1, <2>2
<1>10. CASE UNCHANGED vars
  BY <1>10 DEF vars, TypeOK, Ids, Count, Served, SharedIdsOverlap
<1> QED
  BY <1>1, <1>2, <1>3, <1>4, <1>5, <1>6, <1>7, <1>8, <1>9, <1>10 DEF Next, Step

\* No id has been given out at the start.
LEMMA IdInit == Init => IdInv
<1> SUFFICES ASSUME Init PROVE IdInv
  OBVIOUS
<1>1. Served = {} /\ DOMAIN assigned = {}
  BY DEF Init, Served
<1>2. Count = 0 /\ Cardinality(Served) = 0
  BY <1>1, FS_EmptySet DEF Count
<1>3. TypeOK
  BY Constants DEF Init, Lock!Init, TypeOK, Unseen
<1>4. Ids
  BY <1>1, <1>2 DEF Init, Ids
<1> QED BY <1>3, <1>4 DEF IdInv, Init, SharedIdsOverlap

\* The types of Clients: in particular there are no more ids than clients.
THEOREM TypeCorrect == Spec => []TypeOK
<1>1. IdInv => TypeOK
  BY DEF IdInv
<1> QED BY IdInit, IdStep, <1>1, PTL DEF Spec

\* Two clients share an id only if their calls of GetUniqueClientID overlapped,
\* for any number of clients.
THEOREM IdsNotReused == Spec => []SharedIdsOverlap
<1>1. IdInv => SharedIdsOverlap
  BY DEF IdInv
<1> QED BY IdInit, IdStep, <1>1, PTL DEF Spec

-----------------------------------------------------------------------------
(* Masters *)

\* The clusters before k in the order of client c were without a master.
BeforeEmpty(c, k) ==
    \A j \in Cluster : Distance(j, id[c]) < Distance(k, id[c]) => j \in during[c].empty

\* What a running call of GetServer knows: the history has every master and
\* every masterless cluster there is, and a master that the search has passed
\* by became one when its cluster was without.
CallInv(c) ==
    /\ \A s \in Server : IsMaster(s) => s \in during[c].masters
    /\ \A k \in Cluster : holders[k] = {} => k \in during[c].empty
    /\ pc[c] = "look" =>
          \A k \in Cluster : k \in during[c].empty \/ holders[k] \subseteq left[c]
    /\ pc[c] = "assign" =>
          /\ result[c] \in during[c].masters
          /\ BeforeEmpty(c, ClusterOf[result[c]])
    /\ pc[c] = "reply" =>
          \/ result[c] \in during[c].masters
          \/ result[c] = NoServer /\ during[c].empty = Cluster

\* Masters belong to their cluster, and a result is there once it is found.
MasterInv ==
    /\ \A k \in Cluster : \A s \in holders[k] : ClusterOf[s] = k
    /\ \A c \in Client :
          /\ pc[c] \in {"idle", "insert", "look"} => result[c] = NoServer
          /\ InGetServer(c) => CallInv(c)

ClientsInv == IdInv /\ MasterInv

\* Distances can be compared.
LEMMA DistanceType ==
    ASSUME NEW k \in Cluster, NEW i \in Nat
    PROVE  Distance(k, i) \in Int
<1>1. k \in Int /\ NumClusters \in Nat /\ NumClusters > 0
  BY Constants DEF Cluster
<1>2. i % NumClusters \in Int
  BY <1>1
<1>3. k - 1 + NumClusters - (i % NumClusters) \in Int
  BY <1>1, <1>2
<1> QED BY <1>1, <1>3 DEF Distance

\* A step that leaves a client and the masters alone leaves what its call knows.
LEMMA OthersKeep ==
    ASSUME NEW c, NEW d, MasterInv, d \in Client, d # c,
           UNCHANGED holders, id'[d] = id[d],
           pc'[d] = pc[d], left'[d] = left[d], result'[d] = result[d], during'[d] = during[d]
    PROVE  /\ pc'[d] \in {"idle", "insert", "look"} => result'[d] = NoServer
           /\ InGetServer(d)' => CallInv(d)'
<1>1. BeforeEmpty(d, ClusterOf[result[d]])' <=> BeforeEmpty(d, ClusterOf[result[d]])
  BY DEF BeforeEmpty, Distance
<1> QED BY <1>1 DEF MasterInv, CallInv, InGetServer, IsMaster, BeforeEmpty, Distance

\* It is enough to look at the client that takes the step.
LEMMA ClientStep ==
    ASSUME ClientsInv, IdInv', NEW c \in Client, UNCHANGED holders,
           \A d \in Client : d # c =>
              /\ id'[d] = id[d] /\ pc'[d] = pc[d] /\ left'[d] = left[d]
              /\ result'[d] = result[d] /\ during'[d] = during[d],
           pc'[c] \in {"idle", "insert", "look"} => result'[c] = NoServer,
           InGetServer(c)' => CallInv(c)'
    PROVE  ClientsInv'
<1>1. ASSUME NEW d \in Client
      PROVE  /\ pc'[d] \in {"idle", "insert", "look"} => result'[d] = NoServer
             /\ InGetServer(d)' => CallInv(d)'
  BY <1>1, OthersKeep DEF ClientsInv
<1>2. \A k \in Cluster : \A s \in holders'[k] : ClusterOf[s] = k
  BY DEF ClientsInv, MasterInv
<1> QED BY <1>1, <1>2 DEF ClientsInv, MasterInv

\* A server becomes master: its cluster was without one, as every running call
\* has in its history.
LEMMA BecomeMasterKeeps ==
    ASSUME ClientsInv, IdInv', NEW s \in Server, BecomeMaster(s)
    PROVE  ClientsInv'
<1> USE DEF ClientsInv
<1>1. /\ holders[ClusterOf[s]] = {}
      /\ holders' = [holders EXCEPT ![ClusterOf[s]] = {s}]
      /\ ClusterOf[s] \in Cluster
      /\ UNCHANGED <<pc, left, result, id>>
  BY Constants DEF BecomeMaster, Lock!Acquire, IdInv, TypeOK
<1>2. \A k \in Cluster : \A t \in holders'[k] : ClusterOf[t] = k
  BY <1>1 DEF MasterInv, IdInv, TypeOK
<1>3. ASSUME NEW c \in Client, InGetServer(c)
      PROVE  CallInv(c)'
  <2>1. /\ during'[c].masters = during[c].masters \cup {s}
        /\ during'[c].empty = during[c].empty
        /\ ClusterOf[s] \in during[c].empty
        /\ CallInv(c)
    BY <1>1, <1>3 DEF BecomeMaster, IdInv, TypeOK, MasterInv, CallInv
  <2>2. \A k \in Cluster : k # ClusterOf[s] => holders'[k] = holders[k]
    BY <1>1 DEF IdInv, TypeOK
  <2>3. \A t \in Server : IsMaster(t)' => t \in during'[c].masters
    <3> SUFFICES ASSUME NEW t \in Server, IsMaster(t)' PROVE t \in during'[c].masters
      OBVIOUS
    <3>1. ClusterOf[t] \in Cluster
      BY Constants
    <3> QED BY <3>1, <1>1, <2>1, <2>2 DEF CallInv, IsMaster, IdInv, TypeOK
  <2>4. \A k \in Cluster : holders'[k] = {} => k \in during'[c].empty
    BY <1>1, <2>1, <2>2 DEF CallInv
  <2>5. pc'[c] = "look" =>
           \A k \in Cluster : k \in during'[c].empty \/ holders'[k] \subseteq left'[c]
    BY <1>1, <2>1, <2>2 DEF CallInv
  <2>6. pc'[c] = "assign" => result'[c] \in during'[c].masters
                             /\ BeforeEmpty(c, ClusterOf[result[c]])'
    BY <1>1, <2>1 DEF CallInv, BeforeEmpty, Distance
  <2>7. pc'[c] = "reply" =>
           \/ result'[c] \in during'[c].masters
           \/ result'[c] = NoServer /\ during'[c].empty = Cluster
    BY <1>1, <2>1 DEF CallInv
  <2> QED BY <1>1, <2>3, <2>4, <2>5, <2>6, <2>7 DEF CallInv, BeforeEmpty
<1>4. \A c \in Client : /\ pc'[c] = pc[c] /\ result'[c] = result[c]
                        /\ InGetServer(c)' <=> InGetServer(c)
  BY <1>1 DEF InGetServer
<1> QED BY <1>2, <1>3, <1>4 DEF MasterInv

\* A master is demoted: its cluster is in the history of every running call.
LEMMA LoseMasterKeeps ==
    ASSUME ClientsInv, IdInv', NEW s \in Server, LoseMaster(s)
    PROVE  ClientsInv'
<1> USE DEF ClientsInv
<1>1. /\ holders' = [holders EXCEPT ![ClusterOf[s]] = @ \ {s}]
      /\ ClusterOf[s] \in Cluster
      /\ UNCHANGED <<pc, left, result, id>>
  BY Constants DEF LoseMaster, Lock!Release, IdInv, TypeOK
<1>2. /\ \A k \in Cluster : holders'[k] \subseteq holders[k]
      /\ \A k \in Cluster : k # ClusterOf[s] => holders'[k] = holders[k]
  BY <1>1 DEF IdInv, TypeOK
<1>3. \A k \in Cluster : \A t \in holders'[k] : ClusterOf[t] = k
  BY <1>2 DEF MasterInv
<1>4. ASSUME NEW c \in Client, InGetServer(c)
      PROVE  CallInv(c)'
  <2>1. /\ during'[c].masters = during[c].masters
        /\ during'[c].empty = during[c].empty \cup {ClusterOf[s]}
        /\ during'[c].empty \subseteq Cluster
        /\ CallInv(c)
    BY <1>1, <1>4 DEF LoseMaster, IdInv, TypeOK, MasterInv
  <2>2. \A t \in Server : IsMaster(t)' => t \in during'[c].masters
    BY <1>2, <2>1, Constants DEF CallInv, IsMaster
  <2>3. \A k \in Cluster : holders'[k] = {} => k \in during'[c].empty
    BY <1>2, <2>1 DEF CallInv
  <2>4. pc'[c] = "look" =>
           \A k \in Cluster : k \in during'[c].empty \/ holders'[k] \subseteq left'[c]
    BY <1>1, <1>2, <2>1 DEF CallInv
  <2>5. pc'[c] = "assign" => result'[c] \in during'[c].masters
                             /\ BeforeEmpty(c, ClusterOf[result[c]])'
    BY <1>1, <2>1 DEF CallInv, BeforeEmpty, Distance
  <2>6. pc'[c] = "reply" =>
           \/ result'[c] \in during'[c].masters
           \/ result'[c] = NoServer /\ during'[c].empty = Cluster
    BY <1>1, <2>1 DEF CallInv
  <2> QED BY <1>1, <2>2, <2>3, <2>4, <2>5, <2>6 DEF CallInv, BeforeEmpty
<1>5. \A c \in Client : /\ pc'[c] = pc[c] /\ result'[c] = result[c]
                        /\ InGetServer(c)' <=> InGetServer(c)
  BY <1>1 DEF InGetServer
<1> QED BY <1>3, <1>4, <1>5 DEF MasterInv

\* A call begins with the masters there are, and all servers to look at.
LEMMA GetServerKeeps ==
    ASSUME ClientsInv, IdInv', NEW c \in Client, GetServer(c)
    PROVE  ClientsInv'
<1> USE DEF ClientsInv
<1>1. /\ UNCHANGED <<holders, id>>
      /\ during'[c] = [masters |-> {s \in Server : IsMaster(s)},
                       empty   |-> {k \in Cluster : holders[k] = {}}]
      /\ pc[c] = "idle" /\ result[c] = NoServer
  BY DEF GetServer, IdInv, TypeOK, MasterInv
<1>2. /\ during'[c].masters = {s \in Server : IsMaster(s)}
      /\ during'[c].empty = {k \in Cluster : holders[k] = {}}
  BY <1>1
<1>3. \A d \in Client : d # c =>
         /\ id'[d] = id[d] /\ pc'[d] = pc[d] /\ left'[d] = left[d]
         /\ result'[d] = result[d] /\ during'[d] = during[d]
  BY DEF GetServer, IdInv, TypeOK
<1>4. /\ \A s \in Server : IsMaster(s)' => s \in during'[c].masters
      /\ \A k \in Cluster : holders'[k] = {} => k \in during'[c].empty
  BY <1>1, <1>2 DEF IsMaster
<1>5. CASE StillMaster(c)
  <2>1. id[c] \in DOMAIN assigned
    BY DEF GetServer, IdInv, TypeOK, Ids
  <2>2. assigned[id[c]] \in Server
    BY <1>5, <2>1 DEF StillMaster, IdInv, TypeOK
  <2>3. pc'[c] = "reply" /\ result'[c] = assigned[id[c]]
    BY <1>5 DEF GetServer, IdInv, TypeOK
  <2>4. result'[c] \in during'[c].masters
    BY <1>2, <1>5, <2>2, <2>3 DEF StillMaster
  <2>5. CallInv(c)'
    BY <1>4, <2>3, <2>4 DEF CallInv
  <2> QED BY <1>1, <1>3, <2>3, <2>5, ClientStep
<1>6. CASE ~StillMaster(c)
  <2>1. pc'[c] = "look" /\ left'[c] = Server /\ result'[c] = NoServer
    BY <1>1, <1>6 DEF GetServer, ToVisit, IdInv, TypeOK
  <2>2. \A k \in Cluster : holders'[k] \subseteq left'[c]
    BY <1>1, <2>1 DEF IdInv, TypeOK
  <2>3. CallInv(c)'
    BY <1>4, <2>1, <2>2 DEF CallInv
  <2> QED BY <1>1, <1>3, <2>1, <2>3, ClientStep
<1> QED BY <1>5, <1>6

\* The search passes by a server that is not master, or ends at one that is:
\* a cluster before that one has no server left to look at.
LEMMA LookKeeps ==
    ASSUME ClientsInv, IdInv', NEW c \in Client, Look(c)
    PROVE  ClientsInv'
<1> USE DEF ClientsInv
<1>1. /\ UNCHANGED <<holders, id, during>>
      /\ pc[c] = "look" /\ result[c] = NoServer /\ CallInv(c)
  BY DEF Look, MasterInv, InGetServer
<1>2. \A d \in Client : d # c =>
         /\ id'[d] = id[d] /\ pc'[d] = pc[d] /\ left'[d] = left[d]
         /\ result'[d] = result[d] /\ during'[d] = during[d]
  BY DEF Look, IdInv, TypeOK
<1>3. PICK s \in left[c] :
         /\ IsNext(s, c)
         /\ \/ /\ IsMaster(s)
               /\ pc' = [pc EXCEPT ![c] = "assign"]
               /\ left' = [left EXCEPT ![c] = {}]
               /\ result' = [result EXCEPT ![c] = s]
            \/ /\ ~IsMaster(s)
               /\ left' = [left EXCEPT ![c] = @ \ {s}]
               /\ UNCHANGED <<pc, result>>
  BY DEF Look
<1>4. s \in Server /\ ClusterOf[s] \in Cluster
  BY <1>3, Constants DEF IdInv, TypeOK
<1>5. /\ \A t \in Server : IsMaster(t)' => t \in during'[c].masters
      /\ \A k \in Cluster : holders'[k] = {} => k \in during'[c].empty
  BY <1>1 DEF CallInv, IsMaster
<1>6. CASE /\ IsMaster(s)
           /\ pc' = [pc EXCEPT ![c] = "assign"]
           /\ left' = [left EXCEPT ![c] = {}]
           /\ result' = [result EXCEPT ![c] = s]
  <2>1. pc'[c] = "assign" /\ result'[c] = s
    BY <1>6 DEF IdInv, TypeOK
  <2>2. s \in during'[c].masters
    BY <1>1, <1>4, <1>6 DEF CallInv
  <2>3. ASSUME NEW k \in Cluster,
               Distance(k, id[c]) < Distance(ClusterOf[s], id[c]), k \notin during[c].empty
        PROVE  FALSE
    <3>1. holders[k] # {} /\ holders[k] \subseteq left[c]
      BY <1>1, <2>3 DEF CallInv
    <3>2. PICK t \in holders[k] : t \in left[c]
      BY <3>1
    <3>3. ClusterOf[t] = k
      BY <3>2 DEF MasterInv
    <3>4. \/ Distance(ClusterOf[s], id[c]) < Distance(k, id[c])
          \/ ClusterOf[s] = k
      BY <1>3, <3>2, <3>3 DEF IsNext
    <3>5. id[c] \in Nat
      BY <1>1 DEF IdInv, Ids
    <3>6. Distance(k, id[c]) \in Int /\ Distance(ClusterOf[s], id[c]) \in Int
      BY <1>4, <3>5, DistanceType
    <3>7. CASE ClusterOf[s] = k
      BY <2>3, <3>6, <3>7
    <3>8. CASE Distance(ClusterOf[s], id[c]) < Distance(k, id[c])
      BY <2>3, <3>6, <3>8
    <3> QED BY <3>4, <3>7, <3>8
  <2>4. BeforeEmpty(c, ClusterOf[s])
    BY <2>3 DEF BeforeEmpty
  <2>5. BeforeEmpty(c, ClusterOf[result[c]])'
    BY <1>1, <2>1, <2>4 DEF BeforeEmpty, Distance
  <2>6. CallInv(c)'
    BY <1>5, <2>1, <2>2, <2>5 DEF CallInv
  <2> QED BY <1>1, <1>2, <2>1, <2>6, ClientStep
<1>7. CASE /\ ~IsMaster(s)
           /\ left' = [left EXCEPT ![c] = @ \ {s}]
           /\ UNCHANGED <<pc, result>>
  <2>1. pc'[c] = "look" /\ result'[c] = NoServer /\ left'[c] = left[c] \ {s}
    BY <1>1, <1>7 DEF IdInv, TypeOK
  <2>2. \A k \in Cluster : s \notin holders[k]
    BY <1>7 DEF MasterInv, IsMaster
  <2>3. \A k \in Cluster : k \in during'[c].empty \/ holders'[k] \subseteq left'[c]
    BY <1>1, <2>1, <2>2 DEF CallInv
  <2>4. CallInv(c)'
    BY <1>5, <2>1, <2>3 DEF CallInv
  <2> QED BY <1>1, <1>2, <2>1, <2>4, ClientStep
<1> QED BY <1>3, <1>6, <1>7

\* Nothing is left to look at: no cluster had a master all the time.
LEMMA UnavailableKeeps ==
    ASSUME ClientsInv, IdInv', NEW c \in Client, Unavailable(c)
    PROVE  ClientsInv'
<1> USE DEF ClientsInv
<1>1. /\ UNCHANGED <<holders, id, during, result, left>>
      /\ pc[c] = "look" /\ left[c] = {} /\ result[c] = NoServer /\ CallInv(c)
      /\ pc'[c] = "reply"
  BY DEF Unavailable, MasterInv, InGetServer, IdInv, TypeOK
<1>2. \A d \in Client : d # c =>
         /\ id'[d] = id[d] /\ pc'[d] = pc[d] /\ left'[d] = left[d]
         /\ result'[d] = result[d] /\ during'[d] = during[d]
  BY DEF Unavailable, IdInv, TypeOK
<1>3. \A k \in Cluster : k \in during[c].empty
  BY <1>1 DEF CallInv
<1>4. during[c].empty = Cluster
  BY <1>3 DEF IdInv, TypeOK
<1>5. CallInv(c)'
  BY <1>1, <1>4 DEF CallInv, IsMaster
<1> QED BY <1>1, <1>2, <1>5, ClientStep

\* The server that was found is the answer.
LEMMA AssignKeeps ==
    ASSUME ClientsInv, IdInv', NEW c \in Client, Assign(c)
    PROVE  ClientsInv'
<1> USE DEF ClientsInv
<1>1. /\ UNCHANGED <<holders, id, during, result, left>>
      /\ pc[c] = "assign" /\ CallInv(c) /\ pc'[c] = "reply"
  BY DEF Assign, MasterInv, InGetServer, IdInv, TypeOK
<1>2. \A d \in Client : d # c =>
         /\ id'[d] = id[d] /\ pc'[d] = pc[d] /\ left'[d] = left[d]
         /\ result'[d] = result[d] /\ during'[d] = during[d]
  BY DEF Assign, IdInv, TypeOK
<1>3. CallInv(c)'
  BY <1>1 DEF CallInv, IsMaster
<1> QED BY <1>1, <1>2, <1>3, ClientStep

\* The steps outside of a call of GetServer, and those that end one.
LEMMA OutsideKeeps ==
    ASSUME ClientsInv, IdInv', NEW c \in Client,
           RequestId(c) \/ InsertId(c) \/ getServerInfo(c) \/ DropReply(c)
    PROVE  ClientsInv'
<1> USE DEF ClientsInv
<1>1. /\ UNCHANGED holders
      /\ pc'[c] \in {"idle", "insert"} /\ result'[c] = NoServer
  BY DEF RequestId, InsertId, getServerInfo, DropReply, MasterInv, IdInv, TypeOK
<1>2. \A d \in Client : d # c =>
         /\ id'[d] = id[d] /\ pc'[d] = pc[d] /\ left'[d] = left[d]
         /\ result'[d] = result[d] /\ during'[d] = during[d]
  BY DEF RequestId, InsertId, getServerInfo, DropReply, IdInv, TypeOK
<1>3. ~InGetServer(c)'
  BY <1>1 DEF InGetServer
<1> QED BY <1>1, <1>2, <1>3, ClientStep

\* Login does not touch a call.
LEMMA LoginKeeps ==
    ASSUME ClientsInv, IdInv', NEW c \in Client, Login(c)
    PROVE  ClientsInv'
<1>1. UNCHANGED <<holders, id, pc, left, result, during>>
  BY DEF Login
<1> QED BY <1>1 DEF ClientsInv, MasterInv, CallInv, InGetServer, IsMaster, BeforeEmpty, Distance

\* Every step keeps both invariants.
LEMMA ClientsStep ==
    ASSUME ClientsInv, [Next]_vars
    PROVE  ClientsInv'
<1>1. IdInv'
  BY IdStep DEF ClientsInv
<1>2. CASE UNCHANGED vars
  BY <1>1, <1>2
     DEF vars, ClientsInv, MasterInv, CallInv, InGetServer, IsMaster, BeforeEmpty, Distance
<1>3. CASE \E s \in Server : BecomeMaster(s) \/ LoseMaster(s)
  BY <1>1, <1>3, BecomeMasterKeeps, LoseMasterKeeps
<1>4. CASE \E c \in Client : Step(c) \/ Login(c)
  BY <1>1, <1>4, OutsideKeeps, GetServerKeeps, LookKeeps, UnavailableKeeps, AssignKeeps,
     LoginKeeps DEF Step
<1> QED BY <1>2, <1>3, <1>4 DEF Next

\* Both hold at the start.
LEMMA ClientsInit == Init => ClientsInv
<1> SUFFICES ASSUME Init PROVE ClientsInv
  OBVIOUS
<1>1. IdInv
  BY IdInit
<1>2. MasterInv
  BY DEF Init, Lock!Init, MasterInv, InGetServer
<1> QED BY <1>1, <1>2 DEF ClientsInv

\* GetServer answers with a server that was master during the call, for any
\* number of clients and servers and however the masters change.
THEOREM AnswerWasMaster == Spec => []ServerWasMaster
<1>1. ClientsInv => ServerWasMaster
  BY DEF ClientsInv, MasterInv, CallInv, InGetServer, ServerWasMaster
<1> QED BY ClientsInit, ClientsStep, <1>1, PTL DEF Spec

\* A cluster that the search passes by was without a master during the call.
THEOREM SearchInOrder == Spec => []FirstAvailable
<1>1. ClientsInv => FirstAvailable
  BY DEF ClientsInv, MasterInv, CallInv, BeforeEmpty, InGetServer, FirstAvailable
<1> QED BY ClientsInit, ClientsStep, <1>1, PTL DEF Spec

\* UNAVAILABLE is not an artefact of a search that is not atomic.
THEOREM UnavailableIsTrue == Spec => []UnavailableMeansEmpty
<1>1. ClientsInv => UnavailableMeansEmpty
  <2> SUFFICES ASSUME ClientsInv, NEW c \in Client, pc[c] = "reply", result[c] = NoServer
               PROVE  during[c].empty = Cluster
    BY DEF UnavailableMeansEmpty
  <2>1. NoServer \notin during[c].masters
    BY Constants DEF ClientsInv, IdInv, TypeOK
  <2> QED BY <2>1 DEF ClientsInv, MasterInv, CallInv, InGetServer
<1> QED BY ClientsInit, ClientsStep, <1>1, PTL DEF Spec
=============================================================================
