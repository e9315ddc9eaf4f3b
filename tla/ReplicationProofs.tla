------------------------- MODULE ReplicationProofs -------------------------
(***************************************************************************)
(* Theorems about Replication, for any users, servers, clusters and        *)
(* bounds.                                                                 *)
(***************************************************************************)
EXTENDS Replication, Lemmas, SequenceTheorems

Modes == {"down", "users", "posts", "ready", "up"}

CallType == [req : Request, path : Seq(Server), todo : SUBSET Server,
             pc : {"execute", "counterparts", "others"}]

\* The types of Replication, with those of the files and of the calls.
Types ==
    /\ holders \in [Cluster -> SUBSET Server]
    /\ active \subseteq Server
    /\ mode \in [Server -> Modes]
    /\ source \in [Server -> Server \cup {NoServer}]
    /\ believes \in [Server -> BOOLEAN]
    /\ lines \in [Server -> [User -> Seq(User)]]
    /\ posts \in [Server -> [User -> Seq(1 .. MaxRequests)]]
    /\ calls \subseteq CallType
    /\ \A c \in calls : Len(c.path) \in 1 .. MaxHops
    /\ stub \in [User -> Server \cup {NoServer}]
    /\ at \in [User -> Server \cup {NoServer}]
    /\ phase \in [User -> {"new", "in"}]
    /\ sent \in [User -> 0 .. MaxRequests]
    /\ changes \in 0 .. MaxChanges

\* A master has the lock of its own cluster, alone.
Holders == \A k \in Cluster : \A s \in holders[k] : ClusterOf[s] = k /\ \A t \in holders[k] : s = t

\* A server that copies knows where from.
Sources == \A s \in Server : mode[s] \in {"users", "posts"} => source[s] \in Server

\* A call that executes has not asked for a list yet.
Fresh == \A c \in calls : c.pc = "execute" => c.todo = {}

TypeInv == Types /\ Holders /\ Sources /\ Fresh

-----------------------------------------------------------------------------
(* Servers *)

\* The least of some servers is one of them.
LEMMA MinServer ==
    ASSUME NEW S \in SUBSET Server, S # {}
    PROVE  Min(S) \in S
<1>1. S \in SUBSET Nat
  BY ReplicationAssumption DEF Server
<1>2. \E s \in S : \A t \in S : s <= t
  BY <1>1, LeastNumber
<1> QED BY <1>2 DEF Min

\* Other masters are servers that hold the lock of another cluster.
LEMMA OtherMasters ==
    ASSUME TypeInv, NEW s \in Server, NEW t \in GetOtherClusterMasters(s)
    PROVE  t \in Server /\ ClusterOf[t] # ClusterOf[s] /\ IsMaster(t)
<1>1. PICK k \in Cluster : k # ClusterOf[s] /\ holders[k] # {} /\ t = Min(holders[k])
  BY DEF GetOtherClusterMasters
<1>2. holders[k] \in SUBSET Server
  BY DEF TypeInv, Types
<1>3. t \in holders[k]
  BY <1>1, <1>2, MinServer
<1>4. ClusterOf[t] = k
  BY <1>3 DEF TypeInv, Holders
<1> QED BY <1>1, <1>2, <1>3, <1>4 DEF IsMaster

\* Each master of another cluster is one of them.
LEMMA MasterIsOther ==
    ASSUME TypeInv, NEW s \in Server, NEW t \in Server, ClusterOf[t] # ClusterOf[s], IsMaster(t)
    PROVE  t \in GetOtherClusterMasters(s)
<1>1. ClusterOf[t] \in Cluster /\ holders[ClusterOf[t]] \in SUBSET Server
  BY ReplicationAssumption DEF TypeInv, Types
<1>2. Min(holders[ClusterOf[t]]) = t
  <2>1. Min(holders[ClusterOf[t]]) \in holders[ClusterOf[t]]
    BY <1>1, MinServer DEF IsMaster
  <2> QED BY <1>1, <2>1 DEF TypeInv, Holders, IsMaster
<1> QED BY <1>1, <1>2 DEF GetOtherClusterMasters, IsMaster

\* A server is told to copy from a server, or from nowhere.
LEMMA FirstMaster ==
    ASSUME TypeInv, NEW s \in Server
    PROVE  getFirstAvailableClusterMaster(s) \in Server \cup {NoServer}
<1>1. GetOtherClusterMasters(s) \in SUBSET Server
  BY OtherMasters
<1> QED BY <1>1, MinServer DEF getFirstAvailableClusterMaster

-----------------------------------------------------------------------------
(* Calls *)

\* One server more.
LEMMA FrontAppend ==
    ASSUME NEW s \in Seq(Server), NEW t \in Server
    PROVE  Front(Append(s, t)) = s
<1> DEFINE a == Append(s, t)
<1>1. /\ a \in Seq(Server) /\ Len(a) = Len(s) + 1 /\ Len(s) \in Nat
      /\ \A k \in 1 .. Len(s) : a[k] = s[k]
  OBVIOUS
<1> HIDE DEF a
<1>2. SubSeq(a, 1, Len(s)) = s
  <2>1. \A k \in 1 .. Len(s) : a[k] \in Server
    BY <1>1
  <2>2. /\ SubSeq(a, 1, Len(s)) \in Seq(Server)
        /\ Len(SubSeq(a, 1, Len(s))) = Len(s)
        /\ \A k \in 1 .. Len(s) : SubSeq(a, 1, Len(s))[k] = a[k]
    BY <1>1
  <2> QED BY <1>1, <2>2, SeqEqual
<1>3. Len(a) - 1 = Len(s)
  BY <1>1
<1> QED BY <1>2, <1>3 DEF Front, a

\* The parts of a call.
LEMMA CallIs ==
    ASSUME Types, NEW c \in calls
    PROVE  /\ c \in CallType /\ c.req \in Request /\ c.path \in Seq(Server) /\ c.path # <<>>
           /\ c.todo \in SUBSET Server /\ c.pc \in {"execute", "counterparts", "others"}
           /\ Len(c.path) \in 1 .. MaxHops
           /\ Here(c) \in Server /\ Here(c) = c.path[Len(c.path)]
           /\ c.req.user \in User /\ c.req.target \in User /\ c.req.n \in 1 .. MaxRequests
           /\ c.req.op \in {"login", "follow", "post"}
<1>1. c \in CallType /\ Len(c.path) \in 1 .. MaxHops
  BY DEF Types
<1>2. c.path \in Seq(Server) /\ c.path # <<>> /\ c.req \in Request
  BY <1>1 DEF CallType
<1>3. Here(c) = c.path[Len(c.path)] /\ Here(c) \in Server
  BY <1>1, <1>2 DEF Here, Last
<1> QED BY <1>1, <1>2, <1>3 DEF CallType, Request

\* A call whose program counter and list are others.
LEMMA CallWith ==
    ASSUME NEW c \in CallType, NEW p \in {"execute", "counterparts", "others"}, NEW S \in SUBSET Server
    PROVE  LET d == [c EXCEPT !.pc = p, !.todo = S]
           IN  d \in CallType /\ d.req = c.req /\ d.path = c.path /\ d.pc = p /\ d.todo = S
BY DEF CallType

\* What propogateHelper sends to the next server of a call.
Rest(c)  == [c EXCEPT !.todo = @ \ {Min(c.todo)}]
Child(c) == [req |-> c.req, path |-> Append(c.path, Min(c.todo)), todo |-> {}, pc |-> "execute"]

\* The list loses its first server, which gets a call.
LEMMA Calling ==
    ASSUME Types, NEW c \in calls, propogateHelper(c)
    PROVE  /\ Min(c.todo) \in c.todo /\ Min(c.todo) \in Server /\ c.pc # "execute" /\ c.todo # {}
           /\ Rest(c) \in CallType /\ Rest(c).req = c.req /\ Rest(c).path = c.path /\ Rest(c).pc = c.pc
           /\ Rest(c).todo = c.todo \ {Min(c.todo)}
           /\ Child(c) \in CallType /\ Len(Child(c).path) = Len(c.path) + 1
           /\ Len(Child(c).path) \in 1 .. MaxHops
           /\ Here(Child(c)) = Min(c.todo) /\ Front(Child(c).path) = c.path
           /\ calls' = (calls \ {c}) \cup {Rest(c)} \cup {d \in {Child(c)} : mode[Min(c.todo)] = "up"}
           /\ UNCHANGED <<holders, active, servers, clients, changes>>
<1>1. c \in CallType /\ c.todo \in SUBSET Server /\ c.todo # {} /\ c.pc # "execute"
      /\ c.path \in Seq(Server) /\ Len(c.path) \in 1 .. MaxHops /\ Len(c.path) < MaxHops
  BY CallIs DEF propogateHelper
<1> DEFINE t == Min(c.todo)
<1>2. t \in c.todo /\ t \in Server
  BY <1>1, MinServer
<1> HIDE DEF t
<1>3. LET rest == [c EXCEPT !.todo = @ \ {t}]
          call == [rest EXCEPT !.path = Append(@, t), !.pc = "execute", !.todo = {}]
      IN  calls' = (calls \ {c}) \cup {rest} \cup {d \in {call} : mode[t] = "up"}
  BY DEF propogateHelper, t
<1>4. /\ Append(c.path, t) \in Seq(Server) /\ Len(Append(c.path, t)) = Len(c.path) + 1
      /\ Last(Append(c.path, t)) = t /\ Front(Append(c.path, t)) = c.path
  <2>1. Append(c.path, t) \in Seq(Server) /\ Len(Append(c.path, t)) = Len(c.path) + 1
        /\ Append(c.path, t)[Len(c.path) + 1] = t
    BY <1>1, <1>2
  <2>2. Last(Append(c.path, t)) = t
    BY <2>1 DEF Last
  <2>3. Front(Append(c.path, t)) = c.path
    BY <1>1, <1>2, FrontAppend
  <2> QED BY <2>1, <2>2, <2>3
<1>5. [[c EXCEPT !.todo = @ \ {t}] EXCEPT !.path = Append(@, t), !.pc = "execute", !.todo = {}]
        = [req |-> c.req, path |-> Append(c.path, t), todo |-> {}, pc |-> "execute"]
  <2> DEFINE r == [c EXCEPT !.todo = @ \ {t}]
  <2>1. r \in CallType /\ r.req = c.req /\ r.path = c.path
    BY <1>1 DEF CallType
  <2> HIDE DEF r
  <2> DEFINE e == [r EXCEPT !.path = Append(c.path, t), !.pc = "execute", !.todo = {}]
             f == [req |-> c.req, path |-> Append(c.path, t), todo |-> {}, pc |-> "execute"]
  <2>2. e = f
    <3>1. e \in CallType /\ e.req = c.req /\ e.path = Append(c.path, t) /\ e.pc = "execute" /\ e.todo = {}
      BY <1>4, <2>1 DEF CallType
    <3> HIDE DEF e
    <3>2. e = [req |-> e.req, path |-> e.path, todo |-> e.todo, pc |-> e.pc]
      BY <3>1 DEF CallType
    <3> QED BY <3>1, <3>2
  <2>3. [r EXCEPT !.path = Append(@, t), !.pc = "execute", !.todo = {}]
        = [r EXCEPT !.path = Append(c.path, t), !.pc = "execute", !.todo = {}]
    BY <2>1
  <2> QED BY <2>2, <2>3 DEF r
<1>6. Rest(c) \in CallType /\ Rest(c).req = c.req /\ Rest(c).path = c.path /\ Rest(c).pc = c.pc
      /\ Rest(c).todo = c.todo \ {t}
  BY <1>1 DEF Rest, CallType, t
<1>7. Child(c) = [req |-> c.req, path |-> Append(c.path, t), todo |-> {}, pc |-> "execute"]
  BY DEF Child, t
<1>8. Child(c) \in CallType
  BY <1>1, <1>4, <1>7 DEF CallType
<1>9. Here(Child(c)) = t /\ Front(Child(c).path) = c.path /\ Len(Child(c).path) = Len(c.path) + 1
  BY <1>4, <1>7 DEF Here
<1>10. calls' = (calls \ {c}) \cup {Rest(c)} \cup {d \in {Child(c)} : mode[t] = "up"}
  BY <1>3, <1>5, <1>7 DEF Rest, t
<1>11. Len(c.path) + 1 \in 1 .. MaxHops
  BY <1>1, ReplicationAssumption
<1> QED BY <1>1, <1>2, <1>6, <1>8, <1>9, <1>10, <1>11 DEF t, propogateHelper

\* What a call is after propogate.
Moved(c) == IF GoesOn(c)
            THEN [c EXCEPT !.pc = "counterparts", !.todo = GetCounterparts(Here(c))]
            ELSE [c EXCEPT !.pc = "others"]

\* A call that has executed its request has the list of its counterparts, or none.
LEMMA Moving ==
    ASSUME TypeInv, NEW c \in calls, c.pc = "execute", propogate(c)
    PROVE  /\ calls' = (calls \ {c}) \cup {Moved(c)}
           /\ Moved(c) \in CallType /\ Moved(c).req = c.req /\ Moved(c).path = c.path
           /\ GoesOn(c) => Moved(c).pc = "counterparts" /\ Moved(c).todo = GetCounterparts(Here(c))
           /\ ~GoesOn(c) => Moved(c).pc = "others" /\ Moved(c).todo = {}
<1>1. c \in CallType /\ c.todo = {} /\ active \subseteq Server
  BY CallIs DEF TypeInv, Fresh, Types
<1>2. calls' = (calls \ {c}) \cup {Moved(c)}
  BY DEF propogate, Become, Moved
<1>3. CASE GoesOn(c)
  <2> DEFINE S == GetCounterparts(Here(c))
  <2>1. S \in SUBSET Server
    BY <1>1 DEF GetCounterparts
  <2>2. Moved(c) = [c EXCEPT !.pc = "counterparts", !.todo = S]
    BY <1>3 DEF Moved
  <2> HIDE DEF S
  <2>3. Moved(c) \in CallType /\ Moved(c).req = c.req /\ Moved(c).path = c.path
        /\ Moved(c).pc = "counterparts" /\ Moved(c).todo = S
    BY <1>1, <2>1, <2>2 DEF CallType
  <2> QED BY <1>2, <1>3, <2>3 DEF S
<1>4. CASE ~GoesOn(c)
  <2>1. Moved(c) = [c EXCEPT !.pc = "others"]
    BY <1>4 DEF Moved
  <2>2. Moved(c) \in CallType /\ Moved(c).req = c.req /\ Moved(c).path = c.path
        /\ Moved(c).pc = "others" /\ Moved(c).todo = {}
    BY <1>1, <2>1 DEF CallType
  <2> QED BY <1>2, <1>4, <2>2
<1> QED BY <1>3, <1>4

\* What a call is that goes on to other masters.
Turned(c) == [c EXCEPT !.pc = "others", !.todo = GetOtherClusterMasters(Here(c))]

\* A call that has reached its counterparts has the list of the other masters.
LEMMA Turning ==
    ASSUME TypeInv, NEW c \in calls, PropogateToMasters(c)
    PROVE  /\ calls' = (calls \ {c}) \cup {Turned(c)}
           /\ Turned(c) \in CallType /\ Turned(c).req = c.req /\ Turned(c).path = c.path
           /\ Turned(c).pc = "others" /\ Turned(c).todo = GetOtherClusterMasters(Here(c))
<1> DEFINE S == GetOtherClusterMasters(Here(c))
<1>1. c \in CallType /\ Here(c) \in Server
  BY CallIs DEF TypeInv
<1>2. S \in SUBSET Server
  BY <1>1, OtherMasters
<1>3. calls' = (calls \ {c}) \cup {Turned(c)}
  BY DEF PropogateToMasters, Become, Turned
<1>4. Turned(c) = [c EXCEPT !.pc = "others", !.todo = S]
  BY DEF Turned
<1> HIDE DEF S
<1>5. Turned(c) \in CallType /\ Turned(c).req = c.req /\ Turned(c).path = c.path
      /\ Turned(c).pc = "others" /\ Turned(c).todo = S
  BY <1>1, <1>2, <1>4 DEF CallType
<1> QED BY <1>3, <1>5 DEF S

\* What a server stores.
LEMMA Storing ==
    ASSUME Types, NEW s \in Server, NEW r \in Request, Store(s, r)
    PROVE  /\ lines' \in [Server -> [User -> Seq(User)]]
           /\ posts' \in [Server -> [User -> Seq(1 .. MaxRequests)]]
           /\ \A t \in Server, u \in User :
                 /\ posts'[t][u] = IF r.op = "post" /\ t = s /\ u = r.user
                                   THEN Append(posts[t][u], r.n) ELSE posts[t][u]
                 /\ lines'[t][u] = IF /\ r.op # "post" /\ t = s /\ u = r.user
                                      /\ ~Contains(lines[t][u], r.target)
                                   THEN Append(lines[t][u], r.target) ELSE lines[t][u]
<1>1. r.user \in User /\ r.target \in User /\ r.n \in 1 .. MaxRequests
  BY DEF Request
<1>2. lines[s][r.user] \in Seq(User) /\ posts[s][r.user] \in Seq(1 .. MaxRequests)
  BY <1>1 DEF Types
<1>3. CASE r.op = "post"
  <2>1. lines' = lines /\ posts' = [posts EXCEPT ![s][r.user] = Append(@, r.n)]
    BY <1>3 DEF Store
  <2>2. Append(posts[s][r.user], r.n) \in Seq(1 .. MaxRequests)
    BY <1>1, <1>2
  <2>3. posts' \in [Server -> [User -> Seq(1 .. MaxRequests)]]
    BY <1>1, <2>1, <2>2 DEF Types
  <2>4. \A t \in Server, u \in User :
           posts'[t][u] = IF t = s /\ u = r.user THEN Append(posts[t][u], r.n) ELSE posts[t][u]
    BY <1>1, <2>1 DEF Types
  <2> QED BY <1>3, <2>1, <2>3, <2>4 DEF Types
<1>4. CASE r.op # "post"
  <2> DEFINE x == IF Contains(lines[s][r.user], r.target) THEN lines[s][r.user]
                                                          ELSE Append(lines[s][r.user], r.target)
  <2>1. posts' = posts /\ lines' = [lines EXCEPT ![s][r.user] = x]
    BY <1>4 DEF Store
  <2>2. x \in Seq(User)
    BY <1>1, <1>2
  <2> HIDE DEF x
  <2>3. lines' \in [Server -> [User -> Seq(User)]]
    BY <1>1, <2>1, <2>2 DEF Types
  <2>4. \A t \in Server, u \in User :
           lines'[t][u] = IF t = s /\ u = r.user THEN x ELSE lines[t][u]
    BY <1>1, <2>1 DEF Types
  <2> QED BY <1>4, <2>1, <2>3, <2>4 DEF Types, x
<1> QED BY <1>3, <1>4

\* A server that dies.
LEMMA Dying ==
    ASSUME Types, NEW s \in Server, Die(s)
    PROVE  /\ mode' \in [Server -> Modes] /\ believes' \in [Server -> BOOLEAN]
           /\ source' \in [Server -> Server \cup {NoServer}]
           /\ lines' \in [Server -> [User -> Seq(User)]]
           /\ calls' = {c \in calls : Here(c) # s}
           /\ mode'[s] = "down" /\ ~believes'[s]
           /\ mode[s] # "posts" => lines' = lines
           /\ \A t \in Server : t # s => /\ mode'[t] = mode[t] /\ believes'[t] = believes[t]
                                         /\ source'[t] = source[t] /\ lines'[t] = lines[t]
<1>1. Empty \in [User -> Seq(User)]
  BY EmptySeq DEF Empty
<1>2. mode' \in [Server -> Modes] /\ mode'[s] = "down" /\ \A t \in Server : t # s => mode'[t] = mode[t]
  BY DEF Die, Types, Modes
<1>3. believes' \in [Server -> BOOLEAN] /\ ~believes'[s]
      /\ \A t \in Server : t # s => believes'[t] = believes[t]
  BY DEF Die, Types
<1>4. source' \in [Server -> Server \cup {NoServer}] /\ \A t \in Server : t # s => source'[t] = source[t]
  BY DEF Die, Types
<1>5. lines' \in [Server -> [User -> Seq(User)]] /\ \A t \in Server : t # s => lines'[t] = lines[t]
  BY <1>1 DEF Die, Types
<1>6. mode[s] # "posts" => lines' = lines
  BY DEF Die, Types
<1>7. calls' = {c \in calls : Here(c) # s}
  BY DEF Die
<1> QED BY <1>2, <1>3, <1>4, <1>5, <1>6, <1>7

-----------------------------------------------------------------------------
(* Types *)

\* An election: nothing happens to a lock that is held.
LEMMA Taking ==
    ASSUME TypeInv, NEW s \in Server, TakeFreeLock(s)
    PROVE  /\ holders' \in [Cluster -> SUBSET Server] /\ Holders'
           /\ \A k \in Cluster : \/ holders'[k] = holders[k]
                                 \/ k = ClusterOf[s] /\ holders[k] = {} /\ holders'[k] = {s}
<1>1. ClusterOf[s] \in Cluster
  BY ReplicationAssumption
<1>2. CASE Lock!Acquire(s)
  <2>1. holders[ClusterOf[s]] = {} /\ holders' = [holders EXCEPT ![ClusterOf[s]] = {s}]
    BY <1>2 DEF Lock!Acquire
  <2>2. holders' \in [Cluster -> SUBSET Server]
    BY <1>1, <2>1 DEF TypeInv, Types
  <2>3. \A k \in Cluster : holders'[k] = IF k = ClusterOf[s] THEN {s} ELSE holders[k]
    BY <1>1, <2>1 DEF TypeInv, Types
  <2>4. Holders'
    BY <2>3 DEF TypeInv, Holders
  <2>5. \A k \in Cluster : \/ holders'[k] = holders[k]
                           \/ k = ClusterOf[s] /\ holders[k] = {} /\ holders'[k] = {s}
    BY <2>1, <2>3
  <2> QED BY <2>2, <2>4, <2>5
<1>3. CASE UNCHANGED holders
  <2>1. holders \in [Cluster -> SUBSET Server] /\ Holders
    BY DEF TypeInv, Types
  <2>2. Holders'
    BY <1>3, <2>1 DEF Holders
  <2>3. \A k \in Cluster : holders'[k] = holders[k]
    BY <1>3
  <2> QED BY <1>3, <2>1, <2>2, <2>3
<1> QED BY <1>2, <1>3 DEF TakeFreeLock

\* A lock that is given back.
LEMMA Releasing ==
    ASSUME TypeInv, NEW s \in Server, Lock!Release(s)
    PROVE  /\ holders' \in [Cluster -> SUBSET Server] /\ Holders'
           /\ holders[ClusterOf[s]] = {s}
           /\ \A k \in Cluster : holders'[k] = IF k = ClusterOf[s] THEN {} ELSE holders[k]
<1>1. ClusterOf[s] \in Cluster
  BY ReplicationAssumption
<1>2. holders[ClusterOf[s]] = {s} /\ holders' = [holders EXCEPT ![ClusterOf[s]] = {}]
  BY DEF Lock!Release
<1> QED BY <1>1, <1>2 DEF TypeInv, Types, Holders

\* The types of the calls.
CallTypes == calls \subseteq CallType /\ \A c \in calls : Len(c.path) \in 1 .. MaxHops

\* A call in the place of another one.
LEMMA CallTypesFrom ==
    ASSUME TypeInv, NEW c \in calls, NEW d \in CallType, d.path = c.path, d.pc # "execute",
           calls' = (calls \ {c}) \cup {d}
    PROVE  CallTypes' /\ Fresh'
BY DEF TypeInv, Types, Fresh, CallTypes

\* What calls do.
LEMMA TypesCall ==
    ASSUME TypeInv, NEW c \in calls, CallStep(c)
    PROVE  TypeInv'
<1>1. Types /\ Holders /\ Sources /\ Fresh /\ Here(c) \in Server /\ c.req \in Request
      /\ c.req.user \in User /\ c.req.n \in 1 .. MaxRequests
  BY CallIs DEF TypeInv
<1>2. CASE Execute(c)
  <2>1. CallTypes' /\ Fresh'
    <3>1. c.pc = "execute" /\ propogate(c)
      BY <1>2 DEF Execute
    <3> QED BY <3>1, Moving, CallTypesFrom
  <2>2. lines' \in [Server -> [User -> Seq(User)]] /\ posts' \in [Server -> [User -> Seq(1 .. MaxRequests)]]
    BY <1>1, <1>2, Storing DEF Execute
  <2>3. UNCHANGED <<holders, active, mode, source, believes, clients, changes>>
    BY <1>2 DEF Execute
  <2> QED BY <1>1, <2>1, <2>2, <2>3 DEF TypeInv, Types, CallTypes, Holders, Sources, clients
<1>3. CASE ExecuteUnknown(c)
  <2>1. Die(Here(c)) /\ UNCHANGED <<holders, active, clients, changes>>
    BY <1>3 DEF ExecuteUnknown
  <2>2. posts' \in [Server -> [User -> Seq(1 .. MaxRequests)]]
    <3>1. posts[Here(c)][c.req.user] \in Seq(1 .. MaxRequests)
      BY <1>1 DEF Types
    <3>2. Append(posts[Here(c)][c.req.user], c.req.n) \in Seq(1 .. MaxRequests)
      BY <1>1, <3>1
    <3> QED BY <1>1, <1>3, <3>2 DEF ExecuteUnknown, Types
  <2>3. /\ mode' \in [Server -> Modes] /\ believes' \in [Server -> BOOLEAN]
        /\ source' \in [Server -> Server \cup {NoServer}]
        /\ lines' \in [Server -> [User -> Seq(User)]]
        /\ calls' \subseteq calls
        /\ mode'[Here(c)] = "down"
        /\ \A t \in Server : t # Here(c) => mode'[t] = mode[t] /\ source'[t] = source[t]
    BY <1>1, <2>1, Dying
  <2>4. Sources'
    BY <1>1, <2>3 DEF Sources
  <2> QED BY <1>1, <2>1, <2>2, <2>3, <2>4 DEF TypeInv, Types, Holders, Fresh, clients
<1>4. CASE propogateHelper(c)
  <2>1. /\ Rest(c) \in CallType /\ Rest(c).path = c.path /\ Rest(c).pc = c.pc /\ c.pc # "execute"
        /\ Child(c) \in CallType /\ Len(Child(c).path) \in 1 .. MaxHops
        /\ calls' \subseteq calls \cup {Rest(c), Child(c)}
        /\ UNCHANGED <<holders, active, servers, clients, changes>>
    BY <1>1, <1>4, Calling
  <2>2. Child(c).todo = {}
    BY DEF Child
  <2>3. \A d \in calls' : d \in calls \/ d = Rest(c) \/ d = Child(c)
    BY <2>1
  <2>4. CallTypes'
    <3>1. \A d \in calls \cup {Rest(c), Child(c)} : d \in CallType /\ Len(d.path) \in 1 .. MaxHops
      BY <1>1, <2>1 DEF Types
    <3> QED BY <2>3, <3>1 DEF CallTypes
  <2>5. Fresh'
    BY <1>1, <2>1, <2>2, <2>3 DEF Fresh
  <2> QED BY <1>1, <2>1, <2>4, <2>5 DEF TypeInv, Types, CallTypes, Holders, Sources, servers, clients
<1>5. CASE PropogateToMasters(c)
  <2>1. CallTypes' /\ Fresh'
    BY <1>5, Turning, CallTypesFrom
  <2>2. UNCHANGED <<holders, active, servers, clients, changes>>
    BY <1>5 DEF PropogateToMasters
  <2> QED BY <1>1, <2>1, <2>2 DEF TypeInv, Types, CallTypes, Holders, Sources, servers, clients
<1>6. CASE Return(c)
  <2>1. calls' \subseteq calls /\ UNCHANGED <<holders, active, servers, stub, at, sent, changes>>
    BY <1>6 DEF Return
  <2>2. phase' \in [User -> {"new", "in"}]
    BY <1>1, <1>6 DEF Return, Types
  <2> QED BY <1>1, <2>1, <2>2 DEF TypeInv, Types, Holders, Sources, Fresh, servers
<1> QED BY <1>2, <1>3, <1>4, <1>5, <1>6 DEF CallStep

\* A bound on all requests is one on those of each user.
LEMMA Counted ==
    ASSUME Types, Requested < MaxRequests, NEW u \in User
    PROVE  sent[u] + 1 \in 1 .. MaxRequests
<1>1. sent \in [User -> Nat] /\ IsFiniteSet(User) /\ MaxRequests \in Nat
  BY ReplicationAssumption DEF Types
<1>2. Requested \in Nat /\ \A v \in User : sent[v] <= Requested
  <2> DEFINE f == sent
  <2>1. f \in [User -> Nat]
    BY <1>1
  <2> HIDE DEF f
  <2>2. /\ MapThenSumSet(LAMBDA x : f[x], User) \in Nat
        /\ \A v \in User : f[v] <= MapThenSumSet(LAMBDA y : f[y], User)
    BY <1>1, <2>1, SumBounds
  <2> QED BY <2>2 DEF Requested, f
<1> QED BY <1>1, <1>2

\* A request.
LEMMA RequestsAre ==
    ASSUME Types, NEW u \in User, NEW s \in Server, NEW r \in Requests(u, s), Requested < MaxRequests
    PROVE  /\ r \in Request /\ r.user = u /\ r.n = sent[u] + 1
           /\ r.op = "login" <=> phase[u] = "new"
<1>1. sent[u] + 1 \in 1 .. MaxRequests
  BY Counted
<1> QED BY <1>1 DEF Requests, Request, Login, Post, Follow, List

\* What clients do.
LEMMA TypesSend ==
    ASSUME TypeInv, NEW u \in User, NEW s \in Server, Send(u, s)
    PROVE  TypeInv'
<1>1. Types /\ Holders /\ Sources /\ Fresh
  BY DEF TypeInv
<1>2. Requested < MaxRequests /\ UNCHANGED <<holders, active, servers, stub, phase, changes>>
      /\ at' = [at EXCEPT ![u] = s] /\ sent' = [sent EXCEPT ![u] = @ + 1]
  BY DEF Send
<1>3. sent[u] + 1 \in 0 .. MaxRequests
  BY <1>1, <1>2, Counted
<1>4. PICK r \in Requests(u, s) :
          calls' = calls \cup {[req |-> r, path |-> <<s>>, todo |-> {}, pc |-> "execute"]}
  BY DEF Send
<1> DEFINE d == [req |-> r, path |-> <<s>>, todo |-> {}, pc |-> "execute"]
<1>5. d \in CallType /\ Len(d.path) \in 1 .. MaxHops /\ d.todo = {}
  <2>1. r \in Request
    BY <1>1, <1>2, RequestsAre
  <2> QED BY <2>1, ReplicationAssumption DEF CallType
<1>6. calls' = calls \cup {d}
  BY <1>4
<1> HIDE DEF d
<1>7. CallTypes' /\ Fresh'
  BY <1>1, <1>5, <1>6 DEF CallTypes, Fresh, Types
<1>8. at' \in [User -> Server \cup {NoServer}] /\ sent' \in [User -> 0 .. MaxRequests]
  BY <1>1, <1>2, <1>3 DEF Types
<1> QED BY <1>1, <1>2, <1>7, <1>8 DEF TypeInv, Types, CallTypes, Holders, Sources, servers

\* One change more.
LEMMA Changing ==
    ASSUME Types, Change \/ UNCHANGED changes
    PROVE  changes' \in 0 .. MaxChanges
BY ReplicationAssumption DEF Types, Change

\* The first items of a sequence.
LEMMA FirstOnes ==
    ASSUME NEW S, NEW q \in Seq(S), NEW k \in Nat, k <= Len(q)
    PROVE  SubSeq(q, 1, k) \in Seq(S)
<1>1. \A i \in 1 .. k : q[i] \in S
  OBVIOUS
<1> QED BY <1>1, SubSeqProperties

\* A starting server stores posts of its source, of each user the first ones.
LEMMA CopyingPosts ==
    ASSUME Types, Sources, NEW s \in Server, GetPosts(s) \/ GetPostsUnknown(s)
    PROVE  /\ mode[s] = "posts" /\ mode' = [mode EXCEPT ![s] = mode'[s]] /\ mode'[s] \in {"ready", "down"}
           /\ posts' \in [Server -> [User -> Seq(1 .. MaxRequests)]]
           /\ \A t \in Server : t # s => posts'[t] = posts[t]
           /\ source' = [source EXCEPT ![s] = NoServer]
           /\ believes' \in [Server -> BOOLEAN]
           /\ \A t \in Server : believes'[t] => believes[t]
           /\ \A t \in Server : t # s => believes'[t] = believes[t]
           /\ UNCHANGED <<holders, active, lines, calls, clients, changes>>
<1> DEFINE copy == posts[source[s]]
<1>1. mode[s] = "posts" /\ source[s] \in Server
  BY DEF GetPosts, GetPostsUnknown, Sources
<1>2. copy \in [User -> Seq(1 .. MaxRequests)]
  BY <1>1 DEF Types
<1>3. CASE GetPosts(s)
  BY <1>1, <1>2, <1>3 DEF GetPosts, Types
<1>4. CASE GetPostsUnknown(s)
  <2>1. PICK u \in User : /\ copy[u] # <<>>
                          /\ \E upTo \in [User \ {u} -> 0 .. MaxRequests] :
                                /\ \A v \in User \ {u} : upTo[v] <= Len(copy[v])
                                /\ posts' = [posts EXCEPT ![s] =
                                     [v \in User |-> SubSeq(copy[v], 1, IF v = u THEN 1 ELSE upTo[v])]]
    BY <1>4 DEF GetPostsUnknown
  <2>2. PICK upTo \in [User \ {u} -> 0 .. MaxRequests] :
          /\ \A v \in User \ {u} : upTo[v] <= Len(copy[v])
          /\ posts' = [posts EXCEPT ![s] =
               [v \in User |-> SubSeq(copy[v], 1, IF v = u THEN 1 ELSE upTo[v])]]
    BY <2>1
  <2> HIDE DEF copy
  <2> DEFINE m(v) == IF v = u THEN 1 ELSE upTo[v]
  <2>3. \A v \in User : copy[v] \in Seq(1 .. MaxRequests) /\ m(v) \in Nat /\ m(v) <= Len(copy[v])
    <3> SUFFICES ASSUME NEW v \in User
                 PROVE  copy[v] \in Seq(1 .. MaxRequests) /\ m(v) \in Nat /\ m(v) <= Len(copy[v])
      OBVIOUS
    <3>1. CASE v = u
      BY <1>2, <2>1, <3>1
    <3>2. CASE v # u
      BY <1>2, <2>2, <3>2, ReplicationAssumption
    <3> QED BY <3>1, <3>2
  <2>4. \A v \in User : SubSeq(copy[v], 1, m(v)) \in Seq(1 .. MaxRequests)
    <3> SUFFICES ASSUME NEW v \in User PROVE SubSeq(copy[v], 1, m(v)) \in Seq(1 .. MaxRequests)
      OBVIOUS
    <3> HIDE DEF m
    <3>1. copy[v] \in Seq(1 .. MaxRequests) /\ m(v) \in Nat /\ m(v) <= Len(copy[v])
      BY <2>3
    <3> QED BY <3>1, FirstOnes
  <2>5. posts' = [posts EXCEPT ![s] = [v \in User |-> SubSeq(copy[v], 1, m(v))]]
    BY <2>2
  <2> HIDE DEF m
  <2>6. posts' \in [Server -> [User -> Seq(1 .. MaxRequests)]]
        /\ \A t \in Server : t # s => posts'[t] = posts[t]
    <3>1. [v \in User |-> SubSeq(copy[v], 1, m(v))] \in [User -> Seq(1 .. MaxRequests)]
      BY <2>4
    <3> QED BY <2>5, <3>1 DEF Types
  <2>7. /\ mode' = [mode EXCEPT ![s] = "down"] /\ believes' = [believes EXCEPT ![s] = FALSE]
        /\ source' = [source EXCEPT ![s] = NoServer]
        /\ UNCHANGED <<holders, active, lines, calls, clients, changes>>
    BY <1>4 DEF GetPostsUnknown
  <2> QED BY <1>1, <2>6, <2>7 DEF Types
<1> QED BY <1>3, <1>4

\* What servers and the coordinator do.
LEMMA TypesEnvironment ==
    ASSUME TypeInv, NEW s \in Server, Environment(s)
    PROVE  TypeInv'
<1>1. Types /\ Holders /\ Sources /\ Fresh
  BY DEF TypeInv
<1>2. CASE Crash(s) \/ GetLogFails(s)
  <2>1. Die(s) /\ UNCHANGED <<holders, active, posts, clients>> /\ (Change \/ UNCHANGED changes)
    BY <1>2 DEF Crash, GetLogFails
  <2>2. changes' \in 0 .. MaxChanges
    BY <1>1, <2>1, Changing
  <2>3. /\ mode' \in [Server -> Modes] /\ believes' \in [Server -> BOOLEAN]
        /\ source' \in [Server -> Server \cup {NoServer}]
        /\ lines' \in [Server -> [User -> Seq(User)]]
        /\ calls' \subseteq calls
        /\ mode'[s] = "down"
        /\ \A t \in Server : t # s => mode'[t] = mode[t] /\ source'[t] = source[t]
    BY <1>1, <2>1, Dying
  <2>4. Sources'
    BY <1>1, <2>3 DEF Sources
  <2> QED BY <1>1, <2>1, <2>2, <2>3, <2>4 DEF TypeInv, Types, Holders, Fresh, clients
<1>3. CASE Demote(s)
  <2>1. Lock!Release(s) /\ UNCHANGED <<active, servers, calls, clients>> /\ (Change \/ UNCHANGED changes)
    BY <1>3 DEF Demote, Late
  <2>2. changes' \in 0 .. MaxChanges
    BY <1>1, <2>1, Changing
  <2>3. holders' \in [Cluster -> SUBSET Server] /\ Holders'
    BY <2>1, Releasing
  <2> QED BY <1>1, <2>1, <2>2, <2>3 DEF TypeInv, Types, Sources, Fresh, servers, clients
<1>4. CASE Deactivate(s)
  <2>1. active' \subseteq active /\ UNCHANGED <<holders, servers, calls, clients>> /\ (Change \/ UNCHANGED changes)
    BY <1>4 DEF Deactivate, Late
  <2>2. changes' \in 0 .. MaxChanges
    BY <1>1, <2>1, Changing
  <2> QED BY <1>1, <2>1, <2>2 DEF TypeInv, Types, Holders, Sources, Fresh, servers, clients
<1>5. CASE Heartbeat(s)
  <2>1. active' = active \cup {s} /\ TakeFreeLock(s) /\ UNCHANGED <<servers, calls, clients, changes>>
    BY <1>5 DEF Heartbeat
  <2>2. holders' \in [Cluster -> SUBSET Server] /\ Holders'
    BY <2>1, Taking
  <2> QED BY <1>1, <2>1, <2>2 DEF TypeInv, Types, Sources, Fresh, servers, clients
<1>6. CASE Learn(s)
  <2>1. believes' = [believes EXCEPT ![s] = IsMaster(s)]
        /\ UNCHANGED <<holders, active, mode, source, lines, posts, calls, clients, changes>>
    BY <1>6 DEF Learn
  <2>2. believes' \in [Server -> BOOLEAN]
    BY <1>1, <2>1 DEF Types, IsMaster
  <2> QED BY <1>1, <2>1, <2>2 DEF TypeInv, Types, Holders, Sources, Fresh, clients
<1>7. CASE Register(s)
  <2> DEFINE from == IF holders[ClusterOf[s]] # {} THEN Min(holders[ClusterOf[s]])
                                                  ELSE getFirstAvailableClusterMaster(s)
  <2>1. from \in Server \cup {NoServer}
    <3>1. holders[ClusterOf[s]] \in SUBSET Server
      BY <1>1, ReplicationAssumption DEF Types
    <3> QED BY <3>1, MinServer, FirstMaster
  <2>2. /\ active' = active \cup {s} /\ Change /\ TakeFreeLock(s) /\ UNCHANGED <<calls, clients>>
        /\ source' = [source EXCEPT ![s] = from]
    BY <1>7 DEF Register
  <2>3. mode' \in [Server -> Modes] /\ (mode'[s] \in {"users", "posts"} => from # NoServer)
        /\ \A t \in Server : t # s => mode'[t] = mode[t]
    <3>1. CASE from = NoServer
      <4>1. mode' = [mode EXCEPT ![s] = "ready"] \/ mode' = [mode EXCEPT ![s] = "down"]
        BY <1>7, <3>1 DEF Register
      <4> QED BY <1>1, <4>1 DEF Types, Modes
    <3>2. CASE from # NoServer
      <4>1. mode' = [mode EXCEPT ![s] = "users"]
        BY <1>7, <3>2 DEF Register
      <4> QED BY <1>1, <3>2, <4>1 DEF Types, Modes
    <3> QED BY <3>1, <3>2
  <2>4. lines' \in [Server -> [User -> Seq(User)]] /\ posts' \in [Server -> [User -> Seq(1 .. MaxRequests)]]
    <3>1. Empty \in [User -> Seq(User)] /\ Empty \in [User -> Seq(1 .. MaxRequests)]
      BY EmptySeq DEF Empty
    <3>2. \/ UNCHANGED <<lines, posts>>
          \/ lines' = [lines EXCEPT ![s] = Empty] /\ posts' = [posts EXCEPT ![s] = Empty]
      BY <1>7 DEF Register
    <3> QED BY <1>1, <3>1, <3>2 DEF Types
  <2>5. believes' \in [Server -> BOOLEAN]
    <3>1. believes' = [believes EXCEPT ![s] = holders[ClusterOf[s]] = {} /\ mode'[s] # "down"]
      BY <1>7 DEF Register
    <3> QED BY <1>1, <3>1 DEF Types
  <2> HIDE DEF from
  <2>6. source' \in [Server -> Server \cup {NoServer}]
    BY <1>1, <2>1, <2>2 DEF Types
  <2>7. Sources'
    BY <1>1, <2>1, <2>2, <2>3 DEF Sources, Types
  <2>8. holders' \in [Cluster -> SUBSET Server] /\ Holders'
    BY <2>2, Taking
  <2>9. changes' \in 0 .. MaxChanges
    BY <1>1, <2>2, Changing
  <2> QED BY <1>1, <2>2, <2>3, <2>4, <2>5, <2>6, <2>7, <2>8, <2>9 DEF TypeInv, Types, Fresh, clients
<1>8. CASE GetUsers(s)
  <2>1. /\ mode[s] = "users" /\ mode' = [mode EXCEPT ![s] = "posts"]
        /\ lines' = [lines EXCEPT ![s] = lines[source[s]]]
        /\ UNCHANGED <<holders, active, source, believes, posts, calls, clients, changes>>
    BY <1>8 DEF GetUsers
  <2>2. source[s] \in Server
    BY <1>1, <2>1 DEF Sources
  <2>3. lines' \in [Server -> [User -> Seq(User)]] /\ mode' \in [Server -> Modes]
    BY <1>1, <2>1, <2>2 DEF Types, Modes
  <2>4. Sources'
    BY <1>1, <2>1, <2>2 DEF Sources, Types
  <2> QED BY <1>1, <2>1, <2>3, <2>4 DEF TypeInv, Types, Holders, Fresh, clients
<1>9. CASE GetPosts(s) \/ GetPostsUnknown(s)
  <2>1. /\ mode[s] = "posts" /\ mode' = [mode EXCEPT ![s] = mode'[s]] /\ mode'[s] \in {"ready", "down"}
        /\ posts' \in [Server -> [User -> Seq(1 .. MaxRequests)]]
        /\ source' = [source EXCEPT ![s] = NoServer]
        /\ believes' \in [Server -> BOOLEAN]
        /\ UNCHANGED <<holders, active, lines, calls, clients, changes>>
    BY <1>1, <1>9, CopyingPosts
  <2>2. mode' \in [Server -> Modes] /\ source' \in [Server -> Server \cup {NoServer}]
    BY <1>1, <2>1 DEF Types, Modes
  <2>3. Sources'
    BY <1>1, <2>1 DEF Sources, Types
  <2> QED BY <1>1, <2>1, <2>2, <2>3 DEF TypeInv, Types, Holders, Fresh, clients
<1>10. CASE Listen(s)
  <2>1. mode' = [mode EXCEPT ![s] = "up"]
        /\ UNCHANGED <<holders, active, source, believes, lines, posts, calls, clients, changes>>
    BY <1>10 DEF Listen
  <2>2. mode' \in [Server -> Modes] /\ Sources'
    BY <1>1, <2>1 DEF Types, Modes, Sources
  <2> QED BY <1>1, <2>1, <2>2 DEF TypeInv, Types, Holders, Fresh, clients
<1>11. ASSUME NEW u \in User, Refresh(u, s) PROVE TypeInv'
  <2>1. stub' = [stub EXCEPT ![u] = s]
        /\ UNCHANGED <<holders, active, servers, calls, at, phase, sent, changes>>
    BY <1>11 DEF Refresh
  <2> QED BY <1>1, <2>1 DEF TypeInv, Types, Holders, Sources, Fresh, servers
<1> QED BY <1>2, <1>3, <1>4, <1>5, <1>6, <1>7, <1>8, <1>9, <1>10, <1>11 DEF Environment

\* Every step keeps the types.
LEMMA TypesStep == TypeInv /\ [Next]_vars => TypeInv'
<1> SUFFICES ASSUME TypeInv, [Next]_vars PROVE TypeInv'
  OBVIOUS
<1>1. CASE UNCHANGED vars
  BY <1>1 DEF vars, servers, clients, TypeInv, Types, Holders, Sources, Fresh
<1>2. CASE Next
  BY <1>2, TypesCall, TypesSend, TypesEnvironment DEF Next
<1> QED BY <1>1, <1>2

\* The invariant holds at first.
LEMMA TypesInit == Init => TypeInv
<1> SUFFICES ASSUME Init PROVE TypeInv
  OBVIOUS
<1>1. holders \in [Cluster -> SUBSET Server] /\ active \subseteq Server
  BY DEF Init
<1>2. Holders
  <2>1. \A s, t \in Server : s <= t /\ t <= s => s = t
    BY ReplicationAssumption DEF Server
  <2> QED BY <2>1 DEF Init, Holders
<1>3. mode \in [Server -> Modes] /\ source \in [Server -> Server \cup {NoServer}]
      /\ believes \in [Server -> BOOLEAN] /\ Sources
  BY <1>1 DEF Init, Modes, IsMaster, Sources
<1>4. lines \in [Server -> [User -> Seq(User)]] /\ posts \in [Server -> [User -> Seq(1 .. MaxRequests)]]
  <2>1. Empty \in [User -> Seq(User)] /\ Empty \in [User -> Seq(1 .. MaxRequests)]
    BY EmptySeq DEF Empty
  <2> QED BY <2>1 DEF Init
<1>5. calls = {} /\ stub \in [User -> Server \cup {NoServer}]
      /\ at \in [User -> Server \cup {NoServer}] /\ phase \in [User -> {"new", "in"}]
      /\ sent \in [User -> 0 .. MaxRequests] /\ changes \in 0 .. MaxChanges
  BY ReplicationAssumption DEF Init
<1> QED BY <1>1, <1>2, <1>3, <1>4, <1>5 DEF TypeInv, Types, Fresh

\* The types of the history variables.
HistoryTypes ==
    /\ covered \in [User -> SUBSET Server]
    /\ events \subseteq {"start", "crash", "slow", "move", "rivals"}

\* History keeps them, whatever else happens.
LEMMA HistoryStep ==
    ASSUME HistoryTypes, TypeInv, TypeInv', [Next]_vars
    PROVE  HistoryTypes'
<1>1. CASE UNCHANGED vars
  BY <1>1 DEF vars, HistoryTypes
<1>2. CASE Next
  <2>1. History
    BY <1>2 DEF Next
  <2>2. \A u \in User : MustReach(u)' \in SUBSET Server /\ MustReach(u)' \cap covered[u] \in SUBSET Server
    BY DEF MustReach
  <2>3. covered' \in [User -> SUBSET Server]
    BY <2>1, <2>2 DEF History
  <2>4. events' \subseteq events \cup {"start", "crash", "slow", "move", "rivals"}
    BY <2>1 DEF History
  <2> QED BY <2>3, <2>4 DEF HistoryTypes
<1> QED BY <1>1, <1>2

\* The items of a sequence.
LEMMA ItemsOf ==
    ASSUME NEW S, NEW q \in Seq(S)
    PROVE  ToSet(q) \subseteq S
BY DEF ToSet

\* The types, for any users, servers, clusters, requests and changes.
THEOREM Typing == Spec => []TypeOK
<1>1. Init => TypeInv /\ HistoryTypes
  <2>1. Init => HistoryTypes
    BY DEF Init, HistoryTypes
  <2> QED BY <2>1, TypesInit
<1>2. TypeInv /\ HistoryTypes /\ [Next]_vars => (TypeInv /\ HistoryTypes)'
  BY TypesStep, HistoryStep
<1>3. TypeInv /\ HistoryTypes => TypeOK
  <2> SUFFICES ASSUME TypeInv, HistoryTypes PROVE TypeOK
    OBVIOUS
  <2>1. ASSUME NEW s \in Server, NEW u \in User
        PROVE  ToSet(lines[s][u]) \subseteq User /\ ToSet(posts[s][u]) \subseteq 1 .. MaxRequests
    <3>1. lines[s][u] \in Seq(User) /\ posts[s][u] \in Seq(1 .. MaxRequests)
      BY DEF TypeInv, Types
    <3>2. ToSet(lines[s][u]) \subseteq User
      BY <3>1, ItemsOf
    <3>3. ToSet(posts[s][u]) \subseteq 1 .. MaxRequests
      BY <3>1, ItemsOf
    <3> QED BY <3>2, <3>3
  <2>2. ASSUME NEW c \in calls
        PROVE  /\ c.req \in Request /\ c.todo \subseteq Server
               /\ c.path \in Seq(Server) /\ Len(c.path) \in 1 .. MaxHops
               /\ c.pc \in {"execute", "counterparts", "others"}
    BY CallIs DEF TypeInv
  <2> QED BY <2>1, <2>2 DEF TypeInv, Types, HistoryTypes, TypeOK, Modes
<1> QED BY <1>1, <1>2, <1>3, PTL DEF Spec

-----------------------------------------------------------------------------
(* Once through each server *)

\* The servers that a cluster may regard as its master, or that do so themselves.
Heads(k) == holders[k] \cup {s \in Server : believes[s] /\ ClusterOf[s] = k}

OneHead == \A k \in Cluster : \A s, t \in Heads(k) : s = t

\* A call whose server was the head of its cluster when it asked for its list: until
\* a cluster gets a master, nobody else can be.
Leads(s) == Heads(ClusterOf[s]) \subseteq {s}

\* The way of a request: client's master, other master, slave.
Chain(c) ==
    LET p == c.path
        n == Len(p)
    IN
    /\ n <= 3
    /\ \A i \in 1 .. n - 1 : Leads(p[i])
    /\ n >= 2 => p[1] # p[2]
    /\ n = 3 => /\ ClusterOf[p[2]] # ClusterOf[p[1]]
                /\ ClusterOf[p[3]] = ClusterOf[p[2]] /\ p[3] # p[2]
    /\ c.pc = "counterparts" \/ c.todo # {} =>
          /\ Leads(p[n])
          /\ n = 1 \/ (n = 2 /\ ClusterOf[p[2]] # ClusterOf[p[1]])
    /\ c.pc = "counterparts" => \A t \in c.todo : ClusterOf[t] = ClusterOf[p[n]] /\ t # p[n]
    /\ c.pc = "others" /\ c.todo # {} =>
          n = 1 /\ \A t \in c.todo : ClusterOf[t] # ClusterOf[p[n]]

Forwarding == "move" \notin events => OneHead /\ \A c \in calls : Chain(c)

\* Without an election, there are fewer and fewer heads.
LEMMA HeadsFewer ==
    ASSUME TypeInv, Next, "move" \notin events'
    PROVE  "move" \notin events /\ \A k \in Cluster : Heads(k)' \subseteq Heads(k)
<1>1. History
  BY DEF Next
<1>2. "move" \notin events /\ \A k \in Cluster : holders'[k] \subseteq holders[k]
  <2>1. events' = events
           \cup {e \in {"start"} : \E s \in Server : mode[s] = "down" /\ mode'[s] # "down"}
           \cup {e \in {"crash"} : \E s \in Server : mode[s] # "down" /\ mode'[s] = "down"}
           \cup {e \in {"slow"} : \E s \in Server : mode[s] # "down" /\ Loses(s)}
           \cup {e \in {"move"} : \E k \in Cluster : holders'[k] \ holders[k] # {}}
           \cup {e \in {"rivals"} : \E s, t \in {r \in Server : believes'[r]} :
                                       s # t /\ ClusterOf[s] = ClusterOf[t]}
    BY <1>1 DEF History
  <2>2. ~(\E k \in Cluster : holders'[k] \ holders[k] # {})
    BY <2>1
  <2> QED BY <2>1, <2>2
<1>3. Types
  BY DEF TypeInv
<1>4. ASSUME NEW s \in Server, believes'[s] PROVE believes[s] \/ IsMaster(s)
  <2>1. ASSUME NEW c \in calls, CallStep(c) PROVE believes[s]
    <3>1. Here(c) \in Server
      BY <1>3, <2>1, CallIs
    <3>2. CASE ExecuteUnknown(c)
      <4>1. Die(Here(c))
        BY <3>2 DEF ExecuteUnknown
      <4> QED BY <1>3, <1>4, <3>1, <4>1, Dying
    <3>3. CASE Execute(c) \/ propogateHelper(c) \/ PropogateToMasters(c) \/ Return(c)
      <4>1. believes' = believes
        BY <3>3 DEF Execute, propogateHelper, PropogateToMasters, Return, servers
      <4> QED BY <1>4, <4>1
    <3> QED BY <2>1, <3>2, <3>3 DEF CallStep
  <2>2. ASSUME NEW u \in User, NEW t \in Server, Send(u, t) PROVE believes[s]
    BY <1>4, <2>2 DEF Send, servers
  <2>3. ASSUME NEW t \in Server, Environment(t) PROVE believes[s] \/ IsMaster(s)
    <3>1. CASE Crash(t) \/ GetLogFails(t)
      <4>1. Die(t)
        BY <3>1 DEF Crash, GetLogFails
      <4> QED BY <1>3, <1>4, <4>1, Dying
    <3>2. CASE Demote(t) \/ Deactivate(t) \/ Heartbeat(t) \/ GetUsers(t) \/ Listen(t)
      <4>1. believes' = believes
        BY <3>2 DEF Demote, Deactivate, Heartbeat, GetUsers, Listen, servers
      <4> QED BY <1>4, <4>1
    <3>3. CASE Learn(t)
      <4>1. believes' = [believes EXCEPT ![t] = IsMaster(t)]
        BY <3>3 DEF Learn
      <4> QED BY <1>3, <1>4, <4>1 DEF Types
    <3>4. CASE Register(t)
      <4>1. believes' = [believes EXCEPT ![t] = holders[ClusterOf[t]] = {} /\ mode'[t] # "down"]
            /\ TakeFreeLock(t)
        BY <3>4 DEF Register
      <4>2. ClusterOf[t] \in Cluster
        BY ReplicationAssumption
      <4>3. CASE holders[ClusterOf[t]] = {}
        <5>1. holders' = [holders EXCEPT ![ClusterOf[t]] = {t}]
          BY <4>1, <4>3 DEF TakeFreeLock, Lock!Acquire
        <5>2. holders'[ClusterOf[t]] = {t}
          BY <1>3, <4>2, <5>1 DEF Types
        <5> QED BY <1>2, <4>2, <4>3, <5>2
      <4>4. CASE holders[ClusterOf[t]] # {}
        <5>1. t # s
          BY <1>3, <1>4, <4>1, <4>4 DEF Types
        <5> QED BY <1>3, <1>4, <4>1, <5>1 DEF Types
      <4> QED BY <4>3, <4>4
    <3>5. CASE GetPosts(t) \/ GetPostsUnknown(t)
      BY <1>3, <1>4, <3>5, CopyingPosts DEF TypeInv
    <3>6. ASSUME NEW u \in User, Refresh(u, t) PROVE believes[s]
      BY <1>4, <3>6 DEF Refresh, servers
    <3> QED BY <2>3, <3>1, <3>2, <3>3, <3>4, <3>5, <3>6 DEF Environment
  <2> QED BY <2>1, <2>2, <2>3 DEF Next
<1> QED BY <1>2, <1>4 DEF Heads, IsMaster

\* A call that stays as it is.
LEMMA ChainKept ==
    ASSUME NEW c \in CallType, Len(c.path) \in 1 .. MaxHops, Chain(c),
           \A k \in Cluster : Heads(k)' \subseteq Heads(k)
    PROVE  Chain(c)'
<1>1. c.path \in Seq(Server) /\ Len(c.path) \in Nat \ {0} /\ \A i \in 1 .. Len(c.path) : c.path[i] \in Server
  BY DEF CallType
<1>2. \A s \in Server : Leads(s) => Leads(s)'
  BY ReplicationAssumption DEF Leads
<1>3. \A i \in 1 .. Len(c.path) - 1 : Leads(c.path[i]) => Leads(c.path[i])'
  BY <1>1, <1>2
<1>4. Leads(c.path[Len(c.path)]) => Leads(c.path[Len(c.path)])'
  BY <1>1, <1>2
<1> QED BY <1>3, <1>4 DEF Chain

\* What a call turns into, and what it sends.
LEMMA ChainCall ==
    ASSUME TypeInv, OneHead, \A c \in calls : Chain(c), NEW c \in calls, CallStep(c),
           NEW d \in calls', d \notin calls
    PROVE  Chain(d)
<1> DEFINE n == Len(c.path)
           p == c.path
<1>1. /\ n \in Nat /\ n >= 1
      /\ Here(c) = p[n]
      /\ Here(c) \in Server
      /\ Chain(c)
      /\ p \in Seq(Server)
      /\ n <= 3
      /\ FromServer(c) <=> n # 1
  <2>1. n \in Nat /\ n >= 1 /\ Here(c) = p[n] /\ Here(c) \in Server /\ p \in Seq(Server)
    BY CallIs DEF TypeInv
  <2>2. FromServer(c) <=> n # 1
    <3>1. FromServer(c) <=> n > 1
      BY Zenon DEF FromServer
    <3> HIDE DEF n
    <3> QED BY <2>1, <3>1
  <2> QED BY <2>1, <2>2 DEF Chain
<1>2. ASSUME NEW s \in Server, believes[s] PROVE Leads(s) /\ s \in Heads(ClusterOf[s])
  BY <1>2, ReplicationAssumption DEF OneHead, Leads, Heads
<1>3. CASE Execute(c)
  <2>1. c.pc = "execute" /\ propogate(c)
    BY <1>3 DEF Execute
  <2>2. d = Moved(c) /\ d.path = p /\ (GoesOn(c) => d.pc = "counterparts" /\ d.todo = GetCounterparts(Here(c)))
        /\ (~GoesOn(c) => d.pc = "others" /\ d.todo = {})
    BY <2>1, Moving
  <2>3. GoesOn(c) => Leads(p[n]) /\ (n = 1 \/ (n = 2 /\ ClusterOf[p[2]] # ClusterOf[p[1]]))
    <3> SUFFICES ASSUME GoesOn(c)
                 PROVE  Leads(p[n]) /\ (n = 1 \/ (n = 2 /\ ClusterOf[p[2]] # ClusterOf[p[1]]))
      OBVIOUS
    <3>1. Leads(p[n]) /\ p[n] \in Heads(ClusterOf[p[n]])
      BY <1>1, <1>2 DEF GoesOn
    <3>2. CASE n = 3
      <4>1. Leads(p[2]) /\ ClusterOf[p[3]] = ClusterOf[p[2]] /\ p[3] # p[2]
        BY <1>1, <3>2 DEF Chain
      <4> QED BY <3>1, <3>2, <4>1 DEF Leads
    <3>3. CASE n = 2
      <4>1. Leads(p[1]) /\ p[1] # p[2]
        BY <1>1, <3>3 DEF Chain
      <4> QED BY <3>1, <3>3, <4>1 DEF Leads
    <3>4. n = 1 \/ n = 2 \/ n = 3
      <4> HIDE DEF n
      <4> QED BY <1>1
    <3> QED BY <3>1, <3>2, <3>3, <3>4
  <2>4. GoesOn(c) => \A t \in d.todo : ClusterOf[t] = ClusterOf[p[n]] /\ t # p[n]
    BY <1>1, <2>2 DEF GetCounterparts
  <2> QED BY <1>1, <2>2, <2>3, <2>4 DEF Chain
<1>4. CASE ExecuteUnknown(c)
  <2>1. calls' \subseteq calls
    BY <1>4 DEF ExecuteUnknown, Die
  <2> QED BY <2>1
<1>5. CASE propogateHelper(c)
  <2> DEFINE t == Min(c.todo)
  <2>1. /\ t \in c.todo
        /\ t \in Server
        /\ Rest(c).path = p
        /\ Rest(c).pc = c.pc
        /\ Rest(c).todo = c.todo \ {t}
        /\ c.pc \in {"counterparts", "others"}
        /\ calls' = (calls \ {c}) \cup {Rest(c)} \cup {e \in {Child(c)} : mode[Min(c.todo)] = "up"}
    BY <1>5, Calling DEF TypeInv, propogateHelper
  <2>4. Child(c).path = Append(p, t) /\ Child(c).todo = {} /\ Child(c).pc = "execute"
    BY DEF Child
  <2> HIDE DEF t
  <2>2. CASE d = Rest(c)
    BY <1>1, <2>1, <2>2 DEF Chain
  <2>3. CASE d = Child(c)
    <3> DEFINE q == d.path
    <3>1. /\ Len(q) = n + 1 /\ q[n + 1] = t /\ \A i \in 1 .. n : q[i] = p[i]
          /\ d.todo = {} /\ d.pc = "execute"
      BY <1>1, <2>1, <2>3, <2>4
    <3> HIDE DEF q
    <3>2. Leads(p[n]) /\ (n = 1 \/ (n = 2 /\ ClusterOf[p[2]] # ClusterOf[p[1]]))
      BY <1>1, <2>1 DEF Chain
    <3>3. \A i \in 1 .. n : Leads(q[i])
      BY <1>1, <3>1, <3>2 DEF Chain
    <3>4. CASE n = 1
      <4>1. t # p[1]
        BY <1>1, <2>1, <3>4 DEF Chain
      <4>2. q[1] # q[2] /\ Len(q) = 2
        BY <3>1, <3>4, <4>1
      <4> QED BY <3>1, <3>3, <3>4, <4>2 DEF Chain, q
    <3>5. CASE n = 2
      <4>1. ClusterOf[t] = ClusterOf[p[2]] /\ t # p[2] /\ p[1] # p[2]
        BY <1>1, <2>1, <3>5 DEF Chain
      <4>2. q[1] # q[2] /\ Len(q) = 3 /\ q[3] = t /\ q[2] = p[2] /\ q[1] = p[1]
        BY <3>1, <3>5, <4>1
      <4> QED BY <3>1, <3>2, <3>3, <3>5, <4>1, <4>2 DEF Chain, q
    <3> QED BY <3>2, <3>4, <3>5
  <2> QED BY <2>1, <2>2, <2>3
<1>6. CASE PropogateToMasters(c)
  <2>1. d = Turned(c) /\ d.path = p /\ d.pc = "others" /\ d.todo = GetOtherClusterMasters(Here(c))
    BY <1>6, Turning
  <2>2. c.pc = "counterparts" /\ n = 1
    BY <1>1, <1>6 DEF PropogateToMasters
  <2>3. \A t \in d.todo : ClusterOf[t] # ClusterOf[p[n]]
    BY <1>1, <2>1, OtherMasters
  <2> QED BY <1>1, <2>1, <2>2, <2>3 DEF Chain
<1>7. CASE Return(c)
  BY <1>7 DEF Return
<1> QED BY <1>3, <1>4, <1>5, <1>6, <1>7 DEF CallStep

\* Every step keeps the way of the requests.
LEMMA ForwardingStep ==
    ASSUME TypeInv, Forwarding, [Next]_vars
    PROVE  Forwarding'
<1>1. CASE UNCHANGED vars
  BY <1>1 DEF vars, servers, Forwarding, OneHead, Chain, Leads, Heads
<1>2. CASE Next
  <2> SUFFICES ASSUME "move" \notin events'
               PROVE  OneHead' /\ \A c \in calls' : Chain(c)'
    BY DEF Forwarding
  <2>1. "move" \notin events /\ \A k \in Cluster : Heads(k)' \subseteq Heads(k)
    BY <1>2, HeadsFewer
  <2>2. OneHead /\ \A c \in calls : Chain(c)
    BY <2>1 DEF Forwarding
  <2>3. OneHead'
    BY <2>1, <2>2 DEF OneHead
  <2>4. TypeInv'
    BY <1>2, TypesStep
  <2>5. ASSUME NEW d \in calls', d \notin calls PROVE Chain(d)
    <3>1. ASSUME NEW c \in calls, CallStep(c) PROVE Chain(d)
      BY <2>2, <2>5, <3>1, ChainCall
    <3>2. ASSUME NEW u \in User, NEW s \in Server, Send(u, s) PROVE Chain(d)
      <4>1. PICK r \in Requests(u, s) : d = [req |-> r, path |-> <<s>>, todo |-> {}, pc |-> "execute"]
        BY <2>5, <3>2 DEF Send
      <4> QED BY <4>1 DEF Chain
    <3>3. ASSUME NEW s \in Server, Environment(s) PROVE Chain(d)
      <4>1. calls' \subseteq calls
        BY <3>3 DEF Environment, Refresh, Crash, Demote, Deactivate, Heartbeat, Learn, Register,
                    GetUsers, GetPosts, GetPostsUnknown, GetLogFails, Listen, Die
      <4> QED BY <2>5, <4>1
    <3> QED BY <1>2, <3>1, <3>2, <3>3 DEF Next
  <2>6. ASSUME NEW d \in calls' PROVE Chain(d)'
    <3>1. Chain(d)
      BY <2>2, <2>5
    <3>2. d \in CallType /\ Len(d.path) \in 1 .. MaxHops
      BY <2>4 DEF TypeInv, Types
    <3> QED BY <2>1, <3>1, <3>2, ChainKept
  <2> QED BY <2>3, <2>6
<1> QED BY <1>1, <1>2

\* A request passes through a server once, as long as no cluster gets a master:
\* propogate and propogateHelper look at from_server, which does not hold back
\* what a server passes on to its counterparts.
THEOREM ForwardedAtMostOnce == Spec => []ForwardedOnce
<1>1. Init => Forwarding
  <2> SUFFICES ASSUME Init PROVE OneHead /\ \A c \in calls : Chain(c)
    BY DEF Forwarding
  <2>1. calls = {} /\ \A s \in Server : believes[s] => IsMaster(s)
    BY DEF Init
  <2>2. Holders
    BY TypesInit DEF TypeInv
  <2>3. \A k \in Cluster : Heads(k) = holders[k]
    BY <2>1 DEF Heads, IsMaster
  <2> QED BY <2>1, <2>2, <2>3 DEF OneHead, Holders
<1>2. TypeInv /\ Forwarding /\ [Next]_vars => (TypeInv /\ Forwarding)'
  BY TypesStep, ForwardingStep
<1>3. TypeInv /\ Forwarding => ForwardedOnce
  <2> SUFFICES ASSUME TypeInv, Forwarding, "move" \notin events, NEW c \in calls
               PROVE  Len(c.path) <= 3 /\ IsInjective(c.path)
    BY DEF ForwardedOnce
  <2> DEFINE p == c.path
             n == Len(p)
  <2>1. p \in Seq(Server) /\ n \in Nat /\ n >= 1 /\ Chain(c)
    BY CallIs DEF TypeInv, Forwarding
  <2>2. n <= 3 /\ (n >= 2 => p[1] # p[2])
    BY <2>1 DEF Chain
  <2>3. n = 3 => p[3] # p[2] /\ p[3] # p[1]
    BY <2>1 DEF Chain
  <2>4. DOMAIN p = 1 .. n
    BY <2>1
  <2> HIDE DEF n, p
  <2>5. \A i, j \in 1 .. n : i < j => p[i] # p[j]
    <3> SUFFICES ASSUME NEW i \in 1 .. n, NEW j \in 1 .. n, i < j PROVE p[i] # p[j]
      OBVIOUS
    <3>1. (i = 1 /\ j = 2) \/ (n = 3 /\ j = 3 /\ (i = 1 \/ i = 2))
      BY <2>1, <2>2
    <3>2. n >= 2
      BY <2>1
    <3> QED BY <2>2, <2>3, <3>1, <3>2
  <2>6. \A i, j \in 1 .. n : i # j => i < j \/ j < i
    BY <2>1
  <2>7. IsInjective(p)
    BY <2>4, <2>5, <2>6 DEF IsInjective
  <2> QED BY <2>2, <2>7 DEF p, n
<1> QED BY <1>1, <1>2, <1>3, TypesInit, PTL DEF Spec


-----------------------------------------------------------------------------
(* What steps do to the calls *)

\* What has happened stays on record.
LEMMA HistoryIs ==
    ASSUME Next
    PROVE  /\ events \subseteq events'
           /\ "start" \notin events' => \A s \in Server : mode[s] = "down" => mode'[s] = "down"
           /\ "crash" \notin events' => \A s \in Server : mode'[s] = "down" => mode[s] = "down"
           /\ "slow" \notin events' => \A s \in Server : mode[s] # "down" => ~Loses(s)
           /\ "move" \notin events' => \A k \in Cluster : holders'[k] \subseteq holders[k]
           /\ \A u \in User : covered'[u] = IF Root(u)' = {} THEN {}
                                            ELSE IF Root(u) = {} THEN MustReach(u)'
                                            ELSE MustReach(u)' \cap covered[u]
<1>1. History
  BY DEF Next
<1>2. events' = events
         \cup {e \in {"start"} : \E s \in Server : mode[s] = "down" /\ mode'[s] # "down"}
         \cup {e \in {"crash"} : \E s \in Server : mode[s] # "down" /\ mode'[s] = "down"}
         \cup {e \in {"slow"} : \E s \in Server : mode[s] # "down" /\ Loses(s)}
         \cup {e \in {"move"} : \E k \in Cluster : holders'[k] \ holders[k] # {}}
         \cup {e \in {"rivals"} : \E s, t \in {r \in Server : believes'[r]} :
                                     s # t /\ ClusterOf[s] = ClusterOf[t]}
  BY <1>1 DEF History
<1>3. \A u \in User : covered'[u] = IF Root(u)' = {} THEN {}
                                    ELSE IF Root(u) = {} THEN MustReach(u)'
                                    ELSE MustReach(u)' \cap covered[u]
  BY <1>1 DEF History
<1>4. "start" \notin events' => \A s \in Server : mode[s] = "down" => mode'[s] = "down"
  BY <1>2
<1>5. "crash" \notin events' => \A s \in Server : mode'[s] = "down" => mode[s] = "down"
  BY <1>2
<1>6. "slow" \notin events' => \A s \in Server : mode[s] # "down" => ~Loses(s)
  BY <1>2
<1>7. "move" \notin events' => \A k \in Cluster : holders'[k] \subseteq holders[k]
  BY <1>2
<1> QED BY <1>2, <1>3, <1>4, <1>5, <1>6, <1>7

\* The servers of calls listen.
Served == \A c \in calls : mode[Here(c)] = "up"

\* A step of a call changes the calls of its request, or ends its server.
LEMMA CallStepIs ==
    ASSUME TypeInv, Served, NEW c \in calls, CallStep(c)
    PROVE  /\ UNCHANGED <<holders, active, at, sent>>
           /\ \A d \in calls' : \/ d \in calls
                                \/ d.req = c.req /\ d.path = c.path
                                \/ d = Child(c) /\ propogateHelper(c)
           /\ \A d \in calls : d \in calls' \/ d = c \/ mode'[Here(d)] = "down"
           /\ \A d \in calls' : mode'[Here(d)] = "up"
           /\ \A s \in Server : mode'[s] = mode[s] \/ (mode[s] = "up" /\ mode'[s] = "down")
           /\ \A u \in User : phase'[u] = phase[u] \/ phase'[u] = "in"
<1>1. Types /\ Here(c) \in Server /\ mode[Here(c)] = "up"
  BY CallIs DEF TypeInv, Served
<1>2. \A d \in calls : Here(d) \in Server /\ mode[Here(d)] = "up"
  BY <1>1, CallIs DEF Served
<1>3. CASE Execute(c) \/ PropogateToMasters(c)
  <2>1. UNCHANGED <<holders, active, mode, at, phase, sent>>
    BY <1>3 DEF Execute, PropogateToMasters, servers, clients
  <2>2. PICK d : calls' = (calls \ {c}) \cup {d} /\ d.req = c.req /\ d.path = c.path
    <3>1. CASE Execute(c)
      BY <3>1, Moving DEF Execute
    <3>2. CASE PropogateToMasters(c)
      BY <3>2, Turning
    <3> QED BY <1>3, <3>1, <3>2
  <2>3. Here(d) = Here(c)
    BY <2>2 DEF Here
  <2> QED BY <1>1, <1>2, <2>1, <2>2, <2>3
<1>4. CASE ExecuteUnknown(c)
  <2>1. Die(Here(c)) /\ UNCHANGED <<holders, active, clients>>
    BY <1>4 DEF ExecuteUnknown
  <2>2. /\ calls' = {d \in calls : Here(d) # Here(c)}
        /\ mode'[Here(c)] = "down"
        /\ \A t \in Server : t # Here(c) => mode'[t] = mode[t]
    BY <1>1, <2>1, Dying
  <2> QED BY <1>1, <1>2, <2>1, <2>2 DEF clients
<1>5. CASE propogateHelper(c)
  <2>1. /\ Min(c.todo) \in Server
        /\ Rest(c).req = c.req /\ Rest(c).path = c.path
        /\ Here(Child(c)) = Min(c.todo)
        /\ calls' = (calls \ {c}) \cup {Rest(c)} \cup {d \in {Child(c)} : mode[Min(c.todo)] = "up"}
        /\ UNCHANGED <<holders, active, servers, clients, changes>>
    BY <1>1, <1>5, Calling
  <2>2. Here(Rest(c)) = Here(c)
    BY <2>1 DEF Here
  <2>3. \A d \in calls' : d \in calls \/ d = Rest(c) \/ (d = Child(c) /\ mode[Min(c.todo)] = "up")
    BY <2>1
  <2>4. \A d \in calls' : mode'[Here(d)] = "up"
    BY <1>1, <1>2, <2>1, <2>2, <2>3 DEF servers
  <2> QED BY <1>5, <2>1, <2>3, <2>4 DEF servers, clients
<1>6. CASE Return(c)
  <2>1. calls' = calls \ {c} /\ UNCHANGED <<holders, active, servers, at, sent>>
        /\ (phase' = phase \/ phase' = [phase EXCEPT ![c.req.user] = "in"])
    BY <1>6 DEF Return
  <2>2. \A u \in User : phase'[u] = phase[u] \/ phase'[u] = "in"
    BY <1>1, <2>1 DEF Types
  <2> QED BY <1>2, <2>1, <2>2 DEF servers
<1> QED BY <1>3, <1>4, <1>5, <1>6 DEF CallStep

\* The environment leaves the data of the servers alone that run or stay down,
\* and ends calls only with their server.
LEMMA EnvironmentIs ==
    ASSUME TypeInv, Served, NEW s \in Server, Environment(s)
    PROVE  /\ UNCHANGED <<at, phase, sent>>
           /\ calls' \subseteq calls
           /\ \A d \in calls : d \in calls' \/ mode'[Here(d)] = "down"
           /\ \A d \in calls' : mode'[Here(d)] = "up"
           /\ \A t \in Server : /\ mode[t] = "up" => mode'[t] \in {"up", "down"}
                                /\ mode[t] = "up" \/ (mode[t] = "down" /\ mode'[t] = "down")
                                     => lines'[t] = lines[t] /\ posts'[t] = posts[t]
<1>1. Types /\ \A d \in calls : Here(d) \in Server /\ mode[Here(d)] = "up"
  BY CallIs DEF TypeInv, Served
<1>2. CASE Crash(s) \/ GetLogFails(s)
  <2>1. Die(s) /\ UNCHANGED <<posts, clients>> /\ mode[s] # "down"
    BY <1>2 DEF Crash, GetLogFails
  <2>2. /\ calls' = {d \in calls : Here(d) # s}
        /\ mode'[s] = "down"
        /\ mode[s] # "posts" => lines' = lines
        /\ \A t \in Server : t # s => mode'[t] = mode[t] /\ lines'[t] = lines[t]
    BY <1>1, <2>1, Dying
  <2> QED BY <1>1, <2>1, <2>2 DEF clients
<1>3. CASE Demote(s) \/ Deactivate(s) \/ Heartbeat(s) \/ Learn(s)
  <2>1. UNCHANGED <<mode, lines, posts, calls, at, phase, sent>>
    BY <1>3 DEF Demote, Deactivate, Heartbeat, Learn, servers, clients
  <2> QED BY <1>1, <2>1
<1>4. CASE Register(s) \/ GetUsers(s) \/ GetPosts(s) \/ GetPostsUnknown(s) \/ Listen(s)
  <2>1. mode[s] # "up" /\ UNCHANGED <<calls, clients>>
    BY <1>4 DEF Register, GetUsers, GetPosts, GetPostsUnknown, Listen
  <2>2. \A t \in Server : t # s =>
            mode'[t] = mode[t] /\ lines'[t] = lines[t] /\ posts'[t] = posts[t]
    <3>1. CASE Register(s)
      <4>1. /\ mode' = [mode EXCEPT ![s] = "ready"] \/ mode' = [mode EXCEPT ![s] = "down"]
                 \/ mode' = [mode EXCEPT ![s] = "users"]
            /\ lines' = lines \/ lines' = [lines EXCEPT ![s] = Empty]
            /\ posts' = posts \/ posts' = [posts EXCEPT ![s] = Empty]
        BY <3>1 DEF Register
      <4> QED BY <1>1, <4>1 DEF Types
    <3>2. CASE GetUsers(s)
      BY <1>1, <3>2 DEF GetUsers, Types
    <3>3. CASE GetPosts(s) \/ GetPostsUnknown(s)
      <4>1. /\ mode' = [mode EXCEPT ![s] = mode'[s]] /\ UNCHANGED lines
            /\ \A t \in Server : t # s => posts'[t] = posts[t]
        BY <1>1, <3>3, CopyingPosts DEF TypeInv
      <4> QED BY <1>1, <4>1 DEF Types
    <3>4. CASE Listen(s)
      BY <1>1, <3>4 DEF Listen, Types
    <3> QED BY <1>4, <3>1, <3>2, <3>3, <3>4
  <2>3. mode[s] = "down" /\ mode'[s] = "down" => lines'[s] = lines[s] /\ posts'[s] = posts[s]
    <3> SUFFICES ASSUME mode[s] = "down", mode'[s] = "down"
                 PROVE  lines'[s] = lines[s] /\ posts'[s] = posts[s]
      OBVIOUS
    <3>1. Register(s)
      BY <1>4 DEF GetUsers, GetPosts, GetPostsUnknown, Listen
    <3>2. mode' # [mode EXCEPT ![s] = "users"]
      BY <1>1 DEF Types
    <3> QED BY <3>1, <3>2 DEF Register
  <2>4. \A d \in calls : Here(d) # s
    BY <1>1, <2>1
  <2> QED BY <1>1, <2>1, <2>2, <2>3, <2>4 DEF clients
<1>5. ASSUME NEW u \in User, Refresh(u, s)
      PROVE  UNCHANGED <<mode, lines, posts, calls, at, phase, sent>>
  BY <1>5 DEF Refresh, servers
<1>6. CASE \E u \in User : Refresh(u, s)
  <2>1. UNCHANGED <<mode, lines, posts, calls, at, phase, sent>>
    BY <1>5, <1>6
  <2> QED BY <1>1, <2>1
<1> QED BY <1>2, <1>3, <1>4, <1>6 DEF Environment

-----------------------------------------------------------------------------
(* The calls of clients *)

\* The call of a client is at its server and is its last request, and the client
\* has logged in if it asks for more than that.
Rooted ==
    /\ Served
    /\ \A c \in calls : c.req.n <= sent[c.req.user]
    /\ \A c \in calls : c.req.op # "login" => phase[c.req.user] = "in"
    /\ \A c \in calls : ~FromServer(c) => Here(c) = at[c.req.user] /\ c.req.n = sent[c.req.user]
    /\ \A c, d \in calls : ~FromServer(c) /\ ~FromServer(d) /\ c.req.user = d.req.user => c = d

\* What a client sends.
LEMMA Sending ==
    ASSUME TypeInv, NEW u \in User, NEW s \in Server, Send(u, s)
    PROVE  \E r \in Requests(u, s) :
              LET d == [req |-> r, path |-> <<s>>, todo |-> {}, pc |-> "execute"]
              IN  /\ calls' = calls \cup {d}
                  /\ d.req = r /\ d.path = <<s>> /\ d.todo = {} /\ d.pc = "execute"
                  /\ Here(d) = s /\ ~FromServer(d)
                  /\ r.user = u /\ r.n = sent[u] + 1 /\ r \in Request
                  /\ r.op = "login" <=> phase[u] = "new"
                  /\ r.op = "post" => r.target = u
                  /\ mode[s] = "up" /\ Root(u) = {}
                  /\ at' = [at EXCEPT ![u] = s] /\ sent' = [sent EXCEPT ![u] = @ + 1]
                  /\ UNCHANGED <<holders, active, servers, stub, phase>>
<1>1. PICK r \in Requests(u, s) :
          calls' = calls \cup {[req |-> r, path |-> <<s>>, todo |-> {}, pc |-> "execute"]}
  BY DEF Send
<1>2. /\ r \in Request /\ r.user = u /\ r.n = sent[u] + 1
      /\ r.op = "login" <=> phase[u] = "new"
  BY RequestsAre DEF Send, TypeInv
<1>3. r.op = "post" => r.target = u
  BY DEF Requests, Login, Post, Follow
<1> DEFINE d == [req |-> r, path |-> <<s>>, todo |-> {}, pc |-> "execute"]
<1>4. d.req = r /\ d.path = <<s>> /\ d.todo = {} /\ d.pc = "execute"
  OBVIOUS
<1>5. Len(<<s>>) = 1 /\ <<s>>[1] = s
  OBVIOUS
<1>6. Here(d) = s /\ ~FromServer(d)
  BY <1>4, <1>5 DEF Here, Last, FromServer
<1> HIDE DEF d
<1>7. /\ mode[s] = "up" /\ Root(u) = {}
      /\ at' = [at EXCEPT ![u] = s] /\ sent' = [sent EXCEPT ![u] = @ + 1]
      /\ UNCHANGED <<holders, active, servers, stub, phase>>
  BY DEF Send
<1>8. calls' = calls \cup {d}
  BY <1>1 DEF d
<1> QED BY <1>2, <1>3, <1>4, <1>6, <1>7, <1>8 DEF d

\* A call that propogateHelper sends comes from a server.
LEMMA ChildFromServer ==
    ASSUME TypeInv, NEW c \in calls, propogateHelper(c)
    PROVE  /\ FromServer(Child(c)) /\ Child(c).req = c.req /\ Child(c).pc = "execute"
           /\ Child(c).todo = {} /\ Child(c).path = Append(c.path, Min(c.todo))
<1>1. Len(Child(c).path) = Len(c.path) + 1 /\ Len(c.path) \in 1 .. MaxHops
  BY CallIs, Calling DEF TypeInv
<1>2. Len(c.path) + 1 > 1
  BY <1>1, ReplicationAssumption
<1>3. FromServer(Child(c))
  BY <1>1, <1>2 DEF FromServer
<1> QED BY <1>3 DEF Child

\* Every step keeps this.
LEMMA RootedStep ==
    ASSUME TypeInv, Rooted, [Next]_vars
    PROVE  Rooted'
<1>1. Types /\ Served /\ TypeInv'
  BY TypesStep DEF TypeInv, Rooted
<1>2. \A c \in calls : Here(c) \in Server /\ c.req.user \in User /\ sent[c.req.user] \in Nat
  BY <1>1, CallIs, ReplicationAssumption DEF Types
<1>3. CASE UNCHANGED vars
  BY <1>3 DEF vars, servers, clients, Rooted, Served, Here, FromServer
<1>4. ASSUME NEW c \in calls, CallStep(c) PROVE Rooted'
  <2>1. /\ UNCHANGED <<at, sent>>
        /\ \A d \in calls' : mode'[Here(d)] = "up"
        /\ \A u \in User : phase'[u] = phase[u] \/ phase'[u] = "in"
    BY <1>1, <1>4, CallStepIs
  <2>2. \A d \in calls' : d \in calls \/ (d.req = c.req /\ d.path = c.path) \/ (d.req = c.req /\ FromServer(d))
    BY <1>1, <1>4, CallStepIs, ChildFromServer
  <2>3. \A d \in calls' : /\ d.req.n <= sent[d.req.user]
                          /\ d.req.op # "login" => phase[d.req.user] = "in"
                          /\ d.req.user \in User
    BY <1>2, <2>2 DEF Rooted
  <2>4. \A d \in calls' : ~FromServer(d) => Here(d) = at[d.req.user] /\ d.req.n = sent[d.req.user]
    BY <2>2 DEF Rooted, FromServer, Here
  <2>5. \A d \in calls' : ~FromServer(d) => d \in calls \/ (d.req = c.req /\ ~FromServer(c) /\ c \notin calls')
    <3> SUFFICES ASSUME NEW d \in calls', ~FromServer(d), d \notin calls
                 PROVE  d.req = c.req /\ ~FromServer(c) /\ c \notin calls'
      OBVIOUS
    <3>1. d.req = c.req /\ d.path = c.path /\ ~FromServer(c)
      BY <2>2 DEF FromServer
    <3>2. ~ExecuteUnknown(c) /\ ~Return(c)
      BY DEF ExecuteUnknown, Die, Return
    <3>3. CASE Execute(c)
      <4>1. c.pc = "execute" /\ propogate(c)
        BY <3>3 DEF Execute
      <4>2. calls' = (calls \ {c}) \cup {Moved(c)} /\ Moved(c).pc # "execute"
        BY <4>1, Moving
      <4> QED BY <3>1, <4>1, <4>2
    <3>4. CASE PropogateToMasters(c)
      <4>1. calls' = (calls \ {c}) \cup {Turned(c)} /\ Turned(c).pc = "others"
        BY <3>4, Turning
      <4>2. c.pc = "counterparts"
        BY <3>4 DEF PropogateToMasters
      <4> QED BY <3>1, <4>1, <4>2
    <3>5. CASE propogateHelper(c)
      <4>1. /\ Min(c.todo) \in c.todo /\ Rest(c).todo = c.todo \ {Min(c.todo)}
            /\ c.pc # "execute" /\ Child(c).pc = "execute"
            /\ calls' \subseteq (calls \ {c}) \cup {Rest(c), Child(c)}
        <5>1. Child(c).pc = "execute"
          BY DEF Child
        <5> QED BY <1>1, <3>5, <5>1, Calling
      <4> QED BY <3>1, <4>1
    <3> QED BY <1>4, <3>1, <3>2, <3>3, <3>4, <3>5 DEF CallStep
  <2>6. \A d, e \in calls' : ~FromServer(d) /\ ~FromServer(e) /\ d.req.user = e.req.user => d = e
    <3> SUFFICES ASSUME NEW d \in calls', NEW e \in calls', ~FromServer(d), ~FromServer(e),
                        d.req.user = e.req.user
                 PROVE  d = e
      OBVIOUS
    <3>1. CASE d \in calls /\ e \in calls
      BY <3>1 DEF Rooted
    <3>2. CASE d \in calls /\ e \notin calls
      <4>1. c = d /\ c \notin calls'
        BY <2>5, <3>2 DEF Rooted
      <4> QED BY <4>1
    <3>3. CASE d \notin calls /\ e \in calls
      <4>1. c = e /\ c \notin calls'
        BY <2>5, <3>3 DEF Rooted
      <4> QED BY <4>1
    <3>4. CASE d \notin calls /\ e \notin calls
      <4>1. ~Return(c) /\ ~ExecuteUnknown(c) /\ ~FromServer(c)
        BY <2>5, <3>4 DEF Return, ExecuteUnknown, Die
      <4>2. CASE Execute(c)
        BY <1>1, <3>4, <4>2, Moving DEF Execute
      <4>3. CASE PropogateToMasters(c)
        BY <1>1, <3>4, <4>3, Turning
      <4>4. CASE propogateHelper(c)
        BY <1>1, <3>4, <4>4, Calling, ChildFromServer
      <4> QED BY <1>4, <4>1, <4>2, <4>3, <4>4 DEF CallStep
    <3> QED BY <3>1, <3>2, <3>3, <3>4
  <2>7. \A d \in calls' : d.req.op # "login" => phase'[d.req.user] = "in"
    BY <2>1, <2>3
  <2> QED BY <2>1, <2>3, <2>4, <2>6, <2>7 DEF Rooted, Served
<1>5. ASSUME NEW u \in User, NEW s \in Server, Send(u, s) PROVE Rooted'
  <2>1. PICK r \in Requests(u, s) :
              LET d == [req |-> r, path |-> <<s>>, todo |-> {}, pc |-> "execute"]
              IN  /\ calls' = calls \cup {d}
                  /\ d.req = r /\ d.path = <<s>> /\ d.todo = {} /\ d.pc = "execute"
                  /\ Here(d) = s /\ ~FromServer(d)
                  /\ r.user = u /\ r.n = sent[u] + 1 /\ r \in Request
                  /\ r.op = "login" <=> phase[u] = "new"
                  /\ r.op = "post" => r.target = u
                  /\ mode[s] = "up" /\ Root(u) = {}
                  /\ at' = [at EXCEPT ![u] = s] /\ sent' = [sent EXCEPT ![u] = @ + 1]
                  /\ UNCHANGED <<holders, active, servers, stub, phase>>
    BY <1>5, Sending
  <2> DEFINE d == [req |-> r, path |-> <<s>>, todo |-> {}, pc |-> "execute"]
  <2>2. /\ calls' = calls \cup {d}
        /\ d.req = r /\ Here(d) = s /\ ~FromServer(d)
        /\ UNCHANGED <<mode, phase>>
    BY <2>1 DEF servers
  <2> HIDE DEF d
  <2>3. /\ at' = [at EXCEPT ![u] = s] /\ sent' = [sent EXCEPT ![u] = @ + 1]
        /\ mode[s] = "up" /\ r.user = u /\ r.n = sent[u] + 1
        /\ r.op = "login" <=> phase[u] = "new"
    BY <2>1
  <2>4. at'[u] = s /\ sent'[u] = sent[u] + 1
        /\ \A v \in User : v # u => at'[v] = at[v] /\ sent'[v] = sent[v]
    BY <1>1, <2>3 DEF Types
  <2>5. \A c \in calls : c.req.user = u => FromServer(c)
    BY <2>1 DEF Root
  <2>6. sent[u] \in Nat /\ phase[u] \in {"new", "in"}
    BY <1>1, ReplicationAssumption DEF Types
  <2>7. \A c \in calls' : c.req.n <= sent'[c.req.user]
    <3> SUFFICES ASSUME NEW c \in calls' PROVE c.req.n <= sent'[c.req.user]
      OBVIOUS
    <3>1. CASE c = d
      BY <2>2, <2>3, <2>4, <2>6, <3>1
    <3>2. CASE c \in calls
      <4>1. c.req.n <= sent[c.req.user] /\ c.req.n \in Nat /\ c.req.user \in User /\ sent[c.req.user] \in Nat
        <5>1. c.req.n \in 1 .. MaxRequests
          BY <1>1, <3>2, CallIs
        <5> QED BY <1>2, <3>2, <5>1, ReplicationAssumption DEF Rooted
      <4>2. CASE c.req.user = u
        BY <2>4, <4>1, <4>2
      <4>3. CASE c.req.user # u
        BY <2>4, <4>1, <4>3
      <4> QED BY <4>2, <4>3
    <3> QED BY <2>2, <3>1, <3>2
  <2>8. \A c \in calls' : c.req.op # "login" => phase'[c.req.user] = "in"
    BY <2>2, <2>3, <2>6 DEF Rooted
  <2>9. \A c \in calls' : ~FromServer(c) => Here(c) = at'[c.req.user] /\ c.req.n = sent'[c.req.user]
    BY <1>2, <2>2, <2>3, <2>4, <2>5 DEF Rooted
  <2>10. \A c, e \in calls' : ~FromServer(c) /\ ~FromServer(e) /\ c.req.user = e.req.user => c = e
    BY <2>2, <2>3, <2>5 DEF Rooted
  <2>11. \A c \in calls' : mode'[Here(c)] = "up"
    BY <2>2, <2>3 DEF Rooted, Served
  <2> QED BY <2>7, <2>8, <2>9, <2>10, <2>11 DEF Rooted, Served
<1>6. ASSUME NEW s \in Server, Environment(s) PROVE Rooted'
  <2>1. /\ UNCHANGED <<at, phase, sent>>
        /\ calls' \subseteq calls
        /\ \A d \in calls' : mode'[Here(d)] = "up"
    BY <1>1, <1>6, EnvironmentIs
  <2> QED BY <2>1 DEF Rooted, Served
<1> QED BY <1>3, <1>4, <1>5, <1>6 DEF Next

-----------------------------------------------------------------------------
(* Posts are stored once *)

Posting(c) == c.req.op = "post"

\* The same request, and its copies.
Same(r, q) == r.user = q.user /\ r.n = q.n

\* The post has not come to t, and is not on its way there.
Untouched(r, t) ==
    /\ r.n \notin ToSet(posts[t][r.user])
    /\ \A d \in calls : Posting(d) /\ Same(d.req, r) => Here(d) # t

\* Where the post of a call can not be yet.
OnItsWay(c) ==
    /\ FromServer(c) => c.todo = {} /\ c.pc # "counterparts"
    /\ c.pc = "execute" => c.req.n \notin ToSet(posts[Here(c)][c.req.user])
    /\ c.pc = "execute" /\ ~FromServer(c) =>
           \A t \in Server : t # Here(c) => Untouched(c.req, t)
    /\ \A t \in c.todo : Untouched(c.req, t)
    /\ c.pc = "counterparts" =>
           /\ \A t \in c.todo : ClusterOf[t] = ClusterOf[Here(c)]
           /\ \A t \in Server : ClusterOf[t] # ClusterOf[Here(c)] => Untouched(c.req, t)

\* The posts of a user are different, and not more than the user has made.
Numbered ==
    \A s \in Server, u \in User :
        IsInjective(posts[s][u]) /\ \A n \in ToSet(posts[s][u]) : n <= sent[u]

\* Two calls with the same post are at different servers.
Apart ==
    \A c, d \in calls : Posting(c) /\ Posting(d) /\ Same(c.req, d.req) /\ Here(c) = Here(d) => c = d

Once == Numbered /\ Apart /\ \A c \in calls : Posting(c) => OnItsWay(c)

\* No server starts.
Settled == \A s \in Server : mode[s] \in {"up", "down"}

\* One item more.
LEMMA ItemsAppend ==
    ASSUME NEW S, NEW q \in Seq(S), NEW x \in S
    PROVE  /\ ToSet(Append(q, x)) = ToSet(q) \cup {x}
           /\ IsInjective(q) /\ x \notin ToSet(q) => IsInjective(Append(q, x))
<1> DEFINE a == Append(q, x)
           n == Len(q)
<1>1. /\ n \in Nat /\ DOMAIN q = 1 .. n /\ DOMAIN a = 1 .. n + 1
      /\ a[n + 1] = x /\ \A i \in 1 .. n : a[i] = q[i]
  OBVIOUS
<1> HIDE DEF a, n
<1>2. 1 .. n + 1 = (1 .. n) \cup {n + 1}
  BY <1>1
<1>3. ToSet(a) = ToSet(q) \cup {x}
  BY <1>1, <1>2 DEF ToSet
<1>4. ASSUME IsInjective(q), x \notin ToSet(q) PROVE IsInjective(a)
  <2>1. \A i \in 1 .. n : q[i] # x
    BY <1>1, <1>4 DEF ToSet
  <2>2. \A i, j \in 1 .. n : q[i] = q[j] => i = j
    BY <1>1, <1>4 DEF IsInjective
  <2>3. \A i, j \in DOMAIN a : a[i] = a[j] => i = j
    BY <1>1, <1>2, <2>1, <2>2
  <2> QED BY <2>3 DEF IsInjective
<1> QED BY <1>3, <1>4 DEF a

\* The same for the numbers of posts.
LEMMA PostsAppend ==
    ASSUME NEW q \in Seq(1 .. MaxRequests), NEW x \in 1 .. MaxRequests
    PROVE  /\ ToSet(Append(q, x)) = ToSet(q) \cup {x}
           /\ IsInjective(q) /\ x \notin ToSet(q) => IsInjective(Append(q, x))
<1> DEFINE S == 1 .. MaxRequests
<1>1. q \in Seq(S) /\ x \in S
  OBVIOUS
<1> HIDE DEF S
<1> QED BY <1>1, ItemsAppend

\* A call that changes stays where it is, and may send one.
LEMMA Replaces ==
    ASSUME TypeInv, NEW c \in calls, CallStep(c)
    PROVE  \E e : /\ e.req = c.req /\ e.path = c.path
                  /\ calls' \subseteq (calls \ {c}) \cup {e} \cup {d \in {Child(c)} : propogateHelper(c)}
<1>1. CASE Execute(c)
  <2>1. c.pc = "execute" /\ propogate(c)
    BY <1>1 DEF Execute
  <2>2. Moved(c).req = c.req /\ Moved(c).path = c.path /\ calls' = (calls \ {c}) \cup {Moved(c)}
    BY <2>1, Moving
  <2> QED BY <2>2
<1>2. CASE ExecuteUnknown(c) \/ Return(c)
  <2>1. calls' \subseteq calls
    BY <1>2 DEF ExecuteUnknown, Die, Return
  <2> QED BY <2>1
<1>3. CASE propogateHelper(c)
  <2>1. /\ Rest(c).req = c.req /\ Rest(c).path = c.path
        /\ Min(c.todo) \in c.todo /\ Rest(c).todo = c.todo \ {Min(c.todo)}
        /\ calls' \subseteq (calls \ {c}) \cup {Rest(c)} \cup {Child(c)}
    BY <1>3, Calling DEF TypeInv
  <2> QED BY <1>3, <2>1
<1>4. CASE PropogateToMasters(c)
  BY <1>4, Turning
<1> QED BY <1>1, <1>2, <1>3, <1>4 DEF CallStep

\* The only post that a step of a call stores is its own.
LEMMA StoresPost ==
    ASSUME TypeInv, NEW c \in calls, CallStep(c), NEW t \in Server, NEW u \in User
    PROVE  \/ posts'[t][u] = posts[t][u]
           \/ /\ Posting(c) /\ c.pc = "execute" /\ t = Here(c) /\ u = c.req.user
              /\ posts'[t][u] = Append(posts[t][u], c.req.n)
<1>1. Types /\ Here(c) \in Server /\ c.req \in Request /\ c.req.user \in User
  BY CallIs DEF TypeInv
<1>2. CASE Execute(c)
  <2>1. c.pc = "execute" /\ Store(Here(c), c.req)
    BY <1>2 DEF Execute
  <2>2. posts'[t][u] = IF c.req.op = "post" /\ t = Here(c) /\ u = c.req.user
                       THEN Append(posts[t][u], c.req.n) ELSE posts[t][u]
    BY <1>1, <2>1, Storing
  <2> QED BY <2>1, <2>2 DEF Posting
<1>3. CASE ExecuteUnknown(c)
  <2>1. c.pc = "execute"
        /\ posts' = IF c.req.op = "post" THEN [posts EXCEPT ![Here(c)][c.req.user] = Append(@, c.req.n)]
                                         ELSE posts
    BY <1>3 DEF ExecuteUnknown
  <2> QED BY <1>1, <2>1 DEF Posting, Types
<1>4. CASE propogateHelper(c) \/ PropogateToMasters(c) \/ Return(c)
  BY <1>4 DEF propogateHelper, PropogateToMasters, Return, servers
<1> QED BY <1>2, <1>3, <1>4 DEF CallStep

\* Nothing is stored, and no call is made.
LEMMA OnceFewer ==
    ASSUME TypeInv, Once, posts' = posts, calls' \subseteq calls, sent' = sent
    PROVE  Once'
BY DEF Once, Numbered, Apart, OnItsWay, Untouched, Posting, Same, Here, FromServer

\* What calls do to the posts.
LEMMA OnceCall ==
    ASSUME TypeInv, Rooted, Once, NEW c \in calls, CallStep(c)
    PROVE  Once'
<1> DEFINE next == Min(c.todo)
<1>1. /\ Types /\ Here(c) \in Server /\ c.req \in Request
      /\ c.req.user \in User /\ c.req.n \in 1 .. MaxRequests /\ c.todo \in SUBSET Server
  BY CallIs DEF TypeInv
<1>2. \A d \in calls : Here(d) \in Server /\ d.req.user \in User /\ d.req \in Request /\ d.todo \in SUBSET Server
  BY <1>1, CallIs
<1>3. sent' = sent
  BY CallStepIs DEF Rooted
<1>4. \A t \in Server, u \in User :
          \/ posts'[t][u] = posts[t][u]
          \/ /\ Posting(c) /\ c.pc = "execute" /\ t = Here(c) /\ u = c.req.user
             /\ posts'[t][u] = Append(posts[t][u], c.req.n)
  BY StoresPost
<1>5. \A t \in Server, u \in User : posts[t][u] \in Seq(1 .. MaxRequests)
  BY <1>1 DEF Types
<1>5a. ASSUME NEW t \in Server, NEW u \in User, posts'[t][u] = Append(posts[t][u], c.req.n)
       PROVE  /\ ToSet(posts'[t][u]) = ToSet(posts[t][u]) \cup {c.req.n}
              /\ IsInjective(posts[t][u]) /\ c.req.n \notin ToSet(posts[t][u]) => IsInjective(posts'[t][u])
  BY <1>1, <1>5, <1>5a, PostsAppend
<1>6. PICK e : /\ e.req = c.req /\ e.path = c.path
               /\ calls' \subseteq (calls \ {c}) \cup {e} \cup {d \in {Child(c)} : propogateHelper(c)}
  BY Replaces
<1>7. Here(e) = Here(c) /\ (Posting(e) <=> Posting(c))
  BY <1>6 DEF Here, Posting
<1>8. ASSUME propogateHelper(c)
      PROVE  /\ FromServer(Child(c)) /\ Child(c).req = c.req /\ Child(c).pc = "execute"
             /\ Child(c).todo = {} /\ Here(Child(c)) = next /\ next \in Server /\ next \in c.todo
             /\ Posting(Child(c)) <=> Posting(c)
             /\ Posting(c) => ~FromServer(c) /\ Untouched(c.req, next) /\ next # Here(c)
  <2>1. /\ FromServer(Child(c)) /\ Child(c).req = c.req /\ Child(c).pc = "execute"
        /\ Child(c).todo = {} /\ Here(Child(c)) = next /\ next \in Server /\ next \in c.todo
    BY <1>1, <1>8, ChildFromServer, Calling
  <2>2. Posting(c) => ~FromServer(c) /\ Untouched(c.req, next)
    BY <2>1 DEF Once, OnItsWay
  <2>3. Posting(c) => next # Here(c)
    BY <2>2 DEF Untouched, Same
  <2>4. Posting(Child(c)) <=> Posting(c)
    BY <2>1 DEF Posting
  <2> QED BY <2>1, <2>2, <2>3, <2>4
<1> HIDE DEF next
<1>9. ASSUME NEW r \in Request, NEW t \in Server, Untouched(r, t),
             ~(propogateHelper(c) /\ Posting(c) /\ Same(c.req, r) /\ t = next)
      PROVE  Untouched(r, t)'
  <2>1. r.user \in User
    BY DEF Request
  <2>2. r.n \notin ToSet(posts'[t][r.user])
    <3>1. CASE posts'[t][r.user] = posts[t][r.user]
      BY <1>9, <3>1 DEF Untouched
    <3>2. CASE /\ Posting(c) /\ c.pc = "execute" /\ t = Here(c) /\ r.user = c.req.user
               /\ posts'[t][r.user] = Append(posts[t][r.user], c.req.n)
      <4>1. c.req.n # r.n
        BY <1>9, <3>2 DEF Untouched, Same
      <4>2. ToSet(posts'[t][r.user]) = ToSet(posts[t][r.user]) \cup {c.req.n}
        BY <1>5a, <2>1, <3>2
      <4> QED BY <1>9, <4>1, <4>2 DEF Untouched
    <3> QED BY <1>4, <2>1, <3>1, <3>2
  <2>3. ASSUME NEW d \in calls', Posting(d), Same(d.req, r) PROVE Here(d) # t
    <3>1. CASE d \in calls
      BY <1>9, <2>3, <3>1 DEF Untouched
    <3>2. CASE d = e
      BY <1>6, <1>7, <1>9, <2>3, <3>2 DEF Untouched
    <3>3. CASE d = Child(c) /\ propogateHelper(c)
      BY <1>8, <1>9, <2>3, <3>3
    <3> QED BY <1>6, <3>1, <3>2, <3>3
  <2> QED BY <2>2, <2>3 DEF Untouched
<1>10. Numbered'
  <2> SUFFICES ASSUME NEW t \in Server, NEW u \in User
               PROVE  IsInjective(posts'[t][u]) /\ \A n \in ToSet(posts'[t][u]) : n <= sent'[u]
    BY DEF Numbered
  <2>1. IsInjective(posts[t][u]) /\ \A n \in ToSet(posts[t][u]) : n <= sent[u]
    BY DEF Once, Numbered
  <2>2. CASE posts'[t][u] = posts[t][u]
    BY <1>3, <2>1, <2>2
  <2>3. CASE /\ Posting(c) /\ c.pc = "execute" /\ t = Here(c) /\ u = c.req.user
             /\ posts'[t][u] = Append(posts[t][u], c.req.n)
    <3>1. c.req.n \notin ToSet(posts[t][u]) /\ c.req.n <= sent[u]
      BY <2>3 DEF Once, OnItsWay, Rooted
    <3>2. /\ ToSet(posts'[t][u]) = ToSet(posts[t][u]) \cup {c.req.n}
          /\ IsInjective(posts'[t][u])
      BY <1>5a, <2>1, <2>3, <3>1
    <3> QED BY <1>3, <2>1, <3>1, <3>2
  <2> QED BY <1>4, <2>2, <2>3
<1>11. Apart'
  <2> SUFFICES ASSUME NEW d \in calls', NEW f \in calls', Posting(d), Posting(f), Same(d.req, f.req),
                      Here(d) = Here(f), d # f
               PROVE  FALSE
    BY DEF Apart
  <2>1. ASSUME NEW b \in calls', b # Child(c), propogateHelper(c), Posting(c), Posting(b), Same(b.req, c.req)
        PROVE  Here(b) # next
    <3>1. Untouched(c.req, next) /\ next # Here(c)
      BY <1>8, <2>1
    <3>2. CASE b \in calls
      BY <2>1, <3>1, <3>2 DEF Untouched
    <3>3. CASE b = e
      BY <1>7, <3>1, <3>3
    <3> QED BY <1>6, <2>1, <3>2, <3>3
  <2>2. CASE d = Child(c) /\ propogateHelper(c)
    BY <1>8, <2>1, <2>2 DEF Same
  <2>3. CASE f = Child(c) /\ propogateHelper(c)
    BY <1>8, <2>1, <2>3 DEF Same
  <2>4. CASE d \in (calls \ {c}) \cup {e} /\ f \in (calls \ {c}) \cup {e}
    <3>1. \A a, b \in calls : Posting(a) /\ Posting(b) /\ Same(a.req, b.req) /\ Here(a) = Here(b) => a = b
      BY DEF Once, Apart
    <3>2. CASE d = e
      BY <1>6, <1>7, <2>4, <3>1, <3>2
    <3>3. CASE f = e
      BY <1>6, <1>7, <2>4, <3>1, <3>3
    <3> QED BY <2>4, <3>1, <3>2, <3>3
  <2> QED BY <1>6, <2>2, <2>3, <2>4
<1>12. ASSUME NEW d \in calls, d # c, Posting(d) PROVE OnItsWay(d)'
  <2>1. OnItsWay(d) /\ d.req \in Request /\ Here(d) \in Server /\ d.todo \in SUBSET Server /\ d.req.user \in User
    BY <1>2, <1>12 DEF Once
  <2>2. d.pc = "execute" => d.req.n \notin ToSet(posts'[Here(d)][d.req.user])
    <3> SUFFICES ASSUME d.pc = "execute"
                 PROVE  d.req.n \notin ToSet(posts'[Here(d)][d.req.user])
      OBVIOUS
    <3>1. d.req.n \notin ToSet(posts[Here(d)][d.req.user])
      BY <2>1 DEF OnItsWay
    <3>2. CASE /\ Posting(c) /\ Here(d) = Here(c) /\ d.req.user = c.req.user
               /\ posts'[Here(d)][d.req.user] = Append(posts[Here(d)][d.req.user], c.req.n)
      <4>1. c.req.n # d.req.n
        BY <1>12, <3>2 DEF Once, Apart, Same
      <4>2. ToSet(posts'[Here(d)][d.req.user]) = ToSet(posts[Here(d)][d.req.user]) \cup {c.req.n}
        BY <1>5a, <2>1, <3>2
      <4> QED BY <3>1, <4>1, <4>2
    <3> QED BY <1>4, <2>1, <3>1, <3>2
  <2>3. CASE FromServer(d)
    BY <2>1, <2>2, <2>3 DEF OnItsWay
  <2>4. CASE ~FromServer(d)
    <3>1. \A t \in Server : Untouched(d.req, t) => Untouched(d.req, t)'
      <4>1. propogateHelper(c) /\ Posting(c) => ~Same(c.req, d.req)
        BY <1>8, <1>12, <2>4 DEF Rooted, Same
      <4> QED BY <1>9, <2>1, <4>1
    <3> QED BY <2>1, <2>2, <2>4, <3>1 DEF OnItsWay
  <2> QED BY <2>3, <2>4
<1>13. ASSUME NEW d \in calls', Posting(d) PROVE OnItsWay(d)'
  <2>1. CASE Execute(c)
    <3>1. c.pc = "execute" /\ propogate(c)
      BY <2>1 DEF Execute
    <3>2. /\ calls' = (calls \ {c}) \cup {Moved(c)}
          /\ Moved(c).req = c.req /\ Moved(c).path = c.path
          /\ GoesOn(c) => Moved(c).pc = "counterparts" /\ Moved(c).todo = GetCounterparts(Here(c))
          /\ ~GoesOn(c) => Moved(c).pc = "others" /\ Moved(c).todo = {}
      BY <3>1, Moving
    <3> DEFINE m == Moved(c)
    <3>3. CASE d # m
      BY <1>12, <1>13, <3>2, <3>3
    <3>4. CASE d = m
      <4>1. /\ Posting(c) /\ Here(d) = Here(c) /\ (FromServer(d) <=> FromServer(c)) /\ d.req = c.req
            /\ GoesOn(c) => d.pc = "counterparts" /\ d.todo = GetCounterparts(Here(c))
            /\ ~GoesOn(c) => d.pc = "others" /\ d.todo = {}
        BY <1>13, <3>2, <3>4 DEF Posting, Here, FromServer
      <4>2. GoesOn(c) => ~FromServer(c)
        BY <4>1 DEF GoesOn, Posting
      <4>3. ~FromServer(c) => \A t \in Server : t # Here(c) => Untouched(c.req, t)'
        <5> SUFFICES ASSUME ~FromServer(c), NEW t \in Server, t # Here(c) PROVE Untouched(c.req, t)'
          OBVIOUS
        <5>1. Untouched(c.req, t) /\ ~propogateHelper(c)
          BY <3>1, <4>1 DEF Once, OnItsWay, propogateHelper
        <5> QED BY <1>1, <1>9, <5>1
      <4>4. \A t \in GetCounterparts(Here(c)) :
                t \in Server /\ t # Here(c) /\ ClusterOf[t] = ClusterOf[Here(c)]
        BY <1>1 DEF GetCounterparts, Types
      <4>5. CASE GoesOn(c)
        BY <4>1, <4>2, <4>3, <4>4, <4>5 DEF OnItsWay
      <4>6. CASE ~GoesOn(c)
        BY <4>1, <4>6 DEF OnItsWay
      <4> QED BY <4>5, <4>6
    <3> QED BY <3>3, <3>4
  <2>2. CASE ExecuteUnknown(c) \/ Return(c)
    <3>1. d \in calls /\ d # c
      BY <2>2 DEF ExecuteUnknown, Die, Return
    <3> QED BY <1>12, <1>13, <3>1
  <2>3. CASE propogateHelper(c)
    <3>1. /\ Rest(c).req = c.req /\ Rest(c).path = c.path /\ Rest(c).pc = c.pc
          /\ Rest(c).todo = c.todo \ {next} /\ c.pc # "execute"
          /\ calls' \subseteq (calls \ {c}) \cup {Rest(c), Child(c)}
      BY <1>1, <2>3, Calling DEF next
    <3> DEFINE m == Rest(c)
    <3>2. CASE d # m /\ d # Child(c)
      BY <1>12, <1>13, <3>1, <3>2
    <3>3. CASE d = Child(c)
      <4>1. /\ FromServer(d) /\ d.todo = {} /\ d.pc = "execute" /\ Here(d) = next /\ d.req = c.req
            /\ Untouched(c.req, next) /\ next # Here(c) /\ next \in Server
        BY <1>8, <1>13, <2>3, <3>3
      <4>2. d.req.n \notin ToSet(posts'[next][d.req.user])
        <5>1. posts'[next][c.req.user] = posts[next][c.req.user]
          BY <1>1, <1>4, <4>1
        <5> QED BY <4>1, <5>1 DEF Untouched
      <4> QED BY <4>1, <4>2 DEF OnItsWay
    <3>4. CASE d = m
      <4>1. /\ Posting(c) /\ Here(d) = Here(c) /\ (FromServer(d) <=> FromServer(c))
            /\ d.req = c.req /\ d.pc = c.pc /\ d.todo = c.todo \ {next}
        BY <1>13, <3>1, <3>4 DEF Posting, Here, FromServer
      <4>2. ~FromServer(c) /\ OnItsWay(c) /\ next \in c.todo
        BY <1>8, <2>3, <4>1 DEF Once
      <4>3. \A t \in Server : t # next /\ Untouched(c.req, t) => Untouched(c.req, t)'
        BY <1>1, <1>9
      <4>4. c.pc = "counterparts" => ClusterOf[next] = ClusterOf[Here(c)]
        BY <4>2 DEF OnItsWay
      <4>5. \A t \in d.todo : Untouched(d.req, t)'
        BY <1>1, <4>1, <4>2, <4>3 DEF OnItsWay
      <4>6. d.pc = "counterparts" =>
               /\ \A t \in d.todo : ClusterOf[t] = ClusterOf[Here(d)]
               /\ \A t \in Server : ClusterOf[t] # ClusterOf[Here(d)] => Untouched(d.req, t)'
        BY <4>1, <4>2, <4>3, <4>4 DEF OnItsWay
      <4> QED BY <3>1, <4>1, <4>2, <4>5, <4>6 DEF OnItsWay
    <3> QED BY <3>2, <3>3, <3>4
  <2>4. CASE PropogateToMasters(c)
    <3>1. /\ calls' = (calls \ {c}) \cup {Turned(c)}
          /\ Turned(c).req = c.req /\ Turned(c).path = c.path
          /\ Turned(c).pc = "others" /\ Turned(c).todo = GetOtherClusterMasters(Here(c))
      BY <2>4, Turning
    <3> DEFINE m == Turned(c)
    <3>2. CASE d # m
      BY <1>12, <1>13, <3>1, <3>2
    <3>3. CASE d = m
      <4>1. /\ Posting(c) /\ Here(d) = Here(c) /\ (FromServer(d) <=> FromServer(c))
            /\ d.req = c.req /\ d.pc = "others" /\ d.todo = GetOtherClusterMasters(Here(c))
        BY <1>13, <3>1, <3>3 DEF Posting, Here, FromServer
      <4>2. c.pc = "counterparts" /\ ~FromServer(c) /\ ~propogateHelper(c)
        BY <2>4 DEF PropogateToMasters, propogateHelper, ListDone
      <4>3. \A t \in GetOtherClusterMasters(Here(c)) : t \in Server /\ Untouched(c.req, t)'
        <5> SUFFICES ASSUME NEW t \in GetOtherClusterMasters(Here(c))
                     PROVE  t \in Server /\ Untouched(c.req, t)'
          OBVIOUS
        <5>1. t \in Server /\ ClusterOf[t] # ClusterOf[Here(c)]
          BY <1>1, OtherMasters
        <5>2. Untouched(c.req, t)
          BY <4>1, <4>2, <5>1 DEF Once, OnItsWay
        <5> QED BY <1>1, <1>9, <4>2, <5>1, <5>2
      <4> QED BY <4>1, <4>2, <4>3 DEF OnItsWay
    <3> QED BY <3>2, <3>3
  <2> QED BY <2>1, <2>2, <2>3, <2>4 DEF CallStep
<1> QED BY <1>10, <1>11, <1>13 DEF Once

\* A new request is not on any server yet.
LEMMA OnceSend ==
    ASSUME TypeInv, Rooted, Once, NEW u \in User, NEW s \in Server, Send(u, s)
    PROVE  Once'
<1> DEFINE D(r) == [req |-> r, path |-> <<s>>, todo |-> {}, pc |-> "execute"]
<1>1. PICK d, r : /\ calls' = calls \cup {d}
                  /\ d.req = r /\ d.todo = {} /\ d.pc = "execute" /\ Here(d) = s /\ ~FromServer(d)
                  /\ r.user = u /\ r.n = sent[u] + 1
                  /\ sent' = [sent EXCEPT ![u] = @ + 1] /\ posts' = posts
  <2>1. PICK r \in Requests(u, s) :
              LET d == D(r)
              IN  /\ calls' = calls \cup {d}
                  /\ d.req = r /\ d.path = <<s>> /\ d.todo = {} /\ d.pc = "execute"
                  /\ Here(d) = s /\ ~FromServer(d)
                  /\ r.user = u /\ r.n = sent[u] + 1 /\ r \in Request
                  /\ r.op = "login" <=> phase[u] = "new"
                  /\ r.op = "post" => r.target = u
                  /\ mode[s] = "up" /\ Root(u) = {}
                  /\ at' = [at EXCEPT ![u] = s] /\ sent' = [sent EXCEPT ![u] = @ + 1]
                  /\ UNCHANGED <<holders, active, servers, stub, phase>>
    BY Sending
  <2> HIDE DEF D
  <2> QED BY <2>1 DEF servers
<1>2. /\ sent[u] \in Nat /\ sent'[u] = sent[u] + 1
      /\ \A v \in User : v # u => sent'[v] = sent[v]
      /\ \A v \in User : sent[v] \in Nat
  BY <1>1, ReplicationAssumption DEF TypeInv, Types
<1>3. \A t \in Server, v \in User : ToSet(posts[t][v]) \subseteq Nat
  <2> SUFFICES ASSUME NEW t \in Server, NEW v \in User PROVE ToSet(posts[t][v]) \subseteq Nat
    OBVIOUS
  <2>1. posts[t][v] \in Seq(1 .. MaxRequests)
    BY DEF TypeInv, Types
  <2>2. ToSet(posts[t][v]) \subseteq 1 .. MaxRequests
    BY <2>1, ItemsOf
  <2> QED BY <2>2
<1>4. \A c \in calls : /\ c.req.user \in User /\ c.req.n \in Nat /\ c.req.n <= sent[c.req.user]
                       /\ Here(c) \in Server /\ c.todo \in SUBSET Server
  <2> SUFFICES ASSUME NEW c \in calls
               PROVE  /\ c.req.user \in User /\ c.req.n \in Nat /\ c.req.n <= sent[c.req.user]
                      /\ Here(c) \in Server /\ c.todo \in SUBSET Server
    OBVIOUS
  <2>1. c.req.user \in User /\ c.req.n \in 1 .. MaxRequests /\ Here(c) \in Server /\ c.todo \in SUBSET Server
    BY CallIs DEF TypeInv
  <2> QED BY <2>1 DEF Rooted
<1>5. \A c \in calls : ~Same(c.req, d.req) /\ ~Same(d.req, c.req)
  BY <1>1, <1>2, <1>4 DEF Same
<1>6. Numbered'
  <2> SUFFICES ASSUME NEW t \in Server, NEW v \in User
               PROVE  IsInjective(posts[t][v]) /\ \A n \in ToSet(posts[t][v]) : n <= sent'[v]
    BY <1>1 DEF Numbered
  <2>1. IsInjective(posts[t][v]) /\ \A n \in ToSet(posts[t][v]) : n <= sent[v] /\ n \in Nat
    BY <1>3 DEF Once, Numbered
  <2>2. \A n \in Nat : n <= sent[v] => n <= sent'[v]
    BY <1>2
  <2> QED BY <2>1, <2>2
<1>7. Apart'
  BY <1>1, <1>5 DEF Once, Apart
<1>8. \A t \in Server : d.req.n \notin ToSet(posts[t][u])
  <2>1. \A t \in Server : \A n \in ToSet(posts[t][u]) : n <= sent[u] /\ n \in Nat
    BY <1>3 DEF Once, Numbered
  <2>2. \A n \in Nat : n <= sent[u] => n # sent[u] + 1
    BY <1>2
  <2>3. d.req.n = sent[u] + 1
    BY <1>1
  <2> QED BY <2>1, <2>2, <2>3
<1>9. \A t \in Server : t # s => Untouched(d.req, t)'
  BY <1>1, <1>5, <1>8 DEF Untouched
<1>10. OnItsWay(d)'
  <2>1. d.todo = {} /\ d.pc = "execute" /\ Here(d) = s /\ ~FromServer(d) /\ d.req.user = u
    BY <1>1
  <2>2. d.req.n \notin ToSet(posts'[s][u])
    BY <1>1, <1>8
  <2> QED BY <1>9, <2>1, <2>2 DEF OnItsWay
<1>11. ASSUME NEW c \in calls, Posting(c) PROVE OnItsWay(c)'
  <2>1. OnItsWay(c)
    BY <1>11 DEF Once
  <2>2. \A t \in Server : Untouched(c.req, t) => Untouched(c.req, t)'
    BY <1>1, <1>5 DEF Untouched
  <2> QED BY <1>1, <1>4, <2>1, <2>2 DEF OnItsWay
<1> QED BY <1>1, <1>6, <1>7, <1>10, <1>11 DEF Once

\* As long as no server starts.
OnceInv == "start" \notin events => Settled /\ Once

\* What the environment does to servers that run.
LEMMA SettledEnvironment ==
    ASSUME TypeInv, Served, Settled, Next, "start" \notin events', NEW s \in Server, Environment(s)
    PROVE  Settled' /\ lines' = lines /\ posts' = posts
<1>1. Types /\ \A t \in Server : mode[t] = "down" => mode'[t] = "down"
  BY HistoryIs DEF TypeInv
<1>2. \A t \in Server : /\ mode[t] = "up" => mode'[t] \in {"up", "down"}
                        /\ mode[t] = "up" \/ (mode[t] = "down" /\ mode'[t] = "down")
                             => lines'[t] = lines[t] /\ posts'[t] = posts[t]
  BY EnvironmentIs
<1>3. \A t \in Server : /\ mode'[t] \in {"up", "down"}
                        /\ lines'[t] = lines[t] /\ posts'[t] = posts[t]
  BY <1>1, <1>2 DEF Settled
<1>4. /\ lines \in [Server -> [User -> Seq(User)]] /\ lines' \in [Server -> [User -> Seq(User)]]
      /\ posts \in [Server -> [User -> Seq(1 .. MaxRequests)]]
      /\ posts' \in [Server -> [User -> Seq(1 .. MaxRequests)]]
  BY <1>1, TypesEnvironment DEF Types, TypeInv
<1>5. lines' = lines
  BY <1>3, <1>4
<1>6. posts' = posts
  BY <1>3, <1>4
<1> QED BY <1>3, <1>5, <1>6 DEF Settled

\* Every step keeps this.
LEMMA OnceStep ==
    ASSUME TypeInv, Rooted, OnceInv, [Next]_vars
    PROVE  OnceInv'
<1>1. CASE UNCHANGED vars
  <2>1. UNCHANGED <<events, mode, posts, calls, sent>>
    BY <1>1 DEF vars, servers, clients
  <2>2. Once => Once'
    BY <2>1, OnceFewer
  <2> QED BY <2>1, <2>2 DEF OnceInv, Settled
<1>2. CASE Next
  <2> SUFFICES ASSUME "start" \notin events' PROVE Settled' /\ Once'
    BY DEF OnceInv
  <2>1. Settled /\ Once /\ Served
    BY <1>2, HistoryIs DEF OnceInv, Rooted
  <2>2. ASSUME NEW c \in calls, CallStep(c) PROVE Settled' /\ Once'
    <3>1. \A s \in Server : mode'[s] = mode[s] \/ (mode[s] = "up" /\ mode'[s] = "down")
      BY <2>1, <2>2, CallStepIs
    <3> QED BY <2>1, <2>2, <3>1, OnceCall DEF Settled
  <2>3. ASSUME NEW u \in User, NEW s \in Server, Send(u, s) PROVE Settled' /\ Once'
    <3>1. mode' = mode
      BY <2>3 DEF Send, servers
    <3> QED BY <2>1, <2>3, <3>1, OnceSend DEF Settled
  <2>4. ASSUME NEW s \in Server, Environment(s) PROVE Settled' /\ Once'
    <3>1. Settled' /\ posts' = posts
      BY <1>2, <2>1, <2>4, SettledEnvironment
    <3>2. calls' \subseteq calls /\ sent' = sent
      BY <2>1, <2>4, EnvironmentIs
    <3> QED BY <2>1, <3>1, <3>2, OnceFewer
  <2> QED BY <1>2, <2>2, <2>3, <2>4 DEF Next
<1> QED BY <1>1, <1>2

\* At first, there are no calls and no posts.
LEMMA RootedInit == Init => Rooted /\ Settled /\ Once
<1> SUFFICES ASSUME Init PROVE Rooted /\ Settled /\ Once
  OBVIOUS
<1>1. calls = {} /\ Settled
  BY DEF Init, Settled
<1>2. \A s \in Server, u \in User : posts[s][u] = <<>>
  BY DEF Init, Empty
<1>3. ToSet(<<>>) = {} /\ IsInjective(<<>>)
  BY DEF ToSet, IsInjective
<1>4. Rooted /\ Once
  BY <1>1, <1>2, <1>3 DEF Rooted, Served, Once, Numbered, Apart
<1> QED BY <1>1, <1>4

\* No server stores a post twice, whichever servers die, are slow, become master
\* or believe to be: AddPost does not look, but a post passes each server once.
THEOREM PostsAreStoredOnce == Spec => []PostedOnce
<1>1. Init => TypeInv /\ Rooted /\ OnceInv
  BY TypesInit, RootedInit DEF OnceInv
<1>2. TypeInv /\ Rooted /\ OnceInv /\ [Next]_vars => (TypeInv /\ Rooted /\ OnceInv)'
  BY TypesStep, RootedStep, OnceStep
<1>3. OnceInv => PostedOnce
  BY DEF OnceInv, Once, Numbered, PostedOnce
<1> QED BY <1>1, <1>2, <1>3, PTL DEF Spec

-----------------------------------------------------------------------------
(* Posts are stored in order *)

\* A call stays until it returns or its server dies.
LEMMA Stays ==
    ASSUME TypeInv, NEW c \in calls, CallStep(c), ~Return(c), ~ExecuteUnknown(c)
    PROVE  \E e \in calls' : e.req = c.req /\ e.path = c.path
<1>1. CASE Execute(c)
  <2>1. c.pc = "execute" /\ propogate(c)
    BY <1>1 DEF Execute
  <2> QED BY <2>1, Moving
<1>2. CASE propogateHelper(c)
  BY <1>2, Calling DEF TypeInv
<1>3. CASE PropogateToMasters(c)
  BY <1>3, Turning
<1> QED BY <1>1, <1>2, <1>3 DEF CallStep

\* The call of a client waits for the calls that its server has made for it.
Awaited ==
    \A d \in calls : Posting(d) /\ FromServer(d) =>
        \E c \in calls : ~FromServer(c) /\ c.req = d.req /\ c.path = Front(d.path)

Ordered ==
    \A s \in Server, u \in User : \A i, j \in DOMAIN posts[s][u] :
        i < j => posts[s][u][i] < posts[s][u][j]

OrderInv == events \cap {"start", "crash"} = {} => Awaited /\ Ordered

\* What calls do.
LEMMA OrderCall ==
    ASSUME TypeInv, Rooted, Once, Awaited, Ordered, Next, "crash" \notin events', NEW c \in calls, CallStep(c)
    PROVE  Awaited' /\ Ordered'
<1>1. Types /\ Served /\ c \in CallType /\ Here(c) \in Server /\ c.req.user \in User /\ c.req.n \in Nat
      /\ \A d \in calls : Here(d) \in Server
  <2>1. Types /\ c.req.n \in 1 .. MaxRequests
    BY CallIs DEF TypeInv
  <2> QED BY <2>1, CallIs DEF Rooted
<1>2. \A s \in Server : mode'[s] = "down" => mode[s] = "down"
  BY HistoryIs
<1>3. ~ExecuteUnknown(c)
  <2> SUFFICES ASSUME ExecuteUnknown(c) PROVE FALSE
    OBVIOUS
  <2>1. Die(Here(c))
    BY DEF ExecuteUnknown
  <2>2. mode'[Here(c)] = "down" /\ mode[Here(c)] = "up"
    BY <1>1, <2>1, Dying DEF Served
  <2> QED BY <1>1, <1>2, <2>2
<1>4. \A d \in calls : d \in calls' \/ d = c
  <2>1. \A d \in calls : d \in calls' \/ d = c \/ mode'[Here(d)] = "down"
    BY <1>1, CallStepIs
  <2> QED BY <1>1, <1>2, <2>1 DEF Served
<1>5. ASSUME NEW d \in calls', Posting(d), FromServer(d)
      PROVE  \E p \in calls' : ~FromServer(p) /\ p.req = d.req /\ p.path = Front(d.path)
  <2>1. CASE d = Child(c) /\ propogateHelper(c)
    <3>1. /\ d.req = c.req /\ Front(d.path) = c.path /\ c.todo # {}
          /\ Rest(c) \in calls' /\ Rest(c).req = c.req /\ Rest(c).path = c.path
      BY <1>1, <2>1, Calling, ChildFromServer
    <3>2. ~FromServer(c)
      BY <1>5, <3>1 DEF Once, OnItsWay, Posting
    <3>3. ~FromServer(Rest(c))
      BY <3>1, <3>2 DEF FromServer
    <3> QED BY <3>1, <3>3
  <2>2. CASE d \in calls \/ (d.req = c.req /\ d.path = c.path)
    <3>1. PICK p \in calls : ~FromServer(p) /\ p.req = d.req /\ p.path = Front(d.path)
      <4>1. CASE d \in calls
        BY <1>5, <4>1 DEF Awaited
      <4>2. CASE d.req = c.req /\ d.path = c.path
        <5>1. Posting(c) /\ FromServer(c)
          BY <1>5, <4>2 DEF Posting, FromServer
        <5> QED BY <4>2, <5>1 DEF Awaited
      <4> QED BY <2>2, <4>1, <4>2
    <3>2. CASE p # c
      BY <1>4, <3>1, <3>2
    <3>3. CASE p = c
      <4>1. d \in calls
        BY <1>5, <2>2, <3>1, <3>3 DEF FromServer
      <4>2. ~Return(c)
        BY <1>5, <3>1, <3>3, <4>1 DEF Return, Returns, ListDone, Waits
      <4>3. PICK e \in calls' : e.req = c.req /\ e.path = c.path
        BY <1>3, <4>2, Stays
      <4> QED BY <3>1, <3>3, <4>3 DEF FromServer
    <3> QED BY <3>2, <3>3
  <2> QED BY <1>1, <1>5, <2>1, <2>2, CallStepIs
<1>6. Posting(c) => c.req.n = sent[c.req.user]
  <2>1. CASE FromServer(c)
    BY <2>1 DEF Awaited, Rooted
  <2>2. CASE ~FromServer(c)
    BY <2>2 DEF Rooted
  <2> QED BY <2>1, <2>2
<1>7. ASSUME NEW s \in Server, NEW u \in User, NEW i \in DOMAIN posts'[s][u], NEW j \in DOMAIN posts'[s][u],
             i < j
      PROVE  posts'[s][u][i] < posts'[s][u][j]
  <2> DEFINE q == posts[s][u]
             n == Len(q)
  <2>1. q \in Seq(1 .. MaxRequests) /\ n \in Nat /\ DOMAIN q = 1 .. n
    BY <1>1 DEF Types
  <2>2. \A k, l \in DOMAIN q : k < l => q[k] < q[l]
    BY DEF Ordered
  <2>3. CASE posts'[s][u] = q
    BY <1>7, <2>2, <2>3
  <2>4. CASE /\ Posting(c) /\ c.pc = "execute" /\ s = Here(c) /\ u = c.req.user
             /\ posts'[s][u] = Append(q, c.req.n)
    <3>1. \A m \in ToSet(q) : m <= c.req.n /\ m # c.req.n
      BY <1>6, <2>4 DEF Once, Numbered, OnItsWay
    <3>2. \A k \in 1 .. n : q[k] \in ToSet(q) /\ q[k] \in Nat
      <4> HIDE DEF q, n
      <4>1. ToSet(q) \subseteq 1 .. MaxRequests
        BY <2>1, ItemsOf
      <4>2. \A k \in DOMAIN q : q[k] \in ToSet(q)
        BY DEF ToSet
      <4>3. \A m \in 1 .. MaxRequests : m \in Nat
        OBVIOUS
      <4> QED BY <2>1, <4>1, <4>2, <4>3
    <3>3. \A k \in 1 .. n : q[k] < c.req.n
      BY <1>1, <3>1, <3>2
    <3> DEFINE a == Append(q, c.req.n)
    <3>4. DOMAIN a = 1 .. n + 1 /\ a[n + 1] = c.req.n /\ \A k \in 1 .. n : a[k] = q[k]
      BY <2>1
    <3> HIDE DEF a
    <3>5. posts'[s][u] = a
      BY <2>4 DEF a
    <3> HIDE DEF q, n
    <3>6. i \in 1 .. n /\ (j \in 1 .. n \/ j = n + 1)
      BY <1>7, <2>1, <3>4, <3>5
    <3>7. CASE j \in 1 .. n
      BY <1>7, <2>1, <2>2, <3>4, <3>5, <3>6, <3>7
    <3>8. CASE j = n + 1
      BY <3>3, <3>4, <3>5, <3>6, <3>8
    <3> QED BY <3>6, <3>7, <3>8
  <2> QED BY <2>3, <2>4, StoresPost
<1> QED BY <1>5, <1>7 DEF Awaited, Ordered

\* Every step keeps this.
LEMMA OrderStep ==
    ASSUME TypeInv, Rooted, OnceInv, OrderInv, [Next]_vars
    PROVE  OrderInv'
<1>1. CASE UNCHANGED vars
  BY <1>1 DEF vars, servers, OrderInv, Awaited, Ordered
<1>2. CASE Next
  <2> SUFFICES ASSUME events' \cap {"start", "crash"} = {} PROVE Awaited' /\ Ordered'
    BY DEF OrderInv
  <2>1. events \subseteq events' /\ \A s \in Server : mode'[s] = "down" => mode[s] = "down"
    BY <1>2, HistoryIs
  <2>2. Settled /\ Once /\ Awaited /\ Ordered /\ Served
    BY <2>1 DEF OnceInv, OrderInv, Rooted
  <2>3. ASSUME NEW c \in calls, CallStep(c) PROVE Awaited' /\ Ordered'
    BY <1>2, <2>2, <2>3, OrderCall
  <2>4. ASSUME NEW u \in User, NEW s \in Server, Send(u, s) PROVE Awaited' /\ Ordered'
    <3>1. posts' = posts /\ calls \subseteq calls' /\ \A d \in calls' : d \in calls \/ ~FromServer(d)
      <4>1. posts' = posts
        BY <2>4 DEF Send, servers
      <4>2. PICK r : calls' = calls \cup {[req |-> r, path |-> <<s>>, todo |-> {}, pc |-> "execute"]}
        BY <2>4 DEF Send
      <4>3. Len(<<s>>) = 1
        OBVIOUS
      <4>4. ~FromServer([req |-> r, path |-> <<s>>, todo |-> {}, pc |-> "execute"])
        BY <4>3 DEF FromServer
      <4> QED BY <4>1, <4>2, <4>4
    <3> QED BY <2>2, <3>1 DEF Awaited, Ordered
  <2>5. ASSUME NEW s \in Server, Environment(s) PROVE Awaited' /\ Ordered'
    <3>1. posts' = posts
      BY <1>2, <2>2, <2>5, SettledEnvironment
    <3>2. calls' \subseteq calls /\ \A d \in calls : d \in calls' \/ mode'[Here(d)] = "down"
      BY <2>2, <2>5, EnvironmentIs
    <3>3. \A d \in calls : Here(d) \in Server /\ mode[Here(d)] = "up"
      BY <2>2, CallIs DEF TypeInv, Served
    <3>4. calls' = calls
      BY <2>1, <3>2, <3>3
    <3> QED BY <2>2, <3>1, <3>4 DEF Awaited, Ordered
  <2> QED BY <1>2, <2>3, <2>4, <2>5 DEF Next
<1> QED BY <1>1, <1>2

\* As long as no server starts or ends, each of them stores the posts of a user in
\* the order in which they were made: Timeline takes the next message of its
\* stream when all servers have answered.
THEOREM PostsAreStoredInOrder == Spec => []PostsInOrder
<1>1. Init => TypeInv /\ Rooted /\ OnceInv /\ OrderInv
  <2> SUFFICES ASSUME Init PROVE OrderInv
    BY TypesInit, RootedInit DEF OnceInv
  <2>1. calls = {} /\ \A s \in Server, u \in User : posts[s][u] = <<>>
    BY DEF Init, Empty
  <2>2. DOMAIN <<>> = {}
    OBVIOUS
  <2> QED BY <2>1, <2>2 DEF OrderInv, Awaited, Ordered
<1>2. TypeInv /\ Rooted /\ OnceInv /\ OrderInv /\ [Next]_vars => (TypeInv /\ Rooted /\ OnceInv /\ OrderInv)'
  BY TypesStep, RootedStep, OnceStep, OrderStep
<1>3. OrderInv => PostsInOrder
  BY DEF OrderInv, Ordered, PostsInOrder
<1> QED BY <1>1, <1>2, <1>3, PTL DEF Spec

-----------------------------------------------------------------------------
(* Answered requests are where they have to be *)

Sends(d, c) == d.req = c.req /\ FromServer(d) /\ Front(d.path) = c.path

\* The call, or one that it has sent, has still to bring the request to t.
Brings(c, t) ==
    \/ t \in c.todo
    \/ \E d \in calls : Sends(d, c) /\ Here(d) = t /\ d.pc = "execute"

\* The same by way of h.
BringsBy(c, t, h) ==
    \/ h \in c.todo
    \/ \E d \in calls : Sends(d, c) /\ Here(d) = h /\ (d.pc = "execute" \/ Brings(d, t))

\* The request of a client is on its way to t: to a server of its cluster, to the
\* master of another one, or by that master to its slaves.
Coming(c, t) ==
    IF ClusterOf[t] = ClusterOf[Here(c)] THEN Brings(c, t)
    ELSE \/ c.pc = "counterparts"
         \/ \E h \in holders[ClusterOf[t]] :
               IF h = t THEN Brings(c, t) ELSE Posting(c) \/ BringsBy(c, t, h)

\* The servers that a request has to reach have it or will get it.
CoverInv ==
    /\ \A u \in User : covered[u] \subseteq MustReach(u)
    /\ \A u \in User : covered[u] # {} => Root(u) # {}
    /\ \A c \in calls : ~FromServer(c) /\ c.pc # "execute" =>
           \A t \in covered[c.req.user] : Has(t, c.req) \/ Coming(c, t)

\* Nothing is left to bring when a list is done.
LEMMA NothingToBring ==
    ASSUME NEW c, ListDone(c), NEW t
    PROVE  ~Brings(c, t) /\ \A h : ~BringsBy(c, t, h)
BY DEF ListDone, Waits, Brings, BringsBy, Sends

\* What a server has to reach.
LEMMA MustReachIs ==
    ASSUME TypeInv, NEW u \in User, NEW t \in MustReach(u)
    PROVE  /\ at[u] \in Server /\ believes[at[u]] /\ mode[at[u]] = "up"
           /\ t \in Server /\ mode[t] = "up"
           /\ ClusterOf[t] = ClusterOf[at[u]] => t = at[u] \/ t \in active
           /\ ClusterOf[t] # ClusterOf[at[u]] =>
                  \E h \in holders[ClusterOf[t]] :
                      mode[h] = "up" /\ (t = h \/ (t \in active /\ believes[h]))
BY DEF MustReach, IsMaster

\* The files of a server that runs lose nothing.
LEMMA FilesGrow ==
    ASSUME TypeInv, Served, Next, NEW t \in Server, mode[t] = "up", mode'[t] = "up", NEW v \in User
    PROVE  /\ ToSet(posts[t][v]) \subseteq ToSet(posts'[t][v])
           /\ ToSet(lines[t][v]) \subseteq ToSet(lines'[t][v])
<1>0. Types /\ \A u \in User : lines[t][u] \in Seq(User) /\ posts[t][u] \in Seq(1 .. MaxRequests)
  BY DEF TypeInv, Types
<1>1. ASSUME NEW c \in calls, CallStep(c)
      PROVE  /\ ToSet(posts[t][v]) \subseteq ToSet(posts'[t][v])
             /\ ToSet(lines[t][v]) \subseteq ToSet(lines'[t][v])
  <2>1. /\ c.req \in Request /\ c.req.user \in User /\ c.req.target \in User
        /\ c.req.n \in 1 .. MaxRequests /\ Here(c) \in Server
    BY <1>0, CallIs
  <2>2. ToSet(posts[t][v]) \subseteq ToSet(posts'[t][v])
    <3>1. CASE posts'[t][v] = posts[t][v]
      BY <3>1
    <3>2. CASE posts'[t][v] = Append(posts[t][v], c.req.n)
      <4>1. ToSet(Append(posts[t][v], c.req.n)) = ToSet(posts[t][v]) \cup {c.req.n}
        BY <1>0, <2>1, PostsAppend
      <4> QED BY <3>2, <4>1
    <3> QED BY <1>0, <1>1, <3>1, <3>2, StoresPost
  <2>3. ToSet(lines[t][v]) \subseteq ToSet(lines'[t][v])
    <3>1. CASE Execute(c)
      <4>1. \/ lines'[t][v] = lines[t][v]
            \/ lines'[t][v] = Append(lines[t][v], c.req.target)
        <5> DEFINE q == c.req
                   s == Here(c)
        <5>1. Store(s, q) /\ q \in Request /\ s \in Server
          BY <2>1, <3>1 DEF Execute
        <5> HIDE DEF q, s
        <5>2. \A x \in Server, u \in User :
                 lines'[x][u] = IF /\ q.op # "post" /\ x = s /\ u = q.user
                                   /\ ~Contains(lines[x][u], q.target)
                                THEN Append(lines[x][u], q.target) ELSE lines[x][u]
          BY <1>0, <5>1, Storing
        <5> QED BY <1>0, <5>2 DEF q
      <4>2. ToSet(Append(lines[t][v], c.req.target)) = ToSet(lines[t][v]) \cup {c.req.target}
        BY <1>0, <2>1, ItemsAppend
      <4> QED BY <4>1, <4>2
    <3>2. CASE ExecuteUnknown(c)
      <4>1. Die(Here(c)) /\ mode[Here(c)] = "up"
        BY <3>2 DEF ExecuteUnknown, Served
      <4>2. lines' = lines
        BY <1>0, <2>1, <4>1, Dying
      <4> QED BY <4>2
    <3>3. CASE propogateHelper(c) \/ PropogateToMasters(c) \/ Return(c)
      <4>1. lines' = lines
        BY <3>3 DEF propogateHelper, PropogateToMasters, Return, servers
      <4> QED BY <4>1
    <3> QED BY <1>1, <3>1, <3>2, <3>3 DEF CallStep
  <2> QED BY <2>2, <2>3
<1>2. ASSUME NEW u \in User, NEW s \in Server, Send(u, s)
      PROVE  lines' = lines /\ posts' = posts
  BY <1>2 DEF Send, servers
<1>3. ASSUME NEW s \in Server, Environment(s)
      PROVE  lines'[t] = lines[t] /\ posts'[t] = posts[t]
  BY <1>3, EnvironmentIs
<1> QED BY <1>1, <1>2, <1>3 DEF Next

\* What a server has, it keeps as long as it runs.
LEMMA HasStays ==
    ASSUME TypeInv, Served, Next, NEW t \in Server, mode[t] = "up", mode'[t] = "up",
           NEW r \in Request, Has(t, r)
    PROVE  Has(t, r)'
<1>1. r.user \in User
  BY DEF Request
<1> QED BY <1>1, FilesGrow DEF Has

\* What a server has executed, it has.
LEMMA HasExecuted ==
    ASSUME TypeInv, NEW c \in calls, Execute(c)
    PROVE  Has(Here(c), c.req)'
<1> DEFINE s == Here(c)
           r == c.req
<1>1. /\ Types /\ s \in Server /\ r \in Request /\ r.user \in User /\ r.target \in User
      /\ r.n \in 1 .. MaxRequests
  BY CallIs DEF TypeInv
<1>2. lines[s][r.user] \in Seq(User) /\ posts[s][r.user] \in Seq(1 .. MaxRequests)
  BY <1>1 DEF Types
<1>3. /\ posts'[s][r.user] = IF r.op = "post" THEN Append(posts[s][r.user], r.n) ELSE posts[s][r.user]
      /\ lines'[s][r.user] = IF r.op # "post" /\ ~Contains(lines[s][r.user], r.target)
                             THEN Append(lines[s][r.user], r.target) ELSE lines[s][r.user]
  BY <1>1, Storing DEF Execute
<1> HIDE DEF s, r
<1>4. CASE r.op = "post"
  <2>1. ToSet(Append(posts[s][r.user], r.n)) = ToSet(posts[s][r.user]) \cup {r.n}
    BY <1>1, <1>2, PostsAppend
  <2> QED BY <1>3, <1>4, <2>1 DEF Has, s, r
<1>5. CASE r.op # "post"
  <2>1. ToSet(Append(lines[s][r.user], r.target)) = ToSet(lines[s][r.user]) \cup {r.target}
    BY <1>1, <1>2, ItemsAppend
  <2>2. Contains(lines[s][r.user], r.target) => r.target \in ToSet(lines[s][r.user])
    BY <1>2 DEF Contains, ToSet
  <2> QED BY <1>3, <1>5, <2>1, <2>2 DEF Has, s, r
<1> QED BY <1>4, <1>5

\* The calls that make a step, if any, and the calls that go on.
Steps(A) ==
    /\ \A a \in A : a \in calls /\ CallStep(a)
    /\ \A e \in calls : e \in calls' \/ e \in A \/ mode'[Here(e)] = "down"

\* What is brought to a server that runs arrives, or is still brought to it.
LEMMA BringsStays ==
    ASSUME TypeInv, Served, NEW A, Steps(A), NEW x, NEW t \in Server, mode'[t] = "up", Brings(x, t)
    PROVE  Has(t, x.req)' \/ Brings(x, t)'
<1>1. CASE t \in x.todo
  BY <1>1 DEF Brings
<1>2. ASSUME NEW d \in calls, Sends(d, x), Here(d) = t, d.pc = "execute"
      PROVE  Has(t, x.req)' \/ Brings(x, t)'
  <2>1. CASE d \in calls'
    BY <1>2, <2>1 DEF Brings, Sends
  <2>2. CASE CallStep(d)
    <3>1. ~propogateHelper(d) /\ ~PropogateToMasters(d) /\ ~Return(d)
      BY <1>2 DEF propogateHelper, PropogateToMasters, Return, Returns
    <3>2. ~ExecuteUnknown(d)
      <4> SUFFICES ASSUME ExecuteUnknown(d) PROVE FALSE
        OBVIOUS
      <4>1. Die(Here(d))
        BY DEF ExecuteUnknown
      <4> QED BY <1>2, <4>1, Dying DEF TypeInv
    <3>3. Execute(d)
      BY <2>2, <3>1, <3>2 DEF CallStep
    <3>4. Has(t, d.req)'
      BY <1>2, <3>3, HasExecuted
    <3>5. d.req = x.req
      BY <1>2 DEF Sends
    <3> QED BY <3>4, <3>5
  <2> QED BY <1>2, <2>1, <2>2 DEF Steps
<1> QED BY <1>1, <1>2 DEF Brings

\* So it is by the call that sends it on.
LEMMA BringsOn ==
    ASSUME TypeInv, NEW x \in calls, propogateHelper(x), NEW t, mode[t] = "up", Brings(x, t),
           NEW y, y.req = x.req, y.path = x.path, y.todo = x.todo \ {Min(x.todo)}
    PROVE  Brings(y, t)'
<1>1. /\ calls' = (calls \ {x}) \cup {Rest(x)} \cup {d \in {Child(x)} : mode[Min(x.todo)] = "up"}
      /\ x.pc # "execute"
      /\ Here(Child(x)) = Min(x.todo) /\ Front(Child(x).path) = x.path
  BY Calling DEF TypeInv
<1>2. FromServer(Child(x)) /\ Child(x).req = x.req /\ Child(x).pc = "execute"
  BY ChildFromServer
<1>3. CASE t = Min(x.todo)
  <2>1. Child(x) \in calls'
    BY <1>1, <1>3
  <2>2. Sends(Child(x), y)
    BY <1>1, <1>2 DEF Sends
  <2> QED BY <1>1, <1>2, <1>3, <2>1, <2>2 DEF Brings
<1>4. CASE t # Min(x.todo) /\ t \in x.todo
  BY <1>4 DEF Brings
<1>5. ASSUME NEW d \in calls, Sends(d, x), Here(d) = t, d.pc = "execute"
      PROVE  Brings(y, t)'
  <2>1. d \in calls'
    BY <1>1, <1>5
  <2>2. Sends(d, y)
    BY <1>5 DEF Sends
  <2> QED BY <1>5, <2>1, <2>2 DEF Brings
<1> QED BY <1>3, <1>4, <1>5 DEF Brings

\* What is brought by way of a master arrives, or is still brought.
LEMMA ByStays ==
    ASSUME TypeInv, Served, NEW A, Steps(A), NEW c, ~Posting(c), NEW t \in Server, NEW h \in Server,
           mode[t] = "up", mode'[t] = "up", mode'[h] = "up", t # h, ClusterOf[t] = ClusterOf[h],
           t \in active, believes[h], BringsBy(c, t, h)
    PROVE  Has(t, c.req)' \/ BringsBy(c, t, h)'
<1>1. CASE h \in c.todo
  BY <1>1 DEF BringsBy
<1>2. ASSUME NEW d \in calls, Sends(d, c), Here(d) = h, d.pc = "execute" \/ Brings(d, t)
      PROVE  Has(t, c.req)' \/ BringsBy(c, t, h)'
  <2>1. d.req = c.req /\ FromServer(d) /\ ~Posting(d)
    BY <1>2 DEF Sends, Posting
  <2>2. ASSUME NEW y \in calls', y.req = d.req, y.path = d.path, Brings(y, t)'
        PROVE  BringsBy(c, t, h)'
    <3>1. Sends(y, c) /\ Here(y) = h
      BY <1>2, <2>2 DEF Sends, FromServer, Here
    <3> QED BY <2>2, <3>1 DEF BringsBy
  <2>3. CASE d \in calls'
    <3>1. CASE d.pc = "execute"
      BY <1>2, <2>3, <3>1 DEF BringsBy, Sends
    <3>2. CASE Brings(d, t)
      <4>1. Has(t, d.req)' \/ Brings(d, t)'
        BY <3>2, BringsStays
      <4>2. CASE Brings(d, t)'
        BY <2>2, <2>3, <4>2
      <4>3. CASE Has(t, d.req)'
        BY <2>1, <4>3
      <4> QED BY <4>1, <4>2, <4>3
    <3> QED BY <1>2, <3>1, <3>2
  <2>4. CASE Execute(d)
    <3>1. d.pc = "execute" /\ propogate(d) /\ GoesOn(d)
      BY <1>2, <2>1, <2>4 DEF Execute, GoesOn, Posting
    <3>2. PICK y \in calls' : y.req = d.req /\ y.path = d.path /\ y.todo = GetCounterparts(Here(d))
      BY <3>1, Moving
    <3>3. t \in GetCounterparts(h)
      BY DEF GetCounterparts
    <3>4. Brings(y, t)'
      BY <1>2, <3>2, <3>3 DEF Brings
    <3> QED BY <2>2, <3>2, <3>4
  <2>5. CASE ExecuteUnknown(d)
    <3>1. Die(Here(d))
      BY <2>5 DEF ExecuteUnknown
    <3> QED BY <1>2, <3>1, Dying DEF TypeInv
  <2>6. CASE propogateHelper(d)
    <3>1. Brings(d, t)
      BY <1>2, <2>6 DEF propogateHelper
    <3>2. PICK y \in calls' : y.req = d.req /\ y.path = d.path /\ y.todo = d.todo \ {Min(d.todo)}
      BY <2>6, Calling DEF TypeInv
    <3>3. Brings(y, t)'
      BY <2>6, <3>1, <3>2, BringsOn
    <3> QED BY <2>2, <3>2, <3>3
  <2>7. CASE PropogateToMasters(d)
    BY <2>1, <2>7 DEF PropogateToMasters
  <2>8. CASE Return(d)
    <3>1. ListDone(d) /\ d.pc # "execute"
      BY <2>8 DEF Return, Returns
    <3> QED BY <1>2, <3>1, NothingToBring
  <2> QED BY <1>2, <2>3, <2>4, <2>5, <2>6, <2>7, <2>8 DEF Steps, CallStep
<1> QED BY <1>1, <1>2 DEF BringsBy

\* The lock of a cluster is given back before another server takes it.
LEMMA HoldersStep ==
    ASSUME TypeInv, Served, Next, NEW k \in Cluster
    PROVE  holders'[k] = holders[k] \/ holders[k] = {} \/ holders'[k] = {}
<1>1. ASSUME NEW c \in calls, CallStep(c) PROVE holders' = holders
  BY <1>1, CallStepIs
<1>2. ASSUME NEW u \in User, NEW s \in Server, Send(u, s) PROVE holders' = holders
  BY <1>2 DEF Send
<1>3. ASSUME NEW s \in Server, Environment(s)
      PROVE  holders'[k] = holders[k] \/ holders[k] = {} \/ holders'[k] = {}
  <2>1. CASE Demote(s)
    <3>1. Lock!Release(s)
      BY <2>1 DEF Demote
    <3> QED BY <3>1, Releasing
  <2>2. CASE Heartbeat(s) \/ Register(s)
    <3>1. TakeFreeLock(s)
      BY <2>2 DEF Heartbeat, Register
    <3> QED BY <3>1, Taking
  <2>3. CASE ~Demote(s) /\ ~Heartbeat(s) /\ ~Register(s)
    <3>1. holders' = holders
      BY <1>3, <2>3 DEF Environment, Refresh, Crash, Deactivate, Learn, GetUsers, GetPosts,
                               GetPostsUnknown, GetLogFails, Listen
    <3> QED BY <3>1
  <2> QED BY <2>1, <2>2, <2>3
<1> QED BY <1>1, <1>2, <1>3 DEF Next

\* What does not change in a step about a server t that has to be reached from s.
Steady(s, t) ==
    /\ believes[s]
    /\ t \in Server /\ mode[t] = "up" /\ mode'[t] = "up"
    /\ ClusterOf[t] = ClusterOf[s] => t = s \/ t \in active
    /\ ClusterOf[t] # ClusterOf[s] =>
           /\ holders'[ClusterOf[t]] = holders[ClusterOf[t]] /\ holders[ClusterOf[t]] # {}
           /\ \A h \in holders[ClusterOf[t]] :
                 /\ h \in Server /\ ClusterOf[h] = ClusterOf[t]
                 /\ mode[h] = "up" /\ mode'[h] = "up"
                 /\ t # h => t \in active /\ believes[h]

\* A server that has to be reached before and after it.
LEMMA SteadyStep ==
    ASSUME TypeInv, Served, Next, NEW u \in User, NEW t \in MustReach(u), t \in MustReach(u)', at'[u] = at[u]
    PROVE  Steady(at[u], t)
<1>1. /\ at[u] \in Server /\ believes[at[u]] /\ t \in Server /\ mode[t] = "up"
      /\ ClusterOf[t] = ClusterOf[at[u]] => t = at[u] \/ t \in active
  BY MustReachIs
<1>2. mode'[t] = "up"
  BY DEF MustReach
<1>3. ASSUME ClusterOf[t] # ClusterOf[at[u]]
      PROVE  /\ holders'[ClusterOf[t]] = holders[ClusterOf[t]] /\ holders[ClusterOf[t]] # {}
             /\ \A h \in holders[ClusterOf[t]] :
                   /\ h \in Server /\ ClusterOf[h] = ClusterOf[t]
                   /\ mode[h] = "up" /\ mode'[h] = "up"
                   /\ t # h => t \in active /\ believes[h]
  <2> DEFINE k == ClusterOf[t]
  <2>1. k \in Cluster
    BY <1>1, ReplicationAssumption
  <2>2. PICK h \in holders[k] : mode[h] = "up" /\ (t = h \/ (t \in active /\ believes[h]))
    BY <1>3, MustReachIs
  <2>3. PICK g \in holders'[k] : mode'[g] = "up"
    BY <1>2, <1>3 DEF MustReach, IsMaster
  <2>4. holders'[k] = holders[k]
    BY <2>1, <2>2, <2>3, HoldersStep
  <2>5. \A x \in holders[k] : x \in Server /\ ClusterOf[x] = k /\ x = h
    BY <2>1, <2>2 DEF TypeInv, Types, Holders
  <2>6. g = h
    BY <2>3, <2>4, <2>5
  <2> QED BY <2>2, <2>3, <2>4, <2>5, <2>6
<1> QED BY <1>1, <1>2, <1>3 DEF Steady

\* The request of a call that does not make the step.
LEMMA ComingStays ==
    ASSUME TypeInv, Served, Next, NEW A, Steps(A), NEW c \in calls, NEW t, Steady(Here(c), t), Coming(c, t)
    PROVE  Has(t, c.req)' \/ Coming(c, t)'
<1>1. t \in Server /\ mode[t] = "up" /\ mode'[t] = "up"
  BY DEF Steady
<1>2. CASE ClusterOf[t] = ClusterOf[Here(c)]
  <2>1. Has(t, c.req)' \/ Brings(c, t)'
    BY <1>1, <1>2, BringsStays DEF Coming
  <2> QED BY <1>2, <2>1 DEF Coming
<1>3. CASE ClusterOf[t] # ClusterOf[Here(c)] /\ c.pc = "counterparts"
  BY <1>3 DEF Coming
<1>4. CASE ClusterOf[t] # ClusterOf[Here(c)] /\ c.pc # "counterparts"
  <2>1. PICK h \in holders[ClusterOf[t]] :
            IF h = t THEN Brings(c, t) ELSE Posting(c) \/ BringsBy(c, t, h)
    BY <1>4 DEF Coming
  <2>2. /\ holders'[ClusterOf[t]] = holders[ClusterOf[t]]
        /\ h \in Server /\ ClusterOf[h] = ClusterOf[t] /\ mode[h] = "up" /\ mode'[h] = "up"
        /\ t # h => t \in active /\ believes[h]
    BY <1>4, <2>1 DEF Steady
  <2>3. CASE h = t
    <3>1. Has(t, c.req)' \/ Brings(c, t)'
      BY <1>1, <2>1, <2>3, BringsStays
    <3> QED BY <1>4, <2>1, <2>2, <2>3, <3>1 DEF Coming
  <2>4. CASE h # t /\ Posting(c)
    BY <1>4, <2>1, <2>2, <2>4 DEF Coming
  <2>5. CASE h # t /\ ~Posting(c)
    <3>1. Has(t, c.req)' \/ BringsBy(c, t, h)'
      BY <1>1, <2>1, <2>2, <2>5, ByStays
    <3> QED BY <1>4, <2>1, <2>2, <2>5, <3>1 DEF Coming
  <2> QED BY <2>3, <2>4, <2>5
<1> QED BY <1>2, <1>3, <1>4

\* The request of the call of a client that makes the step.
LEMMA ComingCall ==
    ASSUME TypeInv, Served, Next, NEW c \in calls, CallStep(c), Steps({c}), ~FromServer(c),
           NEW t, Steady(Here(c), t), c.pc # "execute" => Has(t, c.req) \/ Coming(c, t),
           NEW d \in calls', d \notin calls, d.req = c.req, d.path = c.path
    PROVE  Has(t, c.req)' \/ Coming(d, t)'
<1> DEFINE s == Here(c)
           k == ClusterOf[t]
<1>1. /\ Types /\ s \in Server /\ c.req \in Request /\ Here(d) = s
      /\ t \in Server /\ mode[t] = "up" /\ mode'[t] = "up" /\ (Posting(d) <=> Posting(c))
  BY CallIs DEF TypeInv, Steady, Here, Posting
<1>2. Has(t, c.req) => Has(t, c.req)'
  BY <1>1, HasStays
<1>3. CASE Execute(c)
  <2>1. c.pc = "execute" /\ propogate(c) /\ GoesOn(c)
    BY <1>3 DEF Execute, GoesOn, Steady
  <2>2. d.pc = "counterparts" /\ d.todo = GetCounterparts(s)
    BY <2>1, Moving
  <2>3. CASE t = s
    BY <1>3, <2>3, HasExecuted
  <2>4. CASE t # s /\ k = ClusterOf[s]
    <3>1. t \in d.todo
      BY <1>1, <2>2, <2>4 DEF GetCounterparts, Steady
    <3> QED BY <1>1, <2>4, <3>1 DEF Coming, Brings
  <2>5. CASE k # ClusterOf[s]
    BY <1>1, <2>2, <2>5 DEF Coming
  <2> QED BY <2>3, <2>4, <2>5
<1>4. CASE ExecuteUnknown(c) \/ Return(c)
  BY <1>4 DEF ExecuteUnknown, Return, Die
<1>5. CASE propogateHelper(c)
  <2>1. /\ Min(c.todo) \in c.todo /\ c.pc # "execute"
        /\ Rest(c).pc = c.pc /\ Rest(c).todo = c.todo \ {Min(c.todo)}
        /\ Here(Child(c)) = Min(c.todo) /\ Front(Child(c).path) = c.path
        /\ calls' = (calls \ {c}) \cup {Rest(c)} \cup {e \in {Child(c)} : mode[Min(c.todo)] = "up"}
    BY <1>1, <1>5, Calling
  <2>2. FromServer(Child(c)) /\ Child(c).req = c.req /\ Child(c).pc = "execute"
    BY <1>5, ChildFromServer
  <2>3. d = Rest(c)
    BY <2>1, <2>2 DEF FromServer
  <2>4. d.pc = c.pc /\ d.todo = c.todo \ {Min(c.todo)}
    BY <2>1, <2>3
  <2>5. ASSUME NEW x, mode[x] = "up", Brings(c, x) PROVE Brings(d, x)'
    BY <1>5, <2>4, <2>5, BringsOn
  <2>6. CASE Has(t, c.req)
    BY <1>2, <2>6
  <2>7. CASE Coming(c, t) /\ k = ClusterOf[s]
    BY <1>1, <2>5, <2>7 DEF Coming
  <2>8. CASE k # ClusterOf[s] /\ c.pc = "counterparts"
    BY <1>1, <2>4, <2>8 DEF Coming
  <2>9. CASE Coming(c, t) /\ k # ClusterOf[s] /\ c.pc # "counterparts"
    <3>1. PICK h \in holders[k] : IF h = t THEN Brings(c, t) ELSE Posting(c) \/ BringsBy(c, t, h)
      BY <2>9 DEF Coming
    <3>2. /\ holders'[k] = holders[k] /\ h \in Server /\ mode[h] = "up" /\ mode'[h] = "up"
          /\ ClusterOf[h] = k /\ (t # h => t \in active /\ believes[h])
      BY <2>9, <3>1 DEF Steady
    <3>3. CASE h = t
      BY <1>1, <2>5, <2>9, <3>1, <3>2, <3>3 DEF Coming
    <3>4. CASE h # t /\ Posting(c)
      BY <1>1, <2>9, <3>1, <3>2, <3>4 DEF Coming
    <3>5. CASE h # t /\ ~Posting(c)
      <4>1. CASE h \in c.todo
        <5>1. Brings(c, h)
          BY <4>1 DEF Brings
        <5>2. Brings(d, h)'
          BY <2>5, <3>2, <5>1
        <5>3. BringsBy(d, t, h)'
          BY <5>2 DEF Brings, BringsBy
        <5> QED BY <1>1, <2>9, <3>2, <3>5, <5>3 DEF Coming
      <4>2. ASSUME NEW e \in calls, Sends(e, c), Here(e) = h, e.pc = "execute" \/ Brings(e, t)
            PROVE  Has(t, c.req)' \/ BringsBy(d, t, h)'
        <5>1. Sends(e, d) /\ e \in calls' /\ e.req = c.req
          BY <2>1, <4>2 DEF Sends
        <5>2. e.pc = "execute" \/ Has(t, e.req)' \/ Brings(e, t)'
          BY <1>1, <4>2, BringsStays
        <5> QED BY <4>2, <5>1, <5>2 DEF BringsBy
      <4>3. BringsBy(c, t, h)
        BY <3>1, <3>5
      <4>4. CASE BringsBy(d, t, h)'
        BY <1>1, <2>9, <3>2, <3>5, <4>4 DEF Coming
      <4> QED BY <4>1, <4>2, <4>3, <4>4 DEF BringsBy
    <3> QED BY <3>3, <3>4, <3>5
  <2> QED BY <2>1, <2>6, <2>7, <2>8, <2>9
<1>6. CASE PropogateToMasters(c)
  <2>1. c.pc = "counterparts" /\ ListDone(c)
    BY <1>6 DEF PropogateToMasters
  <2>2. d.pc = "others" /\ d.todo = GetOtherClusterMasters(s)
    BY <1>6, Turning
  <2>3. CASE k = ClusterOf[s]
    <3>1. Has(t, c.req)
      BY <2>1, <2>3, NothingToBring DEF Coming
    <3> QED BY <1>2, <3>1
  <2>4. CASE k # ClusterOf[s]
    <3>1. PICK h \in holders[k] : TRUE
      BY <2>4 DEF Steady
    <3>2. holders'[k] = holders[k] /\ h \in Server /\ ClusterOf[h] = k
      BY <2>4, <3>1 DEF Steady
    <3>3. h \in GetOtherClusterMasters(s)
      BY <1>1, <2>4, <3>1, <3>2, MasterIsOther DEF IsMaster
    <3>4. Brings(d, h)' /\ BringsBy(d, t, h)'
      BY <2>2, <3>3 DEF Brings, BringsBy
    <3> QED BY <1>1, <2>4, <3>1, <3>2, <3>4 DEF Coming
  <2> QED BY <2>3, <2>4
<1> QED BY <1>3, <1>4, <1>5, <1>6 DEF CallStep

\* Every step keeps this.
LEMMA CoverStep ==
    ASSUME TypeInv, Rooted, CoverInv, [Next]_vars
    PROVE  CoverInv'
<1>1. TypeInv' /\ Rooted' /\ Served
  BY TypesStep, RootedStep DEF Rooted
<1>2. CASE UNCHANGED vars
  <2>1. \A c, t : Has(t, c.req)' = Has(t, c.req) /\ Coming(c, t)' = Coming(c, t)
    BY <1>2 DEF vars, servers, Has, Coming, Brings, BringsBy
  <2>2. \A u \in User : MustReach(u)' = MustReach(u) /\ Root(u)' = Root(u)
    BY <1>2 DEF vars, servers, clients, MustReach, Root, IsMaster
  <2> QED BY <1>2, <2>1, <2>2 DEF vars, CoverInv
<1>3. CASE Next
  <2>1. \A u \in User : covered'[u] = IF Root(u)' = {} THEN {}
                                      ELSE IF Root(u) = {} THEN MustReach(u)'
                                      ELSE MustReach(u)' \cap covered[u]
    BY <1>3, HistoryIs
  <2>2. \A u \in User : covered'[u] \subseteq MustReach(u)' /\ (covered'[u] # {} => Root(u)' # {})
    BY <2>1
  <2>3. ASSUME NEW d \in calls', ~FromServer(d), d.pc # "execute", NEW t \in covered'[d.req.user]
        PROVE  Has(t, d.req)' \/ Coming(d, t)'
    <3> DEFINE u == d.req.user
    <3>1. u \in User /\ d \in Root(u)'
      <4>1. d.req \in Request
        BY <1>1 DEF TypeInv, Types, CallType
      <4> QED BY <2>3, <4>1 DEF Root, Request
    <3>2. ASSUME NEW c \in calls, c.req = d.req, c.path = d.path,
                 at'[u] = at[u], NEW A, Steps(A),
                 IF d \in calls THEN c = d ELSE A = {c} /\ CallStep(c)
          PROVE  Has(t, d.req)' \/ Coming(d, t)'
      <4>1. c \in Root(u) /\ ~FromServer(c)
        BY <2>3, <3>2 DEF Root, FromServer
      <4>2. t \in covered[u] /\ t \in MustReach(u)' /\ t \in MustReach(u)
        BY <2>1, <2>3, <3>1, <4>1 DEF CoverInv
      <4>3. Here(c) = at[u]
        BY <3>2, <4>1 DEF Rooted
      <4>4. Steady(Here(c), t)
        BY <1>1, <1>3, <3>1, <3>2, <4>2, <4>3, SteadyStep
      <4>5. c.pc # "execute" => Has(t, c.req) \/ Coming(c, t)
        BY <3>2, <4>1, <4>2 DEF CoverInv
      <4>6. CASE d \in calls
        <5>1. c = d /\ c.pc # "execute"
          BY <2>3, <3>2, <4>6
        <5>2. CASE Has(t, c.req)
          <6>1. t \in Server /\ mode[t] = "up" /\ mode'[t] = "up" /\ c.req \in Request
            BY <4>4, CallIs DEF Steady, TypeInv
          <6> QED BY <1>1, <1>3, <5>1, <5>2, <6>1, HasStays
        <5>3. CASE Coming(c, t)
          BY <1>1, <1>3, <3>2, <4>4, <5>1, <5>3, ComingStays
        <5> QED BY <4>5, <5>1, <5>2, <5>3
      <4>7. CASE d \notin calls
        BY <1>1, <1>3, <3>2, <4>1, <4>4, <4>5, <4>7, ComingCall
      <4> QED BY <4>6, <4>7
    <3>3. ASSUME NEW c \in calls, CallStep(c) PROVE Has(t, d.req)' \/ Coming(d, t)'
      <4>1. /\ at' = at
            /\ \A e \in calls' : \/ e \in calls
                                 \/ e.req = c.req /\ e.path = c.path
                                 \/ e = Child(c) /\ propogateHelper(c)
            /\ \A e \in calls : e \in calls' \/ e = c \/ mode'[Here(e)] = "down"
        BY <1>1, <3>3, CallStepIs
      <4>2. Steps({c})
        BY <3>3, <4>1 DEF Steps
      <4>3. CASE d \in calls
        BY <3>2, <4>1, <4>2, <4>3
      <4>4. CASE d \notin calls
        <5>1. d.req = c.req /\ d.path = c.path
          BY <2>3, <4>1, <4>4, ChildFromServer
        <5> QED BY <3>2, <3>3, <4>1, <4>2, <4>4, <5>1
      <4> QED BY <4>3, <4>4
    <3>4. ASSUME NEW v \in User, NEW s \in Server, Send(v, s) PROVE Has(t, d.req)' \/ Coming(d, t)'
      <4>1. PICK r : calls' = calls \cup {[req |-> r, path |-> <<s>>, todo |-> {}, pc |-> "execute"]}
        BY <3>4 DEF Send
      <4>2. d \in calls /\ Root(v) = {} /\ at' = [at EXCEPT ![v] = s]
        BY <2>3, <3>4, <4>1 DEF Send
      <4>3. u # v
        BY <2>3, <4>2 DEF Root
      <4>4. at'[u] = at[u]
        BY <3>1, <4>2, <4>3 DEF TypeInv, Types
      <4>5. Steps({})
        BY <4>1 DEF Steps
      <4> QED BY <3>2, <4>2, <4>4, <4>5
    <3>5. ASSUME NEW s \in Server, Environment(s) PROVE Has(t, d.req)' \/ Coming(d, t)'
      <4>1. /\ at' = at /\ calls' \subseteq calls
            /\ \A e \in calls : e \in calls' \/ mode'[Here(e)] = "down"
        BY <1>1, <3>5, EnvironmentIs
      <4>2. Steps({}) /\ d \in calls
        BY <4>1 DEF Steps
      <4> QED BY <3>2, <4>1, <4>2
    <3> QED BY <1>3, <3>3, <3>4, <3>5 DEF Next
  <2> QED BY <2>2, <2>3 DEF CoverInv
<1> QED BY <1>2, <1>3

\* The invariant holds at first.
LEMMA CoverInit == Init => CoverInv
BY DEF Init, CoverInv

-----------------------------------------------------------------------------
(* Posts are not where they are not sent *)

\* The posts of a user are not more than the user has made.
Counting == \A t \in Server, u \in User : \A n \in ToSet(posts[t][u]) : n <= sent[u]

\* A post that a server has sent on stays there.
PostsEnd == \A d \in calls : Posting(d) /\ FromServer(d) => d.todo = {}

\* The post of a client keeps away from the slaves of other clusters.
KeepsAway ==
    \A c \in calls : Posting(c) /\ ~FromServer(c) =>
        \A t \in covered[c.req.user] :
            ClusterOf[t] # ClusterOf[Here(c)] /\ ~IsMaster(t) =>
                Untouched(c.req, t) /\ t \notin c.todo

AwayInv == Counting /\ PostsEnd /\ KeepsAway

\* The first items of a sequence are items of it.
LEMMA ItemsFirst ==
    ASSUME NEW S, NEW q \in Seq(S), NEW k \in Nat, k <= Len(q)
    PROVE  ToSet(SubSeq(q, 1, k)) \subseteq ToSet(q)
<1>1. \A i \in 1 .. k : q[i] \in S /\ i \in 1 .. Len(q)
  OBVIOUS
<1>2. /\ DOMAIN SubSeq(q, 1, k) = 1 .. k
      /\ \A i \in 1 .. k : SubSeq(q, 1, k)[i] = q[i]
  BY <1>1
<1>3. DOMAIN q = 1 .. Len(q)
  OBVIOUS
<1> QED BY <1>1, <1>2, <1>3 DEF ToSet

\* The posts that the environment brings to a server are those of some server.
LEMMA PostsFrom ==
    ASSUME TypeInv, Served, NEW s \in Server, Environment(s), NEW t \in Server, NEW u \in User
    PROVE  \E q \in Server : ToSet(posts'[t][u]) \subseteq ToSet(posts[q][u])
<1>1. Types /\ Sources
  BY DEF TypeInv
<1>2. CASE posts'[t] = posts[t]
  BY <1>2
<1>3. CASE Register(s)
  <2>1. posts' = posts \/ posts' = [posts EXCEPT ![s] = Empty]
    BY <1>3 DEF Register
  <2>2. posts'[t] = posts[t] \/ posts'[t] = Empty
    BY <1>1, <2>1 DEF Types
  <2>3. ToSet(Empty[u]) = {}
    BY DEF Empty, ToSet
  <2> QED BY <2>2, <2>3
<1>4. CASE GetPosts(s)
  <2>1. source[s] \in Server /\ posts' = [posts EXCEPT ![s] = posts[source[s]]]
    BY <1>1, <1>4 DEF GetPosts, Sources
  <2>2. posts'[t] = posts[t] \/ posts'[t] = posts[source[s]]
    BY <1>1, <2>1 DEF Types
  <2> QED BY <2>1, <2>2
<1>5. CASE GetPostsUnknown(s)
  <2> DEFINE copy == posts[source[s]]
  <2>1. source[s] \in Server /\ copy \in [User -> Seq(1 .. MaxRequests)]
    BY <1>1, <1>5 DEF GetPostsUnknown, Sources, Types
  <2>2. PICK x \in User : /\ copy[x] # <<>>
                          /\ \E upTo \in [User \ {x} -> 0 .. MaxRequests] :
                                /\ \A v \in User \ {x} : upTo[v] <= Len(copy[v])
                                /\ posts' = [posts EXCEPT ![s] =
                                     [v \in User |-> SubSeq(copy[v], 1, IF v = x THEN 1 ELSE upTo[v])]]
    BY <1>5 DEF GetPostsUnknown
  <2>3. PICK upTo \in [User \ {x} -> 0 .. MaxRequests] :
          /\ \A v \in User \ {x} : upTo[v] <= Len(copy[v])
          /\ posts' = [posts EXCEPT ![s] =
               [v \in User |-> SubSeq(copy[v], 1, IF v = x THEN 1 ELSE upTo[v])]]
    BY <2>2
  <2> HIDE DEF copy
  <2> DEFINE m == IF u = x THEN 1 ELSE upTo[u]
  <2>4. copy[u] \in Seq(1 .. MaxRequests) /\ m \in Nat /\ m <= Len(copy[u])
    <3>1. CASE u = x
      BY <2>1, <2>2, <3>1
    <3>2. CASE u # x
      BY <2>1, <2>3, <3>2, ReplicationAssumption
    <3> QED BY <3>1, <3>2
  <2>5. posts'[t] = posts[t] \/ posts'[t][u] = SubSeq(copy[u], 1, m)
    BY <1>1, <2>3 DEF Types
  <2> HIDE DEF m
  <2>6. ToSet(SubSeq(copy[u], 1, m)) \subseteq ToSet(copy[u])
    BY <2>4, ItemsFirst
  <2> QED BY <2>1, <2>5, <2>6 DEF copy
<1>6. CASE ~Register(s) /\ ~GetPosts(s) /\ ~GetPostsUnknown(s)
  <2>1. ASSUME NEW v \in User, Refresh(v, s) PROVE posts' = posts
    BY <2>1 DEF Refresh, servers
  <2>2. posts' = posts
    BY <1>6, <2>1 DEF Environment, Crash, Demote, Deactivate, Heartbeat, Learn, GetUsers,
                      GetLogFails, Listen, servers
  <2> QED BY <2>2
<1> QED BY <1>3, <1>4, <1>5, <1>6

\* Every step keeps the numbers of posts.
LEMMA CountingStep ==
    ASSUME TypeInv, Rooted, Counting, Next
    PROVE  Counting'
<1>1. /\ Types /\ Served
      /\ \A v \in User : sent[v] \in Nat
      /\ \A t \in Server, v \in User : posts[t][v] \in Seq(1 .. MaxRequests)
  BY ReplicationAssumption DEF TypeInv, Types, Rooted
<1> SUFFICES ASSUME NEW t \in Server, NEW u \in User, NEW n \in ToSet(posts'[t][u])
             PROVE  n <= sent'[u]
  BY DEF Counting
<1>2. ASSUME NEW c \in calls, CallStep(c) PROVE n <= sent'[u]
  <2>1. c.req.n \in 1 .. MaxRequests /\ c.req.n <= sent[c.req.user] /\ sent' = sent
    BY <1>1, <1>2, CallIs, CallStepIs DEF Rooted
  <2>2. CASE posts'[t][u] = posts[t][u]
    BY <2>1, <2>2 DEF Counting
  <2>3. CASE u = c.req.user /\ posts'[t][u] = Append(posts[t][u], c.req.n)
    <3>1. ToSet(posts'[t][u]) = ToSet(posts[t][u]) \cup {c.req.n}
      BY <1>1, <2>1, <2>3, PostsAppend
    <3> QED BY <2>1, <2>3, <3>1 DEF Counting
  <2> QED BY <1>2, <2>2, <2>3, StoresPost
<1>3. ASSUME NEW v \in User, NEW s \in Server, Send(v, s) PROVE n <= sent'[u]
  <2>1. posts' = posts /\ sent' = [sent EXCEPT ![v] = @ + 1]
    BY <1>3 DEF Send, servers
  <2>2. ToSet(posts[t][u]) \subseteq 1 .. MaxRequests
    BY <1>1, ItemsOf
  <2>3. n \in Nat /\ n <= sent[u]
    BY <2>1, <2>2 DEF Counting
  <2>4. sent'[u] = sent[u] \/ sent'[u] = sent[u] + 1
    BY <1>1, <2>1 DEF Types
  <2> QED BY <1>1, <2>3, <2>4
<1>4. ASSUME NEW s \in Server, Environment(s) PROVE n <= sent'[u]
  <2>1. sent' = sent
    BY <1>1, <1>4, EnvironmentIs
  <2>2. PICK q \in Server : ToSet(posts'[t][u]) \subseteq ToSet(posts[q][u])
    BY <1>1, <1>4, PostsFrom
  <2> QED BY <2>1, <2>2 DEF Counting
<1> QED BY <1>2, <1>3, <1>4 DEF Next

\* Every step keeps posts from going on.
LEMMA PostsEndStep ==
    ASSUME TypeInv, Rooted, PostsEnd, Next
    PROVE  PostsEnd'
<1>1. Types /\ Served
  BY DEF TypeInv, Rooted
<1> SUFFICES ASSUME NEW d \in calls', Posting(d), FromServer(d), d \notin calls
             PROVE  d.todo = {}
  BY DEF PostsEnd
<1>2. ASSUME NEW c \in calls, CallStep(c), d.req = c.req, d.path = c.path PROVE d.todo = {}
  <2>1. c.todo = {} /\ Posting(c) /\ FromServer(c)
    BY <1>2 DEF PostsEnd, Posting, FromServer
  <2>2. CASE Execute(c)
    <3>1. c.pc = "execute" /\ propogate(c) /\ ~GoesOn(c)
      BY <2>1, <2>2 DEF Execute, GoesOn, Posting
    <3> QED BY <3>1, Moving
  <2>3. CASE ~Execute(c)
    <3>1. ~propogateHelper(c) /\ ~PropogateToMasters(c)
      BY <2>1 DEF propogateHelper, PropogateToMasters
    <3>2. calls' \subseteq calls
      BY <1>2, <2>3, <3>1 DEF CallStep, ExecuteUnknown, Die, Return
    <3> QED BY <3>2
  <2> QED BY <2>2, <2>3
<1>3. ASSUME NEW c \in calls, CallStep(c) PROVE d.todo = {}
  BY <1>1, <1>2, <1>3, CallStepIs, ChildFromServer
<1>4. ASSUME NEW u \in User, NEW s \in Server, Send(u, s) PROVE d.todo = {}
  BY <1>4 DEF Send
<1>5. ASSUME NEW s \in Server, Environment(s) PROVE d.todo = {}
  BY <1>1, <1>5, EnvironmentIs
<1> QED BY <1>3, <1>4, <1>5 DEF Next

\* A new post is nowhere else yet.
LEMMA AwaySend ==
    ASSUME TypeInv, Rooted, Counting, NEW u \in User, NEW s \in Server, Send(u, s),
           NEW d \in calls', d \notin calls, NEW t \in Server, t # Here(d)
    PROVE  Untouched(d.req, t)' /\ d.todo = {}
<1>1. PICK r \in Request : /\ calls' = calls \cup {d} /\ d.req = r /\ d.todo = {}
                           /\ r.user = u /\ r.n = sent[u] + 1 /\ posts' = posts
  <2> DEFINE D(r) == [req |-> r, path |-> <<s>>, todo |-> {}, pc |-> "execute"]
  <2>1. PICK r \in Requests(u, s) :
              LET e == D(r)
              IN  /\ calls' = calls \cup {e}
                  /\ e.req = r /\ e.path = <<s>> /\ e.todo = {} /\ e.pc = "execute"
                  /\ Here(e) = s /\ ~FromServer(e)
                  /\ r.user = u /\ r.n = sent[u] + 1 /\ r \in Request
                  /\ r.op = "login" <=> phase[u] = "new"
                  /\ r.op = "post" => r.target = u
                  /\ mode[s] = "up" /\ Root(u) = {}
                  /\ at' = [at EXCEPT ![u] = s] /\ sent' = [sent EXCEPT ![u] = @ + 1]
                  /\ UNCHANGED <<holders, active, servers, stub, phase>>
    BY Sending
  <2> HIDE DEF D
  <2>2. d = D(r)
    BY <2>1
  <2> QED BY <2>1, <2>2 DEF servers
<1>2. sent[u] \in Nat /\ Types /\ posts[t][u] \in Seq(1 .. MaxRequests)
  BY ReplicationAssumption DEF TypeInv, Types
<1>3. d.req.n \notin ToSet(posts'[t][u])
  <2>1. ToSet(posts[t][u]) \subseteq 1 .. MaxRequests
    BY <1>2, ItemsOf
  <2>2. \A n \in ToSet(posts[t][u]) : n \in Nat /\ n <= sent[u]
    BY <2>1 DEF Counting
  <2>3. \A n \in Nat : n <= sent[u] => n # sent[u] + 1
    BY <1>2
  <2> QED BY <1>1, <2>2, <2>3
<1>4. \A e \in calls : ~Same(e.req, d.req)
  <2> SUFFICES ASSUME NEW e \in calls, Same(e.req, d.req) PROVE FALSE
    OBVIOUS
  <2>1. e.req.n \in 1 .. MaxRequests /\ e.req.n <= sent[e.req.user]
    BY <1>2, CallIs DEF Rooted
  <2>2. e.req.user = u /\ e.req.n = sent[u] + 1
    BY <1>1 DEF Same
  <2> QED BY <1>2, <2>1, <2>2
<1> QED BY <1>1, <1>3, <1>4 DEF Untouched

\* A step of a call brings no post to a slave of another cluster.
LEMMA AwayCall ==
    ASSUME TypeInv, Rooted, PostsEnd, NEW e \in calls, CallStep(e),
           NEW c \in calls, Posting(c), ~FromServer(c),
           NEW t \in Server, Untouched(c.req, t), t \notin c.todo,
           ClusterOf[t] # ClusterOf[Here(c)], ~IsMaster(t),
           NEW d \in calls', d.req = c.req, d.path = c.path
    PROVE  Untouched(c.req, t)' /\ t \notin d.todo
<1>1. /\ Types /\ Served /\ c.req.user \in User /\ Here(c) \in Server
      /\ posts[t][c.req.user] \in Seq(1 .. MaxRequests) /\ e.req.n \in 1 .. MaxRequests
  <2>1. Types /\ Served
    BY DEF TypeInv, Rooted
  <2>2. c.req.user \in User /\ Here(c) \in Server /\ e.req.n \in 1 .. MaxRequests
    BY <2>1, CallIs
  <2>3. posts[t][c.req.user] \in Seq(1 .. MaxRequests)
    BY <2>1, <2>2 DEF Types
  <2> QED BY <2>1, <2>2, <2>3
<1>2. c.req.n \notin ToSet(posts'[t][c.req.user])
  <2>1. c.req.n \notin ToSet(posts[t][c.req.user])
    BY DEF Untouched
  <2>2. CASE posts'[t][c.req.user] = posts[t][c.req.user]
    BY <2>1, <2>2
  <2>3. CASE /\ Posting(e) /\ t = Here(e) /\ c.req.user = e.req.user
             /\ posts'[t][c.req.user] = Append(posts[t][c.req.user], e.req.n)
    <3>1. e.req.n # c.req.n
      BY <2>3 DEF Untouched, Same
    <3>2. ToSet(posts'[t][c.req.user]) = ToSet(posts[t][c.req.user]) \cup {e.req.n}
      BY <1>1, <2>3, PostsAppend
    <3> QED BY <2>1, <3>1, <3>2
  <2> QED BY <1>1, <2>2, <2>3, StoresPost
<1>3. ASSUME NEW b \in calls', Posting(b), Same(b.req, c.req) PROVE Here(b) # t
  <2>1. CASE b \in calls
    BY <1>3, <2>1 DEF Untouched
  <2>2. CASE b.req = e.req /\ b.path = e.path
    BY <1>3, <2>2 DEF Untouched, Posting, Here
  <2>3. CASE b = Child(e) /\ propogateHelper(e)
    <3>1. /\ Child(e).req = e.req /\ Here(Child(e)) = Min(e.todo) /\ Min(e.todo) \in e.todo
      BY <1>1, <2>3, Calling, ChildFromServer
    <3>2. Posting(e) /\ e.req.user = c.req.user
      BY <1>3, <2>3, <3>1 DEF Posting, Same
    <3>3. ~FromServer(e)
      BY <3>1, <3>2 DEF PostsEnd
    <3>4. e = c
      BY <3>2, <3>3 DEF Rooted
    <3> QED BY <2>3, <3>1, <3>4
  <2> QED BY <1>1, <2>1, <2>2, <2>3, CallStepIs
<1>4. t \notin d.todo
  <2>1. CASE d \in calls
    <3>1. d = c
      BY <2>1 DEF Rooted, FromServer
    <3> QED BY <3>1
  <2>2. CASE d \notin calls
    <3>1. e = c
      <4>1. d.req = e.req /\ d.path = e.path
        <5>1. ~FromServer(d)
          BY DEF FromServer
        <5> QED BY <1>1, <2>2, <5>1, CallStepIs, ChildFromServer
      <4> QED BY <4>1 DEF Rooted, FromServer
    <3>2. CASE Execute(c)
      <4>1. c.pc = "execute" /\ propogate(c)
        BY <3>2 DEF Execute
      <4>2. d = Moved(c) /\ (d.todo = GetCounterparts(Here(c)) \/ d.todo = {})
        BY <2>2, <4>1, Moving
      <4> QED BY <4>2 DEF GetCounterparts
    <3>3. CASE propogateHelper(c)
      <4>1. /\ Rest(c).todo = c.todo \ {Min(c.todo)}
            /\ \A b \in calls' : b \in calls \/ b = Rest(c) \/ b = Child(c)
        BY <1>1, <3>3, Calling
      <4>2. d # Child(c)
        BY <3>3, ChildFromServer DEF FromServer
      <4> QED BY <2>2, <4>1, <4>2
    <3>4. CASE PropogateToMasters(c)
      <4>1. d = Turned(c) /\ d.todo = GetOtherClusterMasters(Here(c))
        BY <2>2, <3>4, Turning
      <4> QED BY <1>1, <4>1, OtherMasters
    <3>5. CASE ExecuteUnknown(c) \/ Return(c)
      BY <2>2, <3>5 DEF ExecuteUnknown, Return, Die
    <3> QED BY <3>1, <3>2, <3>3, <3>4, <3>5 DEF CallStep
  <2> QED BY <2>1, <2>2
<1> QED BY <1>2, <1>3, <1>4 DEF Untouched

\* Every step keeps this.
LEMMA AwayStep ==
    ASSUME TypeInv, Rooted, CoverInv, AwayInv, [Next]_vars
    PROVE  AwayInv'
<1>1. CASE UNCHANGED vars
  BY <1>1 DEF vars, servers, clients, AwayInv, Counting, PostsEnd, KeepsAway, Untouched, IsMaster
<1>2. CASE Next
  <2>1. TypeInv' /\ Rooted' /\ CoverInv' /\ Served /\ Counting' /\ PostsEnd'
    BY <1>2, TypesStep, RootedStep, CoverStep, CountingStep, PostsEndStep DEF AwayInv, Rooted
  <2> SUFFICES ASSUME NEW d \in calls', Posting(d), ~FromServer(d), NEW t \in covered'[d.req.user],
                      ClusterOf[t] # ClusterOf[Here(d)], ~IsMaster(t)'
               PROVE  Untouched(d.req, t)' /\ t \notin d.todo
    BY <2>1 DEF AwayInv, KeepsAway
  <2> DEFINE u == d.req.user
  <2>2. u \in User /\ d \in Root(u)'
    <3>1. d.req \in Request
      BY <2>1 DEF TypeInv, Types, CallType
    <3> QED BY <3>1 DEF Root, Request
  <2>3. /\ t \in Server
        /\ covered'[u] = IF Root(u)' = {} THEN {}
                         ELSE IF Root(u) = {} THEN MustReach(u)'
                         ELSE MustReach(u)' \cap covered[u]
    BY <1>2, <2>1, <2>2, HistoryIs DEF CoverInv, MustReach
  <2>4. ASSUME NEW c \in calls, d.req = c.req, d.path = c.path, at'[u] = at[u]
        PROVE  /\ Posting(c) /\ ~FromServer(c) /\ Untouched(c.req, t) /\ t \notin c.todo
               /\ ClusterOf[t] # ClusterOf[Here(c)] /\ ~IsMaster(t)
               /\ mode[t] = "up" /\ mode'[t] = "up"
    <3>1. Posting(c) /\ ~FromServer(c) /\ Here(c) = Here(d) /\ c \in Root(u)
      BY <2>4 DEF Posting, FromServer, Here, Root
    <3>2. t \in covered[u] /\ t \in MustReach(u)' /\ t \in MustReach(u)
      BY <2>2, <2>3, <3>1 DEF CoverInv
    <3>3. Here(c) = at[u]
      BY <2>4, <3>1 DEF Rooted
    <3>4. Steady(Here(c), t)
      BY <1>2, <2>1, <2>2, <2>4, <3>2, <3>3, SteadyStep
    <3>5. ~IsMaster(t) /\ mode[t] = "up" /\ mode'[t] = "up"
      BY <3>1, <3>4 DEF Steady, IsMaster
    <3> QED BY <2>4, <3>1, <3>2, <3>5 DEF AwayInv, KeepsAway
  <2>5. ASSUME NEW e \in calls, CallStep(e) PROVE Untouched(d.req, t)' /\ t \notin d.todo
    <3>1. at' = at
      BY <2>1, <2>5, CallStepIs
    <3>2. PICK c \in calls : d.req = c.req /\ d.path = c.path
      BY <2>1, <2>5, CallStepIs, ChildFromServer
    <3> QED BY <2>3, <2>4, <2>5, <3>1, <3>2, AwayCall DEF AwayInv
  <2>6. ASSUME NEW v \in User, NEW s \in Server, Send(v, s)
        PROVE  Untouched(d.req, t)' /\ t \notin d.todo
    <3>1. CASE d \notin calls
      <4>1. t # Here(d)
        OBVIOUS
      <4> QED BY <2>3, <2>6, <3>1, <4>1, AwaySend DEF AwayInv
    <3>2. CASE d \in calls
      <4>1. PICK r \in Requests(v, s) :
                calls' = calls \cup {[req |-> r, path |-> <<s>>, todo |-> {}, pc |-> "execute"]}
        BY <2>6 DEF Send
      <4>2. /\ Root(v) = {} /\ at' = [at EXCEPT ![v] = s] /\ posts' = posts
            /\ r.user = v /\ r.n = sent[v] + 1
        BY <2>6, RequestsAre DEF Send, servers, TypeInv
      <4>3. u # v
        BY <3>2, <4>2 DEF Root
      <4>4. at'[u] = at[u]
        BY <2>2, <4>2, <4>3 DEF TypeInv, Types
      <4>5. Untouched(d.req, t) /\ t \notin d.todo
        BY <2>4, <3>2, <4>4
      <4>6. \A b \in calls' : b \in calls \/ b.req.user = v
        BY <4>1, <4>2
      <4> QED BY <4>2, <4>3, <4>5, <4>6 DEF Untouched, Same
    <3> QED BY <3>1, <3>2
  <2>7. ASSUME NEW s \in Server, Environment(s) PROVE Untouched(d.req, t)' /\ t \notin d.todo
    <3>1. at' = at /\ calls' \subseteq calls
      BY <2>1, <2>7, EnvironmentIs
    <3>2. Untouched(d.req, t) /\ t \notin d.todo /\ mode[t] = "up"
      BY <2>4, <3>1
    <3>3. posts'[t] = posts[t]
      BY <2>1, <2>3, <2>7, <3>2, EnvironmentIs
    <3> QED BY <3>1, <3>2, <3>3 DEF Untouched
  <2> QED BY <1>2, <2>5, <2>6, <2>7 DEF Next
<1> QED BY <1>1, <1>2

\* The invariant holds at first.
LEMMA AwayInit == Init => AwayInv
<1> SUFFICES ASSUME Init PROVE AwayInv
  OBVIOUS
<1>1. calls = {} /\ \A s \in Server, u \in User : posts[s][u] = <<>>
  BY DEF Init, Empty
<1>2. ToSet(<<>>) = {}
  BY DEF ToSet
<1> QED BY <1>1, <1>2 DEF AwayInv, Counting, PostsEnd, KeepsAway

-----------------------------------------------------------------------------
(* What answers mean *)

\* What it says about answers.
LEMMA AnsweredHas ==
    ASSUME TypeInv, Rooted, CoverInv, NEW c \in Answered, NEW t \in covered[c.req.user],
           c.req.op # "post" \/ ClusterOf[t] = ClusterOf[Here(c)] \/ IsMaster(t)
    PROVE  Has(t, c.req)
<1>1. c \in calls /\ ~FromServer(c) /\ c.pc = "others" /\ ListDone(c)
  BY DEF Answered, Returns
<1>2. Has(t, c.req) \/ Coming(c, t)
  BY <1>1 DEF CoverInv
<1>3. ~Brings(c, t) /\ \A h : ~BringsBy(c, t, h)
  BY <1>1, NothingToBring
<1>4. SUFFICES ASSUME Coming(c, t) PROVE FALSE
  BY <1>2
<1>5. PICK h \in holders[ClusterOf[t]] : h # t /\ Posting(c) /\ ClusterOf[t] # ClusterOf[Here(c)]
  BY <1>1, <1>3, <1>4 DEF Coming
<1>6. IsMaster(t)
  BY <1>5 DEF Posting
<1>7. c.req.user \in User
  BY <1>1, CallIs DEF TypeInv
<1>8. t \in Server
  BY <1>7, MustReachIs DEF CoverInv
<1>9. ClusterOf[t] \in Cluster
  BY <1>8, ReplicationAssumption
<1> QED BY <1>5, <1>6, <1>9 DEF TypeInv, Holders, IsMaster

\* The others do not have it.
LEMMA AnsweredHasNot ==
    ASSUME TypeInv, AwayInv, NEW c \in Answered, NEW t \in covered[c.req.user],
           c.req.op = "post", ClusterOf[t] # ClusterOf[Here(c)], ~IsMaster(t)
    PROVE  ~Has(t, c.req)
<1>1. c \in calls /\ ~FromServer(c) /\ Posting(c)
  BY DEF Answered, Posting
<1>2. Untouched(c.req, t)
  BY <1>1 DEF AwayInv, KeepsAway
<1> QED BY <1>2 DEF Untouched, Has

\* When a client gets its answer, of the servers that could be reached through
\* masters all along, whatever else has happened meanwhile, a Login or Follow is
\* on all, and a post on exactly those of the cluster and the masters of others.
THEOREM AnswersMeanCopies == Spec => []AnsweredMeansReplicated
<1>1. Init => TypeInv /\ Rooted /\ CoverInv /\ AwayInv
  BY TypesInit, RootedInit, CoverInit, AwayInit
<1>2. TypeInv /\ Rooted /\ CoverInv /\ AwayInv /\ [Next]_vars
          => (TypeInv /\ Rooted /\ CoverInv /\ AwayInv)'
  BY TypesStep, RootedStep, CoverStep, AwayStep
<1>3. TypeInv /\ Rooted /\ CoverInv /\ AwayInv => AnsweredMeansReplicated
  BY AnsweredHas, AnsweredHasNot DEF AnsweredMeansReplicated
<1> QED BY <1>1, <1>2, <1>3, PTL DEF Spec

-----------------------------------------------------------------------------
(* Users are known *)

\* Servers run that a request from a master reaches.
Reachable(t) == mode[t] = "up" /\ \E h \in holders[ClusterOf[t]] : mode[h] = "up"

\* As long as no server starts, is late or becomes master: servers that run stay
\* active and what they are, and so do those that clients talk to.
Calm ==
    /\ Settled
    /\ \A s \in Server : mode[s] = "up" => s \in active /\ (believes[s] <=> IsMaster(s))
    /\ \A u \in User : \A s \in {stub[u], at[u]} : s \in Server /\ mode[s] = "up" => IsMaster(s)

\* Calls go from masters to slaves and other masters.
Downward ==
    /\ \A c \in calls : c.pc = "counterparts" =>
           IsMaster(Here(c)) /\ \A t \in c.todo : ClusterOf[t] = ClusterOf[Here(c)]
    /\ \A c \in calls : c.pc = "others" => \A t \in c.todo : mode[t] = "up" => IsMaster(t)

\* Each server that a request can reach has to get it, and knows the users who
\* have logged in.
Acquainted ==
    /\ \A c \in calls : ~FromServer(c) =>
           \A t \in Server : Reachable(t) => t \in covered[c.req.user]
    /\ \A u \in User : phase[u] = "in" => \A t \in Server : Reachable(t) => lines[t][u] # <<>>
    /\ \A c \in calls : UserKnown(c)

KnownInv == events \cap {"start", "slow", "move"} = {} => Calm /\ Downward /\ Acquainted

\* A step with none of these events.
Quiet == Next /\ events' \cap {"start", "slow", "move"} = {}

\* A server that still runs is active and master as before.
LEMMA QuietIs ==
    ASSUME TypeInv, Rooted, Calm, Quiet
    PROVE  /\ Settled'
           /\ \A t \in Server : mode'[t] = "up" => /\ mode[t] = "up" /\ t \in active'
                                                   /\ IsMaster(t)' <=> IsMaster(t)
           /\ \A t \in Server : Reachable(t)' => Reachable(t)
<1>1. /\ Next /\ Served /\ TypeInv' /\ Types
      /\ \A t \in Server : mode[t] = "down" => mode'[t] = "down"
      /\ \A t \in Server : mode[t] # "down" => ~Loses(t)
      /\ \A k \in Cluster : holders'[k] \subseteq holders[k]
  BY HistoryIs, TypesStep DEF Quiet, Rooted, TypeInv
<1>2. Settled'
  <2>1. ASSUME NEW c \in calls, CallStep(c) PROVE Settled'
    <3>1. \A t \in Server : mode'[t] = mode[t] \/ (mode[t] = "up" /\ mode'[t] = "down")
      BY <1>1, <2>1, CallStepIs
    <3> QED BY <3>1 DEF Settled, Calm
  <2>2. ASSUME NEW u \in User, NEW s \in Server, Send(u, s) PROVE Settled'
    BY <2>2 DEF Send, servers, Settled, Calm
  <2>3. ASSUME NEW s \in Server, Environment(s) PROVE Settled'
    <3>1. \A t \in Server : mode[t] = "up" => mode'[t] \in {"up", "down"}
      BY <1>1, <2>3, EnvironmentIs
    <3> QED BY <1>1, <3>1 DEF Settled, Calm
  <2> QED BY <1>1, <2>1, <2>2, <2>3 DEF Next
<1>3. ASSUME NEW t \in Server, mode'[t] = "up"
      PROVE  mode[t] = "up" /\ t \in active' /\ (IsMaster(t)' <=> IsMaster(t))
  <2>1. mode[t] = "up"
    BY <1>1, <1>3 DEF Calm, Settled
  <2>2. ~Loses(t) /\ t \in active
    BY <1>1, <2>1 DEF Calm
  <2>3. t \in active' /\ (IsMaster(t) => IsMaster(t)')
    BY <2>2 DEF Loses
  <2>4. IsMaster(t)' => IsMaster(t)
    BY <1>1, ReplicationAssumption DEF IsMaster
  <2> QED BY <2>1, <2>3, <2>4
<1>4. ASSUME NEW t \in Server, Reachable(t)' PROVE Reachable(t)
  <2>1. PICK h \in holders'[ClusterOf[t]] : mode'[h] = "up" /\ mode'[t] = "up"
    BY <1>4 DEF Reachable
  <2>2. ClusterOf[t] \in Cluster
    BY ReplicationAssumption
  <2>3. h \in holders[ClusterOf[t]] /\ h \in Server
    BY <1>1, <2>1, <2>2 DEF Types
  <2> QED BY <1>3, <2>1, <2>3 DEF Reachable
<1> QED BY <1>2, <1>3, <1>4

\* The server of a request: the one that the client has, or that she had.
LEMMA SendsToMaster ==
    ASSUME TypeInv, Calm, NEW u \in User, NEW s \in Server, Send(u, s)
    PROVE  IsMaster(s) /\ mode[s] = "up"
<1>1. mode[s] = "up" /\ (s = stub[u] \/ s = at[u])
  BY DEF Send, UsesStub
<1> QED BY <1>1 DEF Calm

\* Nothing of this changes in such a step.
LEMMA CalmStep ==
    ASSUME TypeInv, Rooted, Calm, Quiet
    PROVE  Calm'
<1>1. /\ Next /\ Served /\ Types /\ TypeInv' /\ Settled'
      /\ \A t \in Server : mode'[t] = "up" => /\ mode[t] = "up" /\ t \in active'
                                              /\ IsMaster(t)' <=> IsMaster(t)
  BY QuietIs, TypesStep DEF Quiet, Rooted, TypeInv
<1>2. ASSUME NEW t \in Server, mode'[t] = "up"
      PROVE  (believes'[t] <=> believes[t]) \/ (believes'[t] <=> IsMaster(t))
  <2>1. ASSUME NEW c \in calls, CallStep(c) PROVE believes'[t] = believes[t]
    <3>1. CASE ExecuteUnknown(c)
      <4>1. Die(Here(c)) /\ Here(c) \in Server
        BY <1>1, <3>1, CallIs DEF ExecuteUnknown
      <4> QED BY <1>1, <1>2, <4>1, Dying
    <3>2. CASE Execute(c) \/ propogateHelper(c) \/ PropogateToMasters(c) \/ Return(c)
      BY <3>2 DEF Execute, propogateHelper, PropogateToMasters, Return, servers
    <3> QED BY <2>1, <3>1, <3>2 DEF CallStep
  <2>2. ASSUME NEW u \in User, NEW s \in Server, Send(u, s) PROVE believes'[t] = believes[t]
    BY <2>2 DEF Send, servers
  <2>3. ASSUME NEW s \in Server, Environment(s)
        PROVE  (believes'[t] <=> believes[t]) \/ (believes'[t] <=> IsMaster(t))
    <3>1. CASE Crash(s) \/ GetLogFails(s)
      <4>1. Die(s)
        BY <3>1 DEF Crash, GetLogFails
      <4> QED BY <1>1, <1>2, <4>1, Dying
    <3>2. CASE Demote(s) \/ Deactivate(s) \/ Heartbeat(s) \/ GetUsers(s) \/ Listen(s)
      BY <3>2 DEF Demote, Deactivate, Heartbeat, GetUsers, Listen, servers
    <3>3. CASE Learn(s)
      <4>1. believes' = [believes EXCEPT ![s] = IsMaster(s)]
        BY <3>3 DEF Learn
      <4> QED BY <1>1, <4>1 DEF Types
    <3>4. CASE Register(s)
      <4>1. mode[s] # "up" /\ \E b : believes' = [believes EXCEPT ![s] = b]
        BY <3>4 DEF Register
      <4> QED BY <1>1, <1>2, <4>1 DEF Types
    <3>5. CASE GetPosts(s) \/ GetPostsUnknown(s)
      BY <1>1, <1>2, <3>5, CopyingPosts DEF TypeInv
    <3>6. ASSUME NEW u \in User, Refresh(u, s) PROVE believes'[t] = believes[t]
      BY <3>6 DEF Refresh, servers
    <3> QED BY <2>3, <3>1, <3>2, <3>3, <3>4, <3>5, <3>6 DEF Environment
  <2> QED BY <1>1, <2>1, <2>2, <2>3 DEF Next
<1>3. \A t \in Server : mode'[t] = "up" => t \in active' /\ (believes'[t] <=> IsMaster(t)')
  BY <1>1, <1>2 DEF Calm
<1>4. ASSUME NEW u \in User, NEW s \in Server, s \in {stub'[u], at'[u]}, mode'[s] = "up"
      PROVE  IsMaster(s)'
  <2>1. mode[s] = "up" /\ (IsMaster(s) => IsMaster(s)')
    BY <1>1, <1>4
  <2>2. CASE s \in {stub[u], at[u]}
    BY <2>1, <2>2 DEF Calm
  <2>3. CASE s \notin {stub[u], at[u]}
    <3>1. ASSUME NEW v \in User, NEW x \in Server, Send(v, x) PROVE IsMaster(s)
      <4>1. at' = [at EXCEPT ![v] = x] /\ stub' = stub
        BY <3>1 DEF Send
      <4>2. x = s
        BY <1>1, <1>4, <2>3, <4>1 DEF Types
      <4> QED BY <3>1, <4>2, SendsToMaster
    <3>2. ASSUME NEW c \in calls, CallStep(c) PROVE at' = at /\ stub' = stub
      BY <3>2 DEF CallStep, Execute, ExecuteUnknown, propogateHelper, PropogateToMasters, Return, clients
    <3>3. ASSUME NEW x \in Server, Environment(x) PROVE IsMaster(s) \/ (at' = at /\ stub' = stub)
      <4>1. ASSUME NEW v \in User, Refresh(v, x) PROVE IsMaster(s)
        <5>1. at' = at /\ stub' = [stub EXCEPT ![v] = x] /\ IsMaster(x)
          BY <4>1 DEF Refresh
        <5>2. x = s
          BY <1>1, <1>4, <2>3, <5>1 DEF Types
        <5> QED BY <5>1, <5>2
      <4>2. CASE ~\E v \in User : Refresh(v, x)
        BY <3>3, <4>2 DEF Environment, Crash, Demote, Deactivate, Heartbeat, Learn, Register, GetUsers,
                          GetPosts, GetPostsUnknown, GetLogFails, Listen, clients
      <4> QED BY <4>1, <4>2
    <3> QED BY <1>1, <1>4, <2>1, <2>3, <3>1, <3>2, <3>3 DEF Next
  <2> QED BY <2>2, <2>3
<1> QED BY <1>1, <1>3, <1>4 DEF Calm

\* Calls still go downward.
LEMMA DownwardStep ==
    ASSUME TypeInv, Rooted, Calm, Downward, Quiet
    PROVE  Downward'
<1>1. /\ Next /\ Served /\ Types /\ TypeInv' /\ Rooted'
      /\ \A t \in Server : mode'[t] = "up" => /\ mode[t] = "up" /\ t \in active'
                                              /\ IsMaster(t)' <=> IsMaster(t)
  BY QuietIs, TypesStep, RootedStep DEF Quiet, Rooted, TypeInv
<1>2. \A d \in calls' : Here(d) \in Server /\ mode'[Here(d)] = "up" /\ d.todo \in SUBSET Server
  <2> SUFFICES ASSUME NEW d \in calls'
               PROVE  Here(d) \in Server /\ mode'[Here(d)] = "up" /\ d.todo \in SUBSET Server
    OBVIOUS
  <2>1. d \in CallType /\ Len(d.path) \in 1 .. MaxHops /\ mode'[Here(d)] = "up"
    BY <1>1 DEF TypeInv, Types, Rooted, Served
  <2>2. d.path \in Seq(Server) /\ d.todo \in SUBSET Server
    BY <2>1 DEF CallType
  <2>3. Here(d) \in Server
    BY <2>1, <2>2 DEF Here, Last
  <2> QED BY <2>1, <2>2, <2>3
<1>3. ASSUME NEW d \in calls', d \in calls
      PROVE  /\ d.pc = "counterparts" =>
                    IsMaster(Here(d))' /\ \A t \in d.todo : ClusterOf[t] = ClusterOf[Here(d)]
             /\ d.pc = "others" => \A t \in d.todo : mode'[t] = "up" => IsMaster(t)'
  BY <1>1, <1>2, <1>3 DEF Downward
<1>4. ASSUME NEW c \in calls, CallStep(c), NEW d \in calls', d \notin calls
      PROVE  /\ d.pc = "counterparts" =>
                    IsMaster(Here(d))' /\ \A t \in d.todo : ClusterOf[t] = ClusterOf[Here(d)]
             /\ d.pc = "others" => \A t \in d.todo : mode'[t] = "up" => IsMaster(t)'
  <2>1. CASE Execute(c)
    <3>1. c.pc = "execute" /\ propogate(c)
      BY <2>1 DEF Execute
    <3>2. /\ d.path = c.path
          /\ GoesOn(c) => d.pc = "counterparts" /\ d.todo = GetCounterparts(Here(c))
          /\ ~GoesOn(c) => d.pc = "others" /\ d.todo = {}
      BY <1>4, <3>1, Moving
    <3>3. Here(d) = Here(c)
      BY <3>2 DEF Here
    <3>4. GoesOn(c) => IsMaster(Here(d))'
      BY <1>1, <1>2, <3>3 DEF GoesOn, Calm
    <3> QED BY <3>2, <3>3, <3>4 DEF GetCounterparts
  <2>2. CASE ExecuteUnknown(c) \/ Return(c)
    BY <1>4, <2>2 DEF ExecuteUnknown, Die, Return
  <2>3. CASE propogateHelper(c)
    <3>1. /\ calls' \subseteq calls \cup {Rest(c), Child(c)}
          /\ Rest(c).path = c.path /\ Rest(c).pc = c.pc /\ Rest(c).todo \subseteq c.todo
          /\ Child(c).pc = "execute"
      BY <1>1, <2>3, Calling, ChildFromServer
    <3>2. CASE d = Child(c)
      BY <3>1, <3>2
    <3>3. CASE d = Rest(c)
      <4>1. d.path = c.path /\ d.pc = c.pc /\ d.todo \subseteq c.todo
        BY <3>1, <3>3
      <4>2. Here(d) = Here(c)
        BY <4>1 DEF Here
      <4> QED BY <1>1, <1>2, <4>1, <4>2 DEF Downward
    <3> QED BY <1>4, <3>1, <3>2, <3>3
  <2>4. CASE PropogateToMasters(c)
    <3>1. d.pc = "others" /\ d.todo = GetOtherClusterMasters(Here(c)) /\ Here(c) \in Server
      BY <1>1, <1>4, <2>4, Turning, CallIs
    <3>2. \A t \in d.todo : t \in Server /\ IsMaster(t)
      BY <3>1, OtherMasters
    <3> QED BY <1>1, <3>1, <3>2
  <2> QED BY <1>4, <2>1, <2>2, <2>3, <2>4 DEF CallStep
<1>5. ASSUME NEW u \in User, NEW s \in Server, Send(u, s), NEW d \in calls', d \notin calls
      PROVE  d.pc = "execute"
  BY <1>5 DEF Send
<1>6. ASSUME NEW s \in Server, Environment(s) PROVE calls' \subseteq calls
  BY <1>1, <1>6, EnvironmentIs
<1>7. ASSUME NEW d \in calls'
      PROVE  /\ d.pc = "counterparts" =>
                    IsMaster(Here(d))' /\ \A t \in d.todo : ClusterOf[t] = ClusterOf[Here(d)]
             /\ d.pc = "others" => \A t \in d.todo : mode'[t] = "up" => IsMaster(t)'
  <2>1. CASE d \in calls
    BY <1>3, <2>1
  <2>2. CASE d \notin calls
    <3>1. ASSUME NEW u \in User, NEW s \in Server, Send(u, s) PROVE d.pc = "execute"
      BY <1>5, <2>2, <3>1
    <3> QED BY <1>1, <1>4, <1>6, <2>2, <3>1 DEF Next
  <2> QED BY <2>1, <2>2
<1> QED BY <1>7 DEF Downward

\* Who is reached still knows the users who have logged in.
LEMMA AcquaintedStep ==
    ASSUME TypeInv, Rooted, CoverInv, Calm, Downward, Acquainted, Quiet
    PROVE  Acquainted'
<1>1. /\ Next /\ Served /\ Types /\ TypeInv' /\ Rooted' /\ Calm'
      /\ \A t \in Server : mode'[t] = "up" => /\ mode[t] = "up" /\ t \in active'
                                              /\ IsMaster(t)' <=> IsMaster(t)
      /\ \A t \in Server : Reachable(t)' => Reachable(t)
  BY QuietIs, TypesStep, RootedStep, CalmStep DEF Quiet, Rooted, TypeInv
<1>2. ASSUME NEW d \in calls', ~FromServer(d), NEW t \in Server, Reachable(t)'
      PROVE  t \in covered'[d.req.user]
  <2> DEFINE u == d.req.user
  <2>1. u \in User /\ d \in Root(u)' /\ Here(d) = at'[u] /\ mode'[Here(d)] = "up"
    <3>1. d.req \in Request
      BY <1>1 DEF TypeInv, Types, CallType
    <3> QED BY <1>1, <1>2, <3>1 DEF Root, Request, Rooted, Served
  <2>2. covered'[u] = IF Root(u) = {} THEN MustReach(u)' ELSE MustReach(u)' \cap covered[u]
    BY <1>1, <2>1, HistoryIs
  <2>3. Root(u) # {} => t \in covered[u]
    BY <1>1, <1>2 DEF Acquainted, Root
  <2>4. t \in MustReach(u)'
    <3> DEFINE s == at'[u]
    <3>1. s \in Server /\ mode'[s] = "up" /\ s # NoServer
      <4>1. s \in Server \cup {NoServer}
        BY <1>1, <2>1 DEF TypeInv, Types
      <4>2. d \in CallType /\ Len(d.path) \in 1 .. MaxHops
        BY <1>1 DEF TypeInv, Types
      <4>3. d.path \in Seq(Server)
        BY <4>2 DEF CallType
      <4>4. Here(d) \in Server
        BY <4>2, <4>3 DEF Here, Last
      <4> QED BY <2>1, <4>4 DEF Server, NoServer
    <3>2. s \in holders'[ClusterOf[s]] /\ believes'[s]
      BY <1>1, <2>1, <3>1 DEF Calm, IsMaster
    <3>3. PICK h \in holders'[ClusterOf[t]] : mode'[h] = "up" /\ mode'[t] = "up"
      BY <1>2 DEF Reachable
    <3>4. h \in Server /\ ClusterOf[h] = ClusterOf[t]
      <4>1. ClusterOf[t] \in Cluster
        BY ReplicationAssumption
      <4> QED BY <1>1, <3>3, <4>1 DEF TypeInv, Types, Holders
    <3>5. believes'[h] /\ t \in active'
      BY <1>1, <3>3, <3>4 DEF Calm, IsMaster
    <3> QED BY <2>1, <3>1, <3>2, <3>3, <3>4, <3>5 DEF MustReach
  <2> QED BY <2>2, <2>3, <2>4
<1>3. ASSUME NEW t \in Server, mode'[t] = "up", NEW u \in User, lines[t][u] # <<>>
      PROVE  lines'[t][u] # <<>>
  <2>1. mode[t] = "up" /\ lines[t][u] \in Seq(User)
    BY <1>1, <1>3 DEF Types
  <2>2. ToSet(lines[t][u]) \subseteq ToSet(lines'[t][u])
    BY <1>1, <1>3, <2>1, FilesGrow
  <2>3. ToSet(lines[t][u]) # {}
    <3>1. 1 \in DOMAIN lines[t][u]
      BY <1>3, <2>1
    <3> QED BY <3>1 DEF ToSet
  <2>4. ToSet(<<>>) = {}
    BY DEF ToSet
  <2> QED BY <2>2, <2>3, <2>4
<1>4. ASSUME NEW u \in User, phase'[u] = "in", NEW t \in Server, Reachable(t)'
      PROVE  lines'[t][u] # <<>>
  <2>1. Reachable(t) /\ mode'[t] = "up"
    BY <1>1, <1>4 DEF Reachable
  <2>2. CASE phase[u] = "in"
    BY <1>3, <2>1, <2>2 DEF Acquainted
  <2>3. CASE phase[u] # "in"
    <3>1. ASSUME NEW c \in calls, CallStep(c) PROVE lines'[t][u] # <<>>
      <4>1. Return(c)
        <5>1. CASE Execute(c) \/ ExecuteUnknown(c) \/ propogateHelper(c) \/ PropogateToMasters(c)
          <6>1. phase' = phase
            BY <5>1 DEF Execute, ExecuteUnknown, propogateHelper, PropogateToMasters, clients
          <6> QED BY <1>4, <2>3, <6>1
        <5> QED BY <3>1, <5>1 DEF CallStep
      <4>2. c.req.op = "login" /\ ~FromServer(c) /\ c.req.user = u
        BY <1>1, <1>4, <2>3, <4>1 DEF Return, Types
      <4>3. c \in Answered
        BY <4>1, <4>2 DEF Return, Answered
      <4>4. t \in covered[c.req.user]
        BY <2>1, <4>2 DEF Acquainted
      <4>5. Has(t, c.req)
        BY <4>2, <4>3, <4>4, AnsweredHas
      <4>6. c.req.target \in ToSet(lines[t][u])
        BY <4>2, <4>5 DEF Has
      <4>7. ToSet(<<>>) = {}
        BY DEF ToSet
      <4> QED BY <1>3, <2>1, <4>6, <4>7
    <3>2. ASSUME NEW v \in User, NEW s \in Server, Send(v, s) PROVE phase' = phase
      BY <3>2 DEF Send
    <3>3. ASSUME NEW s \in Server, Environment(s) PROVE phase' = phase
      BY <1>1, <3>3, EnvironmentIs
    <3> QED BY <1>1, <1>4, <2>3, <3>1, <3>2, <3>3 DEF Next
  <2> QED BY <2>2, <2>3
<1>5. ASSUME NEW d \in calls', d.pc = "execute", d.req.op # "login"
      PROVE  lines'[Here(d)][d.req.user] # <<>>
  <2>1. mode'[Here(d)] = "up"
    BY <1>1 DEF Rooted, Served
  <2>2. CASE d \in calls
    <3>1. lines[Here(d)][d.req.user] # <<>> /\ Here(d) \in Server /\ d.req.user \in User
      BY <1>1, <1>5, <2>2, CallIs DEF Acquainted, UserKnown
    <3> QED BY <1>3, <2>1, <3>1
  <2>3. ASSUME NEW c \in calls, CallStep(c), d \notin calls
        PROVE  lines'[Here(d)][d.req.user] # <<>>
    <3>1. propogateHelper(c)
      <4>1. CASE Execute(c)
        <5>1. c.pc = "execute" /\ propogate(c)
          BY <4>1 DEF Execute
        <5>2. calls' = (calls \ {c}) \cup {Moved(c)} /\ Moved(c).pc # "execute"
          BY <5>1, Moving
        <5> QED BY <1>5, <2>3, <5>2
      <4>2. CASE PropogateToMasters(c)
        <5>1. calls' = (calls \ {c}) \cup {Turned(c)} /\ Turned(c).pc = "others"
          BY <4>2, Turning
        <5> QED BY <1>5, <2>3, <5>1
      <4>3. CASE ExecuteUnknown(c) \/ Return(c)
        BY <2>3, <4>3 DEF ExecuteUnknown, Die, Return
      <4> QED BY <2>3, <4>1, <4>2, <4>3 DEF CallStep
    <3> DEFINE t == Min(c.todo)
    <3>2. /\ calls' = (calls \ {c}) \cup {Rest(c)} \cup {e \in {Child(c)} : mode[t] = "up"}
          /\ Rest(c).pc = c.pc /\ c.pc # "execute" /\ Here(Child(c)) = t
          /\ t \in Server /\ t \in c.todo /\ UNCHANGED servers
      BY <1>1, <3>1, Calling
    <3> HIDE DEF t
    <3>3. d = Child(c) /\ mode[t] = "up"
      BY <1>5, <2>3, <3>2
    <3>4. d.req = c.req /\ Here(d) = t
      BY <3>1, <3>2, <3>3, ChildFromServer
    <3>5. Here(c) \in Server /\ mode[Here(c)] = "up" /\ c.req.user \in User
          /\ c.pc \in {"counterparts", "others"}
      BY <1>1, <3>2, CallIs DEF Served
    <3>6. Reachable(t)
      <4>1. CASE c.pc = "counterparts"
        <5>1. Here(c) \in holders[ClusterOf[t]]
          BY <3>2, <4>1 DEF Downward, IsMaster
        <5> QED BY <3>3, <3>5, <5>1 DEF Reachable
      <4>2. CASE c.pc = "others"
        <5>1. t \in holders[ClusterOf[t]]
          BY <3>2, <3>3, <4>2 DEF Downward, IsMaster
        <5> QED BY <3>3, <5>1 DEF Reachable
      <4> QED BY <3>5, <4>1, <4>2
    <3>7. phase[c.req.user] = "in"
      BY <1>5, <3>4 DEF Rooted
    <3>8. lines[t][c.req.user] # <<>>
      BY <3>2, <3>5, <3>6, <3>7 DEF Acquainted
    <3> QED BY <3>2, <3>4, <3>8 DEF servers
  <2>4. ASSUME NEW u \in User, NEW s \in Server, Send(u, s), d \notin calls
        PROVE  lines'[Here(d)][d.req.user] # <<>>
    <3>1. Here(d) = s /\ d.req.user = u /\ phase[u] = "in" /\ lines' = lines
      <4>1. PICK r \in Requests(u, s) :
              LET e == [req |-> r, path |-> <<s>>, todo |-> {}, pc |-> "execute"]
              IN  /\ calls' = calls \cup {e}
                  /\ e.req = r /\ e.path = <<s>> /\ e.todo = {} /\ e.pc = "execute"
                  /\ Here(e) = s /\ ~FromServer(e)
                  /\ r.user = u /\ r.n = sent[u] + 1 /\ r \in Request
                  /\ r.op = "login" <=> phase[u] = "new"
                  /\ r.op = "post" => r.target = u
                  /\ mode[s] = "up" /\ Root(u) = {}
                  /\ at' = [at EXCEPT ![u] = s] /\ sent' = [sent EXCEPT ![u] = @ + 1]
                  /\ UNCHANGED <<holders, active, servers, stub, phase>>
        BY <2>4, Sending
      <4>2. Here(d) = s /\ d.req = r /\ r.user = u /\ UNCHANGED servers
            /\ (r.op = "login" <=> phase[u] = "new")
        BY <2>4, <4>1
      <4>3. phase[u] \in {"new", "in"}
        BY <1>1 DEF Types
      <4> QED BY <1>5, <4>2, <4>3 DEF servers
    <3>2. IsMaster(s) /\ mode[s] = "up"
      BY <2>4, SendsToMaster
    <3>3. Reachable(s)
      BY <3>2 DEF Reachable, IsMaster
    <3>4. lines[s][u] # <<>>
      BY <3>1, <3>3 DEF Acquainted
    <3> QED BY <3>1, <3>4
  <2>5. ASSUME NEW s \in Server, Environment(s) PROVE d \in calls
    BY <1>1, <2>5, EnvironmentIs
  <2> QED BY <1>1, <2>2, <2>3, <2>4, <2>5 DEF Next
<1> QED BY <1>2, <1>4, <1>5 DEF Acquainted, UserKnown

\* Every step keeps this.
LEMMA KnownStep ==
    ASSUME TypeInv, Rooted, CoverInv, KnownInv, [Next]_vars
    PROVE  KnownInv'
<1>1. CASE UNCHANGED vars
  BY <1>1 DEF vars, servers, clients, KnownInv, Calm, Settled, Downward, Acquainted, Reachable,
              UserKnown, IsMaster
<1>2. CASE Next
  <2> SUFFICES ASSUME events' \cap {"start", "slow", "move"} = {} PROVE Calm' /\ Downward' /\ Acquainted'
    BY DEF KnownInv
  <2>1. Quiet /\ Calm /\ Downward /\ Acquainted
    BY <1>2, HistoryIs DEF KnownInv, Quiet
  <2> QED BY <2>1, CalmStep, DownwardStep, AcquaintedStep
<1> QED BY <1>1, <1>2

\* The user of a request is in client_db wherever it is executed, at whichever
\* master the user is and even if servers crash, as long as no server starts, is
\* late with its heartbeats or becomes master.
THEOREM RequestersAreKnown == Spec => []RequesterKnown
<1>1. Init => TypeInv /\ Rooted /\ CoverInv /\ KnownInv
  <2> SUFFICES ASSUME Init PROVE KnownInv
    BY TypesInit, RootedInit, CoverInit
  <2>1. calls = {} /\ \A u \in User : stub[u] \notin Server /\ at[u] \notin Server /\ phase[u] # "in"
    BY DEF Init, Server, NoServer
  <2>2. \A s \in Server : /\ mode[s] = "up" => s \in active
                          /\ believes[s] <=> IsMaster(s)
    BY DEF Init
  <2>3. Settled
    BY RootedInit
  <2> QED BY <2>1, <2>2, <2>3 DEF KnownInv, Calm, Downward, Acquainted
<1>2. TypeInv /\ Rooted /\ CoverInv /\ KnownInv /\ [Next]_vars => (TypeInv /\ Rooted /\ CoverInv /\ KnownInv)'
  BY TypesStep, RootedStep, CoverStep, KnownStep
<1>3. KnownInv => RequesterKnown
  BY DEF KnownInv, Acquainted, RequesterKnown
<1> QED BY <1>1, <1>2, <1>3, PTL DEF Spec

=============================================================================
