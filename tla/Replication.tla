---------------------------- MODULE Replication ----------------------------
(***************************************************************************)
(* How the servers keep copies of the data: a master sends each request    *)
(* that it has executed to the active servers of its cluster and, if the   *)
(* request comes from a client, to the masters of the other clusters       *)
(* (propogate, propogateHelper, GetCounterparts, GetOtherClusterMasters);  *)
(* a server that starts copies the log of another one (GetLog).            *)
(*                                                                         *)
(* A forwarded request is a synchronous RPC, so that the call at one       *)
(* server waits for its call at the next: calls form chains, named by the  *)
(* servers they have passed.  Executing a request, which changes client_db *)
(* and the log, is one step here (UserLog takes it apart); Follow stands   *)
(* for UnFollow, which is forwarded alike.  Masters, heartbeats and        *)
(* crashes are the environment, with the master locks as in MasterLock.    *)
(***************************************************************************)
EXTENDS Naturals, Sequences, FiniteSets, SequencesExt, FiniteSetsExt

CONSTANTS
    User,          \* user names, each with one client
    NumServers, NumClusters, ClusterOf,   \* as in Election
    MaxRequests,   \* bound on the number of requests
    MaxChanges,    \* bound on the starts, crashes and missed heartbeats
    MaxHops        \* bound on the length of a chain of calls

Server   == 1 .. NumServers
Cluster  == 1 .. NumClusters
NoServer == 0

\* The coordinator lists servers by cluster, then by server id: the order of
\* their numbers here.
ASSUME ReplicationAssumption ==
    /\ NumServers \in Nat \ {0}
    /\ NumClusters \in Nat \ {0}
    /\ ClusterOf \in [Server -> Cluster]
    /\ \A s, t \in Server : s <= t => ClusterOf[s] <= ClusterOf[t]
    /\ MaxRequests \in Nat
    /\ MaxChanges \in Nat
    /\ MaxHops \in Nat \ {0}
    /\ IsFiniteSet(User)

VARIABLES
    \* the coordinator
    holders,    \* per cluster, the servers whose zNode is master
    active,     \* the servers whose zNode is active
    \* the servers
    mode,       \* "down", "users" and "posts" (GetLog), "ready", or "up"
    source,     \* where a starting server copies from
    believes,   \* SNSServer::master
    lines,      \* userinfo: per user, its login (its own name) and its follows
    posts,      \* the posts of each user, by number
    calls,      \* the calls that servers execute
    \* the clients
    stub,       \* the server of stub_, which refreshServer replaces
    at,         \* the server of the last request
    phase,      \* "new" or "in"
    sent,       \* the number of requests of each user so far
    \* history
    covered,    \* per user, the servers that its last request has to reach
    events,     \* what has happened since the start
    changes     \* number of starts, crashes and missed heartbeats

servers == <<mode, source, believes, lines, posts>>
clients == <<stub, at, phase, sent>>
vars == <<holders, active, servers, calls, clients, covered, events, changes>>

Lock == INSTANCE MasterLock

IsMaster(s) == s \in holders[ClusterOf[s]]

\* Requests carry a number, so that two of them are never the same.
Login(u, n)     == [op |-> "login", user |-> u, target |-> u, n |-> n]
Follow(u, v, n) == [op |-> "follow", user |-> u, target |-> v, n |-> n]
Post(u, n)      == [op |-> "post", user |-> u, target |-> u, n |-> n]

Request == [op : {"login", "follow", "post"}, user : User, target : User,
            n : 1 .. MaxRequests]

TypeOK ==
    /\ holders \in [Cluster -> SUBSET Server]
    /\ active \subseteq Server
    /\ mode \in [Server -> {"down", "users", "posts", "ready", "up"}]
    /\ source \in [Server -> Server \cup {NoServer}]
    /\ believes \in [Server -> BOOLEAN]
    /\ \A s \in Server, u \in User : /\ ToSet(lines[s][u]) \subseteq User
                                     /\ ToSet(posts[s][u]) \subseteq 1 .. MaxRequests
    /\ \A c \in calls :
          /\ c.req \in Request /\ c.todo \subseteq Server
          /\ c.path \in Seq(Server) /\ Len(c.path) \in 1 .. MaxHops
          /\ c.pc \in {"execute", "counterparts", "others"}
    /\ stub \in [User -> Server \cup {NoServer}]
    /\ at \in [User -> Server \cup {NoServer}]
    /\ phase \in [User -> {"new", "in"}]
    /\ sent \in [User -> 0 .. MaxRequests]
    /\ covered \in [User -> SUBSET Server]
    /\ events \subseteq {"start", "crash", "slow", "move", "rivals"}
    /\ changes \in 0 .. MaxChanges

Empty == [u \in User |-> <<>>]

\* Some servers run and have no users yet; the first of each cluster is master.
Init ==
    /\ active \in SUBSET Server
    /\ holders = [c \in Cluster |-> {s \in active : ClusterOf[s] = c /\
                     \A t \in active : ClusterOf[t] = c => s <= t}]
    /\ mode = [s \in Server |-> IF s \in active THEN "up" ELSE "down"]
    /\ source = [s \in Server |-> NoServer]
    /\ believes = [s \in Server |-> IsMaster(s)]
    /\ lines = [s \in Server |-> Empty]
    /\ posts = [s \in Server |-> Empty]
    /\ calls = {}
    /\ stub = [u \in User |-> NoServer]
    /\ at = [u \in User |-> NoServer]
    /\ phase = [u \in User |-> "new"]
    /\ sent = [u \in User |-> 0]
    /\ covered = [u \in User |-> {}]
    /\ events = {}
    /\ changes = 0

-----------------------------------------------------------------------------
(* Calls *)

Here(c)       == Last(c.path)
FromServer(c) == Len(c.path) > 1
Root(u)       == {c \in calls : c.req.user = u /\ ~FromServer(c)}

\* c waits for the answer to the request that it has sent on.
Waits(c) == \E d \in calls : d.req = c.req /\ FromServer(d) /\ Front(d.path) = c.path

Become(c, d) == calls' = (calls \ {c}) \cup {d}

\* getClient finds the user and, for a follow, its target.
Known(s, r) ==
    r.op # "login" => lines[s][r.user] # <<>> /\ lines[s][r.target] # <<>>

\* The process is gone, and with it what the other threads were doing; the
\* files stay.  A starting server writes only once it has both of its files.
Die(s) ==
    /\ mode' = [mode EXCEPT ![s] = "down"]
    /\ believes' = [believes EXCEPT ![s] = FALSE]
    /\ lines' = [lines EXCEPT ![s] = IF mode[s] = "posts" THEN Empty ELSE @]
    /\ calls' = {c \in calls : Here(c) # s}
    /\ source' = [source EXCEPT ![s] = NoServer]

-----------------------------------------------------------------------------
(* The coordinator *)

\* SNSCoordinator::GetCounterparts: the other active servers of the cluster,
\* masters or not.
GetCounterparts(s) == {t \in active : ClusterOf[t] = ClusterOf[s] /\ t # s}

\* A variant of GetOtherClusterMasters that TypeOK must reject: no check whether
\* there is a master.
GetOtherClusterMastersUnchecked(s) ==
    {IF holders[k] = {} THEN NoServer ELSE Min(holders[k]) :
        k \in Cluster \ {ClusterOf[s]}}

\* SNSCoordinator::GetOtherClusterMasters: the first master of each other cluster.
GetOtherClusterMasters(s) ==
    {Min(holders[k]) : k \in {k \in Cluster : k # ClusterOf[s] /\ holders[k] # {}}}

\* SNSCoordinator::getFirstAvailableClusterMaster
getFirstAvailableClusterMaster(s) ==
    LET masters == GetOtherClusterMasters(s)
    IN  IF masters = {} THEN NoServer ELSE Min(masters)

-----------------------------------------------------------------------------
(* Executing and forwarding a request *)

\* A variant of GoesOn that AnsweredMeansReplicated must reject: only requests of
\* clients are sent on.
GoesOnFromClient(c) == believes[Here(c)] /\ ~FromServer(c)

\* A variant of GoesOn that PostedOnce must reject: AddPost calls propogate as
\* Login and Follow do.
GoesOnAlways(c) == believes[Here(c)]

\* propogate: a server that believes to be a master sends on a request of a
\* client, and a Login or Follow of another server, but never an AddPost.
GoesOn(c) == believes[Here(c)] /\ ~(c.req.op = "post" /\ FromServer(c))

\* The call asks for its counterparts, or has nothing to send.
propogate(c) ==
    Become(c, IF GoesOn(c)
              THEN [c EXCEPT !.pc = "counterparts", !.todo = GetCounterparts(Here(c))]
              ELSE [c EXCEPT !.pc = "others"])

\* client_db or all_posts, with its file.  A repeated login or follow has no effect,
\* a repeated post has.
Store(s, r) ==
    IF r.op = "post"
    THEN /\ posts' = [posts EXCEPT ![s][r.user] = Append(@, r.n)]
         /\ UNCHANGED lines
    ELSE /\ lines' = [lines EXCEPT ![s][r.user] =
                          IF Contains(@, r.target) THEN @ ELSE Append(@, r.target)]
         /\ UNCHANGED posts

\* A variant of Execute that RequestsReturn must reject: a lock that a call holds
\* until it returns.
ExecuteAlone(c) ==
    /\ c.pc = "execute"
    /\ \A d \in calls : Here(d) = Here(c) => d.pc = "execute"
    /\ Known(Here(c), c.req)
    /\ Store(Here(c), c.req)
    /\ propogate(c)
    /\ UNCHANGED <<holders, active, mode, source, believes, clients, changes>>

\* Login, Follow, the Timeline loop or AddPost, up to the list of counterparts:
\* what happens between the change and the list could as well happen before both.
Execute(c) ==
    /\ c.pc = "execute"
    /\ Known(Here(c), c.req)
    /\ Store(Here(c), c.req)
    /\ propogate(c)
    /\ UNCHANGED <<holders, active, mode, source, believes, clients, changes>>

\* A name that is not in client_db is a NULL pointer, which Follow and
\* addPostHelper dereference, the latter after it has saved the post.
ExecuteUnknown(c) ==
    LET s == Here(c)
        r == c.req
    IN
    /\ c.pc = "execute"
    /\ ~Known(s, r)
    /\ posts' = IF r.op = "post" THEN [posts EXCEPT ![s][r.user] = Append(@, r.n)]
                                 ELSE posts
    /\ Die(s)
    /\ UNCHANGED <<holders, active, clients, changes>>

\* propogateHelper calls the next server of its list.  A server that does not
\* listen is skipped: the status is ignored.
propogateHelper(c) ==
    /\ c.pc \in {"counterparts", "others"}
    /\ c.todo # {} /\ ~Waits(c) /\ Len(c.path) < MaxHops
    /\ LET t == Min(c.todo)
           rest == [c EXCEPT !.todo = @ \ {t}]
           call == [rest EXCEPT !.path = Append(@, t), !.pc = "execute", !.todo = {}]
       IN  calls' = (calls \ {c}) \cup {rest} \cup {d \in {call} : mode[t] = "up"}
    /\ UNCHANGED <<holders, active, servers, clients, changes>>

\* A variant of ListDone that RequesterKnown and PostsInOrder must reject: the
\* answers are not waited for.
ListSent(c) == c.todo = {}

\* All servers of the list have been called.
ListDone(c) == c.todo = {} /\ ~Waits(c)

\* A variant of PropogateToMasters that ForwardedOnce must reject: from_server is
\* not looked at.
PropogateToMastersAlways(c) ==
    /\ c.pc = "counterparts" /\ ListDone(c)
    /\ Become(c, [c EXCEPT !.pc = "others", !.todo = GetOtherClusterMasters(Here(c))])
    /\ UNCHANGED <<holders, active, servers, clients, changes>>

\* A request of a client goes to other masters too.
PropogateToMasters(c) ==
    /\ c.pc = "counterparts" /\ ListDone(c) /\ ~FromServer(c)
    /\ Become(c, [c EXCEPT !.pc = "others", !.todo = GetOtherClusterMasters(Here(c))])
    /\ UNCHANGED <<holders, active, servers, clients, changes>>

Returns(c) ==
    \/ c.pc = "counterparts" /\ ListDone(c) /\ FromServer(c)
    \/ c.pc = "others" /\ ListDone(c)

\* The RPC returns, to a server or to the client.  (Timeline reads its next message.)
Return(c) ==
    /\ Returns(c)
    /\ calls' = calls \ {c}
    /\ phase' = IF c.req.op = "login" /\ ~FromServer(c)
                THEN [phase EXCEPT ![c.req.user] = "in"] ELSE phase
    /\ UNCHANGED <<holders, active, servers, stub, at, sent, changes>>

-----------------------------------------------------------------------------
(* Clients *)

\* getServerInfo, at the start and then every few seconds: GetServer has answered
\* with a master, because u has no server yet or hers is not master any more.
\* When she sends her next request, the new one may have been demoted, or be down.
Refresh(u, s) ==
    /\ IsMaster(s) /\ (stub[u] # NoServer => ~IsMaster(stub[u]))
    /\ stub' = [stub EXCEPT ![u] = s]
    /\ UNCHANGED <<holders, active, servers, calls, at, phase, sent, changes>>

\* The stub that a request uses; a post goes through the stream of Timeline,
\* which stays with the server where u entered it.
UsesStub(u, s, r) == s = stub[u] \/ (r.op = "post" /\ s = at[u])

\* SNSServer::List shows the users of client_db.
List(s) == {v \in User : lines[s][v] # <<>>}

\* Login first, then anything, about names that List has shown.
Requests(u, s) ==
    LET n == sent[u] + 1
    IN  IF phase[u] = "new" THEN {Login(u, n)}
        ELSE {Post(u, n)} \cup {Follow(u, v, n) : v \in List(s) \ ToSet(lines[s][u])}

\* The number of requests so far.
Requested == MapThenSumSet(LAMBDA v : sent[v], User)

\* A request arrives at a server.
Send(u, s) ==
    /\ Root(u) = {}
    /\ Requested < MaxRequests
    /\ mode[s] = "up"
    /\ \E r \in Requests(u, s) :
          /\ UsesStub(u, s, r)
          /\ calls' = calls \cup {[req |-> r, path |-> <<s>>, todo |-> {}, pc |-> "execute"]}
    /\ at' = [at EXCEPT ![u] = s]
    /\ sent' = [sent EXCEPT ![u] = @ + 1]
    /\ UNCHANGED <<holders, active, servers, stub, phase, changes>>

-----------------------------------------------------------------------------
(* The environment: refreshed stubs, heartbeats, elections, crashes *)

Change == changes < MaxChanges /\ changes' = changes + 1

Crash(s) ==
    /\ mode[s] # "down"
    /\ Change
    /\ Die(s)
    /\ UNCHANGED <<holders, active, posts, clients>>

\* Heartbeats of s are late: it is down, or it is slow.
Late(s) == (mode[s] = "down" /\ UNCHANGED changes) \/ (mode[s] # "down" /\ Change)

\* checkHeartbeats at the second one: the server is not master any more.
Demote(s) ==
    /\ Late(s)
    /\ Lock!Release(s)
    /\ UNCHANGED <<active, servers, calls, clients>>

\* checkHeartbeats at the third one: the server is not active any more.
Deactivate(s) ==
    /\ s \in active /\ ~IsMaster(s)
    /\ Late(s)
    /\ active' = active \ {s}
    /\ UNCHANGED <<holders, servers, calls, clients>>

\* The election: the server gets the lock of its cluster if nobody has it.
TakeFreeLock(s) ==
    Lock!Acquire(s) \/ (holders[ClusterOf[s]] # {} /\ UNCHANGED holders)

\* A heartbeat arrives: the server is active, and is master if nobody is.
Heartbeat(s) ==
    /\ mode[s] \in {"ready", "up"}
    /\ s \notin active \/ holders[ClusterOf[s]] = {}
    /\ active' = active \cup {s}
    /\ TakeFreeLock(s)
    /\ UNCHANGED <<servers, calls, clients, changes>>

\* The answer to a heartbeat: master = path.master().
Learn(s) ==
    /\ mode[s] \in {"ready", "up"} /\ s \in active
    /\ believes[s] # IsMaster(s)
    /\ believes' = [believes EXCEPT ![s] = IsMaster(s)]
    /\ UNCHANGED <<holders, active, mode, source, lines, posts, calls, clients, changes>>

\* A process starts and registers, and learns where to copy from.  If it has to,
\* it empties its files first.  Its own files it replays, unless they hold a
\* post of an unknown author.
Register(s) ==
    LET c == ClusterOf[s]
        from == IF holders[c] # {} THEN Min(holders[c])
                                   ELSE getFirstAvailableClusterMaster(s)
        replays == \A u \in User : posts[s][u] # <<>> => lines[s][u] # <<>>
    IN
    /\ mode[s] = "down" /\ s \notin active
    /\ Change
    /\ active' = active \cup {s}
    /\ TakeFreeLock(s)
    /\ \/ /\ from = NoServer
          /\ mode' = [mode EXCEPT ![s] = IF replays THEN "ready" ELSE "down"]
          /\ UNCHANGED <<lines, posts>>
       \/ /\ from # NoServer
          /\ mode' = [mode EXCEPT ![s] = "users"]
          /\ lines' = [lines EXCEPT ![s] = Empty]
          /\ posts' = [posts EXCEPT ![s] = Empty]
    /\ source' = [source EXCEPT ![s] = from]
    /\ believes' = [believes EXCEPT ![s] = holders[c] = {} /\ mode'[s] # "down"]
    /\ UNCHANGED <<calls, clients>>

\* GetLog at the source reads its two files, one after the other.
GetUsers(s) ==
    /\ mode[s] = "users" /\ mode[source[s]] = "up"
    /\ mode' = [mode EXCEPT ![s] = "posts"]
    /\ lines' = [lines EXCEPT ![s] = lines[source[s]]]
    /\ UNCHANGED <<holders, active, source, believes, posts, calls, clients, changes>>

\* The reply is processed.
GetPosts(s) ==
    LET copy == posts[source[s]] IN
    /\ mode[s] = "posts" /\ mode[source[s]] = "up"
    /\ \A u \in User : copy[u] # <<>> => lines[s][u] # <<>>
    /\ posts' = [posts EXCEPT ![s] = copy]
    /\ mode' = [mode EXCEPT ![s] = "ready"]
    /\ source' = [source EXCEPT ![s] = NoServer]
    /\ UNCHANGED <<holders, active, believes, lines, calls, clients, changes>>

\* A post of an author who was not yet in the first file ends the process.  It
\* has saved that post, and of each user those that stand before it in the file.
GetPostsUnknown(s) ==
    LET copy == posts[source[s]] IN
    /\ mode[s] = "posts" /\ mode[source[s]] = "up"
    /\ \E u \in User :
          /\ copy[u] # <<>> /\ lines[s][u] = <<>>
          /\ \E upTo \in [User \ {u} -> 0 .. MaxRequests] :
                /\ \A v \in User \ {u} : upTo[v] <= Len(copy[v])
                /\ \A v \in User \ {u} : lines[s][v] = <<>> => upTo[v] = 0
                /\ posts' = [posts EXCEPT ![s] =
                       [v \in User |-> SubSeq(copy[v], 1, IF v = u THEN 1 ELSE upTo[v])]]
    /\ mode' = [mode EXCEPT ![s] = "down"]
    /\ believes' = [believes EXCEPT ![s] = FALSE]
    /\ source' = [source EXCEPT ![s] = NoServer]
    /\ UNCHANGED <<holders, active, lines, calls, clients, changes>>

\* GetLog fails: a FATAL log message.
GetLogFails(s) ==
    /\ mode[s] \in {"users", "posts"} /\ mode[source[s]] # "up"
    /\ Die(s)
    /\ UNCHANGED <<holders, active, posts, clients, changes>>

\* BuildAndStart
Listen(s) ==
    /\ mode[s] = "ready"
    /\ mode' = [mode EXCEPT ![s] = "up"]
    /\ UNCHANGED <<holders, active, source, believes, lines, posts, calls, clients,
                   changes>>

-----------------------------------------------------------------------------

\* The servers that a request of u has to reach if it is sent now: the active ones
\* of the cluster of its server, and the master and the active ones of others.
MustReach(u) ==
    {t \in Server :
        \E s \in Server :
            /\ at[u] = s /\ believes[s] /\ mode[s] = "up" /\ mode[t] = "up"
            /\ \/ t = s
               \/ ClusterOf[t] = ClusterOf[s] /\ t \in active
               \/ ClusterOf[t] # ClusterOf[s] /\ IsMaster(t)
               \/ /\ ClusterOf[t] # ClusterOf[s] /\ t \in active
                  /\ \E h \in holders[ClusterOf[t]] : believes[h] /\ mode[h] = "up"}

\* The coordinator takes the master flag or the active state from s.
Loses(s) == (IsMaster(s) /\ ~IsMaster(s)') \/ s \in active \ active'

\* A request has to reach the servers that it had to reach at every moment of
\* its call.  Events are: a server starts, one ends, heartbeats of one that runs
\* are late, a cluster gets a master, two servers believe to be master of one.
History ==
    /\ covered' = [u \in User |->
           IF Root(u)' = {} THEN {} ELSE
           IF Root(u) = {} THEN MustReach(u)' ELSE MustReach(u)' \cap covered[u]]
    /\ events' = events
           \cup {e \in {"start"} : \E s \in Server : mode[s] = "down" /\ mode'[s] # "down"}
           \cup {e \in {"crash"} : \E s \in Server : mode[s] # "down" /\ mode'[s] = "down"}
           \cup {e \in {"slow"} : \E s \in Server : mode[s] # "down" /\ Loses(s)}
           \cup {e \in {"move"} : \E k \in Cluster : holders'[k] \ holders[k] # {}}
           \cup {e \in {"rivals"} : \E s, t \in {r \in Server : believes'[r]} :
                                       s # t /\ ClusterOf[s] = ClusterOf[t]}

CallStep(c) ==
    \/ Execute(c) \/ ExecuteUnknown(c) \/ propogateHelper(c)
    \/ PropogateToMasters(c) \/ Return(c)

Environment(s) ==
    \/ \E u \in User : Refresh(u, s)
    \/ Crash(s) \/ Demote(s) \/ Deactivate(s) \/ Heartbeat(s) \/ Learn(s)
    \/ Register(s) \/ GetUsers(s) \/ GetPosts(s) \/ GetPostsUnknown(s)
    \/ GetLogFails(s) \/ Listen(s)

Next ==
    /\ \/ \E c \in calls : CallStep(c)
       \/ \E u \in User, s \in Server : Send(u, s)
       \/ \E s \in Server : Environment(s)
    /\ History

Spec == Init /\ [][Next]_vars

\* A server's threads run on, and an RPC to a process that is gone fails.
\* Nothing else is promised: neither requests, nor heartbeats, nor start-ups.
FairSpec == Spec /\ WF_calls(\E c \in calls : CallStep(c))

-----------------------------------------------------------------------------
(* Properties *)

Has(s, r) == IF r.op = "post" THEN r.n \in ToSet(posts[s][r.user])
                              ELSE r.target \in ToSet(lines[s][r.user])

\* The calls that are about to answer a client.
Answered == {c \in calls : Returns(c) /\ ~FromServer(c)}

\* When a client gets its answer, the servers that could be reached through
\* masters all along have the request, whatever else has crashed, restarted,
\* missed heartbeats or been elected meanwhile: all of them have a Login or
\* Follow, but a post only those of the cluster and the masters of the others.
\* The slaves there never have it, though the README says that masters send a
\* request "to each of their slaves and to other cluster masters (which propogate
\* the request to their own slave servers)": an AddPost is not sent on.
AnsweredMeansReplicated ==
    \A c \in Answered : \A t \in covered[c.req.user] :
        Has(t, c.req) <=> \/ c.req.op # "post"
                          \/ ClusterOf[t] = ClusterOf[Here(c)]
                          \/ IsMaster(t)

\* The server of a call has the user who makes the request.
UserKnown(c) ==
    c.pc = "execute" /\ c.req.op # "login" => lines[Here(c)][c.req.user] # <<>>

\* "Requesting user will always exist and be logged in before they can make this
\* request", "the poster will be in the client_db before AddPost is called": also
\* on the servers that get the request from another server, whichever user is at
\* whichever master and even if a server crashes.  It takes a server that joins
\* the running ones, one with late heartbeats, or a new master to break it.
RequesterKnown ==
    events \cap {"start", "slow", "move"} = {} => \A c \in calls : UserKnown(c)

\* The same when a slave replaces a master that has crashed, as it is meant to.
RequesterKnownAfterFailOver ==
    events \cap {"start", "slow"} = {} => \A c \in calls : UserKnown(c)

\* A request passes through a server once: client's master, other master, slave.
\* Only if a cluster gets another master, a server that was master and one that
\* is may send it to and fro.
ForwardedOnce ==
    "move" \notin events =>
        \A c \in calls : Len(c.path) <= 3 /\ IsInjective(c.path)

\* No post is stored twice, though AddPost does not look whether it has the post:
\* not even if two servers believe to be masters of a cluster.  The exception is
\* a server that has started, which may copy a post and then get it forwarded.
PostedOnce ==
    "start" \notin events => \A s \in Server, u \in User : IsInjective(posts[s][u])

\* Every server stores the posts of a user in the order in which they were made,
\* however slow servers are and whoever is elected.  The order is lost only if a
\* server ends while another one still works on what it has sent on, or if one
\* starts.
PostsInOrder ==
    events \cap {"start", "crash"} = {} =>
        \A s \in Server, u \in User : \A i, j \in DOMAIN posts[s][u] :
            i < j => posts[s][u][i] < posts[s][u][j]

\* Every request is answered or fails, however the calls of different masters
\* wait for each other: once the clients stop asking (MaxRequests), no call is
\* left, unless one has been sent to and fro until the model gave it up.
RequestsReturn == <>[](calls = {} \/ \E c \in calls : Len(c.path) = MaxHops)

=============================================================================
