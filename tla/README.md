# Distributed SNS in TLA+

The repository implements a small social network: clients log in, follow each
other and read a timeline of posts; servers, grouped in clusters, keep the users
and posts in memory and in files; a coordinator elects one master per cluster
and tells clients which server to use. This directory specifies its parts in
TLA+, model-checks them with TLC on small instances, and proves the most
important results for all instances with TLAPS.

    cd tla
    tlc -workers 2 -config ElectionSafety.cfg MCElection.tla    # one run
    tlapm ElectionProofs.tla                                    # one set of proofs

## The system

| Part | State | Operations | Correct if |
| --- | --- | --- | --- |
| Election (`SNSCoordinator::Heartbeat`, `checkHeartbeats`; `SNSServer::connectToCoordinator`, `sendHeartbeat`) | `zNode`s: master flag, path of the lock file, last heartbeat, missed heartbeats; master and slave files in `FSMemory`; in a server, `registered` and `master` | a heartbeat is received and answered; a pass over all zNodes; start, crash | one master per cluster; a lock never outlives its owner; what a server believes is backed by the coordinator; fail-over |
| Client API (`GetUniqueClientID`, `GetServer`, `getActiveMaster`) | `clientAssignments` | an id is given out; a server is looked up | an id is not given out again; an answer was true at some moment of the call |
| Client (`connect`, `getServerInfo`, `refreshServer`, `Login`) | id, address of the server, retries, `stub_` | ask, retry, switch, give up | ends up at a master |
| `FSMemory` | a tree of `FSTreeNode`s, `fsMutex` | create, write, remove, exists, read | a store of named files; a failing call changes nothing; what an unlocked walk answers was true at some moment |
| Users (`Login`, `Follow`, `UnFollow`, `initializeData`, replay helpers) | `client_db` with its vectors; the userinfo file | the RPCs; replay of the own file or of another server's log | the log replays to what memory holds; acknowledged requests survive, or are lost in known ways only |
| Posts (`Timeline`, `AddPost`, `addPostHelper`, `getFollowingPosts`, `updatePostsFromFile`; `Client::Timeline`) | `all_posts` and the posts file, `Client::stream` | post, join and leave the timeline, deliver; replay of the posts file | no gap between backlog and live posts; file, memory and what users have seen agree, also after restarts; what was seen is not lost, or in known ways only |
| Replication (`propogate`, `propogateHelper`, `GetCounterparts`, `GetOtherClusterMasters`, `GetLog`) | none of its own: calls that wait for calls | a request is sent on to other servers; a server that starts copies the log of another | an answered request is where it can be; each server can execute what it gets, once and in order; no call waits for ever |

How they interact. A server sends a `Heartbeat` every few seconds and learns
from the answer whether it is master; its first one also tells it from whom to
copy data. The coordinator's `checkHeartbeats` thread demotes servers that miss
two heartbeats and removes their lock file. Heartbeat threads decide elections
by creating one file per cluster in `FSMemory`. A client asks the coordinator
for an id and then, again and again, for a server. A server executes a request,
logs it, and forwards it to its slaves and to the masters of other clusters.

What is hard about it:

- The coordinator and the servers are synchronous gRPC services: each call runs
  in a thread of its own, and almost no state is protected. `v_mutex` of the
  coordinator is never taken; `fsMutex` covers `create`, `write` and `remove`
  but not `exists` and `read`; `SNSServer` has no lock.
- Servers crash and restart; heartbeats may be late although their sender lives.
- A file lock is decided by the sequence exists, create, write, over several
  calls, while another thread demotes and removes.
- Memory is changed before the log is written; the server's own files are
  emptied before their replacement has arrived.
- A search for a master looks at one zNode after another while masters change.
- A request runs through up to three servers as a chain of synchronous calls,
  whose failures are ignored, while servers start, crash and change roles.
- A user joins the timeline in two steps while posts arrive, and the pointer to
  the stream outlives the stream.

`PROJECT.json` lists the hazards with their lines and with the properties that
would catch them.

## The modules

| Module | Models | Instances |
| --- | --- | --- |
| `MasterLock` | the abstract lock service: per cluster, at most one holder; acquire, release | - |
| `Election` | heartbeats, election, demotion, crashes; implements `MasterLock` twice | `MCElection` |
| `ElectionProofs` | theorems about `Election` | |
| `Clients` | `GetUniqueClientID`, `GetServer`, clients; `MasterLock` is its environment | `MCClients` |
| `ClientsProofs` | theorems about `Clients` | |
| `FileStore` | the abstract store of named files and folders | - |
| `FSMemory` | the tree, its walk under the mutex and without it; implements `FileStore` | `MCFSMemory` |
| `FSMemoryProofs` | theorems about `FSMemory` | |
| `UserLog` | users, follows, the userinfo log, start-up | `MCUserLog` |
| `UserLogProofs` | theorems about `UserLog`, for requests that overlap | |
| `ReplayProofs` | theorems about `UserLog`, for one request at a time | |
| `Replication` | forwarding between servers, `GetLog`, with `MasterLock` as environment | `MCReplication` |
| `ReplicationProofs` | theorems about `Replication` | |
| `Posts` | posts, posts file, start-up and timelines of one server | `MCPosts` |
| `PostsProofs` | theorems about `Posts` | |
| `Lemmas` | what several proofs need of numbers and sequences | |

Some definitions have a *variant* just before them (`CreateMasterAnyway` before
`CreateMaster`): the definition with a plausible bug. `PROJECT.json` ("mutants")
says which property must fail if the variant takes its place, so that no
property is kept that no bug could break.

### Election

State. `known`, `master`, `path`, `late`, `missed` are the fields of the zNodes;
`late` stands for `difftime(now, last_heartbeat) > maxHeartbeatDelay`. `missed`
stops at 3, because the code only tests for `== 2` and `> 2`. `masterFile` is
the content of `<cluster>/master`. The slave files are written and removed but never
read, so that only the mutex matters for them. `pc`, `hPath` and `hSync` are the
program counter and the local variables of a Heartbeat call; there is at
most one per server, because the caller waits for the answer. `chkAt` and
`chkPc` are those of `checkHeartbeats`.

Actions. A step is what a thread does between two accesses to shared state:
`Receive` (or `Reject`) finds the zNode, refreshes it and asks `exists`;
`CreateMaster`, `WriteMaster`, `WriteSlave`, `ReadMaster` are the calls of
`FSMemory`; `Assign` sets path and flag. `Visit`, `Count`, `Demote`, `Release`
and `NextPass` are one pass of `checkHeartbeats`; it compares the time of all
zNodes of all clusters, in the order of the nested loops. `SendHeartbeat`,
`Reply`, `Start` and `Crash` are the server's. `Release` with an empty path, and
nothing else, leaves the mutex locked (`fsLocked`), as `FSMemory::remove` does.

Assumptions, all visible as constants or guards:

- `Slow` is the set of servers whose heartbeats may be arbitrarily late although
  they live. A call that the coordinator already works on takes less than
  `maxHeartbeatDelay` seconds, unless it is blocked by the mutex (`Expire`).
- `Overlap`: whether a heartbeat may arrive between the two statements that
  demote its own sender. In the code it may. The window is a few instructions
  wide, it breaks mutual exclusion (`ElectionOverlap.cfg`), and everything else
  is checked and proved with `Overlap = FALSE`, so that one race does not hide
  what the design is worth otherwise.
- A zNode field is read and written atomically. The code has data races here.

`Owns(s)` is what implements the lock: a server holds it from the creation of
the file, before its flag is set, until the file is removed, after its flag is
cleared. `ImplementsMasterLock` says that this is a lock;
`FlagsImplementMasterLock` says that the flags alone, which is all that
`GetServer` reads, are one too. The second is why `Clients` may use
`MasterLock` as its environment, and `Replication` too.

### Clients

`holders` is the set of master zNodes per cluster and changes by `MasterLock`'s
`Acquire` and `Release` only. Each access of a call to `clientAssignments` or to
a zNode's flag is a step: `RequestId` reads the size of the map, `InsertId`
inserts; `GetServer` checks the old assignment, `Look` one zNode in the order of
`getActiveMaster` (clusters from `clientId % numClusters` on, servers by id),
`Assign` stores the result. `getServerInfo` is the rest of the client's function
of this name, with `MAX_RETRIES`; `Login` runs at the same time as the
refreshing thread. Two history variables: `during` has the servers that have
been master, and the clusters that have had none, since the call began; `met`
has the clients whose `GetUniqueClientID` overlapped one's own.

Calls that overlap do get the same id, since `size()` and the insertion are two
steps (SNSCoordinator.cpp:327-331). `SharedIdsOverlap` says that nothing else
makes two clients share an assignment.

### UserLog

`db` is `client_db` with `client_following`/`follow_time` and
`client_followers`; `log` is the userinfo file. A request is served in four
steps: lookup with all checks, change of memory, append, answer. `UnFollow`
keeps the two indices it looked up in `at`, and erases at them later, even if
another thread has shortened the vectors (`Erase`, `StaleErase`).
`processUserInfoFromFile` applies `ReplayLine` to one line after the other; `Broken` is a process
that died while replaying. `StartSync` empties the file and copies, line by
line, what another server has; that server is taken to hold what this one had
logged. A timestamp loses its fraction when it is logged (`SecondsOf`; clients
send whole seconds, hence `Tick = 1` in `user_log`), and the hour of daylight
saving time when it is read back (`DstShift`).

Two requests at a time can harm the log. A `Login` changes memory before the
file (SNSServer.cpp:674-679), and a `Follow` of that user may be logged first
(726-732): then the lines are in an order that replay cannot process, it
dereferences NULL (`SyncBroken`), and `LogValid` is claimed for one thread only,
and TLC finds it violated with two. If the server ends before the `Login` is
written, the file lacks its line for good. `LogNamesLoggedIn` says what is left,
of the file of a server that runs or is down: a login that the log needs and
lacks is about to be written, or was lost with the memory of a process (the
history variable `torn`). A `Follow` or `UnFollow` of a name that does not exist
ends the server (`UnknownTarget`): the failure status is set, and then a log
message dereferences the NULL target (SNSServer.cpp:742, 795).
`OnlyUnknownNamesKill` says that nothing else that one client at a time may ask
for does.

A `Login` of a user who is in memory is answered with `SUCCESS` (666-682), and
nothing makes it wait for the line of the call that put the user there: if the
process ends before, a login that was acknowledged is in no file. `SyncMayFail`
allows a failure between emptying the file and the end of the copy; what was not
yet copied back is then lost (`wiped`). So `Durable` is claimed for one request
at a time and without `SyncMayFail`. `LostTwoWaysOnly` is claimed with both: an
acknowledged request is in the log or still to be copied back to it, or `wiped`,
or it is such a re-login (its line still to come, or `torn`).

### Replication

State. Per server the stage of its start-up (`mode`), `SNSServer::master`
(`believes`), and its files: `lines` has, per user, the login (as the user's own
name) and the follows, `posts` the numbers of the posts. `active` and `holders`
are the coordinator's. `calls` are the requests under way: `path` has the
servers that a request has passed, and the last one executes it; a call waits
(`Waits`) until the call that it has made is gone. So the death of a server in
the middle of a chain leaves the calls behind it running.

Actions. `Execute` is the handler (`Login`, `Follow`, the `Timeline` loop,
`AddPost`) up to the list of counterparts, `propogateHelper` one RPC to the next
server of the list, which comes to nothing if that one does not listen,
`PropogateToMasters` the second list, for requests of clients only, `Return` the
answer. `ExecuteUnknown` is the dereference of a missing user. `Refresh` is the
client's `getServerInfo`: `stub` becomes a server that is master now, and need not
be any more when a request is sent; a post goes to where the user entered the
timeline (`UsesStub`). `Register`, `GetUsers`, `GetPosts` and `Listen` are a
start-up: the files are emptied, the other server reads its two files one after
the other, and only after the replay does the new one listen, although it has
been listed since `Register`. If a user has logged in and posted between the two
reads, the new server dies at that post, with the posts before it saved
(`GetPostsUnknown`).

Abstractions. `Follow` stands for `UnFollow`. Executing a request and asking for
the counterparts are one step; `UserLog` takes the former apart. The
coordinator's part is `MasterLock` with activity: `Demote` and `Deactivate` are
the second and third late heartbeat, of a server that is down or, at the cost
of one of `MaxChanges`, of one that runs. The election is one step; `Election`
shows that it may be seen so. `MaxHops` cuts chains.

Which servers a request has to reach is a history variable (`covered`): those
that could be reached through running masters at every moment of the call.
`events` has what has happened to the system so far, because most of what the
source assumes about other servers is true only while certain things do not
happen, and the properties name exactly those:

| Property | Holds | Not after |
| --- | --- | --- |
| `AnsweredMeansReplicated` | always | - |
| `RequesterKnown` | also after a crash | a start, late heartbeats of a server that runs, a new master |
| `ForwardedOnce` | also after crashes and starts | a new master |
| `PostedOnce` | also with two servers that believe to be master of a cluster | a start |
| `PostsInOrder` | whoever is elected | a start, a crash |

Removing an event from a property is an experiment of a minute, and TLC answers
with the scenario: a server that was listed before it listened; one left out of
the counterparts while it was late; two masters of one cluster that send a
`Login` to and fro; a post that was copied and then forwarded too; a call whose
caller has died and that is overtaken. One of them is kept as a run,
`replication_failover`. `AnsweredMeansReplicated` also says which servers get a
post: those of the client's cluster and the other masters, and not the slaves
of other clusters, since `AddPost` does not forward (SNSServer.cpp:913-926). The
repository's README promises it to those too (README.md:7, 53). The property is
an equivalence, so that it states that these servers do not have an answered post,
as it states that the others do. A server that
started may store a post twice, copied and forwarded; `PostedOnce` excepts it.

### Posts

One server. `mode` says whether it is down, up, or where its start-up is; `posts`
is `all_posts`, `file` the posts file, `stream` what
`Client::stream` points to: the number of a `Timeline` call, or 0. The thread of
a user's call is in `pc`; it works on post `cur` and has `todo` before it: the
followers still to be served, or the posts of the backlog. `shown` is what the
user's current call has got.

`Post`, `Write`, `Deliver` and `Posted` are `addPostHelper`, for a message of the
user's own stream or for an `AddPost`; `Enter`, `Join`, `Collect` and
`ShowBacklog` are the way into the timeline, `Leave` and `Return` the way out.
Nobody resets `Client::stream`, so it may point to a call that has returned
(`Stale`). A write to such a stream is undefined: it does nothing, reaches a
stream that has taken the memory, or ends the process (`DeliverDies`). A `Follow`
or `UnFollow` while the loop over the followers runs is seen by it or not, or
ends the process (`LoopDies`).

`other` is the server that this one copies from when it starts: its posts file,
and the follows it has. It executes what this one does, but a post of a
`Timeline` call is sent to it only after it has been delivered here (`Posted`), and
may not reach it. `RestartLocal` reads the own file. Otherwise a start-up takes three
steps: `ClearFiles` empties the files, `GetLog` gets those of the other server or
fails (`GetLogFails`), `CopyPost` takes one post after the other into memory and
file, and the server listens when all are there (`Copied`). A crash may come
between any two of them.

A time has two parts, when it was (`made`) and what the server has (`time`):
each reading from a file adds `DstShift`. A post moves with every copy between
servers, because the copy is formatted from the parsed time, also when the other
server starts (`OtherRestarts`); a follow moves once, because its line is copied
as text. `reads` counts the readings. `BacklogHonest` bounds by it how much older
than the follow a post in the backlog may be. SNSServer.cpp:404-405 says that
none is; that is what the bound comes to without a reading, and TLC meets posts of
before the follow with one.

`seen` has all posts that a client has ever got, through crashes and starts. Two
histories say how they can get lost: `torn` has the posts that a thread had
in memory and not in the file when the process died (one who joins just
then may have got them), `wiped` those that a start-up has taken from the file
because the other server lacks them, or had not yet copied when it died.
`SeenSurvives` says that there is no third way. That `wiped` is needed is against
what the posts file is for: a start empties it (SNSServer.cpp:284) before the copy
is there (294), and if the copy fails (298-301), or has not got a post, posts that
were written and seen are gone.

What this leaves out: both files are emptied in one step, and the userinfo file is
copied in one (`UserLog` takes its copy apart), so that a start-up that dies early
leaves no follows or all. A follow is forwarded to the other server in the step that
makes it. Users do not post at the other server while this one is down.

### FSMemory

`filetree` maps the paths of the nodes to the nodes. `getTreeNode` takes one
`WalkToken` per name; it makes missing folders if asked to, and its state
`null` is the NULL node it goes on with after `createChild` refused. A call of
`create`, `write` or `remove`
takes the mutex (`Lock`), does its work in one step, and gives the mutex back;
with an empty path it returns without that (`ReturnEmptyPath`, `Leaked`).
`FileStore` describes the same store without a walk.

`exists` and `read` (the operation `find`) take no mutex. Their walk holds a
`shared_ptr` and takes one step per name (`FindToken`, `FindNode`), so that other
calls come in between (`AfterChange`): as long as the node it holds is in the tree
it sees the tree, and when the node or a folder above is removed it goes on in what
hangs on the node, as it was. `been` is a history: all that the path has named since
the call began. `FoundWasThere` says that the answer is among it. An unlocked walk
may also see a call under the mutex half-way, and `getChild` may read a `std::map`
that is being changed; both are left out. `Op` is the set of operations of an
instance.

## Runs

| Run | Instance | Shows |
| --- | --- | --- |
| `election_safety` | 2 servers, 1 cluster, both slow, 2 crashes | `OneMaster`, `LockNotOrphaned`, `BeliefBacked`, `NoSkippedElection`, and both refinements of `MasterLock` |
| `election_failover` | the same, not slow, 1 crash, fair | `FailOverUnlessLeaked`: a cluster with a server that stays up comes to have a running master for good |
| `election_mutex_leak` | the same | violated: `FailOver` without the proviso |
| `election_overlap` | slow, `Overlap` | violated: `OneMaster` |
| `clients` | 2 clients, 3 servers, 2 clusters, 3 changes of masters, fair | `SharedIdsOverlap`, `ServerWasMaster`, `FirstAvailable`, `UnavailableMeansEmpty`, `FollowsMaster` |
| `user_log` | 3 users, 1 thread, 6 lines, 2 crashes, daylight saving time | `LogValid`, `MemoryMatchesLog`, `FollowGraphConsistent`, `Durable`, `OnlyUnknownNamesKill` |
| `user_log_threads` | 2 users, 2 threads, 4 lines, 1 crash, failing start-ups | `LostTwoWaysOnly`, `NothingUnlogged`, `LogNamesLoggedIn` |
| `replication` | 2 users, 3 servers, 2 clusters, 3 requests, 1 change, 4 hops, fair | `AnsweredMeansReplicated`, `RequesterKnown`, `ForwardedOnce`, `PostedOnce`, `PostsInOrder`, `RequestsReturn` |
| `replication_failover` | the same with 2 requests | violated: `RequesterKnownAfterFailOver` |
| `posts` | 2 users, 2 posts, 2 `Timeline` calls, 2 seconds, a limit of 1, 1 reading of a file, daylight saving time | `NoPostMissed`, `SeenSurvives`, `FileHoldsPosts`, `BacklogHonest` |
| `posts_rejoin` | the same, no reading, no shift | violated: `NoPostMissedAgain` |
| `fsmemory` | 2 threads, all operations, 3 paths of depth up to 4, files of at most 1 byte | `FoundWasThere`, `FailureChangesNothing`, `ImplementsFileStore` |

The first passing run of each module also checks its type invariant.

Why these bounds are enough to meet the interesting cases:

- Election. Two servers are the fewest that race for a lock. With two crashes the
  old master dies, its successor takes over and dies too, or the first comes
  back before or after it was demoted. Clusters interact only through the sync
  address of a new master; a run with two clusters is part of the plan, and the
  proofs are for any number.
- Clients. Two servers in the first cluster, so that a fail-over within a
  cluster can happen behind and ahead of the search; two clusters, so that the
  search wraps around for the second client. `MaxChanges = 3` is acquire,
  release, acquire elsewhere: the least that could hide a master from a search.
- UserLog. Three users let a third one's follows shift indices. Six lines are
  three logins and three follows or unfollows; two crashes are a restart of a
  restarted server. Four lines are enough for two threads: in `user_log_threads` a
  log with its lines in a wrong order is met by a restart (`SyncBroken`), and a stale
  index by `UnFollow` (`StaleErase`).
- Replication. Two servers in one cluster and one in the other: a request then
  goes through all three roles, client's master, other master, slave, or master,
  slave and other master. Any set of servers runs at first. Three requests are
  two logins and a follow, or a login and two posts. One change is one start,
  crash or missed heartbeat of a server that runs; what follows from it (the
  demotion of a crashed server, the election, the switch of the clients) is not
  counted. Four hops are one more than an undisturbed chain can have.
- Posts. A limit of one post (20 in the code) makes two posts overflow the
  backlog; two calls are both users in the timeline or one of them twice; with
  two seconds a post is earlier than, as late as, or later than a follow; the
  shift of one second moves one past the other. One reading is a start, from the
  own file or from another server's, in the middle of all this, or a start of the
  other server; and a start that has begun to copy may die with part of the
  posts. Crashes, and starts that fail before they read anything, are not bounded.
- FSMemory. With `a` a file, `a/b/c/d` is the shortest path on which the walk
  dereferences NULL. A walk to it without the mutex can be overtaken at each of its
  steps by a removal of `a` or `a/b`, and by their making again.

Deadlock is not checked (`CHECK_DEADLOCK FALSE`) because the systems may really
stop: the coordinator when the mutex is leaked, a client that has exited, a
server that cannot replay its log or has filled the bounded one.

Fairness. The threads of the coordinator and of a running server keep running
(`WF` of `checkHeartbeats`, `Heartbeat(s)`, `serverLoop(s)`), since each is a
loop or a gRPC call that a thread of its own executes, and the time since the last heartbeat of a
server that is down passes (`Expire`). Nobody is obliged to start, to restart or
to crash a server. In `Clients` the refreshing thread and the coordinator's
threads keep running and `Login` ends; nothing forces a server to become master.
In `Replication` the calls that servers execute go on, since each has a thread
and an RPC to a process that is gone fails; clients, heartbeats, elections and
start-ups owe nothing, and a call that waits for another one cannot be forced.
Weak fairness is enough everywhere.

## Findings

Each is a run in which TLC finds the violation; `PROJECT.json` quotes the lines.

1. `election_mutex_leak`. `FSMemory::remove` (also `create` and `write`) returns
   with the mutex locked if the path is empty. A server that loses the race for
   the master file between `exists` and `create` gets an empty path; when it then
   misses two heartbeats, `checkHeartbeats` removes the empty path, and no
   election in any cluster ends any more.
2. `election_overlap`. `checkHeartbeats` clears the flag and removes
   `server->path` in two statements. A heartbeat in between can win an election
   whose file is then removed; the cluster gets a second master.
3. `replication_failover`. A master that has crashed is listed until it has missed
   two heartbeats, and the failure to reach it is ignored. A `Login` at another
   cluster meanwhile is not seen by its slaves; the one that takes over does not
   know the user, and dereferences NULL with the user's next request.
4. `posts_rejoin`. `Client::stream` is set once. A user who leaves the timeline and
   comes back gets no backlog and no posts, or whatever a write to a stream that
   is gone does.

More are described above and have no run of their own: overlapping calls of
`GetUniqueClientID` share an id; a name that does not exist ends the server; a
`Follow` may be logged before the `Login` it needs, or without it, and a
repeated `Login` be answered before its line is written; posts do not get to
the slaves of other clusters; a start that fails, or copies from a server that
lacks a post, loses posts that were logged and seen; and after a start in
daylight saving time a backlog may have posts from before the follow.

## Proofs

All are checked by `tlapm` without any fact taken on trust, for every value of
the constants that the named assumptions of the modules (`ElectionAssumption`,
`ReplicationAssumption`, ...) allow. They ask for no more than the types of the
constants, and in `Replication` for finitely many users, the servers in the
order in which the coordinator lists them, and room for one hop.

`ElectionProofs`: `TypeCorrect` needs nothing else. The others assume
`Overlap = FALSE`, and no more: any number of servers, clusters and crashes, any
set of slow servers. `Invariance` is the inductive invariant

    IInv == TypeOK /\ Locals /\ Timely /\ Fields /\ OneOwner /\ LockNotOrphaned /\ Belief

`OneMaster` is not inductive, because the flag is the last thing a new master
sets and the first a demoted one loses; between these moments the file alone
keeps others out. `OneOwner` is the stronger statement: at most one server
`Owns` a cluster's master file, and the file holds its address. That it is kept
by `Release`, which removes whatever `path` names, needs that the path of a
server that is demoted names the master file only if that server owns it
(`Fields`), and that needs that no call of that server is under way at this
time (`Timely`: a call ends before two misses are counted against its server).
`Locals` ties the local variables to the program counter. `Belief` covers the
way of the master flag through the reply to the server. From `IInv` follow
`MutualExclusion` (`OneMaster`), `LockHasOwner` (`LockNotOrphaned`),
`BeliefSound` (`BeliefBacked`), `ElectionNotSkipped` (`NoSkippedElection`), and
the two refinements, `Refinement` and `FlagsRefinement`. For these each step is
shown to acquire a lock nobody holds, to release it, or to leave it alone.

`UserLogProofs`, for any number of threads and whether or not start-ups fail.
`KnownInvariance` has what is left of the log's order when requests overlap:

    KnownInv == LogTypes /\ Calls /\ Memory /\ Known /\ LookedUp /\ Gone /\ LogNamesLoggedIn

`Known` relates memory and log in both directions. Every user and every follow
in memory has its line, in the log or about to be written; every name in a line
of the log is a user in memory, while the server runs. A copy needs both at
once: it replays the log, line by line, and a line either breaks the replay or
keeps both. A running server needs `LookedUp` for the second: a user that a
request has looked up is there when its line is appended, because no step of a
running server removes a user. `NothingIsUnlogged` (`NothingUnlogged`) and
`LogNamesAreLoggedIn` (`LogNamesLoggedIn`) follow. What a `Follow` adds to the
two vectors and what an index that has become stale erases from them are lemmas
(`PushFollowIs`, `EraseIs`). `KeptInv` says that acknowledged lines, and those
of calls that are about to answer, are in one of the five places of
`LostTwoWaysOnly`; a `Login` of a user in memory needs `Known` for this
(`LostOnlyTwoWays`). With one request at a time and `SyncMayFail = FALSE` two
places are left, the log and what is still to be copied (`NothingGone`):
`Durability` (`Durable`).

`ReplayProofs` assumes `Alone`, that there is one thread: it is the theory of
the log as it is meant, and the server has no lock that would make requests
wait for each other. Users, clock, shift by daylight saving time, crashes
and failing start-ups (`SyncMayFail`) are arbitrary.

    ReplayInv == KnownInv /\ Lengths /\ GoodLog /\ Copying /\ Settled /\ Writing /\ Checked

`LogValid` is not inductive, since a copy that breaks off leaves a prefix of
what was copied. `GoodLog` says that each prefix of the log, and of what is
being copied, gives a `client_db` in which both vectors of each follow agree and
nobody is listed twice. `Settled` says that between requests memory is
`Similar` to the replay: the same vectors in the same order, but for the times
of the follows. The order matters, because an `UnFollow` erases by index. From
the change of memory to the append, `Writing` says this of the replay with
the line to come; before, `Checked` keeps what the lookup has found, the two
indices of an `UnFollow` included. The core are two lemmas: a line that was
allowed in memory takes the replay where it takes memory (`OneRequest`, from
`OneLogin`, `OneFollow` and `OneUnFollow`), and a log is good if what it gives is
`Similar` to a good memory (`SimilarGood`). From `ReplayInv` follow `LogIsValid` (`LogValid`),
`RestartFindsMemory` (`MemoryMatchesLog`), `GraphConsistent`
(`FollowGraphConsistent`), `OnlyUnknownKills` (`OnlyUnknownNamesKill`), and the
types.

`PostsProofs`: all invariants of `Posts`, from the assumption on the constants
alone: any users, posts, calls, clock, crashes and shift, and any length of a
timeline from 1 on.

    PostsInv == Types /\ Numbering /\ Connections /\ Collected /\ Late /\ SeenSurvives /\ Timely

`Numbering` has the numbers of the posts distinct in memory and in both files, and the
two sets equal but for posts whose thread is at `write`, or, while a start copies,
but for those still to come; `FileAndMemory`
(`FileHoldsPosts`) follows from it. `SeenSurvives` is inductive with its help: what a
user is shown is in memory, and what is in memory is in the file or about to be
written (`SeenIsStored`). `Late` bounds the time of a post by when it was made and
`DstShift * reads`, in memory, in both files and on the way between them, and says
that no follow has a time before it was made; with `Collected` this gives
`BacklogIsHonest` (`BacklogHonest`). `Connections` says which stream a call of
`Timeline` has and that a client's stream is older than the call until the
first message of the call sets it. `NoPostMissed` alone is lost when a user joins
while posts are on their way. `Timely` adds the posts that some thread has still to
write or to deliver to this user, and those still in its backlog (`Gets`). That
a new post needs no more than this is a fact about the last `MaxTimeline` posts
of a growing sequence: what is among them now and is not the new one was among
them before. With it, `NothingMissed` (`NoPostMissed`).

`FSMemoryProofs`: `FSInv == TypeOK /\ Rooted(filetree) /\ Nodes`, for paths of
any depth, any data and any threads. `Rooted` says that the parent of each node
is the root or a folder of the map; it is what makes the walk by names find
the same node as the whole path. What `getTreeNode` returns is shown by induction
on the names walked (`TreeNode`, from `WalkStep`), and `CallEffect` says what a
call that found, made or missed its folders does to the tree. From this, `NoTraceOfFailure`
(`FailureChangesNothing`) and `Refinement`
(`ImplementsFileStore`): each step is one of the abstract store's or leaves it
alone, the walk into NULL included. `FindIsTrue` (`FoundWasThere`) needs `Finders`, an
invariant of the walks without the mutex: what the path names in the tree that the
walk is in, the file tree or what is left of an old one, it has named in the file
tree at a moment of the call.

`replay` and `getTreeNode` are recursive functions, and what they compute is
proved by induction over numbers: `Lemmas` has it in a form without operator
parameters (`Induction`), from the least element of a set of numbers.

`ClientsProofs`: all invariants of `Clients`, from nothing but the assumption on
the constants. `IdInv` adds `Ids` to the types: the ids in `clientAssignments` are
`0 .. Count - 1`, and nobody has the id `Count` but calls that are about to insert
it. `IdsNotReused` (`SharedIdsOverlap`) follows, because those are the calls a new
one meets; and `TypeCorrect`, because there are no more ids than clients that have
been served. `ClientsInv` adds what a running call of `GetServer` knows
(`CallInv`). A search reads one flag after the other while masters change, so that
"no master among the servers passed by" is not true of the state; what is true is
that each cluster has been without a master during the call or all its masters
are still `left` to look at. A server that becomes master behind the search does
not break this, since its cluster was without one just before. From it follow
`AnswerWasMaster` (`ServerWasMaster`), `SearchInOrder` (`FirstAvailable`) and
`UnavailableIsTrue` (`UnavailableMeansEmpty`).

`ReplicationProofs`: all invariants of `Replication`, for any servers, clusters,
users, requests, changes and hops. Each has an invariant of its own, on top of the
types (`TypeInv`) and of what is true of the calls of clients (`Rooted`: a user has
at most one, it is the user's last request, and it is at the user's server).

- `ForwardedAtMostOnce` (`ForwardedOnce`) by `Forwarding`. The `Heads` of a cluster
  are its master and the servers that believe to be it. They are at most one,
  and without an election they only get fewer; `Chain` says that every server
  that has sent a request on is the only head its cluster has left, if any, and at
  which place of the chain it is.
- `PostsAreStoredOnce` (`PostedOnce`) by `OnceInv`. Elections happen here, so that
  heads do not help. A post is `OnItsWay`: where it has still to go it is neither
  stored nor in another call (`Untouched`), and while the counterparts are served
  this is true of every other cluster. No two calls have one post at one server
  (`Apart`).
- `PostsAreStoredInOrder` (`PostsInOrder`) by `OrderInv`. If no server ends, the
  caller of a call is there (`Awaited`), hence a post under way is the last of its
  author, and higher than all that are stored.
- `AnswersMeanCopies` (`AnsweredMeansReplicated`) by `CoverInv`: each covered server
  has the request, or it is `Coming`: it is in `todo`, or a call at it is about to
  execute, or this holds of the master of its cluster, which will send it on.
  This needs the master to stay the same during the call. It does for a server
  that stays covered (`Steady`): a lock is given back before somebody else takes
  it, and in between nobody in the cluster could be reached. That a post is not on
  the other servers is `AwayInv`: it is `Untouched` at a slave of another cluster that
  stays covered, because of the calls that have it only the client's own sends
  it on (`PostsEnd`), to its counterparts and to masters; and its number is new
  (`Counting`), also for the posts that starting servers copy.
- `RequestersAreKnown` (`RequesterKnown`) by `KnownInv`. In quiet times the servers
  that run are active and know who is master (`Calm`), so that calls only
  reach servers that could be reached all along (`Downward`); by `CoverInv` these
  have the `Login` of whoever is logged in (`Acquainted`).

Before they were proved, TLC checked these invariants on instances of three and
of four servers.

Only model-checked: the liveness properties (`FailOverUnlessLeaked`,
`FollowsMaster`, `RequestsReturn`), which need `ENABLED` and temporal fairness.
Every invariant, action property and refinement that a passing run checks is a theorem
too.

## Not modelled

- Data races on `std::map`, vectors and zNode fields are undefined behaviour.
  The models take a single access as atomic and let the accesses interleave.
- A restart of the coordinator. It keeps nothing on disk, and every server exits
  when its heartbeat fails: the whole system stops.
- Printing of `FSMemory`, which changes nothing; `move` and `copy` are stubs.
- `FSLocal` apart from append, truncate and read, `splitFilepath` apart from the
  empty path, option parsing, the terminal, the test shell.
- A slave whose read of the master file finds nothing, and which starts from its
  own files: `Election` has it, `Replication` does not.
- Several threads that write to one gRPC stream at once.
- Leaving the chat by its exit word, which ends only the thread that writes: to
  the server the client is one that posts no more.
- That a post reaches every follower in the end: the liveness of `Posts` under
  the fairness of its threads is too large for TLC at bounds that mean anything.

## Plan

Done, in this order because the rest of the system relies on it: `MasterLock`
and `Election` with their proofs, `UserLog` with `Durability`, `FSMemory` with
`FileStore`, `Clients` with its proofs, `Replication`, `Posts`.

Then the proofs about `UserLog`, with one request at a time and with many, about
`Posts`, about `FSMemory` with its refinement, and about `Replication`; then `Posts` with its
start-up step by step and `FSMemory` with its unlocked walks.

Next:

1. `Election` on two clusters (the sync address of a new master), for the runs;
   the proofs have it.
2. `Posts` and `UserLog` on one server at once: a `Follow` and a post of the same
   moment, replayed together.
3. An abstract specification of a replicated request, accepted, spread, answered,
   that `Replication` implements while nothing starts, moves or is slow.
