------------------------------ MODULE UserLog ------------------------------
(***************************************************************************)
(* The users of one server and its userinfo log: the Login, Follow and     *)
(* UnFollow RPCs of SNSServer, which change client_db in memory and then   *)
(* append a line to the file, and initializeData, which rebuilds client_db *)
(* when the server starts, from its own file or from the log of another    *)
(* server.                                                                 *)
(*                                                                         *)
(* The server is a synchronous gRPC service without a lock, so calls run   *)
(* in threads.  A step is one lookup, one change of client_db, or one      *)
(* append; each is taken to be atomic.  Propagation to other servers comes *)
(* after the append and is not part of this module.                        *)
(***************************************************************************)
EXTENDS Naturals, Sequences, FiniteSets, SequencesExt

CONSTANTS
    User,          \* user names
    Thread,        \* the threads that serve requests
    Time,          \* request timestamps, in ticks
    Tick,          \* ticks per second
    DstShift,      \* ticks that mktime adds while daylight saving time is on
    SyncMayFail,   \* TRUE: a start-up from another server's log may fail half-way
    MaxLog,        \* bound on the length of the log
    MaxCrashes     \* bound on the number of crashes

ASSUME UserLogAssumption ==
    /\ Time \subseteq Nat
    /\ Tick \in Nat \ {0}
    /\ DstShift \in Nat
    /\ SyncMayFail \in BOOLEAN
    /\ MaxLog \in Nat
    /\ MaxCrashes \in Nat

VARIABLES
    mode,       \* "down", "fetch", "copy" (initializeData), or "up"
    db,         \* client_db and the vectors of its clients
    log,        \* the userinfo file
    rest,       \* the lines that a starting server has still to process
    pc, req,    \* per thread: where its call is, and the request it serves
    at,         \* per thread: index and index2 of UnFollow
    acked,      \* the log lines of the requests answered with SUCCESS
    crashes,
    torn,       \* the logins in memory but not in the file when the process died
    wiped       \* the lines that a start-up had emptied the file of and had not
                \* copied back when the process died

vars == <<mode, db, log, rest, pc, req, at, acked, crashes, torn, wiped>>

Login(u)       == [op |-> "user", user |-> u]
Follow(u, v, t) == [op |-> "follow", user |-> u, target |-> v, time |-> t]
UnFollow(u, v) == [op |-> "unfollow", user |-> u, target |-> v]

Request == {Login(u) : u \in User}
    \cup {Follow(u, v, t) : u \in User, v \in User, t \in Time}
    \cup {UnFollow(u, v) : u \in User, v \in User}

NoRequest == [op |-> "none"]

\* timestampToStr keeps whole seconds only.  strToSeconds reads them back with
\* tm_isdst = 0.
SecondsOf(t)  == t - (t % Tick)
ParsedTime(t) == SecondsOf(t) + DstShift

\* A variant of Line that LogValid must reject: the names of an unfollow swapped.
LineSwapped(r) == IF r.op = "unfollow" THEN UnFollow(r.target, r.user) ELSE r

\* The line that a request writes to the log.
Line(r) == IF r.op = "follow" THEN [r EXCEPT !.time = SecondsOf(@)] ELSE r

-----------------------------------------------------------------------------
(* client_db *)

\* users: the names in client_db; following: client_following and follow_time,
\* which are pushed and erased together; followers: client_followers.
EmptyDb == [users |-> <<>>,
            following |-> [u \in User |-> <<>>],
            followers |-> [u \in User |-> <<>>]]

\* A helper dereferenced NULL or erased outside a vector: the process dies.
Broken == [users |-> <<>>]

\* getClient finds the client.
Exists(d, u) == Contains(d.users, u)

Followees(d, u) == {f.who : f \in ToSet(d.following[u])}

\* A variant of indexOfFollowing that TypeOK must reject: the C++ indices, with
\* -1 for none, where the callers expect 0.
indexFromZero(d, u, v) ==
    SelectInSeq(d.following[u], LAMBDA f : f.who = v) - 1

indexOfFollowing(d, u, v) ==
    SelectInSeq(d.following[u], LAMBDA f : f.who = v)

indexOfFollower(d, u, v) ==
    SelectInSeq(d.followers[u], LAMBDA w : w = v)

\* A variant of PushFollow that OnlyUnknownNamesKill must reject: the target does
\* not learn of its follower.
PushFollowing(d, u, v, t) ==
    [d EXCEPT !.following[u] = Append(@, [who |-> v, time |-> t])]

PushClient(d, u) == [d EXCEPT !.users = Append(@, u)]

PushFollow(d, u, v, t) ==
    [d EXCEPT !.following[u] = Append(@, [who |-> v, time |-> t]),
              !.followers[v] = Append(@, u)]

\* vector::erase.  An index that another thread has made stale lies past the
\* end; the call then takes the last element off, if the process survives it.
Erase(s, i) == IF i \in DOMAIN s THEN RemoveAt(s, i) ELSE Front(s)

\* A variant of EraseFollow that FollowGraphConsistent must reject: the followers
\* of the target are forgotten.
EraseFollowing(d, u, v, i, j) == [d EXCEPT !.following[u] = Erase(@, i)]

\* Both vectors lose the element at an index found before.
EraseFollow(d, u, v, i, j) ==
    [d EXCEPT !.following[u] = Erase(@, i), !.followers[v] = Erase(@, j)]

ErasesInside(d, u, v, i, j) ==
    i \in DOMAIN d.following[u] /\ j \in DOMAIN d.followers[v]

-----------------------------------------------------------------------------
(* Replay of a log *)

loginHelper(d, u) == PushClient(d, u)

followHelper(d, u, v, t) ==
    IF Exists(d, u) /\ Exists(d, v) THEN PushFollow(d, u, v, ParsedTime(t))
                                    ELSE Broken

unfollowHelper(d, u, v) ==
    LET i == indexOfFollowing(d, u, v)
        j == indexOfFollower(d, v, u)
    IN  IF Exists(d, u) /\ Exists(d, v) /\ ErasesInside(d, u, v, i, j)
        THEN EraseFollow(d, u, v, i, j)
        ELSE Broken

\* One line of processUserInfoFromFile.
ReplayLine(d, line) ==
    CASE d = Broken -> Broken
      [] d # Broken /\ line.op = "user" -> loginHelper(d, line.user)
      [] d # Broken /\ line.op = "follow" ->
            followHelper(d, line.user, line.target, line.time)
      [] d # Broken /\ line.op = "unfollow" ->
            unfollowHelper(d, line.user, line.target)

\* replay[i] is client_db after i lines.
processUserInfoFromFile(lines) ==
    LET replay[i \in 0 .. Len(lines)] ==
            IF i = 0 THEN EmptyDb ELSE ReplayLine(replay[i - 1], lines[i])
    IN  replay[Len(lines)]

-----------------------------------------------------------------------------

Init ==
    /\ mode = "down"
    /\ db = EmptyDb
    /\ log = <<>>
    /\ rest = <<>>
    /\ pc = [t \in Thread |-> "idle"]
    /\ req = [t \in Thread |-> NoRequest]
    /\ at = [t \in Thread |-> <<0, 0>>]
    /\ acked = {}
    /\ crashes = 0
    /\ torn = {}
    /\ wiped = {}

\* What is in memory and about to be written.
Pending == {req[t] : t \in {t \in Thread : pc[t] = "write"}}

PendingLogins == {r \in Pending : r.op = "user"}

\* The process is gone and its memory with it; the file stays.
Die ==
    /\ mode' = "down"
    /\ torn' = torn \cup PendingLogins
    /\ wiped' = wiped \cup ToSet(rest)
    /\ db' = EmptyDb
    /\ rest' = <<>>
    /\ pc' = [t \in Thread |-> "idle"]
    /\ req' = [t \in Thread |-> NoRequest]
    /\ at' = [t \in Thread |-> <<0, 0>>]

Crash ==
    /\ mode = "up" \/ (SyncMayFail /\ mode \in {"fetch", "copy"})
    /\ crashes < MaxCrashes
    /\ crashes' = crashes + 1
    /\ Die
    /\ UNCHANGED <<log, acked>>

\* initializeData with an empty sync address: replay of the server's own file.
StartLocal ==
    /\ mode = "down"
    /\ processUserInfoFromFile(log) # Broken
    /\ mode' = "up"
    /\ db' = processUserInfoFromFile(log)
    /\ UNCHANGED <<log, rest, pc, req, at, acked, crashes, torn, wiped>>

\* initializeData with a sync address empties the file before it asks that
\* server for its log.  The other server holds what this one had logged.
StartSync ==
    /\ mode = "down"
    /\ mode' = "fetch"
    /\ rest' = log
    /\ log' = <<>>
    /\ UNCHANGED <<db, pc, req, at, acked, crashes, torn, wiped>>

\* The reply of GetLog arrives.
SyncFetched ==
    /\ mode = "fetch"
    /\ mode' = "copy"
    /\ UNCHANGED <<db, log, rest, pc, req, at, acked, crashes, torn, wiped>>

\* GetLog fails: a FATAL log message ends the process.
SyncFailed ==
    /\ mode = "fetch"
    /\ SyncMayFail
    /\ Die
    /\ UNCHANGED <<log, acked, crashes>>

\* A variant of SyncLine that Durable must reject: the line is not saved.
SyncLineUnsaved ==
    /\ mode = "copy" /\ rest # <<>> /\ ReplayLine(db, Head(rest)) # Broken
    /\ db' = ReplayLine(db, Head(rest))
    /\ rest' = Tail(rest)
    /\ UNCHANGED <<mode, log, pc, req, at, acked, crashes, torn, wiped>>

\* A variant of SyncLine that MemoryMatchesLog must reject: the time that was
\* parsed is formatted again, so it moves with every copy.
SyncLineParsed ==
    /\ mode = "copy" /\ rest # <<>> /\ ReplayLine(db, Head(rest)) # Broken
    /\ db' = ReplayLine(db, Head(rest))
    /\ LET line == Head(rest)
       IN  log' = Append(log, IF line.op = "follow"
                              THEN [line EXCEPT !.time = ParsedTime(@)]
                              ELSE line)
    /\ rest' = Tail(rest)
    /\ UNCHANGED <<mode, pc, req, at, acked, crashes, torn, wiped>>

\* A line is processed, then written to the own file.
SyncLine ==
    /\ mode = "copy"
    /\ rest # <<>>
    /\ ReplayLine(db, Head(rest)) # Broken
    /\ db' = ReplayLine(db, Head(rest))
    /\ log' = Append(log, Head(rest))
    /\ rest' = Tail(rest)
    /\ UNCHANGED <<mode, pc, req, at, acked, crashes, torn, wiped>>

\* The next line cannot be processed: a helper dereferences NULL or erases
\* outside a vector, and the process dies with a part of the log copied.
SyncBroken ==
    /\ mode = "copy"
    /\ SyncMayFail
    /\ rest # <<>>
    /\ ReplayLine(db, Head(rest)) = Broken
    /\ Die
    /\ UNCHANGED <<log, acked, crashes>>

\* Everything is copied; the server listens.
SyncDone ==
    /\ mode = "copy"
    /\ rest = <<>>
    /\ mode' = "up"
    /\ UNCHANGED <<db, log, rest, pc, req, at, acked, crashes, torn, wiped>>

\* A request arrives.  A user logs in before anything else, but names any
\* other user.
Receive(t) ==
    /\ mode = "up"
    /\ pc[t] = "idle"
    /\ Len(log) < MaxLog
    /\ \E r \in Request :
          /\ r.op # "user" => Exists(db, r.user)
          /\ req' = [req EXCEPT ![t] = r]
    /\ pc' = [pc EXCEPT ![t] = "lookup"]
    /\ UNCHANGED <<mode, db, log, rest, at, acked, crashes, torn, wiped>>

Return(t) ==
    /\ pc' = [pc EXCEPT ![t] = "idle"]
    /\ req' = [req EXCEPT ![t] = NoRequest]
    /\ at' = [at EXCEPT ![t] = <<0, 0>>]

\* Login: getClient with createNew.  A client that is found is connected, and
\* is welcomed back, with SUCCESS, whether or not its line is in the file yet.
LookupLogin(t) ==
    LET r == req[t] IN
    /\ pc[t] = "lookup" /\ r.op = "user"
    /\ \/ /\ Exists(db, r.user)
          /\ acked' = acked \cup {Line(r)}
          /\ Return(t)
       \/ /\ ~Exists(db, r.user)
          /\ pc' = [pc EXCEPT ![t] = "update"]
          /\ UNCHANGED <<req, at, acked>>
    /\ UNCHANGED <<mode, db, log, rest, crashes, torn, wiped>>

\* Follow and UnFollow: both lookups, the checks, and the indices.  The answer
\* is a failure status if the two are the same or if the list of the user has
\* (Follow) or lacks (UnFollow) the target.
LookupPair(t) ==
    LET r == req[t]
        index == indexOfFollowing(db, r.user, r.target)
        index2 == indexOfFollower(db, r.target, r.user)
    IN
    /\ pc[t] = "lookup" /\ r.op \in {"follow", "unfollow"}
    /\ Exists(db, r.target)
    /\ \/ /\ r.user = r.target \/ (r.op = "follow") = (index # 0)
          /\ Return(t)
       \/ /\ r.user # r.target /\ (r.op = "follow") # (index # 0)
          /\ pc' = [pc EXCEPT ![t] = "update"]
          /\ at' = [at EXCEPT ![t] = IF r.op = "unfollow" THEN <<index, index2>> ELSE @]
          /\ UNCHANGED req
    /\ UNCHANGED <<mode, db, log, rest, acked, crashes, torn, wiped>>

\* Follow and UnFollow of a name that does not exist: the status is set to
\* FAILURE_NOT_EXISTS, and then the log message dereferences the NULL target.
UnknownTarget(t) ==
    /\ pc[t] = "lookup" /\ req[t].op \in {"follow", "unfollow"}
    /\ ~Exists(db, req[t].target)
    /\ Die
    /\ UNCHANGED <<log, acked, crashes>>

\* The change of client_db.
Update(t) ==
    LET r == req[t] IN
    /\ pc[t] = "update"
    /\ \/ /\ r.op = "user"
          /\ db' = PushClient(db, r.user)
       \/ /\ r.op = "follow"
          /\ db' = PushFollow(db, r.user, r.target, r.time)
       \/ /\ r.op = "unfollow"
          /\ db.following[r.user] # <<>> /\ db.followers[r.target] # <<>>
          /\ db' = EraseFollow(db, r.user, r.target, at[t][1], at[t][2])
    /\ pc' = [pc EXCEPT ![t] = "write"]
    /\ UNCHANGED <<mode, log, rest, req, at, acked, crashes, torn, wiped>>

\* UnFollow with a stale index dies.
StaleErase(t) ==
    LET r == req[t] IN
    /\ pc[t] = "update" /\ r.op = "unfollow"
    /\ ~ErasesInside(db, r.user, r.target, at[t][1], at[t][2])
    /\ Die
    /\ UNCHANGED <<log, acked, crashes>>

\* A variant of Write that LogNamesLoggedIn must reject: logins are not written.
WriteButLogin(t) ==
    /\ pc[t] = "write"
    /\ log' = IF req[t].op = "user" THEN log ELSE Append(log, Line(req[t]))
    /\ pc' = [pc EXCEPT ![t] = "reply"]
    /\ UNCHANGED <<mode, db, rest, req, at, acked, crashes, torn, wiped>>

\* A variant of Write that NothingUnlogged must reject: nothing is written.
WriteNothing(t) ==
    /\ pc[t] = "write"
    /\ pc' = [pc EXCEPT ![t] = "reply"]
    /\ UNCHANGED <<mode, db, log, rest, req, at, acked, crashes, torn, wiped>>

\* write(userinfoPath, data)
Write(t) ==
    /\ pc[t] = "write"
    /\ log' = Append(log, Line(req[t]))
    /\ pc' = [pc EXCEPT ![t] = "reply"]
    /\ UNCHANGED <<mode, db, rest, req, at, acked, crashes, torn, wiped>>

\* The call returns SUCCESS to the client.
Reply(t) ==
    /\ pc[t] = "reply"
    /\ acked' = acked \cup {Line(req[t])}
    /\ Return(t)
    /\ UNCHANGED <<mode, db, log, rest, crashes, torn, wiped>>

Serve(t) ==
    \/ Receive(t) \/ LookupLogin(t) \/ LookupPair(t) \/ UnknownTarget(t)
    \/ Update(t) \/ StaleErase(t) \/ Write(t) \/ Reply(t)

initializeData ==
    \/ StartLocal
    \/ StartSync \/ SyncFetched \/ SyncFailed
    \/ SyncLine \/ SyncBroken \/ SyncDone

Next == initializeData \/ Crash \/ \E t \in Thread : Serve(t)

Spec == Init /\ [][Next]_vars

-----------------------------------------------------------------------------
(* Properties *)

\* The types of the variables.
TypeOK ==
    /\ mode \in {"down", "fetch", "copy", "up"}
    /\ ToSet(db.users) \subseteq User
    /\ \A u \in User : ToSet(db.followers[u]) \subseteq User
    /\ \A u \in User : Followees(db, u) \subseteq User
    /\ \A line \in ToSet(log) \cup ToSet(rest) \cup acked \cup torn \cup wiped :
          line.user \in User
    /\ pc \in [Thread -> {"idle", "lookup", "update", "write", "reply"}]
    /\ req \in [Thread -> Request \cup {NoRequest}]
    /\ \A t \in Thread : at[t] \in (0 .. MaxLog) \X (0 .. MaxLog)
    /\ crashes \in 0 .. MaxCrashes

\* The log can be replayed whenever the server dies: no line refers to a user
\* that no earlier line logs in, and none removes a follow that is not there.
\* A server that starts from a log that is not valid dies at that line.
LogValid == processUserInfoFromFile(log) # Broken

\* A follow in memory and in a replay of the log: a request gave it the time t,
\* which memory may still have, and which replay reads back from its line.
SameFollow(f, g) ==
    /\ f.who = g.who
    /\ \E t \in Time : f.time \in {t, ParsedTime(t)} /\ g.time = ParsedTime(t)

SameFollowing(s, r) ==
    Len(s) = Len(r) /\ \A i \in DOMAIN s : SameFollow(s[i], r[i])

\* Unless a request is between its change of client_db and its line, a server
\* that were restarted from the log would know what it knows now: the same
\* users, follows and order of both vectors.  A follow time moves at most once,
\* by daylight saving time, however often the server restarts and the log is
\* copied: the copied line is the text that was read, not the time parsed.
MemoryMatchesLog ==
    LET replayed == processUserInfoFromFile(log)
    IN  /\ mode \in {"copy", "up"}
        /\ \A t \in Thread : pc[t] # "write"
        => /\ db.users = replayed.users
           /\ db.followers = replayed.followers
           /\ \A u \in User : SameFollowing(db.following[u], replayed.following[u])

\* Every user is listed once, and u follows v, once, iff v has the follower u,
\* once: List and addPostHelper read the one vector, Follow and the timeline
\* the other.
FollowGraphConsistent ==
    /\ IsInjective(db.users)
    /\ \A u, v \in User : v \in Followees(db, u) <=> u \in ToSet(db.followers[v])
    /\ \A u \in User : /\ Len(db.following[u]) = Cardinality(Followees(db, u))
                       /\ IsInjective(db.followers[u])

\* One request at a time, whatever a client was told has succeeded survives
\* crashes and restarts, if a start-up gets its copy.
Durable == mode = "up" => acked \subseteq ToSet(log)

\* However requests overlap and whether or not start-ups fail, what a client was
\* told has succeeded is lost in two ways only.  A start-up empties the file and
\* dies before it has copied the line back; or a Login found the user in memory,
\* put there by a call that the process did not live to log.
LostTwoWaysOnly ==
    acked \subseteq ToSet(log) \cup ToSet(rest) \cup wiped \cup PendingLogins \cup torn

\* What the threads have put into memory is in the log, or the thread that put
\* it there is about to write it: however requests overlap, and whatever a
\* start-up that failed has lost, nobody sees a user or a follow that no log
\* line and no pending line accounts for.
NothingUnlogged ==
    LET lines == ToSet(log) \cup Pending
    IN  mode = "up" =>
           /\ \A u \in ToSet(db.users) : Login(u) \in lines
           /\ \A u \in User : \A v \in Followees(db, u) :
                 \E l \in lines : l.op = "follow" /\ l.user = u /\ l.target = v

\* However requests overlap, the log of a server, running or not, names a user
\* whose login it lacks for one reason only: the login was in memory, where the
\* call that names the user found it, and its own call has not written it yet
\* or the process died before it did.  Such a log, or one that gets the login
\* after the line that needs it, cannot be replayed: LogValid is about one thread.
LogNamesLoggedIn ==
    \A l \in ToSet(log) : l.op # "user" =>
        {Login(l.user), Login(l.target)} \subseteq ToSet(log) \cup PendingLogins \cup torn

\* One request at a time, a request ends the server in one way only, by naming
\* a user who does not exist: an UnFollow that is let through finds both
\* vectors as it needs them, whatever was followed, unfollowed and replayed.
OnlyUnknownNamesKill ==
    [][mode = "up" /\ mode' = "down" =>
          \/ crashes' # crashes
          \/ \E t \in Thread : pc[t] = "lookup" /\ ~Exists(db, req[t].target)]_vars

=============================================================================
