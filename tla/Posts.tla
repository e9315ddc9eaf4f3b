------------------------------- MODULE Posts -------------------------------
(***************************************************************************)
(* The posts of one server and the timelines of its clients: the Timeline  *)
(* and AddPost RPCs, addPostHelper, getFollowingPosts, the posts file and  *)
(* the start of the server, which reads its own file or copies another one *)
(* (initializeData, updatePostsFromFile, FSLocal), and the Timeline of a   *)
(* client.                                                                 *)
(*                                                                         *)
(* Each call of Timeline or AddPost runs in a thread; a user has one at a  *)
(* time, because a client comes back only after its old call has ended.    *)
(* A step is one change of all_posts, one append, one lookup of a stream   *)
(* or one Write to a stream.  Users exist, and their follows, with the     *)
(* userinfo file, change as UserLog says: here in one step, with the file. *)
(*                                                                         *)
(* The other server is the one that this server copies from; it gets the   *)
(* requests that this one executes, as Replication says.                   *)
(***************************************************************************)
EXTENDS Naturals, Sequences, FiniteSets, SequencesExt

CONSTANTS
    User,          \* user names
    MaxTimeline,   \* how many posts a client gets when it joins: 20 in the code
    DstShift,      \* what mktime adds to a time read from a file, as in UserLog
    MaxTime,       \* bound on the clock, in seconds
    MaxPosts,      \* bound on the number of posts
    MaxConns,      \* bound on the number of Timeline calls
    MaxReads       \* bound on how often posts are read from a file

ASSUME PostsAssumption ==
    /\ MaxTimeline \in Nat \ {0}
    /\ DstShift \in Nat
    /\ MaxTime \in Nat
    /\ MaxPosts \in Nat
    /\ MaxConns \in Nat
    /\ MaxReads \in Nat

VARIABLES
    now,        \* the clock of the clients
    follow,     \* per user, its followees and when it followed them
    mode,       \* of the server: "down", "fetch" and "copy" (it starts), "up"
    posts,      \* all_posts
    file,       \* the posts file
    other,      \* the posts file of the other server, and the follows there
    rest,       \* what the server has still to copy of the other file
    stream,     \* per user: the call whose stream Client::stream points to, or 0
    \* the calls of Timeline and AddPost
    pc,         \* where the thread of a user's call is
    conn,       \* the number of its Timeline call, or 0
    gone,       \* the client of the call has left
    cur,        \* the number of the post it works on
    todo,       \* the followers it has still to write to, or the posts to show
    \* the clients
    shown,      \* the numbers of the posts that the current call has got
    \* history
    seen,       \* the numbers of the posts that any client has ever got
    torn,       \* of the posts that had not been written when the server ended
    wiped,      \* of the posts that a start of the server has taken from the file
    sent, conns, reads

calls == <<pc, conn, gone, cur, todo>>
lost == <<torn, wiped>>
vars == <<now, follow, mode, posts, file, other, rest, stream, calls, shown, seen, lost,
          sent, conns, reads>>

\* A time as the server has it, and when it really was.
Times == [made : 0 .. MaxTime, time : Nat]

\* Posts have numbers.
Numbers(s) == {s[i].n : i \in DOMAIN s}

\* A variant of Considered that BacklogHonest must reject: times are not compared.
ConsideredAnyTime(f, p) == p.user \in DOMAIN follow[f]

\* getFollowingPosts considers a post for f if f follows its author and the post
\* has a later time than the follow.
Considered(f, p) ==
    p.user \in DOMAIN follow[f] /\ p.time > follow[f][p.user].time

\* The indices of the posts that may be shown to f.
ConsideredPosts(f) == {i \in DOMAIN posts : Considered(f, posts[i])}

\* A variant of Latest that NoPostMissed must reject: while(i > 0 && ...), where
\* the C++ index 0 is the first post.
LatestButFirst(f) ==
    {i \in ConsideredPosts(f) \ {1} :
        Cardinality({j \in ConsideredPosts(f) : j > i}) < MaxTimeline}

\* The loop of getFollowingPosts: the latest MaxTimeline of them.
Latest(f) ==
    {i \in ConsideredPosts(f) :
        Cardinality({j \in ConsideredPosts(f) : j > i}) < MaxTimeline}

\* A variant of getFollowingPosts that TypeOK must reject: C++ indices for posts.
getFollowingIndices(f) == {i - 1 : i \in Latest(f)}

getFollowingPosts(f) == {posts[i].n : i \in Latest(f)}

Followers(a) == {f \in User : a \in DOMAIN follow[f]}

\* Client::stream points to the stream of the call that runs, or of one that has
\* returned.
Live(f)  == stream[f] # 0 /\ stream[f] = conn[f]
Stale(f) == stream[f] # 0 /\ stream[f] # conn[f]

\* The types of the variables.
TypeOK ==
    /\ now \in 0 .. MaxTime
    /\ \A f \in User : /\ DOMAIN follow[f] \subseteq User
                       /\ \A a \in DOMAIN follow[f] : follow[f][a] \in Times
    /\ mode \in {"down", "fetch", "copy", "up"}
    /\ \A f \in User : /\ DOMAIN other.follow[f] \subseteq User
                       /\ \A a \in DOMAIN other.follow[f] : other.follow[f][a] \in Times
    /\ \A p \in ToSet(posts) \cup ToSet(file) \cup ToSet(other.posts) \cup ToSet(rest) :
          p.user \in User /\ p.n \in 1 .. MaxPosts /\ p.made \in 0 .. MaxTime
    /\ stream \in [User -> 0 .. MaxConns]
    /\ pc \in [User -> {"none", "first", "collect", "backlog", "read", "write", "deliver"}]
    /\ conn \in [User -> 0 .. MaxConns]
    /\ gone \in [User -> BOOLEAN]
    /\ cur \in [User -> 0 .. MaxPosts]
    /\ shown \in [User -> SUBSET (1 .. MaxPosts)]
    /\ seen \cup torn \cup wiped \subseteq 1 .. MaxPosts
    /\ sent \in 0 .. MaxPosts /\ conns \in 0 .. MaxConns /\ reads \in 0 .. MaxReads

None == [u \in User |-> 0]
Nobody == [u \in User |-> {}]
NoFollows == [u \in User |-> [a \in {} |-> 0]]

Init ==
    /\ now = 0
    /\ follow = NoFollows
    /\ mode = "up"
    /\ posts = <<>> /\ file = <<>> /\ rest = <<>>
    /\ other = [posts |-> <<>>, follow |-> NoFollows]
    /\ stream = None /\ conn = None /\ cur = None
    /\ pc = [u \in User |-> "none"]
    /\ gone = [u \in User |-> FALSE]
    /\ todo = Nobody /\ shown = Nobody
    /\ seen = {} /\ torn = {} /\ wiped = {}
    /\ sent = 0 /\ conns = 0 /\ reads = 0

\* The posts that a thread has stored and not yet written.
Unwritten == {cur[u] : u \in {u \in User : pc[u] = "write"}}

\* The posts that a starting server has not yet copied.
ToCopy == IF mode = "fetch" THEN Numbers(other.posts) ELSE Numbers(rest)

\* The process ends: its memory is lost and its calls fail.
Die ==
    /\ mode' = "down"
    /\ posts' = <<>> /\ rest' = <<>>
    /\ stream' = None /\ conn' = None /\ cur' = None
    /\ pc' = [u \in User |-> "none"]
    /\ gone' = [u \in User |-> FALSE]
    /\ todo' = Nobody /\ shown' = Nobody
    /\ torn' = torn \cup Unwritten
    /\ wiped' = wiped \cup ToCopy

-----------------------------------------------------------------------------
(* Posting *)

\* A message of u arrives, on its stream or, if u is at another server, in an
\* AddPost of that server, which has it already.  addPostHelper:
\* all_posts.push_back(p)
Post(u) ==
    /\ mode = "up" /\ ~gone[u]
    /\ pc[u] \in {"none", "read"}
    /\ sent < MaxPosts
    /\ sent' = sent + 1
    /\ LET p == [user |-> u, n |-> sent', made |-> now, time |-> now]
       IN  /\ posts' = Append(posts, p)
           /\ other' = IF conn[u] = 0 THEN [other EXCEPT !.posts = Append(@, p)] ELSE other
    /\ cur' = [cur EXCEPT ![u] = sent']
    /\ pc' = [pc EXCEPT ![u] = "write"]
    /\ UNCHANGED <<now, follow, mode, file, rest, stream, conn, gone, todo, shown,
                   seen, lost, conns, reads>>

\* FSLocal::write, not overwriting
AppendToFile(p) == file' = Append(file, p)

\* A variant of Write that FileHoldsPosts must reject: writeToFile is FALSE.
WriteNothing(u) ==
    /\ pc[u] = "write"
    /\ pc' = [pc EXCEPT ![u] = "deliver"]
    /\ todo' = [todo EXCEPT ![u] = Followers(u)]
    /\ UNCHANGED <<now, follow, mode, posts, file, other, rest, stream, conn, gone,
                   cur, shown, seen, lost, sent, conns, reads>>

\* write(postsPath, data), and the loop over client_followers begins.
Write(u) ==
    /\ pc[u] = "write"
    /\ \E p \in ToSet(posts) : p.n = cur[u] /\ AppendToFile(p)
    /\ pc' = [pc EXCEPT ![u] = "deliver"]
    /\ todo' = [todo EXCEPT ![u] = Followers(u)]
    /\ UNCHANGED <<now, follow, mode, posts, other, rest, stream, conn, gone, cur,
                   shown, seen, lost, sent, conns, reads>>

\* The users to whose client a Write to the stream of f may go.  After the call
\* has returned, the stream of any call may lie at its address.
Reached(f) == IF Stale(f) THEN {g \in User : conn[g] # 0} ELSE {g \in {f} : Live(f)}

\* follower->stream->Write if there is a stream.  Nothing comes of it if the
\* client has left, and perhaps nothing if the stream is one of an old call.
Deliver(u) ==
    /\ pc[u] = "deliver"
    /\ \E f \in todo[u] :
          /\ todo' = [todo EXCEPT ![u] = @ \ {f}]
          /\ \/ \E g \in Reached(f) :
                   /\ ~gone[g]
                   /\ shown' = [shown EXCEPT ![g] = @ \cup {cur[u]}]
                   /\ seen' = seen \cup {cur[u]}
             \/ /\ Stale(f) \/ \A g \in Reached(f) : gone[g]
                /\ UNCHANGED <<shown, seen>>
    /\ UNCHANGED <<now, follow, mode, posts, file, other, rest, stream, pc, conn, gone,
                   cur, lost, sent, conns, reads>>

\* The use of a stream that is gone ends the process.
DeliverDies(u) ==
    /\ pc[u] = "deliver"
    /\ \E f \in todo[u] : Stale(f)
    /\ Die
    /\ UNCHANGED <<now, follow, file, other, seen, sent, conns, reads>>

\* AddPost returns; Timeline sends the post to the other server, which may not
\* get it, and reads its next message.
Posted(u) ==
    /\ pc[u] = "deliver" /\ todo[u] = {}
    /\ \/ UNCHANGED other
       \/ /\ conn[u] # 0
          /\ \E p \in ToSet(posts) :
                /\ p.n = cur[u]
                /\ other' = [other EXCEPT !.posts = Append(@, [p EXCEPT !.time = p.made])]
    /\ pc' = [pc EXCEPT ![u] = IF conn[u] = 0 THEN "none" ELSE "read"]
    /\ cur' = [cur EXCEPT ![u] = 0]
    /\ UNCHANGED <<now, follow, mode, posts, file, rest, stream, conn, gone, todo,
                   shown, seen, lost, sent, conns, reads>>

-----------------------------------------------------------------------------
(* Joining and leaving the timeline *)

\* A client enters the timeline: its call starts, and its writer thread sends an
\* empty message.
Enter(u) ==
    /\ mode = "up" /\ pc[u] = "none" /\ conns < MaxConns
    /\ conns' = conns + 1
    /\ conn' = [conn EXCEPT ![u] = conns']
    /\ pc' = [pc EXCEPT ![u] = "first"]
    /\ UNCHANGED <<now, follow, mode, posts, file, other, rest, stream, gone, cur,
                   todo, shown, seen, lost, sent, reads>>

\* The first message of a call: client->stream = stream.
Join(u) ==
    /\ pc[u] = "first" /\ stream[u] = 0
    /\ stream' = [stream EXCEPT ![u] = conn[u]]
    /\ pc' = [pc EXCEPT ![u] = "collect"]
    /\ UNCHANGED <<now, follow, mode, posts, file, other, rest, conn, gone, cur, todo,
                   shown, seen, lost, sent, conns, reads>>

\* The user has had a stream before: the empty message is ignored.
JoinAgain(u) ==
    /\ pc[u] = "first" /\ stream[u] # 0
    /\ pc' = [pc EXCEPT ![u] = "read"]
    /\ UNCHANGED <<now, follow, mode, posts, file, other, rest, stream, conn, gone,
                   cur, todo, shown, seen, lost, sent, conns, reads>>

\* timelinePosts = getFollowingPosts(client, 20)
Collect(u) ==
    /\ pc[u] = "collect"
    /\ pc' = [pc EXCEPT ![u] = "backlog"]
    /\ todo' = [todo EXCEPT ![u] = getFollowingPosts(u)]
    /\ UNCHANGED <<now, follow, mode, posts, file, other, rest, stream, conn, gone,
                   cur, shown, seen, lost, sent, conns, reads>>

\* The posts are written to the stream.
ShowBacklog(u) ==
    /\ pc[u] = "backlog"
    /\ pc' = [pc EXCEPT ![u] = "read"]
    /\ shown' = [shown EXCEPT ![u] = IF gone[u] THEN {} ELSE @ \cup todo[u]]
    /\ seen' = IF gone[u] THEN seen ELSE seen \cup todo[u]
    /\ todo' = [todo EXCEPT ![u] = {}]
    /\ UNCHANGED <<now, follow, mode, posts, file, other, rest, stream, conn, gone,
                   cur, lost, sent, conns, reads>>

\* The user terminates the client, which is the way to leave the timeline.
Leave(u) ==
    /\ conn[u] # 0 /\ ~gone[u]
    /\ gone' = [gone EXCEPT ![u] = TRUE]
    /\ shown' = [shown EXCEPT ![u] = {}]
    /\ UNCHANGED <<now, follow, mode, posts, file, other, rest, stream, pc, conn, cur,
                   todo, seen, lost, sent, conns, reads>>

\* stream->Read fails and Timeline returns.  Nobody resets Client::stream.
Return(u) ==
    /\ pc[u] \in {"first", "read"} /\ gone[u]
    /\ pc' = [pc EXCEPT ![u] = "none"]
    /\ conn' = [conn EXCEPT ![u] = 0]
    /\ gone' = [gone EXCEPT ![u] = FALSE]
    /\ UNCHANGED <<now, follow, mode, posts, file, other, rest, stream, cur, todo,
                   shown, seen, lost, sent, conns, reads>>

-----------------------------------------------------------------------------
(* Follows, crashes and restarts *)

\* A user in command mode follows or unfollows another one.  The loop of a post
\* that is being delivered may see the change or not.
Follow(f, a) ==
    /\ mode = "up" /\ pc[f] = "none"
    /\ f # a /\ a \notin DOMAIN follow[f]
    /\ follow' = [follow EXCEPT ![f] =
           [b \in DOMAIN @ \cup {a} |-> IF b = a THEN [made |-> now, time |-> now] ELSE @[b]]]
    /\ other' = [other EXCEPT !.follow[f] =
           [b \in DOMAIN @ \cup {a} |-> IF b \in DOMAIN @ THEN @[b]
                                                         ELSE [made |-> now, time |-> now]]]
    /\ \/ UNCHANGED todo
       \/ pc[a] = "deliver" /\ todo' = [todo EXCEPT ![a] = @ \cup {f}]
    /\ UNCHANGED <<now, mode, posts, file, rest, stream, pc, conn, gone, cur, shown,
                   seen, lost, sent, conns, reads>>

UnFollow(f, a) ==
    /\ mode = "up" /\ pc[f] = "none"
    /\ a \in DOMAIN follow[f]
    /\ follow' = [follow EXCEPT ![f] = [b \in DOMAIN @ \ {a} |-> @[b]]]
    /\ other' = [other EXCEPT !.follow[f] = [b \in DOMAIN @ \ {a} |-> @[b]]]
    /\ \/ UNCHANGED todo
       \/ pc[a] = "deliver" /\ todo' = [todo EXCEPT ![a] = @ \ {f}]
    /\ UNCHANGED <<now, mode, posts, file, rest, stream, pc, conn, gone, cur, shown,
                   seen, lost, sent, conns, reads>>

\* A vector that changes under a loop: the process may die.
LoopDies(f, a) ==
    /\ mode = "up" /\ pc[f] = "none" /\ f # a /\ pc[a] = "deliver"
    /\ Die
    /\ UNCHANGED <<now, follow, file, other, seen, sent, conns, reads>>

Crash ==
    /\ mode # "down"
    /\ Die
    /\ UNCHANGED <<now, follow, file, other, seen, sent, conns, reads>>

\* Times are read back with tm_isdst = 0.
ParsedTime(t) == [t EXCEPT !.time = @ + DstShift]
Parsed(s)     == [i \in DOMAIN s |-> ParsedTime(s[i])]

\* The follows of a userinfo log, which keeps their times as they were.
ParsedFollows(fs) ==
    [f \in User |-> [a \in DOMAIN fs[f] |-> ParsedTime([fs[f][a] EXCEPT !.time = fs[f][a].made])]]

Read == reads < MaxReads /\ reads' = reads + 1

\* No other server to copy from: initializeData reads the own files, and
\* updatePostsFromFile brings every post once more through addPostHelper, which
\* neither saves nor sends it: nobody is connected yet.
RestartLocal ==
    /\ mode = "down"
    /\ Read
    /\ mode' = "up"
    /\ posts' = Parsed(file)
    /\ follow' = ParsedFollows(follow)
    /\ UNCHANGED <<now, file, other, rest, stream, calls, shown, seen, lost, sent, conns>>

\* A server to copy from: both files are emptied first.
ClearFiles ==
    /\ mode = "down"
    /\ mode' = "fetch"
    /\ file' = <<>>
    /\ follow' = NoFollows
    /\ wiped' = wiped \cup (Numbers(file) \ Numbers(other.posts))
    /\ UNCHANGED <<now, posts, other, rest, stream, calls, shown, seen, torn, sent, conns, reads>>

\* GetLog answers with the files of the other server, and the userinfo log is
\* replayed and saved.
GetLog ==
    /\ mode = "fetch"
    /\ Read
    /\ mode' = "copy"
    /\ rest' = Parsed(other.posts)
    /\ follow' = ParsedFollows(other.follow)
    /\ UNCHANGED <<now, posts, file, other, stream, calls, shown, seen, lost, sent, conns>>

\* GetLog fails: log(FATAL, "Initialization sync failed!")
GetLogFails ==
    /\ mode = "fetch"
    /\ Die
    /\ UNCHANGED <<now, follow, file, other, seen, sent, conns, reads>>

\* A variant of CopyPost that SeenSurvives must reject: save is FALSE.
CopyPostUnsaved ==
    /\ mode = "copy" /\ rest # <<>>
    /\ posts' = Append(posts, Head(rest))
    /\ rest' = Tail(rest)
    /\ UNCHANGED <<now, follow, mode, file, other, stream, calls, shown, seen, lost, sent, conns,
                   reads>>

\* updatePostsFromFile: a post more, with its time as it is now.
CopyPost ==
    /\ mode = "copy" /\ rest # <<>>
    /\ posts' = Append(posts, Head(rest))
    /\ AppendToFile(Head(rest))
    /\ rest' = Tail(rest)
    /\ UNCHANGED <<now, follow, mode, other, stream, calls, shown, seen, lost, sent, conns,
                   reads>>

\* All is copied: the server listens.
Copied ==
    /\ mode = "copy" /\ rest = <<>>
    /\ mode' = "up"
    /\ UNCHANGED <<now, follow, posts, file, other, rest, stream, calls, shown, seen, lost,
                   sent, conns, reads>>

\* The other server starts too, with what a third one has: times of posts are late
\* once more.
OtherRestarts ==
    /\ Read
    /\ other' = [other EXCEPT !.posts = Parsed(@)]
    /\ UNCHANGED <<now, follow, mode, posts, file, rest, stream, calls, shown, seen, lost,
                   sent, conns>>

Tick ==
    /\ now < MaxTime
    /\ now' = now + 1
    /\ UNCHANGED <<follow, mode, posts, file, other, rest, stream, calls, shown, seen,
                   lost, sent, conns, reads>>

-----------------------------------------------------------------------------

\* What the threads of the server do by themselves.
Serve(u) ==
    \/ Write(u) \/ Deliver(u) \/ DeliverDies(u) \/ Posted(u)
    \/ Join(u) \/ JoinAgain(u) \/ Collect(u) \/ ShowBacklog(u) \/ Return(u)

Next ==
    \/ \E u \in User : Serve(u) \/ Post(u) \/ Enter(u) \/ Leave(u)
    \/ \E f, a \in User : Follow(f, a) \/ UnFollow(f, a) \/ LoopDies(f, a)
    \/ Crash \/ RestartLocal \/ ClearFiles \/ GetLog \/ GetLogFails \/ CopyPost \/ Copied
    \/ OtherRestarts \/ Tick

Spec == Init /\ [][Next]_vars

-----------------------------------------------------------------------------
(* Properties *)

\* Post n is in all_posts, but its thread has not come to follower f.
Pending(n, f) ==
    \E u \in User : cur[u] = n /\ (pc[u] = "write" \/ (pc[u] = "deliver" /\ f \in todo[u]))

\* The client of f has got its first posts and reads on.
Watches(f) == conn[f] # 0 /\ ~gone[f] /\ pc[f] \in {"read", "write", "deliver"}

\* The latest posts of those whom f follows, later than the follow, have been
\* shown to f or are about to be.
UpToDate(f) ==
    \A i \in ConsideredPosts(f) :
        Cardinality({j \in ConsideredPosts(f) : j > i}) < MaxTimeline =>
            posts[i].n \in shown[f] \/ Pending(posts[i].n, f)

\* A timeline has no gap between what is collected when the user joins and what is
\* delivered from then on, though posts arrive while the user joins.  (Of a user
\* whose stream is set: the first time since the server has started.)
NoPostMissed == \A f \in User : Watches(f) /\ Live(f) => UpToDate(f)

\* The same for every client that has entered the timeline, "You can terminate the
\* client program by pressing CTRL-C and re-connect" (client.cpp): "Client::stream"
\* still points to the old stream then, so it misses posts.
NoPostMissedAgain == \A f \in User : Watches(f) => UpToDate(f)

\* What any client has ever seen is in the file, through all crashes and starts,
\* but for two ways to lose it: the server ends before it has written the post,
\* which one who joins just then may see (torn); or it empties its file to copy
\* that of a server which has not got the post, or ends before it has copied the
\* post (wiped).
SeenSurvives == seen \subseteq Numbers(file) \cup ToCopy \cup Unwritten \cup torn \cup wiped

\* Memory and file hold the same posts, each once, but for those that a thread has
\* stored and not yet written; also after restarts.
FileHoldsPosts ==
    mode = "up" =>
          /\ Numbers(file) = Numbers(posts) \ Unwritten
          /\ Len(file) = Cardinality(Numbers(file))
          /\ Len(posts) = Cardinality(Numbers(posts))

\* "Posts are only considered if they were made after c followed the poster": this
\* is so as long as no posts have been read from a file.  Each reading may add a
\* shift to their times, which a new follow does not have, so that f gets posts
\* from before it, but from no earlier than one shift for each reading.
BacklogHonest ==
    \A f \in User : \A p \in ToSet(posts) :
        pc[f] = "backlog" /\ p.n \in todo[f] =>
            p.made + DstShift * reads > follow[f][p.user].made

=============================================================================
