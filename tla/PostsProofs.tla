---------------------------- MODULE PostsProofs ----------------------------
(***************************************************************************)
(* Theorems about Posts, for any users, bounds and length of a timeline.   *)
(***************************************************************************)
EXTENDS Posts, Lemmas

PostType == [user : User, n : 1 .. MaxPosts, made : 0 .. MaxTime, time : Nat]

\* The types of Posts, with those of the sequences.
Types ==
    /\ TypeOK
    /\ DOMAIN follow = User
    /\ posts \in Seq(PostType) /\ file \in Seq(PostType) /\ rest \in Seq(PostType)
    /\ other = [posts |-> other.posts, follow |-> other.follow]
    /\ other.posts \in Seq(PostType) /\ DOMAIN other.follow = User
    /\ DOMAIN todo = User

Distinct(s) == \A i, j \in DOMAIN s : s[i].n = s[j].n => i = j

\* The author's thread works on the post cur[u], which is in memory.
Works(u) == \E i \in DOMAIN posts : posts[i].user = u /\ posts[i].n = cur[u]

\* Posts are numbered in the order of their arrival, and each is in the file unless its
\* thread has still to write it.  A server that starts has in memory what it has copied.
\* The other server does not yet have what the thread of a Timeline call works on.
Numbering ==
    /\ Distinct(posts) /\ Distinct(file) /\ Distinct(rest) /\ Distinct(other.posts)
    /\ Numbers(posts) \cup Numbers(file) \cup Numbers(rest) \cup Numbers(other.posts)
           \subseteq 1 .. sent
    /\ \A u \in User : pc[u] \in {"write", "deliver"} => Works(u)
    /\ \A u \in User : pc[u] = "write" => cur[u] \notin Numbers(file)
    /\ \A u \in User : pc[u] = "deliver" => cur[u] \in Numbers(file)
    /\ \A u \in User : pc[u] \in {"write", "deliver"} /\ conn[u] # 0 =>
           cur[u] \notin Numbers(other.posts)
    /\ mode = "up" => Numbers(posts) \subseteq Numbers(file) \cup Unwritten
    /\ mode = "up" => Numbers(file) \subseteq Numbers(posts)
    /\ mode = "copy" => Numbers(posts) = Numbers(file) /\ Numbers(rest) \cap Numbers(file) = {}
    /\ mode \in {"down", "fetch"} => posts = <<>>
    /\ mode = "fetch" => file = <<>>
    /\ mode # "copy" => rest = <<>>

\* Calls run while the server does; a call of Timeline has a number of its own.
Connections ==
    /\ \A u \in User : pc[u] # "none" => mode = "up"
    /\ \A u \in User : /\ pc[u] = "none" => conn[u] = 0
                       /\ conn[u] = 0 => ~gone[u]
                       /\ pc[u] \in {"first", "collect", "backlog", "read"} => conn[u] # 0
                       /\ stream[u] <= conns /\ conn[u] <= conns
                       /\ pc[u] = "first" => stream[u] # conn[u]
                       /\ pc[u] = "deliver" => todo[u] \subseteq User

\* A user who joins has collected posts of those it follows.
Collected ==
    \A f \in User : pc[f] = "backlog" =>
        /\ todo[f] \subseteq Numbers(posts)
        /\ \A i \in DOMAIN posts : posts[i].n \in todo[f] => Considered(f, posts[i])

\* Who has collected the latest posts gets every post that has arrived since then.
Gets(f, n) ==
    \/ n \in shown[f]
    \/ Pending(n, f)
    \/ pc[f] = "backlog" /\ n \in todo[f]

Served(f) == Live(f) /\ ~gone[f] /\ pc[f] # "collect"

Timely == \A f \in User : Served(f) => \A i \in Latest(f) : Gets(f, posts[i].n)

\* Times are late by one shift at most for each time that posts have been read.
Shifted(s) == \A i \in DOMAIN s : s[i].time <= s[i].made + DstShift * reads

Late ==
    /\ Shifted(posts) /\ Shifted(file) /\ Shifted(rest) /\ Shifted(other.posts)
    /\ \A f \in User : \A a \in DOMAIN follow[f] : follow[f][a].made <= follow[f][a].time

PostsInv ==
    Types /\ Numbering /\ Connections /\ Collected /\ Late /\ SeenSurvives /\ Timely

\* The steps of a start of the server.
StartStep == RestartLocal \/ ClearFiles \/ GetLog \/ CopyPost \/ Copied

\* The steps that end the process.
EndStep ==
    \/ Crash \/ GetLogFails
    \/ \E u \in User : DeliverDies(u)
    \/ \E f, a \in User : LoopDies(f, a)

-----------------------------------------------------------------------------
(* Sequences of posts *)

\* A post at the end of a sequence.
LEMMA AppendPost ==
    ASSUME NEW s \in Seq(PostType), NEW p \in PostType
    PROVE  /\ Append(s, p) \in Seq(PostType)
           /\ DOMAIN s = 1 .. Len(s) /\ Len(s) \in Nat
           /\ DOMAIN Append(s, p) = 1 .. Len(s) + 1
           /\ \A i \in DOMAIN s : Append(s, p)[i] = s[i]
           /\ Append(s, p)[Len(s) + 1] = p
           /\ Numbers(Append(s, p)) = Numbers(s) \cup {p.n}
           /\ Distinct(s) /\ p.n \notin Numbers(s) => Distinct(Append(s, p))
<1>1. /\ Append(s, p) \in Seq(PostType)
      /\ DOMAIN s = 1 .. Len(s) /\ Len(s) \in Nat
      /\ DOMAIN Append(s, p) = 1 .. Len(s) + 1
      /\ \A i \in DOMAIN s : Append(s, p)[i] = s[i]
      /\ Append(s, p)[Len(s) + 1] = p
  OBVIOUS
<1>2. DOMAIN Append(s, p) = DOMAIN s \cup {Len(s) + 1}
  BY <1>1
<1>3. Numbers(Append(s, p)) = Numbers(s) \cup {p.n}
  <2> HIDE <1>1
  <2> DEFINE t == Append(s, p)
  <2>1. /\ DOMAIN t = DOMAIN s \cup {Len(s) + 1} /\ t[Len(s) + 1] = p
        /\ \A i \in DOMAIN s : t[i] = s[i]
    BY <1>1, <1>2
  <2> HIDE DEF t
  <2>2. {t[i].n : i \in DOMAIN t} = {s[i].n : i \in DOMAIN s} \cup {p.n}
    BY <2>1
  <2> QED BY <2>2 DEF Numbers, t
<1>4. ASSUME Distinct(s), p.n \notin Numbers(s) PROVE Distinct(Append(s, p))
  BY <1>1, <1>2, <1>4 DEF Distinct, Numbers
<1> QED BY <1>1, <1>3, <1>4

\* Posts that are read back have their numbers, authors and order.
LEMMA ParsedPosts ==
    ASSUME NEW s \in Seq(PostType)
    PROVE  /\ Parsed(s) \in Seq(PostType)
           /\ Numbers(Parsed(s)) = Numbers(s)
           /\ Distinct(s) => Distinct(Parsed(s))
<1>1. /\ DOMAIN Parsed(s) = DOMAIN s
      /\ \A i \in DOMAIN s : Parsed(s)[i] \in PostType /\ Parsed(s)[i].n = s[i].n
  <2>1. \A p \in PostType : ParsedTime(p) \in PostType /\ ParsedTime(p).n = p.n
    <3> TAKE p \in PostType
    <3>1. p.time + DstShift \in Nat
      BY PostsAssumption DEF PostType
    <3> QED BY <3>1 DEF ParsedTime, PostType
  <2>2. \A i \in DOMAIN s : s[i] \in PostType
    OBVIOUS
  <2> QED BY <2>1, <2>2 DEF Parsed
<1>2. DOMAIN s = 1 .. Len(s) /\ Len(s) \in Nat
  OBVIOUS
<1>3. Parsed(s) \in [1 .. Len(s) -> PostType]
  BY <1>1, <1>2 DEF Parsed
<1>4. Parsed(s) \in Seq(PostType)
  BY <1>2, <1>3
<1> QED BY <1>1, <1>4 DEF Numbers, Distinct

\* A sequence without repetitions is as long as it has numbers.
LEMMA LengthOfDistinct ==
    ASSUME NEW s \in Seq(PostType), Distinct(s)
    PROVE  Len(s) = Cardinality(Numbers(s))
<1>1. DOMAIN s = 1 .. Len(s) /\ Len(s) \in Nat
  OBVIOUS
<1> DEFINE f == [i \in 1 .. Len(s) |-> s[i].n]
<1>2. f \in Bijection(1 .. Len(s), Numbers(s))
  BY <1>1 DEF Bijection, Injection, Surjection, IsInjective, Distinct, Numbers
<1>3. IsFiniteSet(1 .. Len(s)) /\ Cardinality(1 .. Len(s)) = Len(s)
  BY <1>1, FS_Interval
<1>4. Cardinality(Numbers(s)) = Cardinality(1 .. Len(s))
  BY <1>2, <1>3, FS_Bijection DEF ExistsBijection
<1> QED BY <1>3, <1>4

\* The first post of a sequence, and the others.
LEMMA HeadAndTail ==
    ASSUME NEW s \in Seq(PostType), s # <<>>
    PROVE  /\ Head(s) \in PostType /\ Tail(s) \in Seq(PostType)
           /\ Numbers(s) = {Head(s).n} \cup Numbers(Tail(s))
           /\ Distinct(s) => Distinct(Tail(s)) /\ Head(s).n \notin Numbers(Tail(s))
           /\ 1 \in DOMAIN s /\ Head(s) = s[1]
           /\ \A i \in DOMAIN Tail(s) : i + 1 \in DOMAIN s /\ Tail(s)[i] = s[i + 1]
<1> DEFINE t == Tail(s)
<1>1. /\ DOMAIN s = 1 .. Len(s) /\ Len(s) \in Nat /\ Len(s) > 0
      /\ t \in Seq(PostType) /\ Len(t) = Len(s) - 1 /\ DOMAIN t = 1 .. Len(t)
      /\ Head(s) = s[1] /\ \A i \in 1 .. Len(s) - 1 : t[i] = s[i + 1]
  OBVIOUS
<1>2. Head(s) \in PostType
  BY <1>1
<1> HIDE DEF t
<1>3. \A i \in DOMAIN t : i + 1 \in DOMAIN s /\ t[i] = s[i + 1] /\ i + 1 # 1
  BY <1>1
<1>4. \A j \in DOMAIN s : j = 1 \/ \E i \in DOMAIN t : j = i + 1
  <2> TAKE j \in DOMAIN s
  <2>1. j # 1 => j - 1 \in DOMAIN t /\ j = (j - 1) + 1
    BY <1>1
  <2> QED BY <2>1
<1>5. Numbers(s) = {Head(s).n} \cup Numbers(t)
  BY <1>1, <1>3, <1>4 DEF Numbers
<1>6. ASSUME Distinct(s) PROVE Distinct(t) /\ Head(s).n \notin Numbers(t)
  <2>1. \A i, j \in DOMAIN t : i \in Int /\ j \in Int /\ (i + 1 = j + 1 => i = j)
    BY <1>1
  <2> QED BY <1>1, <1>3, <1>6, <2>1 DEF Distinct, Numbers
<1> QED BY <1>1, <1>2, <1>3, <1>5, <1>6 DEF t

\* The other server with other posts or follows.
LEMMA OtherIs ==
    ASSUME Types
    PROVE  /\ \A x : [other EXCEPT !.posts = x] = [posts |-> x, follow |-> other.follow]
           /\ \A x : [other EXCEPT !.follow = x] = [posts |-> other.posts, follow |-> x]
<1>1. other = [posts |-> other.posts, follow |-> other.follow]
  BY DEF Types
<1>2. \A x, y, z : /\ [[posts |-> y, follow |-> z] EXCEPT !.posts = x] = [posts |-> x, follow |-> z]
                   /\ [[posts |-> y, follow |-> z] EXCEPT !.follow = x] = [posts |-> y, follow |-> x]
  OBVIOUS
<1> QED BY <1>1, <1>2

-----------------------------------------------------------------------------
(* Types *)

\* What the types say of one user.
LEMMA TypesAt ==
    ASSUME Types, NEW u \in User
    PROVE  /\ cur[u] \in 0 .. MaxPosts /\ conn[u] \in 0 .. MaxConns
           /\ stream[u] \in 0 .. MaxConns /\ shown[u] \in SUBSET (1 .. MaxPosts)
           /\ gone[u] \in BOOLEAN
BY DEF Types, TypeOK

\* Types, from those of the sequences.
LEMMA TypesFrom ==
    ASSUME DOMAIN follow' = User, DOMAIN todo' = User,
           posts' \in Seq(PostType), file' \in Seq(PostType), rest' \in Seq(PostType),
           other' = [posts |-> other'.posts, follow |-> other'.follow],
           other'.posts \in Seq(PostType), DOMAIN other'.follow = User,
           /\ now' \in 0 .. MaxTime
           /\ \A f \in User : /\ DOMAIN follow'[f] \subseteq User
                              /\ \A a \in DOMAIN follow'[f] : follow'[f][a] \in Times
           /\ mode' \in {"down", "fetch", "copy", "up"}
           /\ \A f \in User : /\ DOMAIN other'.follow[f] \subseteq User
                              /\ \A a \in DOMAIN other'.follow[f] : other'.follow[f][a] \in Times
           /\ stream' \in [User -> 0 .. MaxConns]
           /\ pc' \in [User -> {"none", "first", "collect", "backlog", "read", "write",
                                "deliver"}]
           /\ conn' \in [User -> 0 .. MaxConns]
           /\ gone' \in [User -> BOOLEAN]
           /\ cur' \in [User -> 0 .. MaxPosts]
           /\ shown' \in [User -> SUBSET (1 .. MaxPosts)]
           /\ sent' \in 0 .. MaxPosts /\ conns' \in 0 .. MaxConns
           /\ reads' \in 0 .. MaxReads
           /\ seen' \cup torn' \cup wiped' \subseteq 1 .. MaxPosts
    PROVE  Types'
<1>1. \A p \in PostType : p.user \in User /\ p.n \in 1 .. MaxPosts /\ p.made \in 0 .. MaxTime
  BY DEF PostType
<1>2. \A p \in ToSet(posts') \cup ToSet(file') \cup ToSet(other'.posts) \cup ToSet(rest') : p \in PostType
  BY DEF ToSet
<1> QED BY <1>1, <1>2 DEF Types, TypeOK

\* The numbers of posts.
LEMMA NumbersAre ==
    ASSUME NEW s \in Seq(PostType)
    PROVE  Numbers(s) \subseteq 1 .. MaxPosts
<1>1. \A i \in DOMAIN s : s[i] \in PostType
  OBVIOUS
<1> QED BY <1>1 DEF Numbers, PostType

\* The end of the process.
LEMMA EndIs ==
    ASSUME EndStep
    PROVE  Die /\ UNCHANGED <<now, follow, file, other, seen, sent, conns, reads>>
BY DEF EndStep, Crash, GetLogFails, DeliverDies, LoopDies

\* A start of the server.
LEMMA StartIs ==
    ASSUME StartStep
    PROVE  /\ mode # "up" /\ mode' # "down"
           /\ UNCHANGED <<now, other, stream, pc, conn, gone, cur, todo, shown, seen, torn, sent, conns>>
<1>1. CASE RestartLocal
  BY <1>1 DEF RestartLocal, calls, lost
<1>2. CASE ClearFiles
  BY <1>2 DEF ClearFiles, calls
<1>3. CASE GetLog
  BY <1>3 DEF GetLog, calls, lost
<1>4. CASE CopyPost
  BY <1>4 DEF CopyPost, calls, lost
<1>5. CASE Copied
  BY <1>5 DEF Copied, calls, lost
<1> QED BY <1>1, <1>2, <1>3, <1>4, <1>5 DEF StartStep

\* Follows that are read back.
LEMMA ParsedFollowsAre ==
    ASSUME NEW fs, DOMAIN fs = User,
           \A f \in User : /\ DOMAIN fs[f] \subseteq User
                          /\ \A a \in DOMAIN fs[f] : fs[f][a] \in Times
    PROVE  /\ DOMAIN ParsedFollows(fs) = User
           /\ \A f \in User :
                  /\ DOMAIN ParsedFollows(fs)[f] \subseteq User
                  /\ \A a \in DOMAIN ParsedFollows(fs)[f] :
                        /\ ParsedFollows(fs)[f][a] \in Times
                        /\ ParsedFollows(fs)[f][a].made <= ParsedFollows(fs)[f][a].time
<1> DEFINE P(t) == ParsedTime([t EXCEPT !.time = t.made])
<1>1. \A t \in Times : P(t) \in Times /\ P(t).made <= P(t).time
  <2> TAKE t \in Times
  <2>1. t.made \in 0 .. MaxTime /\ t.made + DstShift \in Nat /\ t.made <= t.made + DstShift
    BY PostsAssumption DEF Times
  <2>2. P(t) = [made |-> t.made, time |-> t.made + DstShift]
    <3> DEFINE x == [t EXCEPT !.time = t.made]
    <3>1. x = [made |-> t.made, time |-> t.made]
      BY DEF Times
    <3> HIDE DEF x
    <3>2. ParsedTime(x) = [made |-> t.made, time |-> t.made + DstShift]
      BY <3>1 DEF ParsedTime
    <3> QED BY <3>2 DEF x
  <2> HIDE DEF P
  <2> QED BY <2>1, <2>2 DEF Times
<1>2. ParsedFollows(fs) = [f \in User |-> [a \in DOMAIN fs[f] |-> P(fs[f][a])]]
  BY DEF ParsedFollows
<1> HIDE DEF P
<1> QED BY <1>1, <1>2

\* Nobody follows anybody.
LEMMA NoFollowsAre ==
    DOMAIN NoFollows = User /\ \A f \in User : DOMAIN NoFollows[f] = {}
BY DEF NoFollows

\* The types after the end of the process.
LEMMA DieTypes ==
    ASSUME Types, Numbering, EndStep
    PROVE  Types'
<1>0. Die /\ UNCHANGED <<now, follow, file, other, seen, sent, conns, reads>>
  BY EndIs
<1>1. posts' \in Seq(PostType) /\ file' \in Seq(PostType) /\ rest' \in Seq(PostType)
  BY <1>0 DEF Die, Types
<1>2. /\ stream' \in [User -> 0 .. MaxConns] /\ conn' \in [User -> 0 .. MaxConns]
      /\ cur' \in [User -> 0 .. MaxPosts] /\ DOMAIN todo' = User
      /\ shown' \in [User -> SUBSET (1 .. MaxPosts)]
  BY <1>0, PostsAssumption DEF Die, None, Nobody
<1>3. /\ pc' \in [User -> {"none", "first", "collect", "backlog", "read", "write", "deliver"}]
      /\ gone' \in [User -> BOOLEAN] /\ mode' \in {"down", "fetch", "copy", "up"}
  BY <1>0 DEF Die
<1>4. seen' \cup torn' \cup wiped' \subseteq 1 .. MaxPosts
  <2>1. Unwritten \subseteq 1 .. MaxPosts
    <3>1. \A u \in User : pc[u] = "write" => cur[u] \in Numbers(posts)
      BY DEF Numbering, Works, Numbers
    <3>2. Numbers(posts) \subseteq 1 .. MaxPosts
      BY NumbersAre DEF Types
    <3> QED BY <3>1, <3>2 DEF Unwritten
  <2>2. ToCopy \subseteq 1 .. MaxPosts
    BY NumbersAre DEF ToCopy, Types
  <2> QED BY <1>0, <2>1, <2>2 DEF Die, Types, TypeOK
<1> QED BY <1>0, <1>1, <1>2, <1>3, <1>4, TypesFrom DEF Types, TypeOK

\* What the other server may have got when a post is done.
LEMMA Forwarded ==
    ASSUME Types, Numbering, NEW u \in User, Posted(u)
    PROVE  \/ UNCHANGED other
           \/ \E q \in PostType :
                 /\ q.n = cur[u] /\ q.time = q.made /\ conn[u] # 0
                 /\ other' = [posts |-> Append(other.posts, q), follow |-> other.follow]
<1> SUFFICES ASSUME ~UNCHANGED other
             PROVE  \E q \in PostType :
                      /\ q.n = cur[u] /\ q.time = q.made /\ conn[u] # 0
                      /\ other' = [posts |-> Append(other.posts, q), follow |-> other.follow]
  OBVIOUS
<1>1. PICK p \in ToSet(posts) : /\ p.n = cur[u] /\ conn[u] # 0
                               /\ other' = [other EXCEPT !.posts = Append(@, [p EXCEPT !.time = p.made])]
  BY DEF Posted
<1>2. p \in PostType
  BY <1>1 DEF ToSet, Types
<1> DEFINE q == [p EXCEPT !.time = p.made]
<1>3. q \in PostType /\ q.n = p.n /\ q.time = q.made
  BY <1>2, PostsAssumption DEF PostType
<1>4. other' = [other EXCEPT !.posts = Append(other.posts, q)]
  BY <1>1
<1> HIDE DEF q
<1>5. other' = [posts |-> Append(other.posts, q), follow |-> other.follow]
  BY <1>4, OtherIs
<1> QED BY <1>1, <1>3, <1>5

\* The types of the other server then.
LEMMA ForwardedType ==
    ASSUME Types, Numbering, NEW u \in User, Posted(u)
    PROVE  /\ other' = [posts |-> other'.posts, follow |-> other.follow]
           /\ other'.posts \in Seq(PostType)
<1>1. CASE UNCHANGED other
  BY <1>1 DEF Types
<1>2. CASE \E q \in PostType : other' = [posts |-> Append(other.posts, q), follow |-> other.follow]
  <2>1. PICK q \in PostType : other' = [posts |-> Append(other.posts, q), follow |-> other.follow]
    BY <1>2
  <2>2. Append(other.posts, q) \in Seq(PostType)
    BY AppendPost DEF Types
  <2> QED BY <2>1, <2>2
<1> QED BY <1>1, <1>2, Forwarded

\* Every step keeps the types.
LEMMA TypesStep ==
    ASSUME PostsInv, [Next]_vars
    PROVE  Types'
<1>0. Types /\ Numbering /\ Connections
  BY DEF PostsInv
<1> USE <1>0, PostsAssumption
<1>1. ASSUME NEW u \in User, Post(u) PROVE Types'
  <2> DEFINE p == [user |-> u, n |-> sent', made |-> now, time |-> now]
  <2>1. sent' = sent + 1 /\ sent' \in 1 .. MaxPosts /\ posts' = Append(posts, p)
    <3>1. sent \in 0 .. MaxPosts /\ sent < MaxPosts /\ sent' = sent + 1
      BY <1>1 DEF Post, Types, TypeOK
    <3>2. sent' \in 1 .. MaxPosts
      BY <3>1
    <3> QED BY <1>1, <3>1, <3>2 DEF Post
  <2>2. p \in PostType
    BY <2>1 DEF PostType, Types, TypeOK
  <2>3. posts' \in Seq(PostType)
    BY <2>1, <2>2, AppendPost DEF Types
  <2>4. /\ cur' \in [User -> 0 .. MaxPosts]
        /\ pc' \in [User -> {"none", "first", "collect", "backlog", "read", "write", "deliver"}]
    <3>1. cur' = [cur EXCEPT ![u] = sent'] /\ pc' = [pc EXCEPT ![u] = "write"]
      BY <1>1 DEF Post
    <3>2. sent' \in 0 .. MaxPosts
      BY <2>1
    <3>3. cur \in [User -> 0 .. MaxPosts]
      BY DEF Types, TypeOK
    <3>4. pc \in [User -> {"none", "first", "collect", "backlog", "read", "write", "deliver"}]
      BY DEF Types, TypeOK
    <3> QED BY <3>1, <3>2, <3>3, <3>4
  <2>5. /\ other' = [posts |-> other'.posts, follow |-> other.follow]
        /\ other'.posts \in Seq(PostType)
    <3>1. CASE other' = other
      BY <3>1 DEF Types
    <3>2. CASE other' = [other EXCEPT !.posts = Append(@, p)]
      <4> HIDE DEF p
      <4>1. Append(other.posts, p) \in Seq(PostType)
        BY <2>2, AppendPost DEF Types
      <4>2. other' = [posts |-> Append(other.posts, p), follow |-> other.follow]
        BY <3>2, OtherIs
      <4> QED BY <4>1, <4>2
    <3> QED BY <1>1, <3>1, <3>2 DEF Post
  <2>6. other'.follow = other.follow
    BY <2>5
  <2> QED BY <1>1, <2>1, <2>3, <2>4, <2>5, <2>6, TypesFrom DEF Post, lost, Types, TypeOK
<1>2. ASSUME NEW u \in User, Write(u) PROVE Types'
  <2>1. PICK p \in ToSet(posts) : p.n = cur[u] /\ file' = Append(file, p)
    BY <1>2 DEF Write, AppendToFile
  <2>2. p \in PostType
    BY <2>1 DEF ToSet, Types
  <2>3. file' \in Seq(PostType)
    BY <2>1, <2>2, AppendPost DEF Types
  <2> QED BY <1>2, <2>3, TypesFrom DEF Write, lost, Types, TypeOK
<1>3. ASSUME NEW u \in User, Deliver(u) PROVE Types'
  <2>1. cur[u] \in 1 .. MaxPosts
    BY <1>3 DEF Deliver, Numbering, Works, Types, TypeOK, PostType
  <2>2. shown' \in [User -> SUBSET (1 .. MaxPosts)]
    <3>1. \/ UNCHANGED shown
          \/ \E g \in User : shown' = [shown EXCEPT ![g] = @ \cup {cur[u]}]
      <4>1. PICK f \in todo[u] :
                \/ UNCHANGED shown
                \/ \E g \in Reached(f) : shown' = [shown EXCEPT ![g] = @ \cup {cur[u]}]
        BY <1>3 DEF Deliver
      <4>2. f \in User /\ Reached(f) \subseteq User
        BY <1>3, <4>1 DEF Deliver, Connections, Reached
      <4> QED BY <4>1, <4>2
    <3>2. ASSUME NEW g \in User, shown' = [shown EXCEPT ![g] = @ \cup {cur[u]}]
          PROVE  shown' \in [User -> SUBSET (1 .. MaxPosts)]
      <4>1. shown[g] \cup {cur[u]} \in SUBSET (1 .. MaxPosts)
        BY <2>1, TypesAt
      <4> QED BY <3>2, <4>1 DEF Types, TypeOK
    <3> QED BY <3>1, <3>2 DEF Types, TypeOK
  <2>3. seen' \subseteq 1 .. MaxPosts
    <3>1. seen' \subseteq seen \cup {cur[u]}
      BY <1>3 DEF Deliver
    <3> QED BY <2>1, <3>1 DEF Types, TypeOK
  <2>4. UNCHANGED <<now, follow, mode, posts, file, other, rest, stream, pc, conn, gone, cur, torn,
                    wiped, sent, conns, reads>> /\ DOMAIN todo' = User
    BY <1>3 DEF Deliver, lost, Types
  <2> QED BY <2>2, <2>3, <2>4, TypesFrom DEF Types, TypeOK
<1>4. CASE EndStep
  BY <1>4, DieTypes
<1>5. ASSUME NEW u \in User, Posted(u) PROVE Types'
  <2>1. /\ other' = [posts |-> other'.posts, follow |-> other.follow]
        /\ other'.posts \in Seq(PostType)
    BY <1>5, ForwardedType
  <2>2. other'.follow = other.follow
    BY <2>1
  <2>3. /\ pc' \in [User -> {"none", "first", "collect", "backlog", "read", "write", "deliver"}]
        /\ cur' \in [User -> 0 .. MaxPosts]
    <3>1. /\ pc' = [pc EXCEPT ![u] = IF conn[u] = 0 THEN "none" ELSE "read"]
          /\ cur' = [cur EXCEPT ![u] = 0]
      BY <1>5 DEF Posted
    <3>2. pc \in [User -> {"none", "first", "collect", "backlog", "read", "write", "deliver"}] /\ cur \in [User -> 0 .. MaxPosts]
      BY DEF Types, TypeOK
    <3>3. 0 \in 0 .. MaxPosts
      OBVIOUS
    <3> QED BY <3>1, <3>2, <3>3
  <2> QED BY <1>5, <2>1, <2>2, <2>3, TypesFrom DEF Posted, lost, Types, TypeOK
<1>6. ASSUME NEW u \in User, Join(u) \/ JoinAgain(u) \/ Collect(u) PROVE Types'
  <2>1. CASE Join(u)
    BY <2>1, TypesFrom DEF Join, lost, Types, TypeOK
  <2>2. CASE JoinAgain(u)
    BY <2>2, TypesFrom DEF JoinAgain, lost, Types, TypeOK
  <2>3. CASE Collect(u)
    BY <2>3, TypesFrom DEF Collect, lost, Types, TypeOK
  <2> QED BY <1>6, <2>1, <2>2, <2>3
<1>7. ASSUME NEW u \in User, ShowBacklog(u) PROVE Types'
  <2>1. PostsInv
    OBVIOUS
  <2>2. todo[u] \subseteq 1 .. MaxPosts
    <3>1. todo[u] \subseteq Numbers(posts)
      BY <1>7, <2>1 DEF ShowBacklog, PostsInv, Collected
    <3>2. Numbers(posts) \subseteq 1 .. sent
      BY DEF Numbering
    <3>3. sent \in 0 .. MaxPosts
      BY DEF Types, TypeOK
    <3>4. 1 .. sent \subseteq 1 .. MaxPosts
      BY <3>3
    <3> QED BY <3>1, <3>2, <3>4
  <2>3. shown' \in [User -> SUBSET (1 .. MaxPosts)]
    BY <1>7, <2>2 DEF ShowBacklog, Types, TypeOK
  <2>4. seen' \subseteq 1 .. MaxPosts
    BY <1>7, <2>2 DEF ShowBacklog, Types, TypeOK
  <2> QED BY <1>7, <2>3, <2>4, TypesFrom DEF ShowBacklog, lost, Types, TypeOK
<1>8. ASSUME NEW u \in User, Enter(u) PROVE Types'
  <2>1. conns' \in 0 .. MaxConns
    <3>1. conns' = conns + 1 /\ conns < MaxConns
      BY <1>8 DEF Enter
    <3>2. conns \in 0 .. MaxConns
      BY DEF Types, TypeOK
    <3> QED BY <3>1, <3>2
  <2>2. conn' \in [User -> 0 .. MaxConns]
    BY <1>8, <2>1 DEF Enter, Types, TypeOK
  <2>3. pc' \in [User -> {"none", "first", "collect", "backlog", "read", "write", "deliver"}]
    BY <1>8 DEF Enter, Types, TypeOK
  <2> QED BY <1>8, <2>1, <2>2, <2>3, TypesFrom DEF Enter, lost, Types, TypeOK
<1>9. ASSUME NEW u \in User, Leave(u) \/ Return(u) PROVE Types'
  <2>1. CASE Leave(u)
    BY <2>1, TypesFrom DEF Leave, lost, Types, TypeOK
  <2>2. CASE Return(u)
    <3>1. pc' \in [User -> {"none", "first", "collect", "backlog", "read", "write", "deliver"}]
      BY <2>2 DEF Return, Types, TypeOK
    <3>2. conn' \in [User -> 0 .. MaxConns] /\ gone' \in [User -> BOOLEAN]
      BY <2>2 DEF Return, Types, TypeOK
    <3> QED BY <2>2, <3>1, <3>2, TypesFrom DEF Return, lost, Types, TypeOK
  <2> QED BY <1>9, <2>1, <2>2
<1>10. ASSUME NEW f \in User, NEW a \in User, Follow(f, a) PROVE Types'
  <2>1. [made |-> now, time |-> now] \in Times
    BY DEF Times, Types, TypeOK
  <2>2. /\ DOMAIN follow' = User
        /\ \A g \in User : /\ DOMAIN follow'[g] \subseteq User
                           /\ \A b \in DOMAIN follow'[g] : follow'[g][b] \in Times
    BY <1>10, <2>1 DEF Follow, Types, TypeOK
  <2>3. DOMAIN todo' = User
    BY <1>10 DEF Follow, Types
  <2>4. PICK x : other' = [other EXCEPT !.follow = x] /\ x = [other.follow EXCEPT ![f] =
            [b \in DOMAIN @ \cup {a} |-> IF b \in DOMAIN @ THEN @[b] ELSE [made |-> now, time |-> now]]]
    BY <1>10 DEF Follow
  <2>5. other' = [posts |-> other.posts, follow |-> x]
    BY <2>4, OtherIs
  <2>6. /\ DOMAIN x = User
        /\ \A g \in User : DOMAIN x[g] \subseteq User /\ \A b \in DOMAIN x[g] : x[g][b] \in Times
    BY <2>1, <2>4 DEF Types, TypeOK
  <2>7. other'.posts = other.posts /\ other'.follow = x
    BY <2>5
  <2>8. UNCHANGED <<now, mode, posts, file, rest, stream, pc, conn, gone, cur, shown,
                    seen, torn, wiped, sent, conns, reads>>
    BY <1>10 DEF Follow, lost
  <2> QED BY <2>2, <2>3, <2>5, <2>6, <2>7, <2>8, TypesFrom DEF Types, TypeOK
<1>11. ASSUME NEW f \in User, NEW a \in User, UnFollow(f, a) PROVE Types'
  <2>2. /\ DOMAIN follow' = User
        /\ \A g \in User : /\ DOMAIN follow'[g] \subseteq User
                           /\ \A b \in DOMAIN follow'[g] : follow'[g][b] \in Times
    BY <1>11 DEF UnFollow, Types, TypeOK
  <2>3. DOMAIN todo' = User
    BY <1>11 DEF UnFollow, Types
  <2>4. PICK x : /\ other' = [other EXCEPT !.follow = x]
                 /\ x = [other.follow EXCEPT ![f] = [b \in DOMAIN @ \ {a} |-> @[b]]]
    BY <1>11 DEF UnFollow
  <2>5. other' = [posts |-> other.posts, follow |-> x]
    BY <2>4, OtherIs
  <2>6. /\ DOMAIN x = User
        /\ \A g \in User : DOMAIN x[g] \subseteq User /\ \A b \in DOMAIN x[g] : x[g][b] \in Times
    BY <2>4 DEF Types, TypeOK
  <2>7. other'.posts = other.posts /\ other'.follow = x
    BY <2>5
  <2>8. UNCHANGED <<now, mode, posts, file, rest, stream, pc, conn, gone, cur, shown,
                    seen, torn, wiped, sent, conns, reads>>
    BY <1>11 DEF UnFollow, lost
  <2> QED BY <2>2, <2>3, <2>5, <2>6, <2>7, <2>8, TypesFrom DEF Types, TypeOK
<1>12. Read => reads' \in 0 .. MaxReads
  BY DEF Read, Types, TypeOK
<1>13. CASE StartStep
  <2>1. UNCHANGED <<now, other, stream, pc, conn, gone, cur, todo, shown, seen, torn, sent, conns>>
    BY <1>13, StartIs
  <2>2. posts' \in Seq(PostType) /\ file' \in Seq(PostType) /\ rest' \in Seq(PostType)
    <3>1. CASE RestartLocal \/ GetLog
      BY <3>1, ParsedPosts DEF RestartLocal, GetLog, Types
    <3>2. CASE ClearFiles \/ Copied
      <4>1. posts' = posts /\ rest' = rest /\ (file' = <<>> \/ file' = file)
        BY <3>2 DEF ClearFiles, Copied
      <4>2. posts \in Seq(PostType) /\ rest \in Seq(PostType) /\ file \in Seq(PostType)
        BY DEF Types
      <4>3. <<>> \in Seq(PostType)
        OBVIOUS
      <4> HIDE <1>0
      <4> QED BY <4>1, <4>2, <4>3
    <3>3. CASE CopyPost
      BY <3>3, HeadAndTail, AppendPost DEF CopyPost, AppendToFile, Types
    <3> QED BY <1>13, <3>1, <3>2, <3>3 DEF StartStep
  <2>3. /\ DOMAIN follow' = User
        /\ \A g \in User : /\ DOMAIN follow'[g] \subseteq User
                           /\ \A b \in DOMAIN follow'[g] : follow'[g][b] \in Times
    <3>1. CASE RestartLocal
      <4>1. follow' = ParsedFollows(follow)
        BY <3>1 DEF RestartLocal
      <4> QED BY <4>1, ParsedFollowsAre DEF Types, TypeOK
    <3>2. CASE GetLog
      <4>1. follow' = ParsedFollows(other.follow)
        BY <3>2 DEF GetLog
      <4> QED BY <4>1, ParsedFollowsAre DEF Types, TypeOK
    <3>3. CASE ClearFiles
      BY <3>3, NoFollowsAre DEF ClearFiles
    <3>4. CASE CopyPost \/ Copied
      BY <3>4 DEF CopyPost, Copied, Types, TypeOK
    <3> QED BY <1>13, <3>1, <3>2, <3>3, <3>4 DEF StartStep
  <2>4. wiped' \subseteq 1 .. MaxPosts
    <3>1. CASE ClearFiles
      <4>1. Numbers(file) \subseteq 1 .. MaxPosts
        BY NumbersAre DEF Types
      <4> QED BY <3>1, <4>1 DEF ClearFiles, Types, TypeOK
    <3>2. CASE ~ClearFiles
      BY <1>13, <3>2 DEF StartStep, RestartLocal, GetLog, CopyPost, Copied, lost, Types, TypeOK
    <3> QED BY <3>1, <3>2
  <2>5. reads' \in 0 .. MaxReads /\ mode' \in {"down", "fetch", "copy", "up"}
    BY <1>12, <1>13 DEF StartStep, RestartLocal, ClearFiles, GetLog, CopyPost, Copied, Types, TypeOK
  <2> QED BY <2>1, <2>2, <2>3, <2>4, <2>5, TypesFrom DEF Types, TypeOK
<1>14. CASE OtherRestarts
  <2>1. other' = [posts |-> Parsed(other.posts), follow |-> other.follow]
    BY <1>14, OtherIs DEF OtherRestarts
  <2>2. other'.posts = Parsed(other.posts) /\ other'.follow = other.follow
    BY <2>1
  <2>3. other'.posts \in Seq(PostType)
    BY <2>2, ParsedPosts DEF Types
  <2>4. reads' \in 0 .. MaxReads
    BY <1>12, <1>14 DEF OtherRestarts
  <2> QED BY <1>14, <2>1, <2>2, <2>3, <2>4, TypesFrom DEF OtherRestarts, calls, lost, Types, TypeOK
<1>15. CASE Tick
  <2>1. UNCHANGED <<follow, mode, posts, file, other, rest, stream, pc, conn, gone, cur, todo,
                    shown, seen, torn, wiped, sent, conns, reads>> /\ now' \in 0 .. MaxTime
    <3>1. now \in 0 .. MaxTime /\ now < MaxTime /\ now' = now + 1
      BY <1>15 DEF Tick, Types, TypeOK
    <3>2. now' \in 0 .. MaxTime
      BY <3>1
    <3> QED BY <1>15, <3>2 DEF Tick, calls, lost
  <2> QED BY <2>1, TypesFrom DEF Types, TypeOK
<1>16. CASE UNCHANGED vars
  BY <1>16, TypesFrom DEF vars, calls, lost, Types, TypeOK
<1> QED
  BY <1>1, <1>2, <1>3, <1>4, <1>5, <1>6, <1>7, <1>8, <1>9, <1>10, <1>11, <1>13, <1>14, <1>15,
     <1>16 DEF Next, Serve, StartStep, EndStep

-----------------------------------------------------------------------------
(* Numbering *)

\* A step that neither touches the posts nor a thread that works on one.
LEMMA SameNumbering ==
    ASSUME Numbering, UNCHANGED <<posts, file, rest, sent, mode>>, other'.posts = other.posts,
           \A u \in User : /\ pc'[u] \in {"write", "deliver"} => cur'[u] = cur[u] /\ conn'[u] = conn[u]
                           /\ (pc'[u] = "write") = (pc[u] = "write")
                           /\ pc'[u] = "deliver" => pc[u] = "deliver"
    PROVE  Numbering' /\ Unwritten' = Unwritten
<1>1. Unwritten' = Unwritten
  BY DEF Unwritten
<1>2. \A u \in User : pc'[u] \in {"write", "deliver"} => Works(u)'
  BY DEF Numbering, Works
<1>3. \A u \in User : /\ pc'[u] = "write" => cur'[u] \notin Numbers(file')
                      /\ pc'[u] = "deliver" => cur'[u] \in Numbers(file')
                      /\ pc'[u] \in {"write", "deliver"} /\ conn'[u] # 0 =>
                             cur'[u] \notin Numbers(other'.posts)
  BY DEF Numbering
<1>4. /\ Distinct(posts') /\ Distinct(file') /\ Distinct(rest') /\ Distinct(other'.posts)
      /\ Numbers(posts') \cup Numbers(file') \cup Numbers(rest') \cup Numbers(other'.posts)
             \subseteq 1 .. sent'
  BY DEF Numbering
<1>5. /\ mode' = "up" => Numbers(posts') \subseteq Numbers(file') \cup Unwritten'
      /\ mode' = "up" => Numbers(file') \subseteq Numbers(posts')
  BY <1>1 DEF Numbering
<1>6. /\ mode' = "copy" => /\ Numbers(posts') = Numbers(file')
                           /\ Numbers(rest') \cap Numbers(file') = {}
      /\ mode' \in {"down", "fetch"} => posts' = <<>>
      /\ mode' = "fetch" => file' = <<>>
      /\ mode' # "copy" => rest' = <<>>
  BY DEF Numbering
<1> QED BY <1>1, <1>2, <1>3, <1>4, <1>5, <1>6 DEF Numbering

\* The number of the post that a thread works on.
LEMMA WorkNumbers ==
    ASSUME Numbering, NEW u \in User, pc[u] \in {"write", "deliver"}
    PROVE  cur[u] \in Numbers(posts) /\ cur[u] \in 1 .. sent
BY DEF Numbering, Works, Numbers

\* Two threads do not work on the same post.
LEMMA WorksAlone ==
    ASSUME Numbering, NEW u \in User, NEW v \in User, cur[u] = cur[v],
           pc[u] \in {"write", "deliver"}, pc[v] \in {"write", "deliver"}
    PROVE  u = v
BY DEF Numbering, Works, Distinct

\* A start of the server keeps each post once in memory and once in the file.
LEMMA StartNumbering ==
    ASSUME PostsInv, StartStep
    PROVE  Numbering'
<1> USE DEF PostsInv
<1>1. /\ mode # "up" /\ \A u \in User : pc'[u] = "none"
      /\ other' = other /\ sent' = sent
  BY StartIs DEF Connections
<1>2. Unwritten' = {}
  BY <1>1 DEF Unwritten
<1>3. ASSUME NEW s \in Seq(PostType) PROVE Numbers(Parsed(s)) = Numbers(s) /\ (Distinct(s) => Distinct(Parsed(s)))
  BY ParsedPosts
<1>4. Numbers(<<>>) = {} /\ Distinct(<<>>)
  BY DEF Numbers, Distinct
<1>5. CASE RestartLocal
  <2>1. posts' = Parsed(file) /\ UNCHANGED <<file, rest>> /\ mode' = "up" /\ mode = "down"
    BY <1>5 DEF RestartLocal
  <2> QED BY <1>1, <1>2, <1>3, <2>1 DEF Numbering, Types
<1>6. CASE ClearFiles
  <2>1. file' = <<>> /\ UNCHANGED <<posts, rest>> /\ mode' = "fetch" /\ mode = "down"
    BY <1>6 DEF ClearFiles
  <2> QED BY <1>1, <1>4, <2>1 DEF Numbering, Types
<1>7. CASE GetLog
  <2>1. rest' = Parsed(other.posts) /\ UNCHANGED <<posts, file>> /\ mode' = "copy" /\ mode = "fetch"
    BY <1>7 DEF GetLog
  <2>2. posts = <<>> /\ file = <<>>
    BY <2>1 DEF Numbering
  <2> QED BY <1>1, <1>3, <1>4, <2>1, <2>2 DEF Numbering, Types
<1>8. CASE CopyPost
  <2>1. /\ rest # <<>> /\ posts' = Append(posts, Head(rest)) /\ file' = Append(file, Head(rest))
        /\ rest' = Tail(rest) /\ mode' = "copy" /\ mode = "copy"
    BY <1>8 DEF CopyPost, AppendToFile
  <2>2. /\ Head(rest) \in PostType /\ Numbers(rest) = {Head(rest).n} \cup Numbers(rest')
        /\ Distinct(rest') /\ Head(rest).n \notin Numbers(rest')
    BY <2>1, HeadAndTail DEF Types, Numbering
  <2>3. Numbers(posts) = Numbers(file) /\ Numbers(rest) \cap Numbers(file) = {}
    BY <2>1 DEF Numbering
  <2>4. /\ Numbers(posts') = Numbers(posts) \cup {Head(rest).n} /\ Distinct(posts')
        /\ Numbers(file') = Numbers(file) \cup {Head(rest).n} /\ Distinct(file')
    BY <2>1, <2>2, <2>3, AppendPost DEF Types, Numbering
  <2> QED BY <1>1, <2>1, <2>2, <2>3, <2>4 DEF Numbering
<1>9. CASE Copied
  <2>1. UNCHANGED <<posts, file, rest>> /\ mode' = "up" /\ mode = "copy" /\ rest = <<>>
    BY <1>9 DEF Copied
  <2> QED BY <1>1, <1>2, <2>1 DEF Numbering
<1> QED BY <1>5, <1>6, <1>7, <1>8, <1>9 DEF StartStep

\* Every step keeps each post once in memory and once in the file, or about to be.
LEMMA NumberingStep ==
    ASSUME PostsInv, [Next]_vars
    PROVE  Numbering'
<1> USE DEF PostsInv
<1>1. ASSUME NEW u \in User, Post(u) PROVE Numbering'
  <2> DEFINE p == [user |-> u, n |-> sent', made |-> now, time |-> now]
  <2>1. /\ sent' = sent + 1 /\ sent' \in 1 .. MaxPosts /\ sent \in Nat
        /\ posts' = Append(posts, p) /\ mode = "up"
        /\ UNCHANGED <<file, mode, rest, conn>> /\ pc[u] \in {"none", "read"}
    <3>1. sent \in 0 .. MaxPosts /\ sent < MaxPosts /\ sent' = sent + 1
      BY <1>1 DEF Post, Types, TypeOK
    <3>2. sent' \in 1 .. MaxPosts /\ sent \in Nat
      BY <3>1, PostsAssumption
    <3> QED BY <1>1, <3>1, <3>2 DEF Post
  <2>2. p \in PostType /\ p.n = sent + 1 /\ p.user = u
    BY <2>1 DEF PostType, Types, TypeOK
  <2>3. p.n \notin Numbers(posts) /\ p.n \notin Numbers(file) /\ p.n \notin Numbers(other.posts)
    BY <2>1, <2>2 DEF Numbering
  <2>4. /\ \A v \in User : v # u => cur'[v] = cur[v] /\ pc'[v] = pc[v]
        /\ cur'[u] = p.n /\ pc'[u] = "write"
    BY <1>1, <2>1, <2>2 DEF Post, Types, TypeOK
  <2>5. \/ other' = other
        \/ conn[u] = 0 /\ other' = [other EXCEPT !.posts = Append(other.posts, p)]
    BY <1>1 DEF Post
  <2> HIDE DEF p
  <2>6. /\ DOMAIN posts = 1 .. Len(posts) /\ Len(posts) \in Nat
        /\ DOMAIN posts' = 1 .. Len(posts) + 1
        /\ \A i \in DOMAIN posts : posts'[i] = posts[i]
        /\ posts'[Len(posts) + 1] = p
        /\ Numbers(posts') = Numbers(posts) \cup {p.n}
        /\ Distinct(posts')
    BY <2>1, <2>2, <2>3, AppendPost DEF Types, Numbering
  <2>7. /\ Distinct(other'.posts)
        /\ \/ Numbers(other'.posts) = Numbers(other.posts)
           \/ conn[u] = 0 /\ Numbers(other'.posts) = Numbers(other.posts) \cup {p.n}
    <3>1. CASE other' = other
      BY <3>1 DEF Numbering
    <3>2. CASE conn[u] = 0 /\ other' = [other EXCEPT !.posts = Append(other.posts, p)]
      <4>1. other'.posts = Append(other.posts, p)
        BY <3>2, OtherIs
      <4>2. other.posts \in Seq(PostType) /\ Distinct(other.posts)
        BY DEF Types, Numbering
      <4> QED BY <2>2, <2>3, <3>2, <4>1, <4>2, AppendPost
    <3> QED BY <2>5, <3>1, <3>2
  <2>8. Unwritten' = Unwritten \cup {p.n}
    BY <2>1, <2>4 DEF Unwritten
  <2>9. ASSUME NEW v \in User, pc'[v] \in {"write", "deliver"} PROVE Works(v)'
    <3>1. CASE v = u
      <4>1. Len(posts) + 1 \in DOMAIN posts'
        BY <2>6
      <4> QED BY <2>2, <2>4, <2>6, <3>1, <4>1 DEF Works
    <3>2. CASE v # u
      <4>1. PICK i \in DOMAIN posts : posts[i].user = v /\ posts[i].n = cur[v]
        BY <2>4, <2>9, <3>2 DEF Numbering, Works
      <4>2. i \in DOMAIN posts'
        BY <2>6
      <4> QED BY <2>4, <2>6, <3>2, <4>1, <4>2 DEF Works
    <3> QED BY <3>1, <3>2
  <2>10. ASSUME NEW v \in User, pc'[v] \in {"write", "deliver"}, conn'[v] # 0
         PROVE  cur'[v] \notin Numbers(other'.posts)
    <3>1. CASE v = u
      BY <2>1, <2>3, <2>4, <2>7, <2>10, <3>1
    <3>2. CASE v # u
      <4>1. cur[v] \in 1 .. sent /\ cur[v] \notin Numbers(other.posts)
        BY <2>1, <2>4, <2>10, <3>2, WorkNumbers DEF Numbering
      <4>2. cur[v] # p.n
        BY <2>1, <2>2, <4>1
      <4> QED BY <2>4, <2>7, <3>2, <4>1, <4>2
    <3> QED BY <3>1, <3>2
  <2>11. Numbers(posts') \cup Numbers(file') \cup Numbers(rest') \cup Numbers(other'.posts)
             \subseteq 1 .. sent'
    BY <2>1, <2>2, <2>6, <2>7 DEF Numbering
  <2>12. \A v \in User : /\ pc'[v] = "write" => cur'[v] \notin Numbers(file')
                         /\ pc'[v] = "deliver" => cur'[v] \in Numbers(file')
    BY <2>1, <2>3, <2>4 DEF Numbering
  <2>13. Numbers(posts') \subseteq Numbers(file') \cup Unwritten' /\ Numbers(file') \subseteq Numbers(posts')
    BY <2>1, <2>6, <2>8 DEF Numbering
  <2>14. Distinct(file') /\ Distinct(rest') /\ rest' = <<>> /\ mode' = "up"
    BY <2>1 DEF Numbering
  <2> QED BY <2>6, <2>7, <2>9, <2>10, <2>11, <2>12, <2>13, <2>14 DEF Numbering
<1>2. ASSUME NEW u \in User, Write(u) PROVE Numbering'
  <2>1. PICK p \in ToSet(posts) : p.n = cur[u] /\ file' = Append(file, p)
    BY <1>2 DEF Write, AppendToFile
  <2>2. p \in PostType /\ p.n \in Numbers(posts)
    BY <2>1 DEF ToSet, Types, Numbers
  <2>3. /\ \A v \in User : v # u => cur'[v] = cur[v] /\ pc'[v] = pc[v]
        /\ cur' = cur /\ pc'[u] = "deliver" /\ pc[u] = "write"
        /\ UNCHANGED <<posts, mode, sent, rest, other, conn>>
    BY <1>2 DEF Write, Types, TypeOK
  <2>4. p.n \notin Numbers(file)
    BY <2>1, <2>3 DEF Numbering
  <2>5. Numbers(file') = Numbers(file) \cup {p.n} /\ Distinct(file')
    BY <2>1, <2>2, <2>4, AppendPost DEF Types, Numbering
  <2>6. \A v \in User : pc'[v] \in {"write", "deliver"} => Works(v)'
    BY <2>3 DEF Numbering, Works
  <2>7. Unwritten \subseteq Unwritten' \cup {p.n}
    BY <2>1, <2>3 DEF Unwritten
  <2>8. \A v \in User : pc'[v] = "write" => cur'[v] # p.n
    BY <2>1, <2>3, WorksAlone
  <2>9. mode = "up"
    BY <2>3 DEF Connections
  <2>10. \A v \in User : pc'[v] \in {"write", "deliver"} /\ conn'[v] # 0 =>
             cur'[v] \notin Numbers(other'.posts)
    BY <2>3 DEF Numbering
  <2>11. \A v \in User : /\ pc'[v] = "write" => cur'[v] \notin Numbers(file')
                         /\ pc'[v] = "deliver" => cur'[v] \in Numbers(file')
    BY <2>1, <2>3, <2>5, <2>8 DEF Numbering
  <2> QED BY <2>2, <2>3, <2>5, <2>6, <2>7, <2>9, <2>10, <2>11 DEF Numbering
<1>3. ASSUME NEW u \in User, Enter(u) \/ Join(u) \/ JoinAgain(u) \/ Collect(u)
                             \/ ShowBacklog(u) \/ Return(u)
      PROVE  Numbering'
  <2>1. \A v \in User : /\ pc'[v] \in {"write", "deliver"} => cur'[v] = cur[v] /\ conn'[v] = conn[v]
                        /\ (pc'[v] = "write") = (pc[v] = "write")
                        /\ pc'[v] = "deliver" => pc[v] = "deliver"
    BY <1>3 DEF Enter, Join, JoinAgain, Collect, ShowBacklog, Return, Types, TypeOK
  <2>2. UNCHANGED <<posts, file, rest, other, sent, mode>>
    BY <1>3 DEF Enter, Join, JoinAgain, Collect, ShowBacklog, Return
  <2> QED BY <2>1, <2>2, SameNumbering
<1>4. ASSUME UNCHANGED <<posts, file, rest, sent, mode, pc, cur, conn>>, other'.posts = other.posts
      PROVE  Numbering'
  BY <1>4, SameNumbering
<1>5. ASSUME NEW u \in User, Posted(u) PROVE Numbering'
  <2>1. /\ pc[u] = "deliver" /\ pc'[u] \in {"none", "read"}
        /\ \A v \in User : v # u => pc'[v] = pc[v] /\ cur'[v] = cur[v]
        /\ UNCHANGED <<posts, file, rest, sent, mode, conn>>
    BY <1>5 DEF Posted, Types, TypeOK
  <2>2. CASE UNCHANGED other
    BY <2>1, <2>2, SameNumbering
  <2>3. CASE ~UNCHANGED other
    <3>1. PICK q \in PostType : /\ q.n = cur[u] /\ conn[u] # 0
                                /\ other' = [posts |-> Append(other.posts, q), follow |-> other.follow]
      BY <1>5, <2>3, Forwarded
    <3>2. other'.posts = Append(other.posts, q)
      BY <3>1
    <3>3. q.n \notin Numbers(other.posts) /\ q.n \in 1 .. sent
      BY <2>1, <3>1, WorkNumbers DEF Numbering
    <3>4. Numbers(other'.posts) = Numbers(other.posts) \cup {q.n} /\ Distinct(other'.posts)
      BY <3>2, <3>3, AppendPost DEF Types, Numbering
    <3>5. \A v \in User : pc'[v] \in {"write", "deliver"} /\ conn'[v] # 0 =>
              cur'[v] \notin Numbers(other'.posts)
      <4> TAKE v \in User
      <4>1. pc'[v] \in {"write", "deliver"} => v # u /\ cur'[v] = cur[v] /\ pc[v] = pc'[v]
        BY <2>1
      <4>2. v # u /\ pc[v] \in {"write", "deliver"} => cur[v] # q.n
        BY <2>1, <3>1, WorksAlone
      <4> QED BY <2>1, <3>4, <4>1, <4>2 DEF Numbering
    <3>6. Unwritten' = Unwritten
      BY <2>1 DEF Unwritten
    <3>7. \A v \in User : pc'[v] \in {"write", "deliver"} => Works(v)'
      BY <2>1 DEF Numbering, Works
    <3>8. \A v \in User : /\ pc'[v] = "write" => cur'[v] \notin Numbers(file')
                          /\ pc'[v] = "deliver" => cur'[v] \in Numbers(file')
      BY <2>1 DEF Numbering
    <3> QED BY <2>1, <3>3, <3>4, <3>5, <3>6, <3>7, <3>8 DEF Numbering
  <2> QED BY <2>2, <2>3
<1>6. CASE EndStep
  <2>1. Die /\ UNCHANGED <<file, sent, other>>
    BY <1>6, EndIs
  <2>2. /\ posts' = <<>> /\ rest' = <<>> /\ mode' = "down" /\ \A u \in User : pc'[u] = "none"
        /\ Numbers(<<>>) = {} /\ Distinct(<<>>)
    BY <2>1 DEF Die, Numbers, Distinct
  <2> QED BY <2>1, <2>2 DEF Numbering
<1>7. ASSUME NEW u \in User, Deliver(u) \/ Leave(u) PROVE Numbering'
  BY <1>7, <1>4 DEF Deliver, Leave
<1>8. ASSUME NEW f \in User, NEW a \in User, Follow(f, a) \/ UnFollow(f, a) PROVE Numbering'
  <2>1. PICK x : other' = [other EXCEPT !.follow = x]
    BY <1>8 DEF Follow, UnFollow
  <2>2. other'.posts = other.posts
    BY <2>1, OtherIs
  <2> QED BY <1>8, <1>4, <2>2 DEF Follow, UnFollow
<1>9. CASE Tick \/ UNCHANGED vars
  BY <1>9, <1>4 DEF Tick, vars, calls
<1>10. CASE OtherRestarts
  <2>1. /\ other' = [posts |-> Parsed(other.posts), follow |-> other.follow]
        /\ UNCHANGED <<posts, file, rest, sent, mode, pc, cur, conn>>
    BY <1>10, OtherIs DEF OtherRestarts, calls
  <2>2. other'.posts = Parsed(other.posts)
    BY <2>1
  <2>3. Numbers(other'.posts) = Numbers(other.posts) /\ Distinct(other'.posts)
    BY <2>2, ParsedPosts DEF Types, Numbering
  <2>4. Unwritten' = Unwritten
    BY <2>1 DEF Unwritten
  <2>5. \A u \in User : pc'[u] \in {"write", "deliver"} => Works(u)'
    BY <2>1 DEF Numbering, Works
  <2> QED BY <2>1, <2>3, <2>4, <2>5 DEF Numbering
<1>11. CASE StartStep
  BY <1>11, StartNumbering
<1> QED
  BY <1>1, <1>2, <1>3, <1>5, <1>6, <1>7, <1>8, <1>9, <1>10, <1>11
     DEF Next, Serve, StartStep, EndStep

-----------------------------------------------------------------------------
(* Connections and what a user collects *)

\* Every step keeps calls and connections in agreement.
LEMMA ConnectionsStep ==
    ASSUME PostsInv, [Next]_vars
    PROVE  Connections'
<1> USE DEF PostsInv
<1>1. ASSUME NEW u \in User, Post(u) \/ Posted(u) PROVE Connections'
  <2>1. CASE Post(u)
    BY <2>1 DEF Post, Connections, Types, TypeOK
  <2>2. CASE Posted(u)
    <3>1. mode = "up" /\ pc[u] = "deliver"
      BY <2>2 DEF Posted, Connections
    <3>2. pc'[u] = (IF conn[u] = 0 THEN "none" ELSE "read")
          /\ \A v \in User : v # u => pc'[v] = pc[v]
      BY <2>2 DEF Posted, Types, TypeOK
    <3>3. UNCHANGED <<mode, conn, gone, stream, conns, todo>>
      BY <2>2 DEF Posted
    <3> QED BY <3>1, <3>2, <3>3 DEF Connections
  <2> QED BY <1>1, <2>1, <2>2
<1>2. ASSUME NEW u \in User, Write(u) PROVE Connections'
  <2>1. Followers(u) \subseteq User
    BY DEF Followers
  <2> QED BY <1>2, <2>1 DEF Write, Connections, Types, TypeOK
<1>3. ASSUME NEW u \in User, Deliver(u) \/ Leave(u) PROVE Connections'
  <2>1. CASE Deliver(u)
    <3>1. \A v \in User : todo'[v] \subseteq todo[v]
      BY <2>1 DEF Deliver, Types
    <3>2. UNCHANGED <<mode, pc, conn, gone, stream, conns>>
      BY <2>1 DEF Deliver
    <3> QED BY <3>1, <3>2 DEF Connections
  <2>2. CASE Leave(u)
    BY <2>2 DEF Leave, Connections, Types, TypeOK
  <2> QED BY <1>3, <2>1, <2>2
<1>4. ASSUME NEW u \in User, Enter(u) PROVE Connections'
  <2>1. /\ conns \in Nat /\ conns' = conns + 1 /\ conn' = [conn EXCEPT ![u] = conns']
        /\ pc' = [pc EXCEPT ![u] = "first"] /\ mode = "up" /\ UNCHANGED <<mode, stream, gone, todo>>
    BY <1>4 DEF Enter, Types, TypeOK
  <2>2. \A v \in User : stream[v] \in Nat /\ conn[v] \in Nat
    BY DEF Types, TypeOK
  <2> QED BY <2>1, <2>2 DEF Connections, Types, TypeOK
<1>5. ASSUME NEW u \in User, Join(u) PROVE Connections'
  BY <1>5 DEF Join, Connections, Types, TypeOK
<1>6. ASSUME NEW u \in User, JoinAgain(u) \/ Collect(u) \/ ShowBacklog(u) PROVE Connections'
  <2>1. CASE JoinAgain(u)
    BY <2>1 DEF JoinAgain, Connections, Types, TypeOK
  <2>2. CASE Collect(u)
    BY <2>2 DEF Collect, Connections, Types, TypeOK
  <2>3. CASE ShowBacklog(u)
    BY <2>3 DEF ShowBacklog, Connections, Types, TypeOK
  <2> QED BY <1>6, <2>1, <2>2, <2>3
<1>7. ASSUME NEW u \in User, Return(u) PROVE Connections'
  BY <1>7 DEF Return, Connections, Types, TypeOK
<1>8. ASSUME NEW f \in User, NEW a \in User, Follow(f, a) \/ UnFollow(f, a) PROVE Connections'
  <2>1. \A v \in User : todo'[v] \subseteq todo[v] \cup {f}
    <3>1. \/ todo' = todo
          \/ todo' = [todo EXCEPT ![a] = @ \cup {f}]
          \/ todo' = [todo EXCEPT ![a] = @ \ {f}]
      BY <1>8 DEF Follow, UnFollow
    <3>2. DOMAIN todo = User
      BY DEF Types
    <3> QED BY <3>1, <3>2
  <2>2. UNCHANGED <<mode, pc, conn, gone, stream, conns>>
    BY <1>8 DEF Follow, UnFollow
  <2> QED BY <2>1, <2>2 DEF Connections
<1>9. CASE EndStep
  <2>1. Die /\ UNCHANGED conns
    BY <1>9, EndIs
  <2> QED BY <2>1 DEF Die, None, Connections, Types, TypeOK
<1>10. CASE StartStep
  BY <1>10, StartIs DEF Connections
<1>11. CASE OtherRestarts \/ Tick \/ UNCHANGED vars
  BY <1>11 DEF OtherRestarts, Tick, vars, calls, Connections
<1> QED
  BY <1>1, <1>2, <1>3, <1>4, <1>5, <1>6, <1>7, <1>8, <1>9, <1>10, <1>11
     DEF Next, Serve, StartStep, EndStep

\* A step after which those who join have what they had collected before.
LEMMA SameCollected ==
    ASSUME Collected, UNCHANGED posts,
           \A f \in User : pc'[f] = "backlog" =>
               pc[f] = "backlog" /\ todo'[f] = todo[f] /\ follow'[f] = follow[f]
    PROVE  Collected'
BY DEF Collected, Considered, Numbers

\* Every step keeps what a user who joins has collected among what it may see.
LEMMA CollectedStep ==
    ASSUME PostsInv, [Next]_vars
    PROVE  Collected'
<1> USE DEF PostsInv
<1>1. ASSUME NEW u \in User, Post(u) PROVE Collected'
  <2> DEFINE p == [user |-> u, n |-> sent', made |-> now, time |-> now]
  <2>1. /\ sent' = sent + 1 /\ sent' \in 1 .. MaxPosts /\ sent \in Nat
        /\ posts' = Append(posts, p) /\ UNCHANGED <<follow, todo>>
        /\ \A f \in User : pc'[f] = "backlog" => pc[f] = "backlog"
    <3>1. sent \in 0 .. MaxPosts /\ sent < MaxPosts /\ sent' = sent + 1
      BY <1>1 DEF Post, Types, TypeOK
    <3>2. sent' \in 1 .. MaxPosts /\ sent \in Nat
      BY <3>1, PostsAssumption
    <3>3. \A f \in User : pc'[f] = "backlog" => pc[f] = "backlog"
      BY <1>1 DEF Post, Types, TypeOK
    <3> QED BY <1>1, <3>1, <3>2, <3>3 DEF Post
  <2>2. p \in PostType /\ p.n = sent + 1
    BY <2>1 DEF PostType, Types, TypeOK
  <2> HIDE DEF p
  <2>3. /\ DOMAIN posts = 1 .. Len(posts) /\ Len(posts) \in Nat
        /\ DOMAIN posts' = 1 .. Len(posts) + 1
        /\ \A i \in DOMAIN posts : posts'[i] = posts[i]
        /\ posts'[Len(posts) + 1] = p
        /\ Numbers(posts') = Numbers(posts) \cup {p.n}
    BY <2>1, <2>2, AppendPost DEF Types
  <2>4. p.n \notin Numbers(posts)
    BY <2>1, <2>2 DEF Numbering
  <2> QED BY <2>1, <2>3, <2>4 DEF Collected, Considered
<1>2. ASSUME NEW u \in User, Collect(u) PROVE Collected'
  <2>1. /\ UNCHANGED <<posts, follow>> /\ todo'[u] = getFollowingPosts(u)
        /\ \A f \in User : f # u => pc'[f] = pc[f] /\ todo'[f] = todo[f]
    BY <1>2 DEF Collect, Types, TypeOK
  <2>2. getFollowingPosts(u) \subseteq Numbers(posts)
    BY DEF getFollowingPosts, Latest, ConsideredPosts, Numbers
  <2>3. \A i \in DOMAIN posts : posts[i].n \in getFollowingPosts(u) => Considered(u, posts[i])
    BY DEF getFollowingPosts, Latest, ConsideredPosts, Numbering, Distinct
  <2> QED BY <2>1, <2>2, <2>3 DEF Collected, Considered, Numbers
<1>3. ASSUME NEW u \in User, Write(u) \/ Deliver(u) PROVE Collected'
  BY <1>3, SameCollected DEF Write, Deliver, Types, TypeOK
<1>4. ASSUME NEW u \in User, \/ Posted(u) \/ Enter(u) \/ Join(u) \/ JoinAgain(u)
                             \/ ShowBacklog(u) \/ Return(u) \/ Leave(u)
      PROVE  Collected'
  BY <1>4, SameCollected
     DEF Posted, Enter, Join, JoinAgain, ShowBacklog, Return, Leave, Types, TypeOK
<1>5. ASSUME NEW g \in User, NEW a \in User, Follow(g, a) \/ UnFollow(g, a) PROVE Collected'
  BY <1>5, SameCollected DEF Follow, UnFollow, Types, TypeOK
<1>6. CASE EndStep
  BY <1>6, EndIs DEF Die, Collected
<1>7. CASE StartStep
  BY <1>7, StartIs DEF Connections, Collected
<1>8. CASE OtherRestarts \/ Tick \/ UNCHANGED vars
  BY <1>8, SameCollected DEF OtherRestarts, Tick, vars, calls
<1> QED
  BY <1>1, <1>2, <1>3, <1>4, <1>5, <1>6, <1>7, <1>8 DEF Next, Serve, StartStep, EndStep

\* Posts that are read from a file once more are late by one more shift at most.
LEMMA ShiftedOnce ==
    ASSUME reads \in Nat, NEW s \in Seq(PostType), Shifted(s), reads' = reads + 1
    PROVE  \A i \in DOMAIN Parsed(s) : Parsed(s)[i].time <= Parsed(s)[i].made + DstShift * reads'
<1>1. DstShift * reads' = DstShift * reads + DstShift /\ DstShift * reads \in Nat
  BY PostsAssumption
<1> DEFINE d == DstShift * reads
<1> SUFFICES ASSUME NEW i \in DOMAIN Parsed(s)
             PROVE  Parsed(s)[i].time <= Parsed(s)[i].made + DstShift * reads'
  OBVIOUS
<1>2. i \in DOMAIN s /\ Parsed(s)[i] = ParsedTime(s[i])
  BY DEF Parsed
<1>3. s[i] \in PostType
  BY <1>2
<1>4. s[i].time <= s[i].made + d /\ s[i].time \in Nat /\ s[i].made \in Nat
  BY <1>2, <1>3 DEF Shifted, PostType
<1>5. Parsed(s)[i].time = s[i].time + DstShift /\ Parsed(s)[i].made = s[i].made
  BY <1>2, <1>3 DEF ParsedTime, PostType
<1>6. d \in Nat /\ DstShift * reads' = d + DstShift /\ DstShift \in Nat
  BY <1>1, PostsAssumption
<1> HIDE DEF d
<1>7. s[i].time + DstShift <= s[i].made + (d + DstShift)
  BY <1>4, <1>6
<1> QED BY <1>5, <1>6, <1>7

\* Posts that have not been read once more.
LEMMA ShiftedStill ==
    ASSUME reads \in Nat, NEW s \in Seq(PostType), Shifted(s),
           reads' = reads \/ reads' = reads + 1
    PROVE  \A i \in DOMAIN s : s[i].time <= s[i].made + DstShift * reads'
<1>1. \/ DstShift * reads' = DstShift * reads
      \/ DstShift * reads' = DstShift * reads + DstShift
  BY PostsAssumption
<1>2. DstShift * reads \in Nat /\ DstShift \in Nat
  BY PostsAssumption
<1> DEFINE d == DstShift * reads
           e == DstShift * reads'
<1>3. d \in Nat /\ DstShift \in Nat /\ (e = d \/ e = d + DstShift)
  BY <1>1, <1>2
<1>4. \A i \in DOMAIN s : s[i].time <= s[i].made + d /\ s[i].time \in Nat /\ s[i].made \in Nat
  <2>1. \A i \in DOMAIN s : s[i] \in PostType
    OBVIOUS
  <2> QED BY <2>1 DEF Shifted, PostType
<1> HIDE DEF d, e
<1>5. \A i \in DOMAIN s : s[i].time <= s[i].made + e
  BY <1>3, <1>4
<1> QED BY <1>5 DEF e

\* A new post is not late.
LEMMA ShiftedAppend ==
    ASSUME reads \in Nat, NEW s \in Seq(PostType), Shifted(s), NEW p \in PostType,
           p.time <= p.made + DstShift * reads
    PROVE  Shifted(Append(s, p))
<1>1. /\ DOMAIN s = 1 .. Len(s) /\ Len(s) \in Nat
      /\ DOMAIN Append(s, p) = 1 .. Len(s) + 1
      /\ \A i \in DOMAIN s : Append(s, p)[i] = s[i]
      /\ Append(s, p)[Len(s) + 1] = p
  BY AppendPost
<1>2. \A i \in 1 .. Len(s) + 1 : i \in DOMAIN s \/ i = Len(s) + 1
  BY <1>1
<1> QED BY <1>1, <1>2 DEF Shifted

\* Every step keeps posts within one shift for each time that they have been read.
LEMMA LateStep ==
    ASSUME PostsInv, [Next]_vars
    PROVE  Late'
<1> USE DEF PostsInv
<1>0. /\ reads \in Nat /\ DstShift * reads \in Nat
      /\ posts \in Seq(PostType) /\ file \in Seq(PostType) /\ rest \in Seq(PostType)
      /\ other.posts \in Seq(PostType)
      /\ Shifted(posts) /\ Shifted(file) /\ Shifted(rest) /\ Shifted(other.posts)
  <2>1. reads \in Nat
    BY DEF Types, TypeOK
  <2> QED BY <2>1, PostsAssumption DEF Types, Late
<1>1. ASSUME UNCHANGED <<posts, file, rest, follow, reads>>, other'.posts = other.posts PROVE Late'
  BY <1>1 DEF Late, Shifted
<1>2. ASSUME NEW u \in User, Post(u) PROVE Late'
  <2> DEFINE p == [user |-> u, n |-> sent', made |-> now, time |-> now]
  <2>1. /\ posts' = Append(posts, p) /\ UNCHANGED <<file, rest, follow, reads>>
        /\ \/ other' = other
           \/ other' = [other EXCEPT !.posts = Append(other.posts, p)]
    BY <1>2 DEF Post
  <2>2. p \in PostType /\ p.time = p.made
    <3>1. sent \in 0 .. MaxPosts /\ sent < MaxPosts /\ sent' = sent + 1 /\ now \in 0 .. MaxTime
      BY <1>2 DEF Post, Types, TypeOK
    <3>2. sent' \in 1 .. MaxPosts /\ now \in Nat
      BY <3>1, PostsAssumption
    <3> QED BY <3>1, <3>2 DEF PostType
  <2> HIDE DEF p
  <2>3. p.time <= p.made + DstShift * reads
    <3> DEFINE d == DstShift * reads
    <3>1. d \in Nat /\ p.made \in Nat
      BY <1>0, <2>2 DEF PostType
    <3> HIDE DEF d
    <3>2. p.made <= p.made + d
      BY <3>1
    <3> QED BY <2>2, <3>2 DEF d
  <2>4. Shifted(Append(posts, p)) /\ Shifted(Append(other.posts, p))
    BY <1>0, <2>2, <2>3, ShiftedAppend
  <2>5. other'.posts = other.posts \/ other'.posts = Append(other.posts, p)
    BY <2>1, OtherIs
  <2> QED BY <2>1, <2>4, <2>5 DEF Late, Shifted
<1>3. ASSUME NEW u \in User, Write(u) PROVE Late'
  <2>1. PICK p \in ToSet(posts) : file' = Append(file, p)
    BY <1>3 DEF Write, AppendToFile
  <2>2. p \in PostType /\ p.time <= p.made + DstShift * reads
    BY <1>0, <2>1 DEF ToSet, Shifted
  <2>3. Shifted(Append(file, p))
    BY <1>0, <2>2, ShiftedAppend
  <2>4. UNCHANGED <<posts, rest, follow, reads, other>>
    BY <1>3 DEF Write
  <2> QED BY <2>1, <2>3, <2>4 DEF Late, Shifted
<1>4. ASSUME NEW u \in User, Posted(u) PROVE Late'
  <2>1. UNCHANGED <<posts, file, rest, follow, reads>>
    BY <1>4 DEF Posted
  <2>2. CASE UNCHANGED other
    BY <1>1, <2>1, <2>2
  <2>3. CASE ~UNCHANGED other
    <3>1. PICK q \in PostType : /\ q.time = q.made
                                /\ other' = [posts |-> Append(other.posts, q), follow |-> other.follow]
      BY <1>4, <2>3, Forwarded
    <3>2. other'.posts = Append(other.posts, q)
      BY <3>1
    <3>3. q.time <= q.made + DstShift * reads
      <4> DEFINE d == DstShift * reads
      <4>1. d \in Nat /\ q.made \in Nat
        BY <1>0 DEF PostType
      <4> HIDE DEF d
      <4>2. q.made <= q.made + d
        BY <4>1
      <4> QED BY <3>1, <4>2 DEF d
    <3>4. Shifted(Append(other.posts, q))
      BY <1>0, <3>3, ShiftedAppend
    <3> QED BY <2>1, <3>2, <3>4 DEF Late, Shifted
  <2> QED BY <2>2, <2>3
<1>5. ASSUME NEW f \in User, NEW a \in User, Follow(f, a) \/ UnFollow(f, a) PROVE Late'
  <2>1. PICK x : other' = [other EXCEPT !.follow = x]
    BY <1>5 DEF Follow, UnFollow
  <2>2. other'.posts = other.posts
    BY <2>1, OtherIs
  <2>3. \A g \in User : \A b \in DOMAIN follow'[g] : follow'[g][b].made <= follow'[g][b].time
    <3>1. now <= now
      BY DEF Types, TypeOK
    <3>2. CASE Follow(f, a)
      BY <3>1, <3>2 DEF Follow, Late, Types
    <3>3. CASE UnFollow(f, a)
      BY <3>3 DEF UnFollow, Late, Types
    <3> QED BY <1>5, <3>2, <3>3
  <2>4. UNCHANGED <<posts, file, rest, reads>>
    BY <1>5 DEF Follow, UnFollow
  <2> QED BY <2>2, <2>3, <2>4 DEF Late, Shifted
<1>6. CASE EndStep
  <2>1. posts' = <<>> /\ rest' = <<>> /\ UNCHANGED <<follow, file, other, reads>>
    BY <1>6, EndIs DEF Die
  <2> QED BY <2>1 DEF Late, Shifted
<1>7. CASE StartStep
  <2>1. other' = other /\ (reads' = reads \/ reads' = reads + 1)
    BY <1>7, StartIs DEF StartStep, RestartLocal, ClearFiles, GetLog, CopyPost, Copied, Read
  <2>2. Shifted(other.posts)' /\ (file' = file => Shifted(file)') /\ (posts' = posts => Shifted(posts)')
        /\ (rest' = rest => Shifted(rest)')
    BY <1>0, <2>1, ShiftedStill DEF Shifted
  <2>3. CASE RestartLocal
    <3>1. /\ reads' = reads + 1 /\ posts' = Parsed(file) /\ UNCHANGED <<file, rest>>
          /\ follow' = ParsedFollows(follow)
      BY <2>3 DEF RestartLocal, Read
    <3>2. Shifted(posts)'
      BY <1>0, <3>1, ShiftedOnce DEF Shifted
    <3>3. \A g \in User : \A b \in DOMAIN follow'[g] : follow'[g][b].made <= follow'[g][b].time
      BY <3>1, ParsedFollowsAre DEF Types, TypeOK
    <3> QED BY <2>2, <3>1, <3>2, <3>3 DEF Late
  <2>4. CASE ClearFiles
    <3>1. UNCHANGED <<posts, rest>> /\ file' = <<>> /\ follow' = NoFollows
      BY <2>4 DEF ClearFiles
    <3>2. Shifted(file)' /\ \A g \in User : DOMAIN follow'[g] = {}
      BY <3>1, NoFollowsAre DEF Shifted
    <3> QED BY <2>2, <3>1, <3>2 DEF Late
  <2>5. CASE GetLog
    <3>1. /\ reads' = reads + 1 /\ rest' = Parsed(other.posts) /\ UNCHANGED <<posts, file>>
          /\ follow' = ParsedFollows(other.follow)
      BY <2>5 DEF GetLog, Read
    <3>2. Shifted(rest)'
      BY <1>0, <3>1, ShiftedOnce DEF Shifted
    <3>3. \A g \in User : \A b \in DOMAIN follow'[g] : follow'[g][b].made <= follow'[g][b].time
      BY <3>1, ParsedFollowsAre DEF Types, TypeOK
    <3> QED BY <2>2, <3>1, <3>2, <3>3 DEF Late
  <2>6. CASE CopyPost
    <3>1. /\ rest # <<>> /\ posts' = Append(posts, Head(rest)) /\ file' = Append(file, Head(rest))
          /\ rest' = Tail(rest) /\ UNCHANGED <<follow, reads>>
      BY <2>6 DEF CopyPost, AppendToFile
    <3>2. /\ Head(rest) \in PostType /\ 1 \in DOMAIN rest /\ Head(rest) = rest[1]
          /\ \A i \in DOMAIN rest' : i + 1 \in DOMAIN rest /\ rest'[i] = rest[i + 1]
      BY <1>0, <3>1, HeadAndTail
    <3>3. Head(rest).time <= Head(rest).made + DstShift * reads
      BY <1>0, <3>2 DEF Shifted
    <3>4. Shifted(Append(posts, Head(rest))) /\ Shifted(Append(file, Head(rest)))
      BY <1>0, <3>2, <3>3, ShiftedAppend
    <3>5. Shifted(rest)'
      BY <1>0, <3>1, <3>2 DEF Shifted
    <3>6. Shifted(posts)' /\ Shifted(file)'
      BY <3>1, <3>4 DEF Shifted
    <3> QED BY <2>2, <3>1, <3>5, <3>6 DEF Late
  <2>7. CASE Copied
    BY <1>1, <2>7 DEF Copied
  <2> QED BY <1>7, <2>3, <2>4, <2>5, <2>6, <2>7 DEF StartStep
<1>8. CASE OtherRestarts
  <2>1. /\ reads' = reads + 1 /\ other' = [posts |-> Parsed(other.posts), follow |-> other.follow]
        /\ UNCHANGED <<posts, file, rest, follow>>
    BY <1>8, OtherIs DEF OtherRestarts, Read
  <2>2. other'.posts = Parsed(other.posts)
    BY <2>1
  <2>3. Shifted(other.posts)'
    BY <1>0, <2>1, <2>2, ShiftedOnce DEF Shifted
  <2>4. Shifted(posts)' /\ Shifted(file)' /\ Shifted(rest)'
    BY <1>0, <2>1, ShiftedStill DEF Shifted
  <2> QED BY <2>1, <2>3, <2>4 DEF Late
<1>9. ASSUME NEW u \in User, \/ Enter(u) \/ Join(u) \/ JoinAgain(u) \/ Collect(u)
                             \/ ShowBacklog(u) \/ Return(u) \/ Deliver(u) \/ Leave(u)
      PROVE  Late'
  BY <1>1, <1>9 DEF Enter, Join, JoinAgain, Collect, ShowBacklog, Return, Deliver, Leave
<1>10. CASE Tick \/ UNCHANGED vars
  BY <1>1, <1>10 DEF Tick, vars
<1> QED
  BY <1>2, <1>3, <1>4, <1>5, <1>6, <1>7, <1>8, <1>9, <1>10 DEF Next, Serve, StartStep, EndStep

\* A step that changes nothing of where a post may be.
LEMMA SameSeen ==
    ASSUME SeenSurvives, UNCHANGED <<file, rest, mode, seen, torn, wiped>>,
           mode = "fetch" => Numbers(other'.posts) = Numbers(other.posts), Unwritten' = Unwritten
    PROVE  SeenSurvives'
<1>1. ToCopy' = ToCopy
  BY DEF ToCopy
<1> QED BY <1>1 DEF SeenSurvives

\* Every step keeps what somebody has seen, or accounts for its loss.
LEMMA SeenSurvivesStep ==
    ASSUME PostsInv, [Next]_vars
    PROVE  SeenSurvives'
<1> USE DEF PostsInv
<1>0. ASSUME NEW u \in User, pc[u] # "none" PROVE mode = "up" /\ ToCopy = Numbers(rest)
  BY <1>0 DEF Connections, ToCopy
<1>1. ASSUME NEW u \in User, Post(u) PROVE SeenSurvives'
  <2>1. Unwritten \subseteq Unwritten' /\ UNCHANGED <<file, rest, mode, seen, torn, wiped>> /\ mode = "up"
    BY <1>1 DEF Post, Unwritten, lost, Types, TypeOK
  <2>2. ToCopy' = ToCopy
    BY <2>1 DEF ToCopy
  <2> QED BY <2>1, <2>2 DEF SeenSurvives
<1>2. ASSUME NEW u \in User, Write(u) PROVE SeenSurvives'
  <2>1. PICK p \in ToSet(posts) : p.n = cur[u] /\ file' = Append(file, p)
    BY <1>2 DEF Write, AppendToFile
  <2>2. p \in PostType
    BY <2>1 DEF ToSet, Types
  <2>3. Numbers(file') = Numbers(file) \cup {cur[u]}
    BY <2>1, <2>2, AppendPost DEF Types
  <2>4. Unwritten \subseteq Unwritten' \cup {cur[u]} /\ UNCHANGED <<seen, torn, wiped, rest, mode, other>>
    BY <1>2 DEF Write, Unwritten, lost, Types, TypeOK
  <2>5. ToCopy' = ToCopy
    BY <2>4 DEF ToCopy
  <2> QED BY <2>3, <2>4, <2>5 DEF SeenSurvives
<1>3. ASSUME NEW u \in User, Deliver(u) PROVE SeenSurvives'
  <2>1. cur[u] \in Numbers(file)
    BY <1>3 DEF Deliver, Numbering
  <2>2. seen' \subseteq seen \cup {cur[u]}
    BY <1>3 DEF Deliver
  <2>3. UNCHANGED <<file, rest, mode, other, torn, wiped, pc, cur>>
    BY <1>3 DEF Deliver, lost
  <2>4. Unwritten' = Unwritten /\ ToCopy' = ToCopy
    BY <2>3 DEF Unwritten, ToCopy
  <2> QED BY <2>1, <2>2, <2>3, <2>4 DEF SeenSurvives
<1>4. ASSUME NEW u \in User, ShowBacklog(u) PROVE SeenSurvives'
  <2>1. todo[u] \subseteq Numbers(file) \cup Unwritten
    BY <1>4 DEF ShowBacklog, Collected, Connections, Numbering
  <2>2. seen' \subseteq seen \cup todo[u]
    BY <1>4 DEF ShowBacklog
  <2>3. UNCHANGED <<file, rest, mode, other, torn, wiped>>
    BY <1>4 DEF ShowBacklog, lost
  <2>4. Unwritten' = Unwritten /\ ToCopy' = ToCopy
    BY <1>4, <2>3 DEF ShowBacklog, Unwritten, ToCopy, Types, TypeOK
  <2> QED BY <2>1, <2>2, <2>3, <2>4 DEF SeenSurvives
<1>5. ASSUME NEW u \in User, \/ Posted(u) \/ Enter(u) \/ Join(u) \/ JoinAgain(u) \/ Collect(u)
                             \/ Return(u) \/ Leave(u)
      PROVE  SeenSurvives'
  <2>1. Unwritten' = Unwritten
    <3>1. \A v \in User : /\ (pc'[v] = "write") = (pc[v] = "write")
                          /\ pc[v] = "write" => cur'[v] = cur[v]
      BY <1>5 DEF Posted, Enter, Join, JoinAgain, Collect, Return, Leave, Types, TypeOK
    <3> QED BY <3>1 DEF Unwritten
  <2>2. UNCHANGED <<file, rest, mode, seen, torn, wiped>>
    BY <1>5 DEF Posted, Enter, Join, JoinAgain, Collect, Return, Leave, lost
  <2>3. mode = "fetch" => other' = other
    BY <1>0, <1>5 DEF Posted, Enter, Join, JoinAgain, Collect, Return, Leave
  <2> QED BY <2>1, <2>2, <2>3, SameSeen
<1>6. ASSUME NEW g \in User, NEW a \in User, Follow(g, a) \/ UnFollow(g, a) PROVE SeenSurvives'
  <2>1. UNCHANGED <<file, rest, mode, seen, torn, wiped, pc, cur>> /\ mode = "up"
    BY <1>6 DEF Follow, UnFollow, lost
  <2>2. Unwritten' = Unwritten
    BY <2>1 DEF Unwritten
  <2> QED BY <2>1, <2>2, SameSeen
<1>7. CASE EndStep
  <2>1. /\ torn' = torn \cup Unwritten /\ wiped' = wiped \cup ToCopy
        /\ seen' = seen /\ file' = file
    BY <1>7, EndIs DEF Die
  <2> QED BY <2>1 DEF SeenSurvives
<1>8. CASE StartStep
  <2>1. /\ seen' = seen /\ torn' = torn /\ other' = other /\ Unwritten = {}
        /\ UNCHANGED <<pc, cur>>
    BY <1>8, StartIs DEF Connections, Unwritten
  <2>2. CASE RestartLocal
    <3>1. /\ wiped' = wiped /\ file' = file /\ rest' = rest /\ mode = "down" /\ mode' = "up"
      BY <2>2 DEF RestartLocal, lost
    <3>2. ToCopy' = ToCopy
      BY <3>1 DEF ToCopy
    <3> QED BY <2>1, <3>1, <3>2 DEF SeenSurvives
  <2>3. CASE ClearFiles
    <3>1. /\ wiped' = wiped \cup (Numbers(file) \ Numbers(other.posts))
          /\ mode = "down" /\ mode' = "fetch"
      BY <2>3 DEF ClearFiles
    <3>2. ToCopy = {} /\ ToCopy' = Numbers(other.posts)
      BY <2>1, <3>1 DEF ToCopy, Numbering, Numbers
    <3> QED BY <2>1, <3>1, <3>2 DEF SeenSurvives
  <2>4. CASE GetLog
    <3>1. /\ wiped' = wiped /\ file' = file /\ rest' = Parsed(other.posts)
          /\ mode = "fetch" /\ mode' = "copy"
      BY <2>4 DEF GetLog, lost
    <3>2. ToCopy' = ToCopy
      BY <3>1, ParsedPosts DEF ToCopy, Types
    <3> QED BY <2>1, <3>1, <3>2 DEF SeenSurvives
  <2>5. CASE CopyPost
    <3>1. /\ wiped' = wiped /\ rest # <<>> /\ file' = Append(file, Head(rest)) /\ rest' = Tail(rest)
          /\ mode = "copy" /\ mode' = "copy"
      BY <2>5 DEF CopyPost, AppendToFile, lost
    <3>2. Head(rest) \in PostType /\ Numbers(rest) = {Head(rest).n} \cup Numbers(rest')
      BY <3>1, HeadAndTail DEF Types
    <3>3. Numbers(file') = Numbers(file) \cup {Head(rest).n}
      BY <3>1, <3>2, AppendPost DEF Types
    <3>4. ToCopy = Numbers(rest) /\ ToCopy' = Numbers(rest')
      BY <3>1 DEF ToCopy
    <3> QED BY <2>1, <3>1, <3>2, <3>3, <3>4 DEF SeenSurvives
  <2>6. CASE Copied
    <3>1. /\ wiped' = wiped /\ file' = file /\ rest' = rest /\ mode = "copy" /\ mode' = "up"
      BY <2>6 DEF Copied, lost
    <3>2. ToCopy' = ToCopy
      BY <3>1 DEF ToCopy
    <3> QED BY <2>1, <3>1, <3>2 DEF SeenSurvives
  <2> QED BY <1>8, <2>2, <2>3, <2>4, <2>5, <2>6 DEF StartStep
<1>9. CASE OtherRestarts
  <2>1. other' = [posts |-> Parsed(other.posts), follow |-> other.follow]
    BY <1>9, OtherIs DEF OtherRestarts
  <2>2. other'.posts = Parsed(other.posts)
    BY <2>1
  <2>3. Numbers(other'.posts) = Numbers(other.posts)
    BY <2>2, ParsedPosts DEF Types
  <2>4. UNCHANGED <<file, rest, mode, seen, torn, wiped, pc, cur>>
    BY <1>9 DEF OtherRestarts, calls, lost
  <2>5. Unwritten' = Unwritten
    BY <2>4 DEF Unwritten
  <2> QED BY <2>3, <2>4, <2>5, SameSeen
<1>10. CASE Tick \/ UNCHANGED vars
  <2>1. UNCHANGED <<file, rest, mode, seen, torn, wiped, pc, cur, other>>
    BY <1>10 DEF Tick, vars, calls, lost
  <2>2. Unwritten' = Unwritten
    BY <2>1 DEF Unwritten
  <2> QED BY <2>1, <2>2, SameSeen
<1> QED
  BY <1>1, <1>2, <1>3, <1>4, <1>5, <1>6, <1>7, <1>8, <1>9, <1>10 DEF Next, Serve, StartStep, EndStep

-----------------------------------------------------------------------------
(* Nothing is missed *)

\* The posts that f may still get when others have come after them are among those
\* that it may get now.
LEMMA LatestShrinks ==
    ASSUME Types, NEW f \in User, NEW p \in PostType, posts' = Append(posts, p), UNCHANGED follow
    PROVE  /\ Latest(f)' \subseteq Latest(f) \cup {Len(posts) + 1}
           /\ Latest(f) \subseteq DOMAIN posts
<1>1. /\ DOMAIN posts = 1 .. Len(posts) /\ Len(posts) \in Nat
      /\ DOMAIN posts' = 1 .. Len(posts) + 1
      /\ \A i \in DOMAIN posts : posts'[i] = posts[i]
  BY AppendPost DEF Types
<1>2. /\ ConsideredPosts(f)' \subseteq 1 .. Len(posts) + 1
      /\ ConsideredPosts(f) \subseteq ConsideredPosts(f)'
      /\ \A i \in ConsideredPosts(f)' : i = Len(posts) + 1 \/ i \in ConsideredPosts(f)
  BY <1>1 DEF ConsideredPosts, Considered
<1>3. ASSUME NEW i \in Latest(f)', i # Len(posts) + 1 PROVE i \in Latest(f)
  <2> DEFINE Later == {j \in ConsideredPosts(f) : j > i}
             Later2 == {j \in ConsideredPosts(f)' : j > i}
  <2>1. i \in ConsideredPosts(f) /\ Cardinality(Later2) < MaxTimeline
    BY <1>2, <1>3 DEF Latest
  <2>2. Later \subseteq Later2 /\ Later2 \subseteq 1 .. Len(posts) + 1
    BY <1>2
  <2>3. IsFiniteSet(1 .. Len(posts) + 1)
    BY <1>1, FS_Interval
  <2>4. /\ IsFiniteSet(Later2) /\ IsFiniteSet(Later)
        /\ Cardinality(Later) <= Cardinality(Later2)
        /\ Cardinality(Later) \in Nat /\ Cardinality(Later2) \in Nat
    <3> HIDE DEF Later, Later2
    <3> QED BY <2>2, <2>3, FS_Subset, FS_CardinalityType
  <2>5. Cardinality(Later) < MaxTimeline
    <3> HIDE DEF Later, Later2
    <3> QED BY <2>1, <2>4, PostsAssumption
  <2> QED BY <2>1, <2>5 DEF Latest
<1> QED BY <1>3 DEF Latest, ConsideredPosts

\* A step that leaves the posts and the follows as they were, and takes from nobody
\* what it gets.
LEMMA SameTimely ==
    ASSUME Timely, UNCHANGED <<posts, follow>>,
           \A f \in User : Served(f)' => Served(f) /\ \A n : Gets(f, n) => Gets(f, n)'
    PROVE  Timely'
<1>1. \A f \in User : Latest(f)' = Latest(f)
  BY DEF Latest, ConsideredPosts, Considered
<1> QED BY <1>1 DEF Timely

\* Every step keeps each user who is served in reach of every post it is owed.
LEMMA TimelyStep ==
    ASSUME PostsInv, [Next]_vars
    PROVE  Timely'
<1> USE DEF PostsInv
<1>1. ASSUME NEW u \in User, Post(u) PROVE Timely'
  <2> DEFINE p == [user |-> u, n |-> sent', made |-> now, time |-> now]
  <2>1. /\ sent' = sent + 1 /\ sent' \in 1 .. MaxPosts
        /\ posts' = Append(posts, p)
        /\ UNCHANGED <<follow, stream, conn, gone, todo, shown>>
    <3>1. sent \in 0 .. MaxPosts /\ sent < MaxPosts /\ sent' = sent + 1
      BY <1>1 DEF Post, Types, TypeOK
    <3>2. sent' \in 1 .. MaxPosts
      BY <3>1, PostsAssumption
    <3> QED BY <1>1, <3>1, <3>2 DEF Post
  <2>2. p \in PostType /\ p.n = sent'
    BY <2>1 DEF PostType, Types, TypeOK
  <2>3. /\ pc[u] \in {"none", "read"} /\ pc'[u] = "write" /\ cur'[u] = sent'
        /\ \A v \in User : v # u => pc'[v] = pc[v] /\ cur'[v] = cur[v]
    BY <1>1 DEF Post, Types, TypeOK
  <2> HIDE DEF p
  <2>4. /\ DOMAIN posts = 1 .. Len(posts)
        /\ \A i \in DOMAIN posts : posts'[i] = posts[i]
        /\ posts'[Len(posts) + 1] = p
    BY <2>1, <2>2, AppendPost DEF Types
  <2> SUFFICES ASSUME NEW f \in User, Served(f)', NEW i \in Latest(f)'
               PROVE  Gets(f, posts[i].n)'
    BY DEF Timely
  <2>5. CASE i = Len(posts) + 1
    BY <2>2, <2>3, <2>4, <2>5 DEF Gets, Pending
  <2>6. CASE i # Len(posts) + 1
    <3>1. i \in Latest(f) /\ i \in DOMAIN posts
      BY <2>1, <2>2, <2>6, LatestShrinks
    <3>2. Served(f)
      BY <2>1, <2>3 DEF Served, Live
    <3>3. Gets(f, posts[i].n)
      BY <3>1, <3>2 DEF Timely
    <3>4. Pending(posts[i].n, f) => Pending(posts[i].n, f)'
      BY <2>1, <2>3, <2>4, <3>1 DEF Pending
    <3>5. pc[f] = "backlog" => pc'[f] = "backlog"
      BY <2>3
    <3> QED BY <2>1, <2>4, <3>1, <3>3, <3>4, <3>5 DEF Gets
  <2> QED BY <2>5, <2>6
<1>2. ASSUME NEW u \in User, Write(u) PROVE Timely'
  <2>1. /\ pc[u] = "write" /\ pc'[u] = "deliver" /\ todo'[u] = Followers(u)
        /\ \A v \in User : v # u => pc'[v] = pc[v] /\ todo'[v] = todo[v]
        /\ UNCHANGED <<posts, follow, stream, conn, gone, cur, shown>>
    BY <1>2 DEF Write, Types, TypeOK
  <2> SUFFICES ASSUME NEW f \in User, Served(f)', NEW i \in Latest(f)'
               PROVE  Gets(f, posts[i].n)'
    BY <2>1 DEF Timely
  <2>2. Served(f)
    BY <2>1 DEF Served, Live
  <2>3. i \in Latest(f) /\ i \in DOMAIN posts /\ Considered(f, posts[i])
    BY <2>1 DEF Latest, ConsideredPosts, Considered
  <2>4. Gets(f, posts[i].n)
    BY <2>2, <2>3 DEF Timely
  <2>5. CASE cur[u] = posts[i].n
    <3>1. posts[i].user = u
      BY <2>1, <2>3, <2>5 DEF Numbering, Works, Distinct
    <3>2. f \in todo'[u]
      BY <2>1, <2>3, <3>1 DEF Considered, Followers
    <3> QED BY <2>1, <2>5, <3>2 DEF Gets, Pending
  <2>6. CASE cur[u] # posts[i].n
    <3>1. Pending(posts[i].n, f) => Pending(posts[i].n, f)'
      BY <2>1, <2>6 DEF Pending
    <3> QED BY <2>1, <2>4, <3>1 DEF Gets
  <2> QED BY <2>5, <2>6
<1>3. ASSUME NEW u \in User, Deliver(u) PROVE Timely'
  <2>1. PICK g \in todo[u] :
            /\ todo' = [todo EXCEPT ![u] = @ \ {g}]
            /\ \/ \E h \in Reached(g) : ~gone[h] /\ shown' = [shown EXCEPT ![h] = @ \cup {cur[u]}]
               \/ (Stale(g) \/ \A h \in Reached(g) : gone[h]) /\ shown' = shown
    BY <1>3 DEF Deliver
  <2>2. /\ UNCHANGED <<posts, follow, stream, conn, gone, cur, pc>> /\ pc[u] = "deliver"
        /\ \A v \in User : v # u => todo'[v] = todo[v]
        /\ todo'[u] = todo[u] \ {g}
    BY <1>3, <2>1 DEF Deliver, Types
  <2>3. \A f \in User : shown[f] \subseteq shown'[f]
    <3>1. CASE UNCHANGED shown
      BY <3>1
    <3>2. CASE \E h \in Reached(g) : shown' = [shown EXCEPT ![h] = @ \cup {cur[u]}]
      BY <3>2 DEF Types, TypeOK
    <3> QED BY <2>1, <3>1, <3>2
  <2>4. Live(g) /\ ~gone[g] => cur[u] \in shown'[g]
    <3> SUFFICES ASSUME Live(g), ~gone[g] PROVE cur[u] \in shown'[g]
      OBVIOUS
    <3>1. g \in User /\ ~Stale(g) /\ Reached(g) = {g}
      BY <1>3, <2>1 DEF Deliver, Connections, Live, Stale, Reached
    <3>2. shown' = [shown EXCEPT ![g] = @ \cup {cur[u]}]
      BY <2>1, <3>1
    <3> QED BY <3>1, <3>2 DEF Types, TypeOK
  <2>5. ASSUME NEW f \in User, Served(f)', NEW n, Gets(f, n) PROVE Served(f) /\ Gets(f, n)'
    <3>1. Served(f)
      BY <2>2, <2>5 DEF Served, Live
    <3>2. CASE f = g /\ n = cur[u]
      BY <2>4, <3>1, <3>2 DEF Served, Gets
    <3>3. CASE ~(f = g /\ n = cur[u])
      <4>1. Pending(n, f) => Pending(n, f)'
        BY <2>2, <3>3 DEF Pending
      <4> QED BY <2>2, <2>3, <2>5, <3>1, <4>1 DEF Gets
    <3> QED BY <3>1, <3>2, <3>3
  <2>6. \A f \in User : Served(f)' => Served(f)
    BY <2>2 DEF Served, Live
  <2> QED BY <2>2, <2>5, <2>6, SameTimely
<1>4. ASSUME NEW u \in User, \/ Posted(u) \/ Enter(u) \/ Join(u) \/ JoinAgain(u)
                             \/ Return(u) \/ Leave(u)
      PROVE  Timely'
  <2>1. UNCHANGED <<posts, follow>> /\ \A f \in User : f # u => shown'[f] = shown[f]
    BY <1>4 DEF Posted, Enter, Join, JoinAgain, Return, Leave, Types, TypeOK
  <2>2. \A v \in User : v # u => /\ pc'[v] = pc[v] /\ cur'[v] = cur[v] /\ conn'[v] = conn[v]
                                 /\ stream'[v] = stream[v] /\ gone'[v] = gone[v]
    BY <1>4 DEF Posted, Enter, Join, JoinAgain, Return, Leave, Types, TypeOK
  <2>3. UNCHANGED todo
    BY <1>4 DEF Posted, Enter, Join, JoinAgain, Return, Leave
  <2>4. \/ pc'[u] = pc[u] /\ cur'[u] = cur[u]
        \/ pc[u] # "write" /\ (pc[u] = "deliver" => todo[u] = {})
    <3>1. CASE Posted(u) \/ Leave(u)
      BY <3>1 DEF Posted, Leave
    <3>2. CASE Enter(u) \/ Join(u) \/ JoinAgain(u) \/ Return(u)
      BY <3>2 DEF Enter, Join, JoinAgain, Return
    <3> QED BY <1>4, <3>1, <3>2
  <2>5. \A f \in User : \A n : Pending(n, f) => Pending(n, f)'
    BY <2>2, <2>3, <2>4 DEF Pending
  <2>6. ASSUME Served(u)' PROVE Posted(u)
    <3>1. CASE Enter(u)
      <4>1. conn'[u] = conns + 1 /\ stream'[u] = stream[u] /\ conns \in Nat
            /\ stream[u] \in Nat /\ stream[u] <= conns
        BY <3>1 DEF Enter, Connections, Types, TypeOK
      <4> QED BY <2>6, <4>1 DEF Served, Live
    <3>2. CASE Join(u)
      BY <2>6, <3>2 DEF Served, Join, Types, TypeOK
    <3>3. CASE JoinAgain(u)
      BY <2>6, <3>3 DEF Served, Live, JoinAgain, Connections
    <3>4. CASE Return(u)
      BY <2>6, <3>4 DEF Served, Live, Return, Types, TypeOK
    <3>5. CASE Leave(u)
      BY <2>6, <3>5 DEF Served, Leave, Types, TypeOK
    <3> QED BY <1>4, <3>1, <3>2, <3>3, <3>4, <3>5
  <2>7. ASSUME NEW f \in User, Served(f)' PROVE Served(f) /\ \A n : Gets(f, n) => Gets(f, n)'
    <3>1. CASE f = u
      <4>1. Served(u) /\ shown'[u] = shown[u] /\ pc[u] = "deliver"
        BY <2>6, <2>7, <3>1 DEF Served, Live, Posted
      <4> QED BY <2>5, <3>1, <4>1 DEF Gets
    <3>2. CASE f # u
      <4>1. Served(f)
        BY <2>2, <2>7, <3>2 DEF Served, Live
      <4> QED BY <2>1, <2>2, <2>3, <2>5, <3>2, <4>1 DEF Gets
    <3> QED BY <3>1, <3>2
  <2> QED BY <2>1, <2>7, SameTimely
<1>5. ASSUME NEW u \in User, Collect(u) PROVE Timely'
  <2>1. /\ pc[u] = "collect" /\ pc'[u] = "backlog" /\ todo'[u] = getFollowingPosts(u)
        /\ \A v \in User : v # u => pc'[v] = pc[v] /\ todo'[v] = todo[v]
        /\ UNCHANGED <<posts, follow, stream, conn, gone, cur, shown>>
    BY <1>5 DEF Collect, Types, TypeOK
  <2> SUFFICES ASSUME NEW f \in User, Served(f)', NEW i \in Latest(f)'
               PROVE  Gets(f, posts[i].n)'
    BY <2>1 DEF Timely
  <2>2. i \in Latest(f)
    BY <2>1 DEF Latest, ConsideredPosts, Considered
  <2>3. CASE f = u
    BY <2>1, <2>2, <2>3 DEF Gets, getFollowingPosts
  <2>4. CASE f # u
    <3>1. Served(f)
      BY <2>1, <2>4 DEF Served, Live
    <3>2. Gets(f, posts[i].n)
      BY <2>2, <3>1 DEF Timely
    <3>3. Pending(posts[i].n, f) => Pending(posts[i].n, f)'
      BY <2>1 DEF Pending
    <3> QED BY <2>1, <2>4, <3>2, <3>3 DEF Gets
  <2> QED BY <2>3, <2>4
<1>6. ASSUME NEW u \in User, ShowBacklog(u) PROVE Timely'
  <2>1. /\ pc[u] = "backlog" /\ pc'[u] = "read"
        /\ \A v \in User : v # u => /\ pc'[v] = pc[v] /\ todo'[v] = todo[v]
                                    /\ shown'[v] = shown[v]
        /\ ~gone[u] => shown'[u] = shown[u] \cup todo[u]
        /\ UNCHANGED <<posts, follow, stream, conn, gone, cur>>
    BY <1>6 DEF ShowBacklog, Types, TypeOK
  <2>2. ASSUME NEW f \in User, Served(f)' PROVE Served(f) /\ \A n : Gets(f, n) => Gets(f, n)'
    <3>1. \A n : Pending(n, f) => Pending(n, f)'
      BY <2>1 DEF Pending
    <3>2. Served(f) /\ ~gone[f]
      BY <2>1, <2>2 DEF Served, Live
    <3> QED BY <2>1, <3>1, <3>2 DEF Gets
  <2> QED BY <2>1, <2>2, SameTimely
<1>7. ASSUME NEW g \in User, NEW a \in User, Follow(g, a) \/ UnFollow(g, a) PROVE Timely'
  <2>1. /\ pc[g] = "none" /\ \A f \in User : f # g => follow'[f] = follow[f]
        /\ UNCHANGED <<posts, stream, conn, gone, cur, pc, shown>>
        /\ \A v \in User : pc[v] # "deliver" => todo'[v] = todo[v]
    BY <1>7 DEF Follow, UnFollow, Types
  <2>2. ~Served(g) /\ ~Served(g)'
    BY <2>1 DEF Connections, Served, Live
  <2>3. \A v \in User : todo[v] \ {g} \subseteq todo'[v]
    <3>1. DOMAIN todo = User
      BY DEF Types
    <3>2. \/ todo' = todo
          \/ todo' = [todo EXCEPT ![a] = @ \cup {g}]
          \/ todo' = [todo EXCEPT ![a] = @ \ {g}]
      BY <1>7 DEF Follow, UnFollow
    <3> QED BY <3>1, <3>2
  <2> SUFFICES ASSUME NEW f \in User, Served(f)', NEW i \in Latest(f)'
               PROVE  Gets(f, posts[i].n)'
    BY <2>1 DEF Timely
  <2>4. f # g
    BY <2>2
  <2>5. Served(f) /\ i \in Latest(f)
    BY <2>1, <2>4 DEF Served, Live, Latest, ConsideredPosts, Considered
  <2>6. Gets(f, posts[i].n)
    BY <2>5 DEF Timely
  <2>7. Pending(posts[i].n, f) => Pending(posts[i].n, f)'
    BY <2>1, <2>3, <2>4 DEF Pending
  <2> QED BY <2>1, <2>6, <2>7 DEF Gets
<1>8. CASE EndStep
  BY <1>8, EndIs DEF Die, None, Timely, Served, Live
<1>9. CASE StartStep
  BY <1>9, StartIs DEF Connections, Timely, Served, Live
<1>10. CASE OtherRestarts \/ Tick \/ UNCHANGED vars
  BY <1>10, SameTimely DEF OtherRestarts, Tick, vars, calls, Served, Live, Gets, Pending
<1> QED
  BY <1>1, <1>2, <1>3, <1>4, <1>5, <1>6, <1>7, <1>8, <1>9, <1>10 DEF Next, Serve, StartStep, EndStep

-----------------------------------------------------------------------------
(* The theorems *)

\* The invariant holds at first.
LEMMA PostsInit == Init => PostsInv
<1> SUFFICES ASSUME Init PROVE PostsInv
  OBVIOUS
<1> USE PostsAssumption
<1>0. /\ posts = <<>> /\ file = <<>> /\ rest = <<>>
      /\ other = [posts |-> <<>>, follow |-> NoFollows] /\ follow = NoFollows
      /\ Numbers(<<>>) = {} /\ Distinct(<<>>) /\ Shifted(<<>>) /\ ToSet(<<>>) = {}
  BY DEF Init, Numbers, Distinct, Shifted, ToSet
<1>1. Types
  <2>1. /\ posts \in Seq(PostType) /\ file \in Seq(PostType) /\ rest \in Seq(PostType)
        /\ other.posts \in Seq(PostType)
    BY <1>0
  <2>2. other = [posts |-> other.posts, follow |-> other.follow]
    BY <1>0
  <2>3. /\ DOMAIN follow = User /\ DOMAIN other.follow = User
        /\ \A u \in User : DOMAIN follow[u] = {} /\ DOMAIN other.follow[u] = {}
    BY <1>0, NoFollowsAre
  <2>4. ToSet(posts) \cup ToSet(file) \cup ToSet(other.posts) \cup ToSet(rest) = {}
    BY <1>0
  <2> QED BY <2>1, <2>2, <2>3, <2>4 DEF Init, Types, TypeOK, None, Nobody
<1>2. Numbering
  BY <1>0 DEF Init, Numbering
<1>3. Connections /\ Collected
  BY DEF Init, None, Connections, Collected
<1>4. SeenSurvives /\ Timely
  BY DEF Init, None, Nobody, SeenSurvives, Timely, Served, Live
<1>5. Late
  BY <1>0, NoFollowsAre DEF Late
<1> QED BY <1>1, <1>2, <1>3, <1>4, <1>5 DEF PostsInv

\* Every step keeps the invariant.
LEMMA PostsStep == PostsInv /\ [Next]_vars => PostsInv'
<1> SUFFICES ASSUME PostsInv, [Next]_vars PROVE PostsInv'
  OBVIOUS
<1>1. Types' /\ Numbering' /\ Connections'
  BY TypesStep, NumberingStep, ConnectionsStep
<1>2. Collected' /\ Late' /\ SeenSurvives' /\ Timely'
  BY CollectedStep, LateStep, SeenSurvivesStep, TimelyStep
<1> QED BY <1>1, <1>2 DEF PostsInv

\* For any users, posts, connections, crashes and starts.
THEOREM Invariance == Spec => []PostsInv
<1>1. Init => PostsInv
  BY PostsInit
<1>2. PostsInv /\ [Next]_vars => PostsInv'
  BY PostsStep
<1> QED BY <1>1, <1>2, PTL DEF Spec

\* The types of the posts, the follows and the calls.
THEOREM Typing == Spec => []TypeOK
<1>1. PostsInv => TypeOK
  BY DEF PostsInv, Types
<1> QED BY <1>1, Invariance, PTL

\* A user in the timeline, whose stream is set, has been shown the latest posts of
\* those whom it follows, or is about to be (Timeline, getFollowingPosts and
\* addPostHelper together).
THEOREM NothingMissed == Spec => []NoPostMissed
<1>1. PostsInv => NoPostMissed
  <2> SUFFICES ASSUME PostsInv, NEW f \in User, Watches(f), Live(f) PROVE UpToDate(f)
    BY DEF NoPostMissed
  <2>1. Served(f) /\ pc[f] # "backlog"
    BY DEF Served, Watches
  <2>2. \A i \in Latest(f) : Gets(f, posts[i].n)
    BY <2>1 DEF PostsInv, Timely
  <2> QED BY <2>1, <2>2 DEF UpToDate, Latest, Gets
<1> QED BY <1>1, Invariance, PTL

\* What a client has ever seen is in the file, or among what a starting server has
\* still to copy, or a thread has still to write it; or the process ended before it
\* was written, or a start of the server has taken it from the file.
THEOREM SeenIsStored == Spec => []SeenSurvives
<1>1. PostsInv => SeenSurvives
  BY DEF PostsInv
<1> QED BY <1>1, Invariance, PTL

\* all_posts and the posts file hold the same posts, each once, but for those that
\* addPostHelper has still to write.
THEOREM FileAndMemory == Spec => []FileHoldsPosts
<1>1. PostsInv => FileHoldsPosts
  <2> SUFFICES ASSUME PostsInv, mode = "up" PROVE FileHoldsPosts
    BY DEF FileHoldsPosts
  <2>1. Numbers(file) = Numbers(posts) \ Unwritten
    <3>1. \A n \in Unwritten : n \notin Numbers(file)
      BY DEF PostsInv, Numbering, Unwritten
    <3> QED BY <3>1 DEF PostsInv, Numbering
  <2>2. Len(file) = Cardinality(Numbers(file)) /\ Len(posts) = Cardinality(Numbers(posts))
    BY LengthOfDistinct DEF PostsInv, Numbering, Types
  <2> QED BY <2>1, <2>2 DEF FileHoldsPosts
<1> QED BY <1>1, Invariance, PTL

\* What a user gets when it joins was made after the follow, or at most one shift
\* before it for each time that posts have been read from a file.
THEOREM BacklogIsHonest == Spec => []BacklogHonest
<1>1. PostsInv => BacklogHonest
  <2> SUFFICES ASSUME PostsInv, NEW f \in User, NEW p \in ToSet(posts),
                      pc[f] = "backlog", p.n \in todo[f]
               PROVE  p.made + DstShift * reads > follow[f][p.user].made
    BY DEF BacklogHonest
  <2>1. p \in PostType /\ Considered(f, p) /\ p.time <= p.made + DstShift * reads
    BY DEF PostsInv, Types, Collected, Late, Shifted, ToSet
  <2> DEFINE t == follow[f][p.user]
             d == DstShift * reads
  <2>2. p.user \in DOMAIN follow[f] /\ p.time > t.time
    BY <2>1 DEF Considered
  <2>3. t \in Times /\ t.made <= t.time
    BY <2>2 DEF PostsInv, Types, TypeOK, Late
  <2>4. d \in Nat /\ p.time \in Nat /\ p.made \in Nat /\ t.time \in Nat /\ t.made \in Nat
    <3>1. reads \in Nat
      BY DEF PostsInv, Types, TypeOK
    <3>2. p.time \in Nat /\ p.made \in Nat
      BY <2>1 DEF PostType
    <3>3. t.time \in Nat /\ t.made \in Nat
      BY <2>3 DEF Times
    <3> QED BY <3>1, <3>2, <3>3, PostsAssumption
  <2>5. p.time <= p.made + d /\ p.time > t.time /\ t.made <= t.time
    BY <2>1, <2>2, <2>3
  <2> HIDE DEF t, d
  <2>6. p.made + d > t.made
    BY <2>4, <2>5
  <2> QED BY <2>6 DEF t, d
<1> QED BY <1>1, Invariance, PTL
=============================================================================
