---------------------------- MODULE ReplayProofs ----------------------------
(***************************************************************************)
(* Theorems about UserLog for a server that serves one request at a time:  *)
(* what a replay of its log gives, at every moment, is what it has in      *)
(* memory.  The users, timestamps, crashes and failures of a start-up are  *)
(* arbitrary.                                                              *)
(***************************************************************************)
EXTENDS UserLogProofs

\* The names in a client_following.
Whos(f) == [i \in 1 .. Len(f) |-> f[i].who]

\* FollowGraphConsistent, of any client_db and with the entries of both vectors
\* told apart by their index.
Graph(d) ==
    /\ IsInjective(d.users)
    /\ \A u \in User : IsInjective(Whos(d.following[u])) /\ IsInjective(d.followers[u])
    /\ \A u, v \in User : v \in Followees(d, u) <=> u \in ToSet(d.followers[v])

\* d is memory and r a replay.
Similar(d, r) ==
    /\ d.users = r.users
    /\ d.followers = r.followers
    /\ \A u \in User : SameFollowing(d.following[u], r.following[u])

\* n lines make no vector longer than n.
Sized(d, n) == \A u \in User : Len(d.following[u]) <= n /\ Len(d.followers[u]) <= n

\* What n lines must give: a client_db whose times are those that replay reads.
GoodAt(d, n) == d \in DbType /\ Graph(d) /\ Similar(d, d) /\ Sized(d, n)

\* Every part of the log, from its first line on, gives that: a copy may stop
\* after any line.
Good(lines) ==
    \A n \in 0 .. Len(lines) : GoodAt(processUserInfoFromFile(SubSeq(lines, 1, n)), n)

\* The conditions under which Login, Follow and UnFollow go on.
Ready(d, q) ==
    /\ q.op = "user" => ~Exists(d, q.user)
    /\ q.op # "user" => Exists(d, q.user) /\ Exists(d, q.target)
    /\ q.op = "follow" => q.target \notin Followees(d, q.user)
    /\ q.op = "unfollow" => q.target \in Followees(d, q.user)

-----------------------------------------------------------------------------
(* The invariant *)

\* What initializeData goes through.
Modes == mode \in {"down", "fetch", "copy", "up"}

\* Lines are left to be copied only during a copy, and the bounds.
Lengths ==
    /\ Modes
    /\ mode \in {"down", "up"} => rest = <<>>
    /\ Len(log) + Len(rest) <= MaxLog
    /\ \A t \in Thread : pc[t] \in {"lookup", "update", "write"} => Len(log) < MaxLog
    /\ at \in [Thread -> (0 .. MaxLog) \X (0 .. MaxLog)]
    /\ acked \subseteq Entry
    /\ crashes \in 0 .. MaxCrashes

\* The log is good, or will be when what is being copied has been copied.
GoodLog == Good(log \o rest)

\* During a copy, memory is what the copied lines give.
Copying == mode = "copy" => db = processUserInfoFromFile(log)

\* Between requests, and until a request changes memory, so it is.
Settled ==
    mode = "up" /\ (\A t \in Thread : pc[t] # "write") =>
        Graph(db) /\ Similar(db, processUserInfoFromFile(log))

\* From the change of memory to the append, it is what the log will give.
Writing ==
    \A t \in Thread : pc[t] = "write" =>
        LET r == ReplayLine(processUserInfoFromFile(log), Line(req[t]))
        IN  /\ Graph(db) /\ Similar(db, r)
            /\ GoodAt(r, Len(log) + 1)

\* What a request has checked still holds when it changes memory.
Checked ==
    \A t \in Thread : pc[t] = "update" =>
        /\ Ready(db, req[t])
        /\ req[t].op = "unfollow" =>
              at[t] = << indexOfFollowing(db, req[t].user, req[t].target),
                         indexOfFollower(db, req[t].target, req[t].user) >>

ReplayInv == KnownInv /\ Lengths /\ GoodLog /\ Copying /\ Settled /\ Writing /\ Checked

-----------------------------------------------------------------------------
(* Vectors without duplicates *)

\* Erasing keeps a vector free of duplicates, and takes one element off its set.
LEMMA EraseDistinct ==
    ASSUME NEW S, NEW s \in Seq(S), IsInjective(s), NEW i \in 1 .. Len(s)
    PROVE  IsInjective(Erase(s, i)) /\ ToSet(Erase(s, i)) = ToSet(s) \ {s[i]}
<1> DEFINE e == Erase(s, i)
<1>1. DOMAIN s = 1 .. Len(s) /\ Len(s) \in Nat /\ s # <<>> /\ i \in DOMAIN s /\ i \in Nat
  BY EmptySeq
<1>2. e \in Seq(S) /\ Len(e) = Len(s) - 1
      /\ \A k \in 1 .. Len(s) - 1 : e[k] = IF k < i THEN s[k] ELSE s[k + 1]
  BY <1>1, EraseIs
<1> HIDE DEF e
<1>3. DOMAIN e = 1 .. Len(s) - 1
  BY <1>2
<1>4. \A a, b \in 1 .. Len(s) : s[a] = s[b] => a = b
  BY <1>1 DEF IsInjective
<1>5. ASSUME NEW a \in 1 .. Len(s) - 1, NEW b \in 1 .. Len(s) - 1, e[a] = e[b]
      PROVE  a = b
  <2> DEFINE A == IF a < i THEN a ELSE a + 1
             B == IF b < i THEN b ELSE b + 1
  <2>1. A \in 1 .. Len(s) /\ B \in 1 .. Len(s) /\ e[a] = s[A] /\ e[b] = s[B]
    BY <1>1, <1>2
  <2>2. A = B
    <3> HIDE DEF A, B
    <3> QED BY <1>4, <1>5, <2>1
  <2> QED BY <1>1, <2>2
<1>6. IsInjective(e)
  BY <1>3, <1>5 DEF IsInjective
<1>7. ToSet(e) = ToSet(s) \ {s[i]}
  <2>1. ASSUME NEW k \in 1 .. Len(s) - 1 PROVE e[k] \in ToSet(s) \ {s[i]}
    <3> DEFINE A == IF k < i THEN k ELSE k + 1
    <3>1. A \in 1 .. Len(s) /\ e[k] = s[A] /\ A # i
      BY <1>1, <1>2
    <3> HIDE DEF A
    <3> QED BY <1>1, <1>4, <3>1 DEF ToSet
  <2>2. ASSUME NEW k \in 1 .. Len(s), s[k] # s[i] PROVE s[k] \in ToSet(e)
    <3> DEFINE B == IF k < i THEN k ELSE k - 1
    <3>1. k # i
      BY <2>2
    <3>2. B \in 1 .. Len(s) - 1 /\ (B < i => B = k) /\ (~(B < i) => B + 1 = k)
      BY <1>1, <3>1
    <3> HIDE DEF B
    <3>3. e[B] = s[k]
      BY <1>2, <3>2
    <3> QED BY <1>3, <3>2, <3>3 DEF ToSet
  <2>3. ToSet(e) \subseteq ToSet(s) \ {s[i]}
    BY <1>3, <2>1 DEF ToSet
  <2>4. ToSet(s) \ {s[i]} \subseteq ToSet(e)
    <3> SUFFICES ASSUME NEW x \in ToSet(s), x # s[i] PROVE x \in ToSet(e)
      OBVIOUS
    <3>1. PICK k \in 1 .. Len(s) : x = s[k]
      BY <1>1 DEF ToSet
    <3> QED BY <2>2, <3>1
  <2> QED BY <2>3, <2>4
<1> QED BY <1>6, <1>7 DEF e

\* Appending what is not there keeps a vector free of duplicates.
LEMMA AppendDistinct ==
    ASSUME NEW S, NEW s \in Seq(S), NEW x \in S, IsInjective(s), x \notin ToSet(s)
    PROVE  IsInjective(Append(s, x))
<1> DEFINE e == Append(s, x)
<1>1. /\ Len(s) \in Nat /\ DOMAIN s = 1 .. Len(s) /\ DOMAIN e = 1 .. Len(s) + 1
      /\ \A k \in 1 .. Len(s) : e[k] = s[k]
      /\ e[Len(s) + 1] = x
  OBVIOUS
<1> HIDE DEF e
<1>2. \A k \in 1 .. Len(s) : e[k] # x
  BY <1>1 DEF ToSet
<1>3. \A k \in 1 .. Len(s) + 1 : k \in 1 .. Len(s) \/ k = Len(s) + 1
  BY <1>1
<1>4. ASSUME NEW a \in 1 .. Len(s) + 1, NEW b \in 1 .. Len(s) + 1, e[a] = e[b]
      PROVE  a = b
  <2>1. CASE a \in 1 .. Len(s) /\ b \in 1 .. Len(s)
    BY <1>1, <1>4, <2>1 DEF IsInjective
  <2>2. CASE a = Len(s) + 1 \/ b = Len(s) + 1
    BY <1>1, <1>2, <1>3, <1>4, <2>2
  <2> QED BY <1>3, <2>1, <2>2
<1>5. IsInjective(e)
  BY <1>1, <1>4 DEF IsInjective
<1> QED BY <1>5 DEF e

\* A vector without duplicates is as long as its set is large.
LEMMA LengthOfInjective ==
    ASSUME NEW S, NEW s \in Seq(S), IsInjective(s)
    PROVE  Len(s) = Cardinality(ToSet(s))
<1>1. DOMAIN s = 1 .. Len(s) /\ Len(s) \in Nat
  OBVIOUS
<1> DEFINE f == [i \in 1 .. Len(s) |-> s[i]]
<1>2. f \in Bijection(1 .. Len(s), ToSet(s))
  BY <1>1 DEF Bijection, Injection, Surjection, IsInjective, ToSet
<1>3. IsFiniteSet(1 .. Len(s)) /\ Cardinality(1 .. Len(s)) = Len(s)
  BY <1>1, FS_Interval
<1>4. Cardinality(ToSet(s)) = Cardinality(1 .. Len(s))
  BY <1>2, <1>3, FS_Bijection DEF ExistsBijection
<1> QED BY <1>3, <1>4

-----------------------------------------------------------------------------
(* client_following *)

\* The entries of a client_following.
FollowType == [who : User, time : Nat]

\* The names of a vector of follows.
LEMMA WhosIs ==
    ASSUME NEW f \in Seq(FollowType)
    PROVE  /\ Whos(f) \in Seq(User) /\ Len(Whos(f)) = Len(f)
           /\ \A i \in 1 .. Len(f) : Whos(f)[i] = f[i].who
           /\ ToSet(Whos(f)) = {g.who : g \in ToSet(f)}
<1>1. /\ Len(f) \in Nat /\ DOMAIN f = 1 .. Len(f)
      /\ \A i \in 1 .. Len(f) : f[i] \in FollowType /\ f[i].who \in User
  <2>1. Len(f) \in Nat /\ DOMAIN f = 1 .. Len(f) /\ \A i \in 1 .. Len(f) : f[i] \in FollowType
    OBVIOUS
  <2>2. \A g \in FollowType : g.who \in User
    BY DEF FollowType
  <2> QED BY <2>1, <2>2
<1>2. DOMAIN Whos(f) = 1 .. Len(f) /\ \A i \in 1 .. Len(f) : Whos(f)[i] = f[i].who
  BY DEF Whos
<1>3. Whos(f) \in Seq(User) /\ Len(Whos(f)) = Len(f)
  BY <1>1, <1>2 DEF Whos
<1>4. ToSet(Whos(f)) = {g.who : g \in ToSet(f)}
  BY <1>1, <1>2 DEF ToSet
<1> QED BY <1>2, <1>3, <1>4

\* The names of a vector that was appended to.
LEMMA WhosAppend ==
    ASSUME NEW f \in Seq(FollowType), NEW g \in FollowType
    PROVE  Whos(Append(f, g)) = Append(Whos(f), g.who)
<1> DEFINE a == Whos(Append(f, g))
           b == Append(Whos(f), g.who)
<1>1. Append(f, g) \in Seq(FollowType) /\ g.who \in User /\ Len(f) \in Nat
  BY DEF FollowType
<1>2. /\ Len(Append(f, g)) = Len(f) + 1
      /\ \A i \in 1 .. Len(f) : Append(f, g)[i] = f[i]
      /\ Append(f, g)[Len(f) + 1] = g
  OBVIOUS
<1>3. a \in Seq(User) /\ Len(a) = Len(f) + 1
      /\ \A i \in 1 .. Len(f) + 1 : a[i] = Append(f, g)[i].who
  BY <1>1, <1>2, WhosIs
<1>4. b \in Seq(User) /\ Len(b) = Len(f) + 1
      /\ (\A i \in 1 .. Len(f) : b[i] = Whos(f)[i]) /\ b[Len(f) + 1] = g.who
  BY <1>1, WhosIs
<1>5. \A i \in 1 .. Len(f) + 1 : i \in 1 .. Len(f) \/ i = Len(f) + 1
  BY <1>1
<1>6. \A i \in 1 .. Len(f) + 1 : a[i] = b[i]
  <2> HIDE DEF a, b
  <2>1. \A i \in 1 .. Len(f) : Whos(f)[i] = f[i].who
    BY WhosIs
  <2> TAKE i \in 1 .. Len(f) + 1
  <2>2. CASE i \in 1 .. Len(f)
    BY <1>2, <1>3, <1>4, <2>1, <2>2
  <2>3. CASE i = Len(f) + 1
    BY <1>2, <1>3, <1>4, <2>3
  <2> QED BY <1>5, <2>2, <2>3
<1> HIDE DEF a, b
<1>7. a = b
  BY <1>3, <1>4, <1>6, SeqEqual
<1> QED BY <1>7 DEF a, b

\* The names of a vector that was erased from.
LEMMA WhosErase ==
    ASSUME NEW f \in Seq(FollowType), NEW i \in 1 .. Len(f)
    PROVE  Whos(Erase(f, i)) = Erase(Whos(f), i)
<1> DEFINE a == Whos(Erase(f, i))
           b == Erase(Whos(f), i)
           n == Len(f) - 1
<1>1. Len(f) \in Nat /\ DOMAIN f = 1 .. Len(f) /\ i \in DOMAIN f /\ i \in Nat /\ f # <<>>
  BY EmptySeq
<1>2. Erase(f, i) \in Seq(FollowType) /\ Len(Erase(f, i)) = n
      /\ \A k \in 1 .. n : Erase(f, i)[k] = IF k < i THEN f[k] ELSE f[k + 1]
  BY <1>1, EraseIs
<1>3. a \in Seq(User) /\ Len(a) = n
      /\ \A k \in 1 .. n : a[k] = IF k < i THEN f[k].who ELSE f[k + 1].who
  <2> DEFINE g == Erase(f, i)
  <2>1. g \in Seq(FollowType) /\ Len(g) = n
        /\ \A k \in 1 .. n : g[k].who = IF k < i THEN f[k].who ELSE f[k + 1].who
    BY <1>2
  <2> HIDE DEF g, n
  <2>2. Whos(g) \in Seq(User) /\ Len(Whos(g)) = n
        /\ \A k \in 1 .. n : Whos(g)[k] = g[k].who
    BY <2>1, WhosIs
  <2> QED BY <2>1, <2>2 DEF g
<1>4. Whos(f) \in Seq(User) /\ Len(Whos(f)) = Len(f)
      /\ \A k \in 1 .. Len(f) : Whos(f)[k] = f[k].who
  BY WhosIs
<1>5. Whos(f) # <<>> /\ i \in DOMAIN Whos(f)
  BY <1>1, <1>4, EmptySeq
<1>6. b \in Seq(User) /\ Len(b) = n
      /\ \A k \in 1 .. n : b[k] = IF k < i THEN Whos(f)[k] ELSE Whos(f)[k + 1]
  <2> DEFINE w == Whos(f)
  <2>1. w \in Seq(User) /\ w # <<>> /\ i \in DOMAIN w /\ Len(w) - 1 = n
    BY <1>4, <1>5
  <2> HIDE DEF w, n
  <2>2. Erase(w, i) \in Seq(User) /\ Len(Erase(w, i)) = Len(w) - 1
        /\ \A k \in 1 .. Len(w) - 1 : Erase(w, i)[k] = IF k < i THEN w[k] ELSE w[k + 1]
    BY <1>1, <2>1, EraseIs
  <2> QED BY <2>1, <2>2 DEF w
<1>7. \A k \in 1 .. n : k \in 1 .. Len(f) /\ k + 1 \in 1 .. Len(f)
  BY <1>1
<1> HIDE DEF a, b, n
<1>8. \A k \in 1 .. n : a[k] = b[k]
  BY <1>3, <1>4, <1>6, <1>7
<1>9. a = b
  BY <1>3, <1>6, <1>8, SeqEqual
<1> QED BY <1>9 DEF a, b

\* What a user follows, as the names of the vector.
LEMMA FolloweesAre ==
    ASSUME NEW d \in DbType, NEW u \in User
    PROVE  /\ d.following[u] \in Seq(FollowType) /\ d.followers[u] \in Seq(User)
           /\ Followees(d, u) = ToSet(Whos(d.following[u]))
<1>1. d.following[u] \in Seq(FollowType) /\ d.followers[u] \in Seq(User)
  BY DEF DbType, FollowType
<1>2. ToSet(Whos(d.following[u])) = {g.who : g \in ToSet(d.following[u])}
  BY <1>1, WhosIs
<1> QED BY <1>1, <1>2 DEF Followees

-----------------------------------------------------------------------------
(* The graph *)

\* Nobody can log in twice, follow the same user twice, or stop following
\* without being taken off the other list.
LEMMA GraphPushClient ==
    ASSUME NEW d \in DbType, NEW u \in User, Graph(d), ~Exists(d, u)
    PROVE  Graph(PushClient(d, u))
<1> DEFINE e == PushClient(d, u)
<1>1. /\ e.users = Append(d.users, u) /\ e.following = d.following
      /\ e.followers = d.followers
  BY PushClientIs
<1> HIDE DEF e
<1>2. d.users \in Seq(User) /\ u \notin ToSet(d.users)
  BY ExistsIs DEF DbType
<1>3. IsInjective(e.users)
  BY <1>1, <1>2, AppendDistinct DEF Graph
<1>4. \A w \in User : Followees(e, w) = Followees(d, w)
  BY <1>1 DEF Followees
<1>5. Graph(e)
  BY <1>1, <1>3, <1>4 DEF Graph
<1> QED BY <1>5 DEF e

\* A follow of somebody not yet followed puts each name where it was missing.
LEMMA GraphPushFollow ==
    ASSUME NEW d \in DbType, NEW u \in User, NEW v \in User, NEW t \in Nat,
           Graph(d), v \notin Followees(d, u)
    PROVE  Graph(PushFollow(d, u, v, t))
<1> DEFINE e == PushFollow(d, u, v, t)
           f == [who |-> v, time |-> t]
<1>1. e.users = d.users
  BY DEF PushFollow, DbType
<1>2. \A w \in User :
         /\ e.following[w] = IF w = u THEN Append(d.following[u], f) ELSE d.following[w]
         /\ e.followers[w] = IF w = v THEN Append(d.followers[v], u) ELSE d.followers[w]
  BY PushFollowIs
<1>3. \A w \in User : Followees(e, w) = IF w = u THEN Followees(d, u) \cup {v}
                                                 ELSE Followees(d, w)
  BY PushFollowees
<1>4. f \in FollowType /\ f.who = v
  BY DEF FollowType
<1> HIDE DEF e, f
<1>5. u \notin ToSet(d.followers[v]) /\ v \notin ToSet(Whos(d.following[u]))
  BY FolloweesAre DEF Graph
<1>6. ToSet(Append(d.followers[v], u)) = ToSet(d.followers[v]) \cup {u}
      /\ IsInjective(Append(d.followers[v], u))
  BY <1>5, FolloweesAre, ToSetAppend, AppendDistinct DEF Graph
<1>7. IsInjective(Whos(Append(d.following[u], f)))
  <2>1. Whos(Append(d.following[u], f)) = Append(Whos(d.following[u]), v)
    BY <1>4, FolloweesAre, WhosAppend
  <2>2. Whos(d.following[u]) \in Seq(User)
    BY FolloweesAre, WhosIs
  <2> QED BY <1>5, <2>1, <2>2, AppendDistinct DEF Graph
<1>8. ASSUME NEW w \in User
      PROVE  IsInjective(Whos(e.following[w])) /\ IsInjective(e.followers[w])
  BY <1>2, <1>6, <1>7 DEF Graph
<1>9. ASSUME NEW w \in User, NEW x \in User
      PROVE  x \in Followees(e, w) <=> w \in ToSet(e.followers[x])
  <2>1. ToSet(e.followers[x]) = IF x = v THEN ToSet(d.followers[v]) \cup {u}
                                         ELSE ToSet(d.followers[x])
    BY <1>2, <1>6
  <2> QED BY <1>3, <2>1 DEF Graph
<1>10. Graph(e)
  BY <1>1, <1>8, <1>9 DEF Graph
<1> QED BY <1>10 DEF e

\* An unfollow of somebody followed finds both entries and removes them.
LEMMA GraphErase ==
    ASSUME NEW d \in DbType, NEW u \in User, NEW v \in User,
           Graph(d), v \in Followees(d, u)
    PROVE  LET i == indexOfFollowing(d, u, v)
               j == indexOfFollower(d, v, u)
           IN  /\ i \in 1 .. Len(d.following[u]) /\ j \in 1 .. Len(d.followers[v])
               /\ ErasesInside(d, u, v, i, j)
               /\ d.following[u] # <<>> /\ d.followers[v] # <<>>
               /\ Graph(EraseFollow(d, u, v, i, j))
<1> DEFINE i == indexOfFollowing(d, u, v)
           j == indexOfFollower(d, v, u)
           e == EraseFollow(d, u, v, i, j)
           f == d.following[u]
           g == d.followers[v]
<1>1. f \in Seq(FollowType) /\ g \in Seq(User) /\ Followees(d, u) = ToSet(Whos(f))
  BY FolloweesAre
<1>2. u \in ToSet(g)
  BY DEF Graph
<1>3. i \in 1 .. Len(f) /\ f[i].who = v
  BY IndexOfFollowing
<1>4. j \in 1 .. Len(g) /\ g[j] = u
  BY <1>2, IndexOfFollower
<1>5. e.users = d.users
  BY DEF EraseFollow, DbType
<1> HIDE DEF i, j
<1>6. f # <<>> /\ g # <<>> /\ i \in Nat /\ j \in Nat
  BY <1>1, <1>3, <1>4
<1>7. ErasesInside(d, u, v, i, j)
  BY <1>1, <1>3, <1>4 DEF ErasesInside
<1>8. \A w \in User :
         /\ e.following[w] = IF w = u THEN Erase(f, i) ELSE d.following[w]
         /\ e.followers[w] = IF w = v THEN Erase(g, j) ELSE d.followers[w]
  BY <1>6, EraseFollowIs
<1>9. e \in DbType
  BY <1>6, EraseFollowIs
<1> HIDE DEF e
<1>10. IsInjective(Whos(f)) /\ IsInjective(g)
  BY DEF Graph
<1> HIDE DEF f, g
<1>11. IsInjective(Erase(g, j)) /\ ToSet(Erase(g, j)) = ToSet(g) \ {u}
  BY <1>1, <1>4, <1>10, EraseDistinct
<1>12. IsInjective(Whos(Erase(f, i))) /\ ToSet(Whos(Erase(f, i))) = ToSet(Whos(f)) \ {v}
  <2>1. Whos(Erase(f, i)) = Erase(Whos(f), i)
    BY <1>1, <1>3, WhosErase
  <2>2. Whos(f) \in Seq(User) /\ i \in 1 .. Len(Whos(f)) /\ Whos(f)[i] = v
    BY <1>1, <1>3, WhosIs
  <2> QED BY <1>10, <2>1, <2>2, EraseDistinct
<1>13. ASSUME NEW w \in User
       PROVE  IsInjective(Whos(e.following[w])) /\ IsInjective(e.followers[w])
  BY <1>8, <1>11, <1>12 DEF Graph
<1>14. ASSUME NEW w \in User, NEW x \in User
       PROVE  x \in Followees(e, w) <=> w \in ToSet(e.followers[x])
  <2>1. ToSet(e.followers[x]) = IF x = v THEN ToSet(g) \ {u} ELSE ToSet(d.followers[x])
    BY <1>8, <1>11
  <2>2. Followees(e, w) = ToSet(Whos(e.following[w]))
    BY <1>9, FolloweesAre
  <2>3. Followees(e, w) = IF w = u THEN ToSet(Whos(f)) \ {v} ELSE Followees(d, w)
    <3>1. CASE w = u
      BY <1>8, <1>12, <2>2, <3>1
    <3>2. CASE w # u
      <4>1. e.following[w] = d.following[w]
        BY <1>8, <3>2
      <4> QED BY <3>2, <4>1 DEF Followees
    <3> QED BY <3>1, <3>2
  <2>4. x \in Followees(d, w) <=> w \in ToSet(d.followers[x])
    BY DEF Graph
  <2> QED BY <1>1, <2>1, <2>3, <2>4 DEF g
<1>15. Graph(e)
  BY <1>5, <1>13, <1>14 DEF Graph
<1> QED BY <1>3, <1>4, <1>6, <1>7, <1>15 DEF e, f, g, i, j

-----------------------------------------------------------------------------
(* Memory and replay *)

\* Two vectors of follows that agree, with one more that agrees or without one.
LEMMA SameAppend ==
    ASSUME NEW f \in Seq(FollowType), NEW g \in Seq(FollowType), SameFollowing(f, g),
           NEW a \in FollowType, NEW b \in FollowType, SameFollow(a, b)
    PROVE  SameFollowing(Append(f, a), Append(g, b))
<1>1. Len(f) \in Nat /\ Len(f) = Len(g) /\ \A i \in 1 .. Len(f) : SameFollow(f[i], g[i])
  BY DEF SameFollowing
<1>2. /\ Len(Append(f, a)) = Len(f) + 1 /\ DOMAIN Append(f, a) = 1 .. Len(f) + 1
      /\ \A i \in 1 .. Len(f) : Append(f, a)[i] = f[i]
      /\ Append(f, a)[Len(f) + 1] = a
  OBVIOUS
<1>3. /\ Len(Append(g, b)) = Len(g) + 1
      /\ \A i \in 1 .. Len(g) : Append(g, b)[i] = g[i]
      /\ Append(g, b)[Len(g) + 1] = b
  OBVIOUS
<1> DEFINE p == Append(f, a)
           q == Append(g, b)
<1> HIDE DEF p, q
<1>4. \A i \in 1 .. Len(f) + 1 : SameFollow(p[i], q[i])
  <2> TAKE i \in 1 .. Len(f) + 1
  <2>1. CASE i \in 1 .. Len(f)
    BY <1>1, <1>2, <1>3, <2>1 DEF p, q
  <2>2. CASE i = Len(f) + 1
    BY <1>1, <1>2, <1>3, <2>2 DEF p, q
  <2> QED BY <1>1, <2>1, <2>2
<1>5. SameFollowing(p, q)
  BY <1>1, <1>2, <1>3, <1>4 DEF SameFollowing, p, q
<1> QED BY <1>5 DEF p, q

\* Two vectors that agree still do when both lose the element at an index.
LEMMA SameErase ==
    ASSUME NEW f \in Seq(FollowType), NEW g \in Seq(FollowType), SameFollowing(f, g),
           NEW i \in 1 .. Len(f)
    PROVE  SameFollowing(Erase(f, i), Erase(g, i))
<1> DEFINE n == Len(f) - 1
<1>1. Len(f) \in Nat /\ Len(f) = Len(g) /\ \A k \in 1 .. Len(f) : SameFollow(f[k], g[k])
  BY DEF SameFollowing
<1>2. i \in Nat /\ f # <<>> /\ g # <<>> /\ i \in DOMAIN f /\ i \in DOMAIN g
  BY <1>1, EmptySeq
<1>3. Erase(f, i) \in Seq(FollowType) /\ Len(Erase(f, i)) = n
      /\ \A k \in 1 .. n : Erase(f, i)[k] = IF k < i THEN f[k] ELSE f[k + 1]
  BY <1>2, EraseIs
<1>4. Erase(g, i) \in Seq(FollowType) /\ Len(Erase(g, i)) = n
      /\ \A k \in 1 .. n : Erase(g, i)[k] = IF k < i THEN g[k] ELSE g[k + 1]
  BY <1>1, <1>2, EraseIs
<1>5. \A k \in 1 .. n : k \in 1 .. Len(f) /\ k + 1 \in 1 .. Len(f)
  BY <1>1
<1> DEFINE p == Erase(f, i)
           q == Erase(g, i)
<1>6. DOMAIN p = 1 .. n
  BY <1>3
<1> HIDE DEF p, q, n
<1>7. \A k \in 1 .. n : SameFollow(p[k], q[k])
  <2> TAKE k \in 1 .. n
  <2>1. CASE k < i
    BY <1>1, <1>3, <1>4, <1>5, <2>1 DEF p, q
  <2>2. CASE ~(k < i)
    BY <1>1, <1>3, <1>4, <1>5, <2>2 DEF p, q
  <2> QED BY <2>1, <2>2
<1>8. SameFollowing(p, q)
  BY <1>3, <1>4, <1>6, <1>7 DEF SameFollowing, p, q
<1> QED BY <1>8 DEF p, q

\* Whoever asks memory or a replay gets the same answer.
LEMMA SimilarSees ==
    ASSUME NEW d \in DbType, NEW r \in DbType, Similar(d, r)
    PROVE  /\ \A u : Exists(r, u) <=> Exists(d, u)
           /\ \A u \in User : Whos(r.following[u]) = Whos(d.following[u])
           /\ \A u \in User : Followees(r, u) = Followees(d, u)
           /\ \A u, v \in User : indexOfFollowing(r, u, v) = indexOfFollowing(d, u, v)
           /\ \A u, v \in User : indexOfFollower(r, u, v) = indexOfFollower(d, u, v)
<1>1. r.users = d.users /\ r.followers = d.followers
      /\ \A u \in User : SameFollowing(d.following[u], r.following[u])
  BY DEF Similar
<1>2. \A u \in User : /\ Len(r.following[u]) = Len(d.following[u])
                      /\ \A i \in 1 .. Len(d.following[u]) :
                            r.following[u][i].who = d.following[u][i].who
  <2> TAKE u \in User
  <2>1. d.following[u] \in Seq(FollowType)
    BY FolloweesAre
  <2> QED BY <1>1, <2>1 DEF SameFollowing, SameFollow
<1>3. \A u \in User : Whos(r.following[u]) = Whos(d.following[u])
  BY <1>2 DEF Whos
<1>4. \A u \in User : Followees(r, u) = Followees(d, u)
  BY <1>3, FolloweesAre
<1>5. ASSUME NEW u \in User, NEW v \in User
      PROVE  indexOfFollowing(r, u, v) = indexOfFollowing(d, u, v)
  <2>1. {i \in 1 .. Len(r.following[u]) : r.following[u][i].who = v}
           = {i \in 1 .. Len(d.following[u]) : d.following[u][i].who = v}
    BY <1>2
  <2> QED BY <2>1 DEF indexOfFollowing, SelectInSeq
<1>6. ASSUME NEW u \in User, NEW v \in User
      PROVE  indexOfFollower(r, u, v) = indexOfFollower(d, u, v)
  BY <1>1 DEF indexOfFollower, SelectInSeq
<1>7. \A u : Exists(r, u) <=> Exists(d, u)
  BY <1>1 DEF Exists
<1> QED BY <1>3, <1>4, <1>5, <1>6, <1>7

\* A replay is a good client_db if memory is.
LEMMA SimilarGood ==
    ASSUME NEW d \in DbType, NEW r \in DbType, Similar(d, r), Graph(d)
    PROVE  Graph(r) /\ Similar(r, r)
<1>1. Graph(r)
  <2>1. r.users = d.users /\ r.followers = d.followers
    BY DEF Similar
  <2>2. /\ \A u \in User : Whos(r.following[u]) = Whos(d.following[u])
        /\ \A u \in User : Followees(r, u) = Followees(d, u)
    BY SimilarSees
  <2> QED BY <2>1, <2>2 DEF Graph
<1>2. ASSUME NEW u \in User PROVE SameFollowing(r.following[u], r.following[u])
  <2>1. r.following[u] \in Seq(FollowType) /\ d.following[u] \in Seq(FollowType)
    BY FolloweesAre
  <2>2. /\ Len(d.following[u]) = Len(r.following[u])
        /\ \A i \in 1 .. Len(d.following[u]) : SameFollow(d.following[u][i], r.following[u][i])
    BY <2>1 DEF Similar, SameFollowing
  <2>3. \A f, g : SameFollow(f, g) => SameFollow(g, g)
    BY DEF SameFollow
  <2> QED BY <2>1, <2>2, <2>3 DEF SameFollowing
<1> QED BY <1>1, <1>2 DEF Similar

\* The change that a request makes to memory.
Change(d, q) ==
    CASE q.op = "user" -> PushClient(d, q.user)
      [] q.op = "follow" -> PushFollow(d, q.user, q.target, q.time)
      [] q.op = "unfollow" -> EraseFollow(d, q.user, q.target,
                                          indexOfFollowing(d, q.user, q.target),
                                          indexOfFollower(d, q.target, q.user))

\* Memory after the change and a replay with the line more: what is to be shown.
Follows(d, r, q, n) ==
    /\ Change(d, q) \in DbType /\ Graph(Change(d, q))
    /\ ReplayLine(r, Line(q)) \in DbType
    /\ Similar(Change(d, q), ReplayLine(r, Line(q)))
    /\ Sized(ReplayLine(r, Line(q)), n + 1)

\* A login.
LEMMA OneLogin ==
    ASSUME NEW d \in DbType, NEW r \in DbType, Graph(d), Similar(d, r),
           NEW n \in Nat, Sized(r, n), NEW u \in User, ~Exists(d, u)
    PROVE  Follows(d, r, Login(u), n)
<1> DEFINE q == Login(u)
           e == PushClient(d, u)
           s == PushClient(r, u)
<1>1. Change(d, q) = e
  BY DEF Change, Login
<1>2. ReplayLine(r, Line(q)) = s
  <2>1. Line(q) = q
    BY DEF Line, Login
  <2> QED BY <2>1, ReplayLineIs
<1>3. e \in DbType /\ s \in DbType
  BY PushClientIs
<1>4. Graph(e)
  BY GraphPushClient
<1>5. e.users = Append(d.users, u) /\ e.following = d.following /\ e.followers = d.followers
  BY PushClientIs
<1>6. s.users = Append(r.users, u) /\ s.following = r.following /\ s.followers = r.followers
  BY PushClientIs
<1> HIDE DEF e, s, q
<1>7. Similar(e, s)
  BY <1>5, <1>6 DEF Similar
<1>8. Sized(s, n + 1)
  <2>1. ASSUME NEW w \in User PROVE Len(s.following[w]) <= n + 1 /\ Len(s.followers[w]) <= n + 1
    <3>1. r.following[w] \in Seq(FollowType) /\ r.followers[w] \in Seq(User)
      BY FolloweesAre
    <3>2. Len(r.following[w]) <= n /\ Len(r.followers[w]) <= n
      BY DEF Sized
    <3>3. Len(r.following[w]) \in Nat /\ Len(r.followers[w]) \in Nat
      BY <3>1
    <3> QED BY <1>6, <3>2, <3>3
  <2> QED BY <2>1 DEF Sized
<1>9. Follows(d, r, q, n)
  BY <1>1, <1>2, <1>3, <1>4, <1>7, <1>8 DEF Follows
<1> QED BY <1>9 DEF q

\* A follow.
LEMMA OneFollow ==
    ASSUME NEW d \in DbType, NEW r \in DbType, Graph(d), Similar(d, r),
           NEW n \in Nat, Sized(r, n), NEW u \in User, NEW v \in User, NEW t \in Time,
           Exists(d, u), Exists(d, v), v \notin Followees(d, u)
    PROVE  Follows(d, r, Follow(u, v, t), n)
<1> DEFINE q == Follow(u, v, t)
           e == PushFollow(d, u, v, t)
           s == PushFollow(r, u, v, ParsedTime(t))
           a == [who |-> v, time |-> t]
           b == [who |-> v, time |-> ParsedTime(t)]
<1>1. t \in Nat /\ SecondsOf(t) \in Nat /\ ParsedTime(t) \in Nat
      /\ ParsedTime(SecondsOf(t)) = ParsedTime(t)
  BY UserLogAssumption, Seconds
<1>2. Change(d, q) = e
  BY DEF Change, Follow
<1>3. ReplayLine(r, Line(q)) = s
  <2>1. Line(q) = Follow(u, v, SecondsOf(t))
    BY DEF Line, Follow
  <2>2. Exists(r, u) /\ Exists(r, v)
    BY SimilarSees
  <2> QED BY <1>1, <2>1, <2>2, ReplayLineIs
<1>4. e \in DbType /\ s \in DbType
  <2>1. e \in DbType
    BY <1>1, PushFollowIs
  <2>2. s \in DbType
    BY <1>1, PushFollowIs
  <2> QED BY <2>1, <2>2
<1>5. Graph(e)
  BY <1>1, GraphPushFollow
<1>6. e.users = d.users /\ s.users = r.users
  BY DEF PushFollow, DbType
<1>7. \A w \in User :
         /\ e.following[w] = IF w = u THEN Append(d.following[u], a) ELSE d.following[w]
         /\ e.followers[w] = IF w = v THEN Append(d.followers[v], u) ELSE d.followers[w]
  BY <1>1, PushFollowIs
<1>8. \A w \in User :
         /\ s.following[w] = IF w = u THEN Append(r.following[u], b) ELSE r.following[w]
         /\ s.followers[w] = IF w = v THEN Append(r.followers[v], u) ELSE r.followers[w]
  BY <1>1, PushFollowIs
<1>9. a \in FollowType /\ b \in FollowType /\ SameFollow(a, b)
  BY <1>1 DEF FollowType, SameFollow
<1> HIDE DEF e, s, q, a, b
<1>10. Similar(e, s)
  <2>1. e.users = s.users
    BY <1>6 DEF Similar
  <2>2. e.followers = s.followers
    <3>1. e.followers \in [User -> Seq(User)] /\ s.followers \in [User -> Seq(User)]
      BY <1>4 DEF DbType
    <3>2. \A w \in User : e.followers[w] = s.followers[w]
      BY <1>7, <1>8 DEF Similar
    <3> QED BY <3>1, <3>2
  <2>3. ASSUME NEW w \in User PROVE SameFollowing(e.following[w], s.following[w])
    <3>1. SameFollowing(d.following[w], r.following[w])
      BY DEF Similar
    <3>2. d.following[w] \in Seq(FollowType) /\ r.following[w] \in Seq(FollowType)
      BY FolloweesAre
    <3> QED BY <1>7, <1>8, <1>9, <3>1, <3>2, SameAppend
  <2> QED BY <2>1, <2>2, <2>3 DEF Similar
<1>11. Sized(s, n + 1)
  <2>1. ASSUME NEW w \in User PROVE Len(s.following[w]) <= n + 1 /\ Len(s.followers[w]) <= n + 1
    <3>1. r.following[w] \in Seq(FollowType) /\ r.followers[w] \in Seq(User)
      BY FolloweesAre
    <3>2. Len(r.following[w]) <= n /\ Len(r.followers[w]) <= n
      BY DEF Sized
    <3>3. Len(r.following[w]) \in Nat /\ Len(r.followers[w]) \in Nat
      BY <3>1
    <3>4. w = u => Len(s.following[w]) = Len(r.following[w]) + 1
      <4>1. \A f \in Seq(FollowType) : Len(Append(f, b)) = Len(f) + 1
        BY <1>9, AppendProperties
      <4>2. w = u => s.following[w] = Append(r.following[u], b)
        BY <1>8
      <4> QED BY <3>1, <4>1, <4>2
    <3>5. w = v => Len(s.followers[w]) = Len(r.followers[w]) + 1
      <4>1. Len(Append(r.followers[v], u)) = Len(r.followers[v]) + 1
        BY FolloweesAre, AppendProperties
      <4>2. w = v => s.followers[w] = Append(r.followers[v], u)
        BY <1>8
      <4> QED BY <4>1, <4>2
    <3>6. w # u => s.following[w] = r.following[w]
      BY <1>8
    <3>7. w # v => s.followers[w] = r.followers[w]
      BY <1>8
    <3> QED BY <3>2, <3>3, <3>4, <3>5, <3>6, <3>7
  <2> QED BY <2>1 DEF Sized
<1>12. Follows(d, r, q, n)
  BY <1>2, <1>3, <1>4, <1>5, <1>10, <1>11 DEF Follows
<1> QED BY <1>12 DEF q

\* An unfollow.
LEMMA OneUnFollow ==
    ASSUME NEW d \in DbType, NEW r \in DbType, Graph(d), Similar(d, r),
           NEW n \in Nat, Sized(r, n), NEW u \in User, NEW v \in User,
           Exists(d, u), Exists(d, v), v \in Followees(d, u)
    PROVE  Follows(d, r, UnFollow(u, v), n)
<1> DEFINE q == UnFollow(u, v)
           i == indexOfFollowing(d, u, v)
           j == indexOfFollower(d, v, u)
           e == EraseFollow(d, u, v, i, j)
           s == EraseFollow(r, u, v, i, j)
<1>1. Change(d, q) = e
  BY DEF Change, UnFollow
<1>2. Graph(r) /\ v \in Followees(r, u) /\ Exists(r, u) /\ Exists(r, v)
      /\ indexOfFollowing(r, u, v) = i /\ indexOfFollower(r, v, u) = j
  BY SimilarGood, SimilarSees
<1>3. /\ i \in 1 .. Len(d.following[u]) /\ j \in 1 .. Len(d.followers[v])
      /\ d.following[u] # <<>> /\ d.followers[v] # <<>> /\ Graph(e)
  BY GraphErase
<1>4. i \in 1 .. Len(r.following[u]) /\ j \in 1 .. Len(r.followers[v])
      /\ ErasesInside(r, u, v, i, j) /\ r.following[u] # <<>> /\ r.followers[v] # <<>>
  BY <1>2, GraphErase
<1>5. ReplayLine(r, Line(q)) = s
  <2>1. Line(q) = q
    BY DEF Line, UnFollow
  <2>2. ReplayLine(r, q) = unfollowHelper(r, u, v)
    BY ReplayLineIs
  <2> QED BY <1>2, <1>4, <2>1, <2>2 DEF unfollowHelper
<1>6. e.users = d.users /\ s.users = r.users
  BY DEF EraseFollow, DbType
<1> HIDE DEF i, j, q
<1>7. i \in Nat /\ j \in Nat
  BY <1>3
<1>8. e \in DbType /\ s \in DbType
  <2>1. e \in DbType
    BY <1>3, <1>7, EraseFollowIs
  <2>2. s \in DbType
    BY <1>4, <1>7, EraseFollowIs
  <2> QED BY <2>1, <2>2
<1>9. \A w \in User :
         /\ e.following[w] = IF w = u THEN Erase(d.following[u], i) ELSE d.following[w]
         /\ e.followers[w] = IF w = v THEN Erase(d.followers[v], j) ELSE d.followers[w]
  BY <1>3, <1>7, EraseFollowIs
<1>10. \A w \in User :
         /\ s.following[w] = IF w = u THEN Erase(r.following[u], i) ELSE r.following[w]
         /\ s.followers[w] = IF w = v THEN Erase(r.followers[v], j) ELSE r.followers[w]
  BY <1>4, <1>7, EraseFollowIs
<1> HIDE DEF e, s
<1>11. Similar(e, s)
  <2>1. e.users = s.users
    BY <1>6 DEF Similar
  <2>2. e.followers = s.followers
    <3>1. e.followers \in [User -> Seq(User)] /\ s.followers \in [User -> Seq(User)]
      BY <1>8 DEF DbType
    <3>2. \A w \in User : e.followers[w] = s.followers[w]
      BY <1>9, <1>10 DEF Similar
    <3> QED BY <3>1, <3>2
  <2>3. ASSUME NEW w \in User PROVE SameFollowing(e.following[w], s.following[w])
    <3>1. SameFollowing(d.following[w], r.following[w])
      BY DEF Similar
    <3>2. d.following[w] \in Seq(FollowType) /\ r.following[w] \in Seq(FollowType)
      BY FolloweesAre
    <3> QED BY <1>3, <1>9, <1>10, <3>1, <3>2, SameErase
  <2> QED BY <2>1, <2>2, <2>3 DEF Similar
<1>12. Sized(s, n + 1)
  <2>1. ASSUME NEW w \in User PROVE Len(s.following[w]) <= n + 1 /\ Len(s.followers[w]) <= n + 1
    <3>1. r.following[w] \in Seq(FollowType) /\ r.followers[w] \in Seq(User)
      BY FolloweesAre
    <3>2. Len(r.following[w]) <= n /\ Len(r.followers[w]) <= n
      BY DEF Sized
    <3>3. Len(r.following[w]) \in Nat /\ Len(r.followers[w]) \in Nat
      BY <3>1
    <3>4. w = u => Len(s.following[w]) = Len(r.following[w]) - 1
      <4>1. r.following[u] \in Seq(FollowType)
        BY FolloweesAre
      <4>2. Len(Erase(r.following[u], i)) = Len(r.following[u]) - 1
        BY <1>4, <1>7, <4>1, EraseIs
      <4>3. w = u => s.following[w] = Erase(r.following[u], i)
        BY <1>10
      <4> QED BY <4>2, <4>3
    <3>5. w = v => Len(s.followers[w]) = Len(r.followers[w]) - 1
      <4>1. r.followers[v] \in Seq(User)
        BY FolloweesAre
      <4>2. Len(Erase(r.followers[v], j)) = Len(r.followers[v]) - 1
        BY <1>4, <1>7, <4>1, EraseIs
      <4>3. w = v => s.followers[w] = Erase(r.followers[v], j)
        BY <1>10
      <4> QED BY <4>2, <4>3
    <3>6. w # u => s.following[w] = r.following[w]
      BY <1>10
    <3>7. w # v => s.followers[w] = r.followers[w]
      BY <1>10
    <3>8. Len(s.following[w]) <= n + 1
      <4>1. CASE w = u
        BY <3>2, <3>3, <3>4, <4>1
      <4>2. CASE w # u
        BY <3>2, <3>3, <3>6, <4>2
      <4> QED BY <4>1, <4>2
    <3>9. Len(s.followers[w]) <= n + 1
      <4>1. CASE w = v
        BY <3>2, <3>3, <3>5, <4>1
      <4>2. CASE w # v
        BY <3>2, <3>3, <3>7, <4>2
      <4> QED BY <4>1, <4>2
    <3> QED BY <3>8, <3>9
  <2> QED BY <2>1 DEF Sized
<1>13. Follows(d, r, q, n)
  BY <1>1, <1>3, <1>5, <1>8, <1>11, <1>12 DEF Follows
<1> QED BY <1>13 DEF q

\* Any request that has passed its checks.
LEMMA OneRequest ==
    ASSUME NEW d \in DbType, NEW r \in DbType, Graph(d), Similar(d, r),
           NEW n \in Nat, Sized(r, n), NEW q \in Request, Ready(d, q)
    PROVE  Follows(d, r, q, n)
<1>1. CASE q.op = "user"
  <2>1. q = Login(q.user) /\ q.user \in User /\ ~Exists(d, q.user)
    BY <1>1, RequestForms DEF Ready
  <2>2. Follows(d, r, Login(q.user), n)
    BY <2>1, OneLogin
  <2> QED BY <2>1, <2>2
<1>2. CASE q.op = "follow"
  <2>1. /\ q = Follow(q.user, q.target, q.time)
        /\ q.user \in User /\ q.target \in User /\ q.time \in Time
        /\ Exists(d, q.user) /\ Exists(d, q.target) /\ q.target \notin Followees(d, q.user)
    BY <1>2, RequestForms DEF Ready
  <2>2. Follows(d, r, Follow(q.user, q.target, q.time), n)
    BY <2>1, OneFollow
  <2> QED BY <2>1, <2>2
<1>3. CASE q.op = "unfollow"
  <2>1. /\ q = UnFollow(q.user, q.target) /\ q.user \in User /\ q.target \in User
        /\ Exists(d, q.user) /\ Exists(d, q.target) /\ q.target \in Followees(d, q.user)
    BY <1>3, RequestForms DEF Ready
  <2>2. Follows(d, r, UnFollow(q.user, q.target), n)
    BY <2>1, OneUnFollow
  <2> QED BY <2>1, <2>2
<1> QED BY <1>1, <1>2, <1>3, RequestForms

-----------------------------------------------------------------------------
(* Good logs *)

\* The first lines of a log are those of a longer one.
LEMMA FirstLines ==
    ASSUME NEW s \in Seq(Entry), NEW t \in Seq(Entry), NEW n \in 0 .. Len(s)
    PROVE  SubSeq(s \o t, 1, n) = SubSeq(s, 1, n)
<1>1. Len(s) \in Nat /\ Len(t) \in Nat
  OBVIOUS
<1>2. CASE n = 0
  <2>1. SubSeq(s \o t, 1, n) = <<>> /\ SubSeq(s, 1, n) = <<>>
    BY <1>2, SubSeqEmpty
  <2> QED BY <2>1
<1>3. CASE n # 0
  <2>1. n \in 1 .. Len(s) /\ 1 \in 1 .. Len(s)
    BY <1>1, <1>3
  <2> QED BY <2>1, SubSeqOfConcat1
<1> QED BY <1>2, <1>3

\* A part of a good log is good.
LEMMA GoodPart ==
    ASSUME NEW s \in Seq(Entry), NEW t \in Seq(Entry), Good(s \o t)
    PROVE  Good(s) /\ GoodAt(processUserInfoFromFile(s), Len(s))
<1>1. Len(s) \in Nat /\ Len(t) \in Nat /\ Len(s \o t) = Len(s) + Len(t)
  BY ConcatProperties
<1>2. ASSUME NEW n \in 0 .. Len(s)
      PROVE  GoodAt(processUserInfoFromFile(SubSeq(s, 1, n)), n)
  <2>1. n \in 0 .. Len(s \o t)
    BY <1>1
  <2>2. SubSeq(s \o t, 1, n) = SubSeq(s, 1, n)
    BY FirstLines
  <2>3. GoodAt(processUserInfoFromFile(SubSeq(s \o t, 1, n)), n)
    BY <2>1 DEF Good
  <2> QED BY <2>2, <2>3
<1>3. SubSeq(s, 1, Len(s)) = s
  BY SubSeqFull
<1>4. GoodAt(processUserInfoFromFile(s), Len(s))
  <2>1. Len(s) \in 0 .. Len(s)
    BY <1>1
  <2>2. GoodAt(processUserInfoFromFile(SubSeq(s, 1, Len(s))), Len(s))
    BY <1>2, <2>1
  <2> QED BY <1>3, <2>2
<1> QED BY <1>2, <1>4 DEF Good

\* A good log with a line more that is good.
LEMMA GoodMore ==
    ASSUME NEW s \in Seq(Entry), NEW x \in Entry, Good(s),
           GoodAt(processUserInfoFromFile(Append(s, x)), Len(s) + 1)
    PROVE  Good(Append(s, x))
<1>1. <<x>> \in Seq(Entry) /\ Append(s, x) = s \o <<x>> /\ Append(s, x) \in Seq(Entry)
      /\ Len(s) \in Nat /\ Len(Append(s, x)) = Len(s) + 1
  BY AppendIsConcat
<1> SUFFICES ASSUME NEW n \in 0 .. Len(s) + 1
             PROVE  GoodAt(processUserInfoFromFile(SubSeq(Append(s, x), 1, n)), n)
  BY <1>1 DEF Good
<1>2. CASE n = Len(s) + 1
  <2>1. SubSeq(Append(s, x), 1, n) = Append(s, x)
    BY <1>1, <1>2, SubSeqFull
  <2> QED BY <1>2, <2>1
<1>3. CASE n \in 0 .. Len(s)
  <2>1. SubSeq(Append(s, x), 1, n) = SubSeq(s, 1, n)
    BY <1>1, <1>3, FirstLines
  <2> QED BY <1>3, <2>1 DEF Good
<1> QED BY <1>1, <1>2, <1>3

\* The empty log is good.
LEMMA GoodEmpty == Good(<<>>) /\ GoodAt(EmptyDb, 0)
<1>1. ToSet(<<>>) = {} /\ Len(<<>>) = 0 /\ DOMAIN <<>> = {} /\ Whos(<<>>) = <<>>
  BY DEF ToSet, Whos
<1>2. Graph(EmptyDb)
  BY <1>1, EmptyDbIs DEF Graph, IsInjective, Followees
<1>3. Similar(EmptyDb, EmptyDb) /\ Sized(EmptyDb, 0)
  BY <1>1, EmptyDbIs DEF Similar, SameFollowing, Sized
<1>4. GoodAt(EmptyDb, 0)
  BY <1>2, <1>3, EmptyDbIs DEF GoodAt
<1>5. \A n \in 0 .. Len(<<>>) : n = 0
  BY <1>1
<1>6. SubSeq(<<>>, 1, 0) = <<>>
  BY SubSeqEmpty
<1> QED BY <1>4, <1>5, <1>6, ReplayEmpty DEF Good

\* Moving the first line that is left to be copied to the copy.
LEMMA MoveLine ==
    ASSUME NEW s \in Seq(Entry), NEW t \in Seq(Entry), t # <<>>
    PROVE  Append(s, Head(t)) \o Tail(t) = s \o t
<1>1. Head(t) \in Entry /\ Tail(t) \in Seq(Entry) /\ t = <<Head(t)>> \o Tail(t)
  BY HeadTailProperties
<1>2. <<Head(t)>> \in Seq(Entry) /\ Append(s, Head(t)) = s \o <<Head(t)>>
  BY <1>1, AppendIsConcat
<1>3. (s \o <<Head(t)>>) \o Tail(t) = s \o (<<Head(t)>> \o Tail(t))
  BY <1>1, <1>2, ConcatAssociative
<1> QED BY <1>1, <1>2, <1>3

-----------------------------------------------------------------------------
(* Steps *)

\* The log is good whatever is left to be copied.
LEMMA LogIsGood ==
    ASSUME ReplayInv
    PROVE  /\ log \in Seq(Entry) /\ rest \in Seq(Entry) /\ Len(log) \in Nat /\ Len(rest) \in Nat
           /\ Good(log) /\ GoodAt(processUserInfoFromFile(log), Len(log))
<1>1. log \in Seq(Entry) /\ rest \in Seq(Entry)
  BY DEF ReplayInv, KnownInv, LogTypes
<1>2. Len(log) \in Nat /\ Len(rest) \in Nat
  BY <1>1
<1> QED BY <1>1, <1>2, GoodPart DEF ReplayInv, GoodLog

\* The part of the invariant that KnownInvariance does not give.
Rest == Lengths /\ GoodLog /\ Copying /\ Settled /\ Writing /\ Checked

\* Pairs of indices in at.
AtType == (0 .. MaxLog) \X (0 .. MaxLog)

\* The pair that a call starts with.
LEMMA AtZero == <<0, 0>> \in AtType /\ [t \in Thread |-> <<0, 0>>] \in [Thread -> AtType]
<1> DEFINE zero == <<0, 0>>
<1>1. zero \in AtType
  BY UserLogAssumption DEF AtType
<1> HIDE DEF zero
<1>2. [t \in Thread |-> zero] \in [Thread -> AtType]
  BY <1>1
<1> QED BY <1>1, <1>2 DEF zero

\* A server that dies.
LEMMA ReplayDead ==
    ASSUME ReplayInv, Die, UNCHANGED <<log, acked>>, crashes' \in 0 .. MaxCrashes
    PROVE  Rest'
<1>1. log \in Seq(Entry) /\ rest \in Seq(Entry) /\ Len(log) \in Nat /\ Len(rest) \in Nat
      /\ Good(log)
  BY LogIsGood
<1>2. /\ mode' = "down" /\ rest' = <<>> /\ pc' = [t \in Thread |-> "idle"]
      /\ at' = [t \in Thread |-> <<0, 0>>] /\ log' = log /\ acked' = acked
  BY DEF Die
<1>3. log' \o rest' = log
  BY <1>1, <1>2, ConcatEmptySeq
<1>4. GoodLog'
  BY <1>1, <1>3 DEF GoodLog
<1>5. Lengths'
  <2>1. Len(log') + Len(rest') <= MaxLog
    <3>1. Len(rest') = 0 /\ Len(log') = Len(log)
      BY <1>2
    <3>2. Len(log) + Len(rest) <= MaxLog /\ MaxLog \in Nat
      BY UserLogAssumption DEF ReplayInv, Lengths
    <3> QED BY <1>1, <3>1, <3>2
  <2>2. acked' \subseteq Entry
    BY <1>2 DEF ReplayInv, Lengths
  <2>3. at' \in [Thread -> (0 .. MaxLog) \X (0 .. MaxLog)]
    BY <1>2, AtZero DEF AtType
  <2>4. \A t \in Thread : pc'[t] = "idle"
    BY <1>2
  <2> QED BY <1>2, <2>1, <2>2, <2>3, <2>4 DEF Lengths, Modes
<1>6. Copying' /\ Settled' /\ Writing' /\ Checked'
  <2>1. \A t \in Thread : pc'[t] = "idle"
    BY <1>2
  <2> QED BY <1>2, <2>1 DEF Copying, Settled, Writing, Checked
<1> QED BY <1>4, <1>5, <1>6 DEF Rest

\* Starting up.
LEMMA ReplayStart ==
    ASSUME ReplayInv, initializeData
    PROVE  Rest'
<1> DEFINE P == processUserInfoFromFile(log)
<1>1. log \in Seq(Entry) /\ rest \in Seq(Entry) /\ Len(log) \in Nat /\ Len(rest) \in Nat
      /\ Good(log) /\ GoodAt(P, Len(log))
  BY LogIsGood
<1>2. /\ Len(log) + Len(rest) <= MaxLog /\ MaxLog \in Nat /\ acked \subseteq Entry
      /\ at \in [Thread -> (0 .. MaxLog) \X (0 .. MaxLog)] /\ crashes \in 0 .. MaxCrashes
      /\ mode = "down" => rest = <<>>
  BY UserLogAssumption DEF ReplayInv, Lengths
<1>3. mode # "up" /\ \A t \in Thread : pc[t] = "idle"
  <2>1. mode # "up"
    BY DEF initializeData, StartLocal, StartSync, SyncFetched, SyncFailed, SyncLine,
           SyncBroken, SyncDone
  <2> QED BY <2>1, PendingNone DEF ReplayInv, KnownInv
<1> HIDE DEF P
<1>4. CASE SyncFailed \/ SyncBroken
  <2>1. Die /\ UNCHANGED <<log, acked, crashes>>
    BY <1>4 DEF SyncFailed, SyncBroken
  <2> QED BY <1>2, <2>1, ReplayDead
<1>5. ASSUME UNCHANGED <<pc, at, acked, crashes>>, Modes',
             mode' \in {"down", "up"} => rest' = <<>>, Len(log') + Len(rest') <= MaxLog
      PROVE  Lengths' /\ Writing' /\ Checked'
  <2>1. \A t \in Thread : pc'[t] = "idle"
    BY <1>3, <1>5
  <2> QED BY <1>2, <1>5, <2>1 DEF Lengths, Writing, Checked
<1>6. CASE StartLocal
  <2>1. /\ mode = "down" /\ mode' = "up" /\ db' = P /\ log' = log /\ rest' = rest
        /\ UNCHANGED <<pc, at, acked, crashes>>
    BY <1>6 DEF StartLocal, P
  <2>2. Lengths' /\ Writing' /\ Checked'
    BY <1>2, <1>5, <2>1 DEF Modes
  <2>3. GoodLog'
    BY <2>1 DEF ReplayInv, GoodLog
  <2>4. Copying' /\ Settled'
    <3>1. processUserInfoFromFile(log') = P
      BY <2>1 DEF P
    <3> QED BY <1>1, <2>1, <3>1 DEF Copying, Settled, GoodAt
  <2> QED BY <2>2, <2>3, <2>4 DEF Rest
<1>7. CASE StartSync
  <2>1. /\ mode = "down" /\ mode' = "fetch" /\ log' = <<>> /\ rest' = log /\ rest = <<>>
        /\ UNCHANGED <<pc, at, acked, crashes>>
    BY <1>2, <1>7 DEF StartSync
  <2>2. Lengths' /\ Writing' /\ Checked'
    <3>1. Len(log') = 0 /\ Len(rest') = Len(log) /\ Len(rest) = 0
      BY <2>1
    <3>2. Len(log') + Len(rest') <= MaxLog
      BY <1>1, <1>2, <3>1
    <3> QED BY <1>5, <2>1, <3>2 DEF Modes
  <2>3. GoodLog'
    <3>1. log' \o rest' = log
      BY <1>1, <2>1, ConcatEmptySeq
    <3> QED BY <1>1, <3>1 DEF GoodLog
  <2>4. Copying' /\ Settled'
    BY <2>1 DEF Copying, Settled
  <2> QED BY <2>2, <2>3, <2>4 DEF Rest
<1>8. CASE SyncFetched
  <2>1. /\ mode' = "copy" /\ log' = log /\ rest' = rest /\ db' = db
        /\ log = <<>> /\ db = EmptyDb /\ UNCHANGED <<pc, at, acked, crashes>>
    BY <1>8 DEF SyncFetched, ReplayInv, KnownInv, Memory
  <2>2. Lengths' /\ Writing' /\ Checked'
    BY <1>2, <1>5, <2>1 DEF Modes
  <2>3. GoodLog'
    BY <2>1 DEF ReplayInv, GoodLog
  <2>4. Copying' /\ Settled'
    <3>1. db' = processUserInfoFromFile(log')
      BY <2>1, ReplayEmpty
    <3> QED BY <2>1, <3>1 DEF Copying, Settled
  <2> QED BY <2>2, <2>3, <2>4 DEF Rest
<1>9. CASE SyncLine
  <2>1. /\ mode = "copy" /\ mode' = "copy" /\ rest # <<>> /\ log' = Append(log, Head(rest))
        /\ rest' = Tail(rest) /\ db' = ReplayLine(db, Head(rest))
        /\ UNCHANGED <<pc, at, acked, crashes>>
    BY <1>9 DEF SyncLine
  <2>2. Head(rest) \in Entry /\ Len(Tail(rest)) = Len(rest) - 1
        /\ Len(Append(log, Head(rest))) = Len(log) + 1
    BY <1>1, <2>1, HeadTailProperties, AppendProperties
  <2>3. Lengths' /\ Writing' /\ Checked'
    <3>1. Len(log') + Len(rest') <= MaxLog
      BY <1>1, <1>2, <2>1, <2>2
    <3> QED BY <1>5, <2>1, <3>1 DEF Modes
  <2>4. GoodLog'
    <3>1. log' \o rest' = log \o rest
      BY <1>1, <2>1, MoveLine
    <3> QED BY <3>1 DEF ReplayInv, GoodLog
  <2>5. Copying' /\ Settled'
    <3>1. db = processUserInfoFromFile(log)
      BY <2>1 DEF ReplayInv, Copying
    <3>2. db' = processUserInfoFromFile(log')
      BY <1>1, <2>1, <2>2, <3>1, ReplayAppend
    <3> QED BY <2>1, <3>2 DEF Copying, Settled
  <2> QED BY <2>3, <2>4, <2>5 DEF Rest
<1>10. CASE SyncDone
  <2>1. /\ mode = "copy" /\ mode' = "up" /\ log' = log /\ rest' = rest /\ db' = db
        /\ rest = <<>> /\ UNCHANGED <<pc, at, acked, crashes>>
    BY <1>10 DEF SyncDone
  <2>2. Lengths' /\ Writing' /\ Checked'
    BY <1>2, <1>5, <2>1 DEF Modes
  <2>3. GoodLog'
    BY <2>1 DEF ReplayInv, GoodLog
  <2>4. Copying' /\ Settled'
    <3>1. db' = P /\ processUserInfoFromFile(log') = P
      BY <2>1 DEF ReplayInv, Copying, P
    <3> QED BY <1>1, <2>1, <3>1 DEF Copying, Settled, GoodAt
  <2> QED BY <2>2, <2>3, <2>4 DEF Rest
<1> QED BY <1>4, <1>6, <1>7, <1>8, <1>9, <1>10 DEF initializeData

\* While nobody is writing, memory is what the log gives.
LEMMA Quiet ==
    ASSUME Alone, ReplayInv, NEW t \in Thread, pc[t] \notin {"idle", "write"}
    PROVE  /\ mode = "up" /\ rest = <<>> /\ req[t] \in Request /\ db \in DbType
           /\ Graph(db) /\ Similar(db, processUserInfoFromFile(log))
<1>1. mode = "up" /\ req[t] \in Request /\ db \in DbType
  BY DEF ReplayInv, KnownInv, Calls, Memory
<1>2. \A s \in Thread : pc[s] # "write"
  BY DEF Alone
<1> QED BY <1>1, <1>2 DEF ReplayInv, Settled, Lengths

\* A step that leaves the file and memory alone, after which nobody is writing.
LEMMA ReplayKept ==
    ASSUME Alone, ReplayInv, NEW t \in Thread, pc[t] # "write", mode = "up",
           mode' = mode, db' = db, log' = log, rest' = rest, crashes' = crashes,
           pc'[t] # "write",
           pc'[t] \in {"lookup", "update"} => Len(log) < MaxLog,
           at' \in [Thread -> AtType], acked' \subseteq Entry,
           pc'[t] = "update" => Checked'
    PROVE  Rest'
<1>1. \A s \in Thread : s = t
  BY DEF Alone
<1>2. Graph(db) /\ Similar(db, processUserInfoFromFile(log))
  BY <1>1 DEF ReplayInv, Settled
<1>3. Lengths'
  BY <1>1 DEF ReplayInv, Lengths, Modes, AtType
<1>4. GoodLog' /\ Copying'
  BY DEF ReplayInv, GoodLog, Copying
<1>5. Settled' /\ Writing'
  BY <1>1, <1>2 DEF Settled, Writing
<1>6. Checked'
  <2>1. CASE pc'[t] # "update"
    BY <1>1, <2>1 DEF Checked
  <2> QED BY <2>1
<1> QED BY <1>3, <1>4, <1>5, <1>6 DEF Rest

\* The vectors in memory are no longer than the log.
LEMMA IndicesFit ==
    ASSUME ReplayInv, NEW u \in User, NEW v \in User, db \in DbType,
           Similar(db, processUserInfoFromFile(log))
    PROVE  <<indexOfFollowing(db, u, v), indexOfFollower(db, v, u)>> \in AtType
<1> DEFINE r == processUserInfoFromFile(log)
           i == indexOfFollowing(db, u, v)
           j == indexOfFollower(db, v, u)
           l == Len(db.following[u])
           m == Len(db.followers[v])
<1>1. r \in DbType /\ Sized(r, Len(log)) /\ Len(log) \in Nat /\ Len(rest) \in Nat
  BY LogIsGood DEF GoodAt
<1>2. Len(log) + Len(rest) <= MaxLog /\ MaxLog \in Nat
  BY UserLogAssumption DEF ReplayInv, Lengths
<1>3. l \in Nat /\ m \in Nat
  <2>1. db.following[u] \in Seq(FollowType) /\ db.followers[v] \in Seq(User)
    BY FolloweesAre
  <2> QED BY <2>1
<1>4. l = Len(r.following[u]) /\ m = Len(r.followers[v])
  BY DEF Similar, SameFollowing
<1>5. l <= MaxLog /\ m <= MaxLog
  <2> HIDE DEF l, m, r
  <2>1. l <= Len(log) /\ m <= Len(log)
    BY <1>1, <1>4 DEF Sized
  <2> QED BY <1>1, <1>2, <1>3, <2>1
<1>6. i = 0 \/ i \in 1 .. l
  BY IndexOfFollowing
<1>7. j = 0 \/ j \in 1 .. m
  BY IndexOfFollower
<1> HIDE DEF i, j, l, m
<1>8. i \in 0 .. MaxLog /\ j \in 0 .. MaxLog
  BY <1>2, <1>3, <1>5, <1>6, <1>7
<1> QED BY <1>8 DEF i, j, AtType

\* A call that arrives, looks up or returns.
LEMMA ReplayLookup ==
    ASSUME Alone, ReplayInv, NEW t \in Thread,
           Receive(t) \/ LookupLogin(t) \/ LookupPair(t) \/ Reply(t)
    PROVE  Rest'
<1>1. /\ pc \in [Thread -> {"idle", "lookup", "update", "write", "reply"}]
      /\ req \in [Thread -> Request \cup {NoRequest}]
  BY DEF ReplayInv, KnownInv, LogTypes
<1>2. /\ at \in [Thread -> AtType] /\ acked \subseteq Entry
      /\ pc[t] = "lookup" => Len(log) < MaxLog
  BY DEF ReplayInv, Lengths, AtType
<1>3. \A s \in Thread : s = t
  BY DEF Alone
<1>4. Return(t) => pc'[t] = "idle" /\ at' \in [Thread -> AtType]
  <2> SUFFICES ASSUME Return(t) PROVE pc'[t] = "idle" /\ at' \in [Thread -> AtType]
    OBVIOUS
  <2> DEFINE zero == <<0, 0>>
  <2>1. zero \in AtType
    BY AtZero
  <2>2. at' = [at EXCEPT ![t] = zero]
    BY DEF Return
  <2> HIDE DEF zero
  <2>3. at' \in [Thread -> AtType]
    BY <1>2, <2>1, <2>2
  <2> QED BY <1>1, <2>3 DEF Return
<1>5. CASE Receive(t)
  <2>1. /\ pc[t] = "idle" /\ pc'[t] = "lookup" /\ mode = "up" /\ Len(log) < MaxLog
        /\ UNCHANGED <<mode, db, log, rest, at, acked, crashes>>
    BY <1>1, <1>5 DEF Receive
  <2> QED BY <1>2, <2>1, ReplayKept
<1>6. CASE LookupLogin(t)
  <2>1. /\ pc[t] = "lookup" /\ UNCHANGED <<mode, db, log, rest, crashes>>
        /\ acked' \in {acked, acked \cup {Line(req[t])}}
    BY <1>6 DEF LookupLogin
  <2>2. mode = "up" /\ req[t] \in Request
    BY <2>1, Quiet
  <2>5. acked' \subseteq Entry
    BY <1>2, <2>1, <2>2, EntryOfRequest
  <2>3. CASE Return(t)
    <3>1. pc'[t] = "idle" /\ at' \in [Thread -> AtType] /\ acked' \subseteq Entry
      BY <1>4, <2>1, <2>3, <2>5
    <3> QED BY <2>1, <2>2, <3>1, ReplayKept
  <2>4. CASE ~Return(t)
    <3>1. /\ req[t].op = "user" /\ ~Exists(db, req[t].user)
          /\ pc' = [pc EXCEPT ![t] = "update"] /\ req' = req /\ at' = at
      BY <1>6, <2>4 DEF LookupLogin
    <3>2. Ready(db, req[t])
      BY <3>1 DEF Ready
    <3>3. Checked'
      BY <1>3, <2>1, <3>1, <3>2 DEF Checked
    <3>4. pc'[t] = "update"
      BY <1>1, <3>1
    <3> QED BY <1>2, <2>1, <2>2, <2>5, <3>1, <3>3, <3>4, ReplayKept
  <2> QED BY <2>3, <2>4
<1>7. CASE LookupPair(t)
  <2> DEFINE r == req[t]
             i == indexOfFollowing(db, r.user, r.target)
             j == indexOfFollower(db, r.target, r.user)
  <2>1. /\ pc[t] = "lookup" /\ r.op \in {"follow", "unfollow"} /\ Exists(db, r.target)
        /\ UNCHANGED <<mode, db, log, rest, acked, crashes>>
    BY <1>7 DEF LookupPair
  <2>2. /\ mode = "up" /\ r \in Request /\ db \in DbType
        /\ Similar(db, processUserInfoFromFile(log))
    BY <2>1, Quiet
  <2>3. CASE Return(t)
    <3>1. pc'[t] = "idle" /\ at' \in [Thread -> AtType] /\ acked' \subseteq Entry
      BY <1>2, <1>4, <2>1, <2>3
    <3> QED BY <2>1, <2>2, <3>1, ReplayKept
  <2>4. CASE ~Return(t)
    <3>1. /\ (r.op = "follow") # (i # 0) /\ pc' = [pc EXCEPT ![t] = "update"] /\ req' = req
          /\ at' = [at EXCEPT ![t] = IF r.op = "unfollow" THEN <<i, j>> ELSE @]
      BY <1>7, <2>4 DEF LookupPair
    <3>2. r.user \in User /\ r.target \in User /\ Exists(db, r.user)
      BY <2>1, <2>2, RequestForms DEF ReplayInv, KnownInv, LookedUp
    <3>3. i = 0 <=> r.target \notin Followees(db, r.user)
      <4>1. \/ i = 0 /\ r.target \notin Followees(db, r.user)
            \/ i \in 1 .. Len(db.following[r.user]) /\ r.target \in Followees(db, r.user)
        BY <2>2, <3>2, IndexOfFollowing
      <4> HIDE DEF i, r
      <4> QED BY <4>1
    <3>4. Ready(db, r)
      BY <2>1, <3>1, <3>2, <3>3 DEF Ready
    <3>5. <<i, j>> \in AtType
      BY <2>2, <3>2, IndicesFit
    <3>6. at' \in [Thread -> AtType] /\ (r.op = "unfollow" => at'[t] = <<i, j>>)
      <4> DEFINE is == <<i, j>>
      <4> HIDE DEF is
      <4>1. is \in AtType /\ at' = [at EXCEPT ![t] = IF r.op = "unfollow" THEN is ELSE @]
        BY <3>1, <3>5 DEF is
      <4>2. CASE r.op = "unfollow"
        <5>1. at' = [at EXCEPT ![t] = is]
          BY <4>1, <4>2
        <5> QED BY <1>2, <4>1, <5>1 DEF is
      <4>3. CASE r.op # "unfollow"
        <5>1. at' = at
          BY <1>2, <4>1, <4>3
        <5> QED BY <1>2, <4>3, <5>1
      <4> QED BY <4>2, <4>3
    <3>7. Checked'
      <4>1. \A s \in Thread : s = t /\ req'[s] = r /\ db' = db
        BY <1>3, <2>1, <3>1
      <4> QED BY <3>4, <3>6, <4>1 DEF Checked
    <3>8. pc'[t] = "update"
      BY <1>1, <3>1
    <3> QED BY <1>2, <2>1, <2>2, <3>6, <3>7, <3>8, ReplayKept
  <2> QED BY <2>3, <2>4
<1>8. CASE Reply(t)
  <2>1. /\ pc[t] = "reply" /\ acked' = acked \cup {Line(req[t])} /\ Return(t)
        /\ UNCHANGED <<mode, db, log, rest, crashes>>
    BY <1>8 DEF Reply
  <2>2. mode = "up" /\ req[t] \in Request
    BY <2>1, Quiet
  <2>3. acked' \subseteq Entry
    <3>1. Line(req[t]) \in Entry
      BY <2>2, EntryOfRequest
    <3> QED BY <1>2, <2>1, <3>1
  <2> QED BY <1>2, <1>4, <2>1, <2>2, <2>3, ReplayKept
<1> QED BY <1>5, <1>6, <1>7, <1>8

\* The change of memory is one that the line will repeat.
LEMMA ReplayUpdate ==
    ASSUME Alone, ReplayInv, NEW t \in Thread, Update(t)
    PROVE  Rest'
<1> DEFINE q == req[t]
           P == processUserInfoFromFile(log)
           r == ReplayLine(P, Line(q))
<1>1. /\ pc[t] = "update" /\ pc' = [pc EXCEPT ![t] = "write"]
      /\ UNCHANGED <<mode, log, rest, req, at, acked, crashes>>
  BY DEF Update
<1>2. /\ mode = "up" /\ q \in Request /\ db \in DbType /\ Graph(db) /\ Similar(db, P)
  BY <1>1, Quiet
<1>3. /\ Len(log) \in Nat /\ P \in DbType /\ Sized(P, Len(log))
  BY LogIsGood DEF GoodAt
<1>4. Ready(db, q) /\ q.op = "unfollow" =>
         at[t] = <<indexOfFollowing(db, q.user, q.target), indexOfFollower(db, q.target, q.user)>>
  BY <1>1 DEF ReplayInv, Checked
<1>5. Ready(db, q)
  BY <1>1 DEF ReplayInv, Checked
<1>6. Follows(db, P, q, Len(log))
  BY <1>2, <1>3, <1>5, OneRequest
<1>7. db' = Change(db, q)
  <2> HIDE DEF P, r
  <2>1. CASE q.op = "user"
    BY <2>1 DEF Update, Change
  <2>2. CASE q.op = "follow"
    BY <2>2 DEF Update, Change
  <2>3. CASE q.op = "unfollow"
    <3> DEFINE i == indexOfFollowing(db, q.user, q.target)
               j == indexOfFollower(db, q.target, q.user)
    <3>1. at[t] = <<i, j>>
      BY <1>4, <1>5, <2>3
    <3>2. db' = EraseFollow(db, q.user, q.target, at[t][1], at[t][2])
      BY <2>3 DEF Update
    <3> HIDE DEF i, j, q
    <3>3. at[t][1] = i /\ at[t][2] = j
      BY <3>1
    <3>4. Change(db, q) = EraseFollow(db, q.user, q.target, i, j)
      BY <2>3 DEF Change, i, j
    <3> QED BY <3>2, <3>3, <3>4
  <2> QED BY <1>2, <2>1, <2>2, <2>3, RequestForms
<1>8. Graph(db') /\ Similar(db', r) /\ db' \in DbType /\ r \in DbType /\ Sized(r, Len(log) + 1)
  BY <1>6, <1>7 DEF Follows
<1>9. GoodAt(r, Len(log) + 1)
  <2> HIDE DEF r
  <2>1. Graph(r) /\ Similar(r, r)
    BY <1>8, SimilarGood
  <2> QED BY <1>8, <2>1 DEF GoodAt
<1>10. \A s \in Thread : s = t /\ pc'[s] = "write" /\ req'[s] = q
  BY <1>1 DEF Alone, ReplayInv, KnownInv, LogTypes
<1>11. Lengths'
  BY <1>1, <1>10 DEF ReplayInv, Lengths, Modes
<1>12. GoodLog' /\ Copying'
  BY <1>1, <1>2 DEF ReplayInv, GoodLog, Copying
<1>13. Settled' /\ Checked'
  BY <1>10 DEF Settled, Checked
<1>14. Writing'
  <2>1. ReplayLine(processUserInfoFromFile(log'), Line(req'[t])) = r /\ Len(log') = Len(log)
    BY <1>1
  <2> HIDE DEF r
  <2> QED BY <1>8, <1>9, <1>10, <2>1 DEF Writing
<1> QED BY <1>11, <1>12, <1>13, <1>14 DEF Rest

\* The append makes the log give what memory holds.
LEMMA ReplayWrite ==
    ASSUME Alone, ReplayInv, NEW t \in Thread, Write(t)
    PROVE  Rest'
<1> DEFINE q == req[t]
           P == processUserInfoFromFile(log)
           r == ReplayLine(P, Line(q))
<1>1. /\ pc[t] = "write" /\ pc' = [pc EXCEPT ![t] = "reply"] /\ log' = Append(log, Line(q))
      /\ UNCHANGED <<mode, db, rest, req, at, acked, crashes>>
  BY DEF Write
<1>2. mode = "up" /\ q \in Request /\ rest = <<>> /\ Line(q) \in Entry
  BY <1>1, EntryOfRequest DEF ReplayInv, KnownInv, Calls, Lengths
<1>3. /\ log \in Seq(Entry) /\ Len(log) \in Nat /\ Good(log)
  BY LogIsGood
<1>4. Graph(db) /\ Similar(db, r) /\ GoodAt(r, Len(log) + 1)
  BY <1>1 DEF ReplayInv, Writing
<1>5. processUserInfoFromFile(log') = r
  BY <1>1, <1>2, <1>3, ReplayAppend
<1> HIDE DEF r, P
<1>6. log' \in Seq(Entry) /\ Len(log') = Len(log) + 1
  BY <1>1, <1>2, <1>3, AppendProperties
<1>7. GoodLog'
  <2>1. log' \o rest' = log'
    BY <1>1, <1>2, <1>6, ConcatEmptySeq
  <2>2. Good(log')
    BY <1>1, <1>2, <1>3, <1>4, <1>5, GoodMore
  <2> QED BY <2>1, <2>2 DEF GoodLog
<1>8. \A s \in Thread : s = t /\ pc'[s] = "reply"
  BY <1>1 DEF Alone, ReplayInv, KnownInv, LogTypes
<1>9. Lengths'
  <2>1. Len(log) < MaxLog /\ MaxLog \in Nat /\ Len(rest) = 0
    BY <1>1, <1>2, UserLogAssumption DEF ReplayInv, Lengths
  <2>2. Len(log') + Len(rest') <= MaxLog
    BY <1>1, <1>3, <1>6, <2>1
  <2> QED BY <1>1, <1>8, <2>2 DEF ReplayInv, Lengths, Modes
<1>10. Copying' /\ Settled'
  BY <1>1, <1>2, <1>4, <1>5 DEF Copying, Settled
<1>11. Writing' /\ Checked'
  BY <1>8 DEF Writing, Checked
<1> QED BY <1>7, <1>9, <1>10, <1>11 DEF Rest

\* An unfollow never finds its indices stale.
LEMMA NoStaleErase ==
    ASSUME Alone, ReplayInv, NEW t \in Thread
    PROVE  ~StaleErase(t)
<1> SUFFICES ASSUME StaleErase(t) PROVE FALSE
  OBVIOUS
<1> DEFINE q == req[t]
           i == indexOfFollowing(db, q.user, q.target)
           j == indexOfFollower(db, q.target, q.user)
<1>1. /\ pc[t] = "update" /\ q.op = "unfollow"
      /\ ~ErasesInside(db, q.user, q.target, at[t][1], at[t][2])
  BY DEF StaleErase
<1>2. q \in Request /\ db \in DbType /\ Graph(db)
  BY <1>1, Quiet
<1>3. q.user \in User /\ q.target \in User
  BY <1>1, <1>2, RequestForms
<1>4. q.target \in Followees(db, q.user) /\ at[t] = <<i, j>>
  BY <1>1 DEF ReplayInv, Checked, Ready
<1>5. ErasesInside(db, q.user, q.target, i, j)
  BY <1>2, <1>3, <1>4, GraphErase
<1> HIDE DEF i, j, q
<1>6. at[t][1] = i /\ at[t][2] = j
  BY <1>4
<1> QED BY <1>1, <1>5, <1>6

-----------------------------------------------------------------------------
(* Theorems *)

\* The invariant holds at first, and every step keeps it.
LEMMA ReplayInit == Init => ReplayInv
<1> SUFFICES ASSUME Init PROVE ReplayInv
  OBVIOUS
<1>1. KnownInv
  BY KnownInit
<1>2. /\ log = <<>> /\ rest = <<>> /\ mode = "down" /\ acked = {} /\ crashes = 0
      /\ at = [t \in Thread |-> <<0, 0>>] /\ \A t \in Thread : pc[t] = "idle"
  BY DEF Init
<1>3. log \o rest = <<>> /\ Len(log) = 0 /\ Len(rest) = 0
  BY <1>2
<1>4. GoodLog
  BY <1>3, GoodEmpty DEF GoodLog
<1>5. at \in [Thread -> (0 .. MaxLog) \X (0 .. MaxLog)]
  BY <1>2, AtZero DEF AtType
<1>6. Lengths
  BY <1>2, <1>3, <1>5, UserLogAssumption DEF Lengths, Modes
<1>7. Copying /\ Settled /\ Writing /\ Checked
  BY <1>2 DEF Copying, Settled, Writing, Checked
<1> QED BY <1>1, <1>4, <1>6, <1>7 DEF ReplayInv

\* Every step keeps the invariant.
LEMMA ReplayStep ==
    ASSUME Alone, ReplayInv, [Next]_vars
    PROVE  ReplayInv'
<1>1. KnownInv'
  BY KnownStep DEF ReplayInv
<1>2. Rest'
  <2>1. CASE initializeData
    BY <2>1, ReplayStart
  <2>2. CASE Crash
    <3>1. /\ Die /\ UNCHANGED <<log, acked>> /\ crashes < MaxCrashes /\ crashes' = crashes + 1
          /\ crashes \in 0 .. MaxCrashes /\ MaxCrashes \in Nat
      BY <2>2, UserLogAssumption DEF Crash, ReplayInv, Lengths
    <3>2. crashes' \in 0 .. MaxCrashes
      BY <3>1
    <3> QED BY <3>1, <3>2, ReplayDead
  <2>3. ASSUME NEW t \in Thread, Serve(t) PROVE Rest'
    <3>1. CASE UnknownTarget(t)
      <4>1. Die /\ UNCHANGED <<log, acked>> /\ crashes' \in 0 .. MaxCrashes
        BY <3>1 DEF UnknownTarget, ReplayInv, Lengths
      <4> QED BY <4>1, ReplayDead
    <3> QED BY <2>3, <3>1, ReplayLookup, ReplayUpdate, ReplayWrite, NoStaleErase DEF Serve
  <2>4. CASE UNCHANGED vars
    <3>1. /\ mode' = mode /\ db' = db /\ log' = log /\ rest' = rest /\ pc' = pc /\ req' = req
          /\ at' = at /\ acked' = acked /\ crashes' = crashes
      BY <2>4 DEF vars
    <3>2. Lengths' /\ Copying' /\ GoodLog'
      BY <3>1 DEF ReplayInv, Lengths, Modes, Copying, GoodLog
    <3>3. Settled' /\ Writing' /\ Checked'
      BY <3>1 DEF ReplayInv, Settled, Writing, Checked
    <3> QED BY <3>2, <3>3 DEF Rest
  <2> QED BY <2>1, <2>2, <2>3, <2>4 DEF Next
<1> QED BY <1>1, <1>2 DEF ReplayInv, Rest

\* With one request at a time, the log gives at every moment what memory holds,
\* wherever the server crashes and even if a copy of a log fails half-way.
THEOREM ReplayInvariance ==
    ASSUME Alone
    PROVE  Spec => []ReplayInv
<1>1. Init => ReplayInv
  BY ReplayInit
<1>2. ReplayInv /\ [Next]_vars => ReplayInv'
  BY ReplayStep
<1> QED BY <1>1, <1>2, PTL DEF Spec

\* The types.
THEOREM Typing ==
    ASSUME Alone
    PROVE  Spec => []TypeOK
<1>1. ReplayInv => TypeOK
  <2> SUFFICES ASSUME ReplayInv PROVE TypeOK
    OBVIOUS
  <2>1. \A x \in Entry : x.user \in User
    <3> SUFFICES ASSUME NEW r \in Request PROVE Line(r).user \in User
      BY DEF Entry
    <3> QED BY RequestForms DEF Line, Login, Follow, UnFollow
  <2>2. db \in DbType /\ log \in Seq(Entry) /\ rest \in Seq(Entry) /\ acked \subseteq Entry
    BY DEF ReplayInv, KnownInv, LogTypes, Memory, Lengths
  <2>3. ToSet(log) \subseteq Entry /\ ToSet(rest) \subseteq Entry
    BY <2>2 DEF ToSet
  <2>4. ToSet(db.users) \subseteq User
    BY <2>2 DEF DbType, ToSet
  <2>5. ASSUME NEW u \in User
        PROVE  ToSet(db.followers[u]) \subseteq User /\ Followees(db, u) \subseteq User
    <3>1. /\ db.followers[u] \in Seq(User) /\ Followees(db, u) = ToSet(Whos(db.following[u]))
          /\ Whos(db.following[u]) \in Seq(User)
      BY <2>2, FolloweesAre, WhosIs
    <3> QED BY <3>1 DEF ToSet
  <2>6. mode \in {"down", "fetch", "copy", "up"}
    BY DEF ReplayInv, Lengths, Modes
  <2>7. \A line \in ToSet(log) \cup ToSet(rest) \cup acked \cup torn \cup wiped : line.user \in User
    BY <2>1, <2>2, <2>3 DEF ReplayInv, KnownInv, Gone
  <2> QED BY <2>2, <2>4, <2>5, <2>6, <2>7 DEF TypeOK, ReplayInv, KnownInv, LogTypes, Lengths
<1> QED BY <1>1, ReplayInvariance, PTL

\* Whenever the server dies, its log can be replayed.
THEOREM LogIsValid ==
    ASSUME Alone
    PROVE  Spec => []LogValid
<1>1. ReplayInv => LogValid
  BY LogIsGood, NotBroken DEF LogValid, GoodAt
<1> QED BY <1>1, ReplayInvariance, PTL

\* A restart between two requests changes nothing but follow times, by daylight
\* saving time and once.
THEOREM RestartFindsMemory ==
    ASSUME Alone
    PROVE  Spec => []MemoryMatchesLog
<1>1. ReplayInv => MemoryMatchesLog
  <2> SUFFICES ASSUME ReplayInv, mode \in {"copy", "up"}, \A t \in Thread : pc[t] # "write"
               PROVE  Similar(db, processUserInfoFromFile(log))
    BY DEF MemoryMatchesLog, Similar
  <2>1. CASE mode = "copy"
    BY <2>1, LogIsGood DEF ReplayInv, Copying, GoodAt
  <2>2. CASE mode = "up"
    BY <2>2 DEF ReplayInv, Settled
  <2> QED BY <2>1, <2>2
<1> QED BY <1>1, ReplayInvariance, PTL

\* No user is listed twice, and the two vectors of a follow never disagree.
THEOREM GraphConsistent ==
    ASSUME Alone
    PROVE  Spec => []FollowGraphConsistent
<1>1. ReplayInv => FollowGraphConsistent
  <2> SUFFICES ASSUME ReplayInv PROVE FollowGraphConsistent
    OBVIOUS
  <2>1. db \in DbType
    BY DEF ReplayInv, KnownInv, Memory
  <2>2. Graph(db)
    <3>1. CASE mode \in {"down", "fetch"}
      BY <3>1, GoodEmpty DEF ReplayInv, KnownInv, Memory, GoodAt
    <3>2. CASE mode = "copy"
      BY <3>2, LogIsGood DEF ReplayInv, Copying, GoodAt
    <3>3. CASE mode = "up"
      BY <3>3 DEF ReplayInv, Settled, Writing
    <3> QED BY <3>1, <3>2, <3>3 DEF ReplayInv, Lengths, Modes
  <2>3. ASSUME NEW u \in User
        PROVE  Len(db.following[u]) = Cardinality(Followees(db, u))
    <3>1. /\ Whos(db.following[u]) \in Seq(User) /\ IsInjective(Whos(db.following[u]))
          /\ Len(Whos(db.following[u])) = Len(db.following[u])
          /\ Followees(db, u) = ToSet(Whos(db.following[u]))
      BY <2>1, <2>2, FolloweesAre, WhosIs DEF Graph
    <3> QED BY <3>1, LengthOfInjective
  <2> QED BY <2>2, <2>3 DEF Graph, FollowGraphConsistent
<1> QED BY <1>1, ReplayInvariance, PTL

\* Nothing that was followed, unfollowed and replayed makes an UnFollow that is
\* let through find the vectors otherwise than it needs them.
THEOREM OnlyUnknownKills ==
    ASSUME Alone
    PROVE  Spec => OnlyUnknownNamesKill
<1>1. ASSUME ReplayInv, [Next]_vars, mode = "up", mode' = "down"
      PROVE  crashes' # crashes \/ \E t \in Thread : pc[t] = "lookup" /\ ~Exists(db, req[t].target)
  <2>1. CASE initializeData
    BY <1>1, <2>1 DEF initializeData, StartLocal, StartSync, SyncFetched, SyncFailed,
                      SyncLine, SyncBroken, SyncDone
  <2>2. CASE Crash
    <3>1. crashes' = crashes + 1 /\ crashes \in Nat
      BY <1>1, <2>2 DEF Crash, ReplayInv, Lengths
    <3> QED BY <3>1
  <2>3. ASSUME NEW t \in Thread, Serve(t)
        PROVE  \E s \in Thread : pc[s] = "lookup" /\ ~Exists(db, req[s].target)
    <3>1. ~StaleErase(t)
      BY <1>1, NoStaleErase
    <3>2. CASE UnknownTarget(t)
      BY <3>2 DEF UnknownTarget
    <3>3. CASE Receive(t) \/ LookupLogin(t) \/ LookupPair(t) \/ Update(t) \/ Write(t) \/ Reply(t)
      BY <1>1, <3>3 DEF Receive, LookupLogin, LookupPair, Update, Write, Reply
    <3> QED BY <2>3, <3>1, <3>2, <3>3 DEF Serve
  <2>4. CASE UNCHANGED vars
    BY <1>1, <2>4 DEF vars
  <2> QED BY <1>1, <2>1, <2>2, <2>3, <2>4 DEF Next
<1> QED BY <1>1, ReplayInvariance, PTL DEF Spec, OnlyUnknownNamesKill
=============================================================================
