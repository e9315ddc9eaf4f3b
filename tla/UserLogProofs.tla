--------------------------- MODULE UserLogProofs ---------------------------
(***************************************************************************)
(* Theorems about UserLog, for any sets of users, threads and timestamps   *)
(* and any number of crashes.  Durability is about one request at a time.  *)
(***************************************************************************)
EXTENDS UserLog, Lemmas, SequenceTheorems

\* The lines that requests write.
Entry == {Line(r) : r \in Request}

\* What the proof needs to know of the types.
LogTypes ==
    /\ log \in Seq(Entry)
    /\ rest \in Seq(Entry)
    /\ pc \in [Thread -> {"idle", "lookup", "update", "write", "reply"}]
    /\ req \in [Thread -> Request \cup {NoRequest}]

-----------------------------------------------------------------------------

\* Appending a line adds it to the lines.
LEMMA ToSetAppend ==
    ASSUME NEW S, NEW s \in Seq(S), NEW x \in S
    PROVE  /\ Append(s, x) \in Seq(S)
           /\ ToSet(Append(s, x)) = ToSet(s) \cup {x}
<1>1. /\ Append(s, x) \in Seq(S)
      /\ Len(s) \in Nat
      /\ DOMAIN s = 1 .. Len(s)
      /\ DOMAIN Append(s, x) = 1 .. Len(s) + 1
      /\ \A i \in 1 .. Len(s) : Append(s, x)[i] = s[i]
      /\ Append(s, x)[Len(s) + 1] = x
  OBVIOUS
<1>2. ToSet(Append(s, x)) \subseteq ToSet(s) \cup {x}
  BY <1>1 DEF ToSet
<1>3. ToSet(s) \subseteq ToSet(Append(s, x))
  <2> SUFFICES ASSUME NEW i \in 1 .. Len(s) PROVE s[i] \in ToSet(Append(s, x))
    BY <1>1 DEF ToSet
  <2>1. i \in DOMAIN Append(s, x) /\ Append(s, x)[i] = s[i]
    BY <1>1
  <2> QED BY <2>1 DEF ToSet
<1>4. x \in ToSet(Append(s, x))
  <2>1. Len(s) + 1 \in DOMAIN Append(s, x)
    BY <1>1
  <2> QED BY <1>1, <2>1 DEF ToSet
<1> QED BY <1>1, <1>2, <1>3, <1>4

\* A log that is not empty consists of its first line and the others.
LEMMA ToSetHeadTail ==
    ASSUME NEW S, NEW s \in Seq(S), s # <<>>
    PROVE  /\ Head(s) \in S
           /\ Tail(s) \in Seq(S)
           /\ ToSet(s) = {Head(s)} \cup ToSet(Tail(s))
<1>1. Head(s) = s[1] /\ Head(s) \in S /\ Tail(s) \in Seq(S) /\ Len(s) \in Nat /\ Len(s) >= 1
  OBVIOUS
<1>2. /\ Len(Tail(s)) = Len(s) - 1
      /\ \A i \in 1 .. Len(s) - 1 : Tail(s)[i] = s[i + 1]
  BY <1>1
<1>3. ToSet(s) \subseteq {Head(s)} \cup ToSet(Tail(s))
  <2> SUFFICES ASSUME NEW i \in 1 .. Len(s)
               PROVE  s[i] = s[1] \/ s[i] \in ToSet(Tail(s))
    BY <1>1 DEF ToSet
  <2>1. CASE i = 1
    BY <2>1
  <2>2. CASE i # 1
    <3>1. i - 1 \in 1 .. Len(Tail(s)) /\ s[i] = Tail(s)[i - 1]
      BY <1>1, <1>2, <2>2
    <3>2. i - 1 \in DOMAIN Tail(s)
      BY <1>1, <3>1
    <3> QED BY <3>1, <3>2 DEF ToSet
  <2> QED BY <2>1, <2>2
<1>4. {Head(s)} \cup ToSet(Tail(s)) \subseteq ToSet(s)
  <2> SUFFICES ASSUME NEW i \in 1 .. Len(Tail(s))
               PROVE  Tail(s)[i] \in ToSet(s)
    BY <1>1 DEF ToSet
  <2>1. Tail(s)[i] = s[i + 1] /\ i + 1 \in 1 .. Len(s)
    BY <1>1, <1>2
  <2> QED BY <1>1, <2>1 DEF ToSet
<1> QED BY <1>1, <1>3, <1>4

\* An operation's line is in the vocabulary of the log.
LEMMA EntryOfRequest ==
    ASSUME NEW r \in Request PROVE Line(r) \in Entry
BY DEF Entry

-----------------------------------------------------------------------------

(* client_db *)

\* What client_db can be.
DbType == [users : Seq(User),
           following : [User -> Seq([who : User, time : Nat])],
           followers : [User -> Seq(User)]]

\* What is left when an element is erased.
LEMMA EraseIs ==
    ASSUME NEW S, NEW s \in Seq(S), s # <<>>, NEW i \in Nat
    PROVE  /\ Erase(s, i) \in Seq(S)
           /\ ToSet(Erase(s, i)) \subseteq ToSet(s)
           /\ Len(Erase(s, i)) = Len(s) - 1 /\ Len(s) \in Nat \ {0}
           /\ i \in DOMAIN s => \A k \in 1 .. Len(s) - 1 :
                                   Erase(s, i)[k] = IF k < i THEN s[k] ELSE s[k + 1]
<1> DEFINE e == Erase(s, i)
<1>1. Len(s) \in Nat \ {0} /\ DOMAIN s = 1 .. Len(s) /\ \A k \in 1 .. Len(s) : s[k] \in S
  BY EmptySeq
<1>2. CASE i \in DOMAIN s
  <2> DEFINE a == SubSeq(s, 1, i - 1)
             b == SubSeq(s, i + 1, Len(s))
  <2>1. i \in 1 .. Len(s) /\ e = a \o b
    BY <1>1, <1>2 DEF Erase, RemoveAt
  <2>2. /\ a \in Seq(S) /\ Len(a) = i - 1
        /\ \A k \in 1 .. i - 1 : a[k] = s[k]
    <3>1. \A k \in 1 .. i - 1 : s[k] \in S
      BY <1>1, <2>1
    <3> QED BY <1>1, <2>1, <3>1, SubSeqProperties
  <2>3. /\ b \in Seq(S) /\ Len(b) = Len(s) - i
        /\ \A k \in 1 .. Len(s) - i : b[k] = s[i + k]
    <3>1. \A k \in i + 1 .. Len(s) : s[k] \in S
      BY <1>1, <2>1
    <3>2. /\ b \in Seq(S) /\ Len(b) = IF i + 1 <= Len(s) THEN Len(s) - (i + 1) + 1 ELSE 0
          /\ \A k \in 1 .. Len(s) - (i + 1) + 1 : b[k] = s[(i + 1) + k - 1]
      BY <1>1, <2>1, <3>1, SubSeqProperties
    <3> HIDE DEF b
    <3>3. \A k \in 1 .. Len(s) - i : k \in 1 .. Len(s) - (i + 1) + 1 /\ (i + 1) + k - 1 = i + k
      BY <1>1, <2>1
    <3>4. Len(b) = Len(s) - i
      <4>1. Len(b) = IF i + 1 <= Len(s) THEN Len(s) - (i + 1) + 1 ELSE 0
        BY <3>2
      <4>2. Len(s) \in Nat /\ i \in Nat /\ i <= Len(s)
        BY <1>1, <2>1
      <4>3. CASE i + 1 <= Len(s)
        BY <4>1, <4>2, <4>3
      <4>4. CASE ~(i + 1 <= Len(s))
        BY <4>1, <4>2, <4>4
      <4> QED BY <4>3, <4>4
    <3> QED BY <3>2, <3>3, <3>4
  <2> HIDE DEF a, b, e
  <2>4. /\ e \in Seq(S) /\ Len(e) = Len(s) - 1
        /\ \A k \in 1 .. Len(s) - 1 : e[k] = IF k <= i - 1 THEN a[k] ELSE b[k - (i - 1)]
    <3>1. /\ e \in Seq(S) /\ Len(e) = Len(a) + Len(b)
          /\ \A k \in 1 .. Len(a) + Len(b) : e[k] = IF k <= Len(a) THEN a[k] ELSE b[k - Len(a)]
      BY <2>1, <2>2, <2>3, ConcatProperties
    <3>2. Len(a) = i - 1 /\ Len(a) + Len(b) = Len(s) - 1
      BY <1>1, <2>1, <2>2, <2>3
    <3> QED BY <3>1, <3>2
  <2>5. \A k \in 1 .. Len(s) - 1 : e[k] = IF k < i THEN s[k] ELSE s[k + 1]
    <3> TAKE k \in 1 .. Len(s) - 1
    <3>1. CASE k < i
      BY <2>1, <2>2, <2>4, <3>1
    <3>2. CASE ~(k < i)
      <4>1. k - (i - 1) \in 1 .. Len(s) - i /\ i + (k - (i - 1)) = k + 1
        BY <1>1, <2>1, <3>2
      <4>2. b[k - (i - 1)] = s[k + 1]
        BY <2>3, <4>1
      <4>3. ~(k <= i - 1)
        BY <1>1, <2>1, <3>2
      <4>4. e[k] = b[k - (i - 1)]
        BY <2>4, <4>3
      <4> QED BY <3>2, <4>2, <4>4
    <3> QED BY <3>1, <3>2
  <2>6. ToSet(e) \subseteq ToSet(s)
    <3>1. DOMAIN e = 1 .. Len(s) - 1
      BY <2>4
    <3>2. \A k \in 1 .. Len(s) - 1 : k \in 1 .. Len(s) /\ k + 1 \in 1 .. Len(s)
      BY <1>1
    <3> QED BY <1>1, <2>5, <3>1, <3>2 DEF ToSet
  <2> QED BY <1>1, <2>4, <2>5, <2>6 DEF e
<1>3. CASE i \notin DOMAIN s
  <2>1. e = SubSeq(s, 1, Len(s) - 1)
    BY <1>3 DEF Erase, Front
  <2>2. \A k \in 1 .. Len(s) - 1 : k \in 1 .. Len(s)
    BY <1>1
  <2> HIDE DEF e
  <2>3. /\ e \in Seq(S) /\ Len(e) = IF 1 <= Len(s) - 1 THEN (Len(s) - 1) - 1 + 1 ELSE 0
        /\ \A k \in 1 .. (Len(s) - 1) - 1 + 1 : e[k] = s[1 + k - 1]
    BY <1>1, <2>1, <2>2, SubSeqProperties
  <2>4. e \in Seq(S) /\ Len(e) = Len(s) - 1 /\ \A k \in 1 .. Len(s) - 1 : e[k] = s[k]
    <3>1. \A k \in 1 .. Len(s) - 1 : k \in 1 .. (Len(s) - 1) - 1 + 1 /\ 1 + k - 1 = k
      BY <1>1
    <3>2. Len(e) = Len(s) - 1
      <4>1. Len(e) = IF 1 <= Len(s) - 1 THEN (Len(s) - 1) - 1 + 1 ELSE 0
        BY <2>3
      <4>2. Len(s) \in Nat /\ Len(s) >= 1
        BY <1>1
      <4>3. \A n \in Nat : n >= 1 => n - 1 = IF 1 <= n - 1 THEN (n - 1) - 1 + 1 ELSE 0
        OBVIOUS
      <4> QED BY <4>1, <4>2, <4>3
    <3> QED BY <2>3, <3>1, <3>2
  <2>5. DOMAIN e = 1 .. Len(s) - 1
    BY <2>4
  <2>6. ToSet(e) \subseteq ToSet(s)
    BY <1>1, <2>2, <2>4, <2>5 DEF ToSet
  <2> QED BY <1>1, <1>3, <2>4, <2>6 DEF e
<1> QED BY <1>2, <1>3

\* A client_db is not the remains of one that broke.
LEMMA NotBroken ==
    ASSUME NEW d \in DbType PROVE d # Broken
<1>1. "following" \in DOMAIN d /\ "following" \notin DOMAIN Broken
  BY DEF DbType, Broken
<1> QED BY <1>1

\* A login adds a name and nothing else.
LEMMA PushClientIs ==
    ASSUME NEW d \in DbType, NEW u \in User
    PROVE  /\ PushClient(d, u) \in DbType
           /\ PushClient(d, u).users = Append(d.users, u)
           /\ PushClient(d, u).following = d.following
           /\ PushClient(d, u).followers = d.followers
<1>1. Append(d.users, u) \in Seq(User)
  BY DEF DbType
<1>2. PushClient(d, u) = [users |-> Append(d.users, u), following |-> d.following,
                          followers |-> d.followers]
  <2>1. d = [users |-> d.users, following |-> d.following, followers |-> d.followers]
    BY DEF DbType
  <2> HIDE DEF DbType
  <2>2. PushClient(d, u) = [d EXCEPT !.users = Append(d.users, u)]
    BY DEF PushClient
  <2>3. \A a, b, c, x : [[users |-> a, following |-> b, followers |-> c] EXCEPT !.users = x]
                          = [users |-> x, following |-> b, followers |-> c]
    OBVIOUS
  <2> QED BY <2>1, <2>2, <2>3
<1>3. d.following \in [User -> Seq([who : User, time : Nat])] /\ d.followers \in [User -> Seq(User)]
  BY DEF DbType
<1>4. PushClient(d, u) \in DbType
  <2> DEFINE a == Append(d.users, u)
             b == d.following
             c == d.followers
  <2> HIDE DEF a, b, c
  <2>1. [users |-> a, following |-> b, followers |-> c] \in DbType
    BY <1>1, <1>3 DEF DbType, a, b, c
  <2> QED BY <1>2, <2>1 DEF a, b, c
<1>5. /\ PushClient(d, u).users = Append(d.users, u)
      /\ PushClient(d, u).following = d.following
      /\ PushClient(d, u).followers = d.followers
  BY <1>2
<1> QED BY <1>4, <1>5

\* A follow adds to one vector of each of the two users.
LEMMA PushFollowIs ==
    ASSUME NEW d \in DbType, NEW u \in User, NEW v \in User, NEW t \in Nat
    PROVE  /\ PushFollow(d, u, v, t) \in DbType
           /\ PushFollow(d, u, v, t).users = d.users
           /\ \A w \in User :
                 /\ PushFollow(d, u, v, t).following[w] =
                       IF w = u THEN Append(d.following[u], [who |-> v, time |-> t])
                                ELSE d.following[w]
                 /\ PushFollow(d, u, v, t).followers[w] =
                       IF w = v THEN Append(d.followers[v], u) ELSE d.followers[w]
<1>1. Append(d.following[u], [who |-> v, time |-> t]) \in Seq([who : User, time : Nat])
  <2>1. [who |-> v, time |-> t] \in [who : User, time : Nat]
    OBVIOUS
  <2>2. d.following[u] \in Seq([who : User, time : Nat])
    BY DEF DbType
  <2> QED BY <2>1, <2>2, AppendProperties
<1>2. Append(d.followers[v], u) \in Seq(User)
  BY DEF DbType
<1> QED BY <1>1, <1>2 DEF DbType, PushFollow

\* An unfollow takes from one vector of each of the two users.
LEMMA EraseFollowIs ==
    ASSUME NEW d \in DbType, NEW u \in User, NEW v \in User, NEW i \in Nat, NEW j \in Nat,
           d.following[u] # <<>>, d.followers[v] # <<>>
    PROVE  /\ EraseFollow(d, u, v, i, j) \in DbType
           /\ EraseFollow(d, u, v, i, j).users = d.users
           /\ \A w \in User :
                 /\ EraseFollow(d, u, v, i, j).following[w] =
                       IF w = u THEN Erase(d.following[u], i) ELSE d.following[w]
                 /\ EraseFollow(d, u, v, i, j).followers[w] =
                       IF w = v THEN Erase(d.followers[v], j) ELSE d.followers[w]
<1>1. Erase(d.following[u], i) \in Seq([who : User, time : Nat])
  BY EraseIs DEF DbType
<1>2. Erase(d.followers[v], j) \in Seq(User)
  BY EraseIs DEF DbType
<1> QED BY <1>1, <1>2 DEF DbType, EraseFollow

\* The client_db of a server that has read nothing.
LEMMA EmptyDbIs ==
    EmptyDb \in DbType /\ EmptyDb.users = <<>>
    /\ \A u \in User : EmptyDb.following[u] = <<>> /\ EmptyDb.followers[u] = <<>>
BY DEF EmptyDb, DbType

-----------------------------------------------------------------------------
(* Times and lines *)

\* Whole seconds, and that cutting a time off twice is cutting it off once.
LEMMA Seconds ==
    ASSUME NEW t \in Nat
    PROVE  /\ SecondsOf(t) \in Nat /\ SecondsOf(SecondsOf(t)) = SecondsOf(t)
           /\ ParsedTime(t) \in Nat /\ ParsedTime(SecondsOf(t)) = ParsedTime(t)
<1> DEFINE q == t \div Tick
           s == SecondsOf(t)
           p == s \div Tick
<1>1. /\ Tick \in Nat \ {0} /\ DstShift \in Nat
      /\ t % Tick \in 0 .. Tick - 1 /\ q \in Nat /\ t = Tick * q + (t % Tick)
  BY UserLogAssumption
<1>2. s = Tick * q /\ s \in Nat
  BY <1>1 DEF SecondsOf
<1>3. s % Tick \in 0 .. Tick - 1 /\ p \in Nat /\ s = Tick * p + (s % Tick)
  <2>1. \A x \in Nat : /\ x % Tick \in 0 .. Tick - 1 /\ x \div Tick \in Nat
                       /\ x = Tick * (x \div Tick) + (x % Tick)
    BY UserLogAssumption
  <2> HIDE DEF s, q
  <2> QED BY <1>2, <2>1
<1>4. s % Tick = 0
  <2> HIDE DEF q, s, p
  <2>1. s % Tick = Tick * (q - p) /\ q - p \in Int
    BY <1>1, <1>2, <1>3
  <2>2. CASE q - p >= 1
    <3>1. Tick * (q - p) >= Tick
      BY <1>1, <2>1, <2>2
    <3> QED BY <1>1, <1>3, <2>1, <3>1
  <2>3. CASE q - p <= -1
    <3>1. Tick * (q - p) <= -Tick
      BY <1>1, <2>1, <2>3
    <3> QED BY <1>1, <1>3, <2>1, <3>1
  <2>4. CASE q - p = 0
    BY <1>1, <2>1, <2>4
  <2> QED BY <2>1, <2>2, <2>3, <2>4
<1>5. SecondsOf(s) = s
  BY <1>2, <1>4 DEF SecondsOf
<1> HIDE DEF s
<1>6. ParsedTime(t) = s + DstShift /\ ParsedTime(s) = s + DstShift
  BY <1>5 DEF ParsedTime, s
<1> QED BY <1>1, <1>2, <1>5, <1>6 DEF s

\* The forms of a line.
LEMMA EntryForms ==
    ASSUME NEW x \in Entry
    PROVE  \/ \E u \in User : x = Login(u)
           \/ \E u, v \in User : x = UnFollow(u, v)
           \/ \E u, v \in User : \E t \in Time : x = Follow(u, v, SecondsOf(t))
<1>1. PICK r \in Request : x = Line(r)
  BY DEF Entry
<1>2. CASE \E u \in User : r = Login(u)
  BY <1>1, <1>2 DEF Line, Login
<1>3. CASE \E u, v \in User : r = UnFollow(u, v)
  BY <1>1, <1>3 DEF Line, UnFollow
<1>4. CASE \E u, v \in User : \E t \in Time : r = Follow(u, v, t)
  <2>1. PICK u \in User, v \in User, t \in Time : r = Follow(u, v, t)
    BY <1>4
  <2>2. x = Follow(u, v, SecondsOf(t))
    BY <1>1, <2>1 DEF Line, Follow
  <2> QED BY <2>1, <2>2
<1> QED BY <1>2, <1>3, <1>4 DEF Request

-----------------------------------------------------------------------------
(* Replay *)

\* replay[i] is client_db after the first i lines, for i up to n.
IsReplay(replay, lines, n) ==
    replay = [i \in 0 .. n |->
                 IF i = 0 THEN EmptyDb ELSE ReplayLine(replay[i - 1], lines[i])]

\* There is a replay: the function that processUserInfoFromFile defines by
\* recursion exists.
LEMMA ReplayExists ==
    ASSUME NEW lines, NEW n \in Nat
    PROVE  \E replay : IsReplay(replay, lines, n)
<1> DEFINE S == {m \in 0 .. n : \E replay : IsReplay(replay, lines, m)}
<1>1. 0 \in S
  <2>1. IsReplay([i \in 0 .. 0 |-> EmptyDb], lines, 0)
    <3>1. \A i \in 0 .. 0 : i = 0
      OBVIOUS
    <3> QED BY <3>1 DEF IsReplay
  <2>2. \E replay : IsReplay(replay, lines, 0)
    BY <2>1
  <2> QED BY <2>2
<1>2. ASSUME NEW m \in 0 .. n - 1, m \in S PROVE m + 1 \in S
  <2>1. PICK g : IsReplay(g, lines, m)
    BY <1>2
  <2>2. \A i \in 0 .. m : g[i] = IF i = 0 THEN EmptyDb ELSE ReplayLine(g[i - 1], lines[i])
    BY <2>1 DEF IsReplay
  <2> DEFINE h == [i \in 0 .. m + 1 |->
                      IF i = m + 1 THEN ReplayLine(g[m], lines[m + 1]) ELSE g[i]]
  <2>3. \A i \in 0 .. m : h[i] = g[i]
    OBVIOUS
  <2>4. h[m + 1] = ReplayLine(h[m], lines[m + 1])
    BY <2>3
  <2>5. h = [i \in 0 .. m + 1 |-> h[i]]
    OBVIOUS
  <2> HIDE DEF h
  <2>6. \A i \in 0 .. m + 1 : h[i] = IF i = 0 THEN EmptyDb ELSE ReplayLine(h[i - 1], lines[i])
    <3> TAKE i \in 0 .. m + 1
    <3>1. CASE i = m + 1
      BY <3>1, <2>4
    <3>2. CASE i \in 0 .. m
      BY <3>2, <2>2, <2>3
    <3> QED BY <3>1, <3>2
  <2>7. IsReplay(h, lines, m + 1)
    BY <2>5, <2>6 DEF IsReplay
  <2>8. \E replay : IsReplay(replay, lines, m + 1)
    BY <2>7
  <2> QED BY <1>2, <2>8
<1>3. 0 .. n \subseteq S
  <2> HIDE DEF S
  <2> QED BY <1>1, <1>2, Induction
<1> QED BY <1>3

\* processUserInfoFromFile takes the lines one after the other.
LEMMA ReplaySteps ==
    ASSUME NEW lines, Len(lines) \in Nat
    PROVE  \E replay : /\ processUserInfoFromFile(lines) = replay[Len(lines)]
                       /\ replay[0] = EmptyDb
                       /\ \A i \in 1 .. Len(lines) :
                             replay[i] = ReplayLine(replay[i - 1], lines[i])
<1> DEFINE R == CHOOSE g : IsReplay(g, lines, Len(lines))
<1>1. IsReplay(R, lines, Len(lines))
  BY ReplayExists
<1>2. processUserInfoFromFile(lines) = R[Len(lines)]
  BY DEF processUserInfoFromFile, IsReplay
<1> HIDE DEF R
<1>3. /\ R[0] = EmptyDb
      /\ \A i \in 1 .. Len(lines) : R[i] = ReplayLine(R[i - 1], lines[i])
  BY <1>1 DEF IsReplay
<1> QED BY <1>2, <1>3

\* A log that has one line more is replayed by one line more.
LEMMA ReplayAppend ==
    ASSUME NEW s \in Seq(Entry), NEW x \in Entry
    PROVE  processUserInfoFromFile(Append(s, x)) = ReplayLine(processUserInfoFromFile(s), x)
<1> DEFINE t == Append(s, x)
<1>1. /\ Len(s) \in Nat /\ Len(t) = Len(s) + 1 /\ Len(t) \in Nat
      /\ \A i \in 1 .. Len(s) : t[i] = s[i]
      /\ t[Len(s) + 1] = x
  OBVIOUS
<1> HIDE DEF t
<1>2. PICK g : /\ processUserInfoFromFile(s) = g[Len(s)] /\ g[0] = EmptyDb
               /\ \A i \in 1 .. Len(s) : g[i] = ReplayLine(g[i - 1], s[i])
  BY <1>1, ReplaySteps
<1>3. PICK h : /\ processUserInfoFromFile(t) = h[Len(t)] /\ h[0] = EmptyDb
               /\ \A i \in 1 .. Len(t) : h[i] = ReplayLine(h[i - 1], t[i])
  BY <1>1, ReplaySteps
<1> DEFINE S == {i \in 0 .. Len(s) : g[i] = h[i]}
<1>4. 0 \in S
  BY <1>1, <1>2, <1>3
<1>5. ASSUME NEW i \in 0 .. Len(s) - 1, i \in S PROVE i + 1 \in S
  <2>1. i + 1 \in 1 .. Len(s) /\ i + 1 \in 1 .. Len(t) /\ (i + 1) - 1 = i /\ g[i] = h[i]
    BY <1>1, <1>5
  <2>2. g[i + 1] = ReplayLine(g[i], s[i + 1]) /\ h[i + 1] = ReplayLine(h[i], t[i + 1])
    BY <1>2, <1>3, <2>1
  <2> QED BY <1>1, <2>1, <2>2
<1>6. 0 .. Len(s) \subseteq S
  <2> HIDE DEF S
  <2> QED BY <1>1, <1>4, <1>5, Induction
<1>7. Len(s) + 1 \in 1 .. Len(t) /\ (Len(s) + 1) - 1 = Len(s) /\ Len(s) \in S
  BY <1>1, <1>6
<1>8. h[Len(t)] = ReplayLine(h[Len(s)], x)
  BY <1>1, <1>3, <1>7
<1> QED BY <1>2, <1>3, <1>7, <1>8 DEF t

\* Nothing is replayed from an empty file.
LEMMA ReplayEmpty == processUserInfoFromFile(<<>>) = EmptyDb
<1>1. Len(<<>>) = 0 /\ 0 \in Nat
  OBVIOUS
<1> QED BY <1>1, ReplaySteps

-----------------------------------------------------------------------------
(* One line of a log *)

\* What a line of each form does to a client_db that did not break.
LEMMA ReplayLineIs ==
    ASSUME NEW d \in DbType
    PROVE  /\ \A u \in User : ReplayLine(d, Login(u)) = PushClient(d, u)
           /\ \A u, v \in User, t \in Nat :
                 ReplayLine(d, Follow(u, v, t)) =
                    IF Exists(d, u) /\ Exists(d, v) THEN PushFollow(d, u, v, ParsedTime(t))
                                                    ELSE Broken
           /\ \A u, v \in User : ReplayLine(d, UnFollow(u, v)) = unfollowHelper(d, u, v)
<1>1. d # Broken
  BY NotBroken
<1>2. ASSUME NEW u \in User PROVE ReplayLine(d, Login(u)) = PushClient(d, u)
  BY <1>1 DEF ReplayLine, Login, loginHelper
<1>3. ASSUME NEW u \in User, NEW v \in User, NEW t \in Nat
      PROVE  ReplayLine(d, Follow(u, v, t)) =
                IF Exists(d, u) /\ Exists(d, v) THEN PushFollow(d, u, v, ParsedTime(t))
                                                ELSE Broken
  BY <1>1 DEF ReplayLine, Follow, followHelper
<1>4. ASSUME NEW u \in User, NEW v \in User
      PROVE  ReplayLine(d, UnFollow(u, v)) = unfollowHelper(d, u, v)
  BY <1>1 DEF ReplayLine, UnFollow
<1> QED BY <1>2, <1>3, <1>4

\* A user exists if it is among the names of client_db.
LEMMA ExistsIs ==
    ASSUME NEW d \in DbType, NEW u
    PROVE  Exists(d, u) <=> u \in ToSet(d.users)
BY DEF Exists, Contains, ToSet, DbType

\* Erasing takes from the followees of one user.
LEMMA EraseFollowees ==
    ASSUME NEW d \in DbType, NEW u \in User, NEW v \in User, NEW i \in Nat, NEW j \in Nat,
           d.following[u] # <<>>, d.followers[v] # <<>>, NEW w \in User
    PROVE  Followees(EraseFollow(d, u, v, i, j), w) \subseteq Followees(d, w)
<1>1. EraseFollow(d, u, v, i, j).following[w] =
         IF w = u THEN Erase(d.following[u], i) ELSE d.following[w]
  BY EraseFollowIs
<1>2. /\ d.following \in [User -> Seq([who : User, time : Nat])]
      /\ d.following[u] \in Seq([who : User, time : Nat])
  BY DEF DbType
<1>3. ToSet(Erase(d.following[u], i)) \subseteq ToSet(d.following[u])
  BY <1>2, EraseIs
<1>4. ToSet(EraseFollow(d, u, v, i, j).following[w]) \subseteq ToSet(d.following[w])
  BY <1>1, <1>2, <1>3
<1> QED BY <1>4 DEF Followees

\* A follow adds its target to the followees of one user.
LEMMA PushFollowees ==
    ASSUME NEW d \in DbType, NEW u \in User, NEW v \in User, NEW t \in Nat, NEW w \in User
    PROVE  Followees(PushFollow(d, u, v, t), w)
              = IF w = u THEN Followees(d, u) \cup {v} ELSE Followees(d, w)
<1> DEFINE f == [who |-> v, time |-> t]
<1>1. PushFollow(d, u, v, t).following[w] =
         IF w = u THEN Append(d.following[u], f) ELSE d.following[w]
  BY PushFollowIs
<1>2. /\ d.following \in [User -> Seq([who : User, time : Nat])]
      /\ d.following[u] \in Seq([who : User, time : Nat])
  BY DEF DbType
<1>3. f \in [who : User, time : Nat] /\ f.who = v
  OBVIOUS
<1> HIDE DEF f
<1>4. ToSet(Append(d.following[u], f)) = ToSet(d.following[u]) \cup {f}
  <2> DEFINE F == [who : User, time : Nat]
             s == d.following[u]
  <2>1. s \in Seq(F) /\ f \in F
    BY <1>2, <1>3
  <2> HIDE DEF F, s
  <2> QED BY <2>1, ToSetAppend DEF s
<1>5. CASE w = u
  <2>1. PushFollow(d, u, v, t).following[w] = Append(d.following[u], f)
    BY <1>1, <1>5
  <2> QED BY <1>3, <1>4, <1>5, <2>1 DEF Followees
<1>6. CASE w # u
  <2>1. PushFollow(d, u, v, t).following[w] = d.following[w]
    BY <1>1, <1>6
  <2> QED BY <1>6, <2>1 DEF Followees
<1> QED BY <1>5, <1>6

-----------------------------------------------------------------------------
(* What is in memory is in the log, and what is in the log can be found *)

\* Each user and each follow of d is due to one of the lines.
Accounted(d, lines) ==
    /\ \A u \in ToSet(d.users) : Login(u) \in lines
    /\ \A u \in User : \A v \in Followees(d, u) :
          \E l \in lines : l.op = "follow" /\ l.user = u /\ l.target = v

\* The users that lines name exist.
NamesIn(d, lines) ==
    \A l \in lines : l.op # "user" => Exists(d, l.user) /\ Exists(d, l.target)

\* Both hold of an empty log.
LEMMA AccountedEmpty == Accounted(EmptyDb, {}) /\ NamesIn(EmptyDb, {})
BY EmptyDbIs DEF Accounted, NamesIn, Followees, ToSet

\* They are kept by a login, when the set of lines takes in a line that accounts
\* for it.
LEMMA AccountedPushClient ==
    ASSUME NEW d \in DbType, NEW u \in User, NEW L, NEW M, NEW N,
           Accounted(d, L), L \subseteq M, Login(u) \in M, NamesIn(d, N)
    PROVE  Accounted(PushClient(d, u), M) /\ NamesIn(PushClient(d, u), N \cup {Login(u)})
<1> DEFINE e == PushClient(d, u)
<1>1. /\ e \in DbType /\ e.users = Append(d.users, u) /\ e.following = d.following
      /\ ToSet(e.users) = ToSet(d.users) \cup {u}
  <2>1. e \in DbType /\ e.users = Append(d.users, u) /\ e.following = d.following
    BY PushClientIs
  <2>2. d.users \in Seq(User)
    BY DEF DbType
  <2>3. ToSet(Append(d.users, u)) = ToSet(d.users) \cup {u}
    BY <2>2, ToSetAppend
  <2> HIDE DEF e
  <2> QED BY <2>1, <2>3
<1> HIDE DEF e
<1>2. \A w \in User : Followees(e, w) = Followees(d, w)
  BY <1>1 DEF Followees
<1>3. Accounted(e, M)
  BY <1>1, <1>2 DEF Accounted
<1>4. \A w : Exists(d, w) => Exists(e, w)
  BY <1>1, ExistsIs
<1>5. NamesIn(e, N \cup {Login(u)})
  BY <1>4 DEF NamesIn, Login
<1> QED BY <1>3, <1>5 DEF e

\* The same for a follow.
LEMMA AccountedPushFollow ==
    ASSUME NEW d \in DbType, NEW u \in User, NEW v \in User, NEW t \in Nat,
           Exists(d, u), Exists(d, v), NEW L, NEW M, NEW N, NEW s,
           Accounted(d, L), L \subseteq M, Follow(u, v, s) \in M, NamesIn(d, N)
    PROVE  /\ Accounted(PushFollow(d, u, v, t), M)
           /\ \A x : NamesIn(PushFollow(d, u, v, t), N \cup {Follow(u, v, x)})
<1> DEFINE e == PushFollow(d, u, v, t)
<1>1. e \in DbType /\ e.users = d.users
  <2>1. PushFollow(d, u, v, t) \in DbType
    BY PushFollowIs
  <2>2. PushFollow(d, u, v, t).users = d.users
    BY DEF PushFollow, DbType
  <2> QED BY <2>1, <2>2
<1>2. \A w \in User : Followees(e, w) = IF w = u THEN Followees(d, u) \cup {v}
                                                 ELSE Followees(d, w)
  BY PushFollowees
<1> HIDE DEF e
<1>3. Follow(u, v, s).op = "follow" /\ Follow(u, v, s).user = u /\ Follow(u, v, s).target = v
  BY DEF Follow
<1>4. Accounted(e, M)
  <2>1. \A w \in ToSet(e.users) : Login(w) \in M
    BY <1>1 DEF Accounted
  <2>2. ASSUME NEW w \in User, NEW x \in Followees(e, w)
        PROVE  \E l \in M : l.op = "follow" /\ l.user = w /\ l.target = x
    <3>1. CASE x \in Followees(d, w)
      BY <3>1 DEF Accounted
    <3>2. CASE w = u /\ x = v
      BY <1>3, <3>2
    <3> QED BY <1>2, <2>2, <3>1, <3>2
  <2> QED BY <2>1, <2>2 DEF Accounted
<1>5. \A w : Exists(e, w) <=> Exists(d, w)
  BY <1>1, ExistsIs
<1>6. ASSUME NEW x PROVE NamesIn(e, N \cup {Follow(u, v, x)})
  <2>1. Follow(u, v, x).user = u /\ Follow(u, v, x).target = v
    BY DEF Follow
  <2> QED BY <1>5, <2>1 DEF NamesIn
<1> QED BY <1>4, <1>6 DEF e

\* The same for an unfollow, which needs no line.
LEMMA AccountedErase ==
    ASSUME NEW d \in DbType, NEW u \in User, NEW v \in User, NEW i \in Nat, NEW j \in Nat,
           d.following[u] # <<>>, d.followers[v] # <<>>, Exists(d, u), Exists(d, v),
           NEW L, NEW M, NEW N, Accounted(d, L), L \subseteq M, NamesIn(d, N)
    PROVE  /\ Accounted(EraseFollow(d, u, v, i, j), M)
           /\ NamesIn(EraseFollow(d, u, v, i, j), N \cup {UnFollow(u, v)})
<1> DEFINE e == EraseFollow(d, u, v, i, j)
<1>1. e \in DbType /\ e.users = d.users
  <2>1. EraseFollow(d, u, v, i, j) \in DbType
    BY EraseFollowIs
  <2>2. EraseFollow(d, u, v, i, j).users = d.users
    BY DEF EraseFollow, DbType
  <2> QED BY <2>1, <2>2
<1>2. \A w \in User : Followees(e, w) \subseteq Followees(d, w)
  BY EraseFollowees
<1> HIDE DEF e
<1>3. Accounted(e, M)
  BY <1>1, <1>2 DEF Accounted
<1>4. \A w : Exists(e, w) <=> Exists(d, w)
  BY <1>1, ExistsIs
<1>5. NamesIn(e, N \cup {UnFollow(u, v)})
  <2>1. UnFollow(u, v).user = u /\ UnFollow(u, v).target = v
    BY DEF UnFollow
  <2> QED BY <1>4, <2>1 DEF NamesIn
<1> QED BY <1>3, <1>5 DEF e

\* A set of lines that says less of the log.
LEMMA NamesInLess ==
    ASSUME NEW d, NEW N, NEW M \in SUBSET N, NamesIn(d, N)
    PROVE  NamesIn(d, M)
BY DEF NamesIn

\* One line more: either it breaks the replay, or both are kept.
LEMMA ReplayLineKnown ==
    ASSUME NEW d \in DbType, NEW x \in Entry, NEW L, Accounted(d, L), NamesIn(d, L),
           ReplayLine(d, x) # Broken
    PROVE  /\ ReplayLine(d, x) \in DbType
           /\ Accounted(ReplayLine(d, x), L \cup {x}) /\ NamesIn(ReplayLine(d, x), L \cup {x})
<1>1. CASE \E u \in User : x = Login(u)
  <2>1. PICK u \in User : x = Login(u)
    BY <1>1
  <2>2. ReplayLine(d, x) = PushClient(d, u)
    BY <2>1, ReplayLineIs
  <2>3. L \subseteq L \cup {x} /\ Login(u) \in L \cup {x}
    BY <2>1
  <2>4. PushClient(d, u) \in DbType
    BY PushClientIs
  <2>5. Accounted(PushClient(d, u), L \cup {x}) /\ NamesIn(PushClient(d, u), L \cup {x})
    BY <2>1, <2>3, AccountedPushClient
  <2> QED BY <2>2, <2>4, <2>5
<1>2. CASE \E u, v \in User : x = UnFollow(u, v)
  <2>1. PICK u \in User, v \in User : x = UnFollow(u, v)
    BY <1>2
  <2> DEFINE i == indexOfFollowing(d, u, v)
             j == indexOfFollower(d, v, u)
  <2>2. ReplayLine(d, x) = unfollowHelper(d, u, v)
    BY <2>1, ReplayLineIs
  <2>3. /\ ReplayLine(d, x) = EraseFollow(d, u, v, i, j)
        /\ Exists(d, u) /\ Exists(d, v) /\ ErasesInside(d, u, v, i, j)
    BY <2>2 DEF unfollowHelper
  <2> HIDE DEF i, j
  <2>4. i \in Nat /\ j \in Nat /\ d.following[u] # <<>> /\ d.followers[v] # <<>>
    <3>1. d.following[u] \in Seq([who : User, time : Nat]) /\ d.followers[v] \in Seq(User)
      BY DEF DbType
    <3>2. i \in 1 .. Len(d.following[u]) /\ j \in 1 .. Len(d.followers[v])
      BY <2>3, <3>1 DEF ErasesInside
    <3> QED BY <3>1, <3>2
  <2>5. L \subseteq L \cup {x}
    OBVIOUS
  <2>6. EraseFollow(d, u, v, i, j) \in DbType
    BY <2>4, EraseFollowIs
  <2>7. /\ Accounted(EraseFollow(d, u, v, i, j), L \cup {x})
        /\ NamesIn(EraseFollow(d, u, v, i, j), L \cup {x})
    BY <2>1, <2>3, <2>4, <2>5, AccountedErase
  <2> QED BY <2>3, <2>6, <2>7
<1>3. CASE \E u, v \in User : \E t \in Time : x = Follow(u, v, SecondsOf(t))
  <2>1. PICK u \in User, v \in User, t \in Time : x = Follow(u, v, SecondsOf(t))
    BY <1>3
  <2>2. SecondsOf(t) \in Nat /\ ParsedTime(SecondsOf(t)) \in Nat
    BY Seconds, UserLogAssumption
  <2>3. /\ ReplayLine(d, x) = PushFollow(d, u, v, ParsedTime(SecondsOf(t)))
        /\ Exists(d, u) /\ Exists(d, v)
    BY <2>1, <2>2, ReplayLineIs
  <2>4. L \subseteq L \cup {x} /\ Follow(u, v, SecondsOf(t)) \in L \cup {x}
    BY <2>1
  <2>5. PushFollow(d, u, v, ParsedTime(SecondsOf(t))) \in DbType
    BY <2>2, PushFollowIs
  <2>6. /\ Accounted(PushFollow(d, u, v, ParsedTime(SecondsOf(t))), L \cup {x})
        /\ NamesIn(PushFollow(d, u, v, ParsedTime(SecondsOf(t))), L \cup {x})
    BY <2>1, <2>2, <2>3, <2>4, AccountedPushFollow
  <2> QED BY <2>3, <2>5, <2>6
<1> QED BY <1>1, <1>2, <1>3, EntryForms

\* A replay that ends without breaking accounts for all it has found, and has
\* found all that the lines name.
LEMMA ReplayKnown ==
    ASSUME NEW s \in Seq(Entry), processUserInfoFromFile(s) # Broken
    PROVE  /\ processUserInfoFromFile(s) \in DbType
           /\ Accounted(processUserInfoFromFile(s), ToSet(s))
           /\ NamesIn(processUserInfoFromFile(s), ToSet(s))
<1>1. /\ Len(s) \in Nat /\ DOMAIN s = 1 .. Len(s)
      /\ \A i \in 1 .. Len(s) : s[i] \in Entry
  OBVIOUS
<1>2. PICK g : /\ processUserInfoFromFile(s) = g[Len(s)] /\ g[0] = EmptyDb
               /\ \A i \in 1 .. Len(s) : g[i] = ReplayLine(g[i - 1], s[i])
  BY <1>1, ReplaySteps
<1> DEFINE L(n) == {s[k] : k \in 1 .. n}
           Known(n) == g[n] \in DbType /\ Accounted(g[n], L(n)) /\ NamesIn(g[n], L(n))
           S == {n \in 0 .. Len(s) : g[n] = Broken \/ Known(n)}
<1>3. 0 \in S
  <2>1. L(0) = {}
    OBVIOUS
  <2> HIDE DEF L
  <2>2. Known(0)
    BY <1>2, <2>1, EmptyDbIs, AccountedEmpty
  <2> HIDE DEF Known
  <2> QED BY <1>1, <2>2
<1>4. ASSUME NEW i \in 0 .. Len(s) - 1, i \in S PROVE i + 1 \in S
  <2>1. i + 1 \in 1 .. Len(s) /\ (i + 1) - 1 = i /\ i + 1 \in 0 .. Len(s)
    BY <1>1
  <2>2. g[i + 1] = ReplayLine(g[i], s[i + 1]) /\ s[i + 1] \in Entry
    BY <1>1, <1>2, <2>1
  <2>3. L(i + 1) = L(i) \cup {s[i + 1]}
    <3>1. 1 .. i + 1 = (1 .. i) \cup {i + 1}
      BY <1>1
    <3> QED BY <3>1
  <2> HIDE DEF L
  <2>4. CASE g[i] = Broken
    <3>1. g[i + 1] = Broken
      BY <2>2, <2>4 DEF ReplayLine
    <3> HIDE DEF Known
    <3> QED BY <2>1, <3>1
  <2>5. CASE Known(i)
    <3>1. g[i + 1] = Broken \/ Known(i + 1)
      BY <2>2, <2>3, <2>5, ReplayLineKnown
    <3> HIDE DEF Known
    <3> QED BY <2>1, <3>1
  <2> HIDE DEF Known
  <2> QED BY <1>4, <2>4, <2>5
<1>5. Len(s) \in S
  <2> HIDE DEF S
  <2>1. 0 .. Len(s) \subseteq S
    BY <1>1, <1>3, <1>4, Induction
  <2> QED BY <1>1, <2>1
<1>6. L(Len(s)) = ToSet(s)
  BY <1>1 DEF ToSet
<1> HIDE DEF L
<1>7. Known(Len(s))
  <2> HIDE DEF Known
  <2> QED BY <1>2, <1>5
<1> QED BY <1>2, <1>6, <1>7

-----------------------------------------------------------------------------
(* The invariant *)

\* A call runs only while the server listens, and serves a request.
Calls ==
    /\ at \in [Thread -> Nat \X Nat]
    /\ \A t \in Thread : pc[t] # "idle" => mode = "up" /\ req[t] \in Request

\* Memory is a client_db, empty until something is read from a log.
Memory ==
    /\ mode \in {"down", "fetch", "copy", "up"}
    /\ db \in DbType
    /\ mode \in {"down", "fetch"} => db = EmptyDb
    /\ mode = "fetch" => log = <<>>

\* Memory against the log.
Known ==
    mode \in {"copy", "up"} =>
        Accounted(db, ToSet(log) \cup Pending) /\ NamesIn(db, ToSet(log))

\* The users that a request names were looked up: they exist from then on.
LookedUp ==
    \A t \in Thread : pc[t] # "idle" /\ req[t].op # "user" =>
        /\ Exists(db, req[t].user)
        /\ pc[t] \in {"update", "write"} => Exists(db, req[t].target)

\* What the process did not live to write, or to copy, are lines.
Gone == torn \cup wiped \subseteq Entry

KnownInv == LogTypes /\ Calls /\ Memory /\ Known /\ LookedUp /\ Gone /\ LogNamesLoggedIn

-----------------------------------------------------------------------------
(* Indices *)

\* The least number of a set.
LEMMA MinIs ==
    ASSUME NEW S \in SUBSET Nat, S # {}
    PROVE  Min(S) \in S
<1>1. \E n \in S : \A m \in S : n <= m
  BY LeastNumber
<1> QED BY <1>1 DEF Min

\* The search for a target finds it, or returns 0 if the list lacks it.
LEMMA IndexOfFollowing ==
    ASSUME NEW d \in DbType, NEW u \in User, NEW v
    PROVE  LET i == indexOfFollowing(d, u, v)
           IN  \/ i = 0 /\ v \notin Followees(d, u)
               \/ /\ i \in 1 .. Len(d.following[u]) /\ d.following[u][i].who = v
                  /\ v \in Followees(d, u)
<1> DEFINE s == d.following[u]
           I == {i \in 1 .. Len(s) : s[i].who = v}
<1>1. indexOfFollowing(d, u, v) = IF I # {} THEN Min(I) ELSE 0
  BY DEF indexOfFollowing, SelectInSeq
<1>2. s \in Seq([who : User, time : Nat])
  BY DEF DbType
<1>3. v \in Followees(d, u) <=> I # {}
  <2>1. ToSet(s) = {s[i] : i \in 1 .. Len(s)}
    BY <1>2 DEF ToSet
  <2> QED BY <2>1 DEF Followees
<1>4. I \in SUBSET Nat
  OBVIOUS
<1>5. I # {} => Min(I) \in I
  <2> HIDE DEF I
  <2> QED BY <1>4, MinIs
<1> HIDE DEF I
<1>6. CASE I = {}
  BY <1>1, <1>3, <1>6
<1>7. CASE I # {}
  <2>1. indexOfFollowing(d, u, v) \in I
    BY <1>1, <1>5, <1>7
  <2> QED BY <1>3, <1>7, <2>1 DEF I
<1> QED BY <1>6, <1>7

\* The same search in the list of followers.
LEMMA IndexOfFollower ==
    ASSUME NEW d \in DbType, NEW u \in User, NEW v
    PROVE  LET i == indexOfFollower(d, u, v)
           IN  \/ i = 0 /\ v \notin ToSet(d.followers[u])
               \/ /\ i \in 1 .. Len(d.followers[u]) /\ d.followers[u][i] = v
                  /\ v \in ToSet(d.followers[u])
<1> DEFINE s == d.followers[u]
           I == {i \in 1 .. Len(s) : s[i] = v}
<1>1. indexOfFollower(d, u, v) = IF I # {} THEN Min(I) ELSE 0
  BY DEF indexOfFollower, SelectInSeq
<1>2. s \in Seq(User)
  BY DEF DbType
<1>3. v \in ToSet(s) <=> I # {}
  <2>1. ToSet(s) = {s[i] : i \in 1 .. Len(s)}
    BY <1>2 DEF ToSet
  <2> QED BY <2>1
<1>4. I \in SUBSET Nat
  OBVIOUS
<1>5. I # {} => Min(I) \in I
  <2> HIDE DEF I
  <2> QED BY <1>4, MinIs
<1> HIDE DEF I
<1>6. CASE I = {}
  BY <1>1, <1>3, <1>6
<1>7. CASE I # {}
  <2>1. indexOfFollower(d, u, v) \in I
    BY <1>1, <1>5, <1>7
  <2> QED BY <1>3, <1>7, <2>1 DEF I
<1> QED BY <1>6, <1>7

\* Both indices are numbers.
LEMMA IndexNat ==
    ASSUME NEW d \in DbType, NEW u \in User, NEW v \in User
    PROVE  <<indexOfFollowing(d, u, v), indexOfFollower(d, v, u)>> \in Nat \X Nat
<1> DEFINE i == indexOfFollowing(d, u, v)
           j == indexOfFollower(d, v, u)
<1>1. i = 0 \/ i \in 1 .. Len(d.following[u])
  BY IndexOfFollowing
<1>2. j = 0 \/ j \in 1 .. Len(d.followers[v])
  BY IndexOfFollower
<1> HIDE DEF i, j
<1>3. i \in Nat /\ j \in Nat
  BY <1>1, <1>2
<1> QED BY <1>3 DEF i, j

\* What a request names.
LEMMA RequestForms ==
    ASSUME NEW r \in Request
    PROVE  /\ r.user \in User /\ r.op \in {"user", "follow", "unfollow"}
           /\ r.op = "user" => r = Login(r.user)
           /\ r.op = "follow" => /\ r.target \in User /\ r.time \in Time
                                 /\ r = Follow(r.user, r.target, r.time)
           /\ r.op = "unfollow" => /\ r.target \in User
                                   /\ r = UnFollow(r.user, r.target)
<1>1. CASE r \in {Login(u) : u \in User}
  BY <1>1 DEF Login
<1>2. CASE r \in {UnFollow(u, v) : u \in User, v \in User}
  BY <1>2 DEF UnFollow
<1>3. CASE r \in {Follow(u, v, t) : u \in User, v \in User, t \in Time}
  BY <1>3 DEF Follow
<1> QED BY <1>1, <1>2, <1>3 DEF Request

-----------------------------------------------------------------------------
(* Steps *)

\* The types of the log and of the calls.
LEMMA LogTypesStep ==
    ASSUME LogTypes, Calls, [Next]_vars
    PROVE  LogTypes'
<1> USE DEF LogTypes
<1>1. ASSUME Die, UNCHANGED log PROVE LogTypes'
  BY <1>1 DEF Die
<1>2. CASE StartLocal \/ SyncFetched \/ SyncDone
  BY <1>2 DEF StartLocal, SyncFetched, SyncDone
<1>3. CASE StartSync
  BY <1>3 DEF StartSync
<1>4. CASE SyncFailed \/ SyncBroken \/ Crash
  BY <1>1, <1>4 DEF SyncFailed, SyncBroken, Crash
<1>5. CASE SyncLine
  <2>1. Head(rest) \in Entry /\ Tail(rest) \in Seq(Entry)
    BY <1>5, ToSetHeadTail DEF SyncLine
  <2>2. Append(log, Head(rest)) \in Seq(Entry)
    BY <2>1, ToSetAppend
  <2> QED BY <1>5, <2>1, <2>2 DEF SyncLine
<1>6. ASSUME NEW t \in Thread, Receive(t) PROVE LogTypes'
  BY <1>6 DEF Receive
<1>7. ASSUME NEW t \in Thread, LookupLogin(t) \/ LookupPair(t) PROVE LogTypes'
  BY <1>7 DEF LookupLogin, LookupPair, Return
<1>8. ASSUME NEW t \in Thread, UnknownTarget(t) \/ StaleErase(t) PROVE LogTypes'
  BY <1>1, <1>8 DEF UnknownTarget, StaleErase
<1>9. ASSUME NEW t \in Thread, Update(t) PROVE LogTypes'
  BY <1>9 DEF Update
<1>10. ASSUME NEW t \in Thread, Write(t) PROVE LogTypes'
  <2>1. Line(req[t]) \in Entry
    BY <1>10, EntryOfRequest DEF Write, Calls
  <2>2. Append(log, Line(req[t])) \in Seq(Entry)
    BY <2>1, ToSetAppend
  <2> QED BY <1>10, <2>2 DEF Write
<1>11. ASSUME NEW t \in Thread, Reply(t) PROVE LogTypes'
  BY <1>11 DEF Reply, Return
<1>12. CASE UNCHANGED vars
  BY <1>12 DEF vars
<1> QED
  BY <1>2, <1>3, <1>4, <1>5, <1>6, <1>7, <1>8, <1>9, <1>10, <1>11, <1>12
  DEF Next, initializeData, Serve

\* A call that returns leaves two numbers in at.
LEMMA ReturnAt ==
    ASSUME NEW t \in Thread, at \in [Thread -> Nat \X Nat], Return(t)
    PROVE  at' \in [Thread -> Nat \X Nat]
<1> DEFINE zero == <<0, 0>>
           N == Nat \X Nat
<1>1. zero \in N
  OBVIOUS
<1>2. at' = [at EXCEPT ![t] = zero]
  BY DEF Return
<1> HIDE DEF zero, N
<1>3. at' \in [Thread -> N]
  <2>1. at \in [Thread -> N]
    BY DEF N
  <2> QED BY <1>1, <1>2, <2>1
<1> QED BY <1>3 DEF N

\* Calls run only while the server listens.
LEMMA CallsStep ==
    ASSUME LogTypes, Calls, Memory, [Next]_vars
    PROVE  Calls'
<1> USE DEF LogTypes, Calls
<1>1. ASSUME Die PROVE Calls'
  BY <1>1 DEF Die
<1>2. CASE StartLocal \/ SyncFetched \/ SyncDone \/ StartSync \/ SyncLine
  BY <1>2 DEF StartLocal, SyncFetched, SyncDone, StartSync, SyncLine
<1>3. CASE SyncFailed \/ SyncBroken \/ Crash
  BY <1>1, <1>3 DEF SyncFailed, SyncBroken, Crash
<1>4. ASSUME NEW t \in Thread, Receive(t) PROVE Calls'
  BY <1>4 DEF Receive
<1>5. ASSUME NEW t \in Thread, LookupLogin(t) PROVE Calls'
  <2>1. Return(t) \/ UNCHANGED at
    BY <1>5 DEF LookupLogin
  <2>2. at' \in [Thread -> Nat \X Nat]
    BY <2>1, ReturnAt
  <2>3. pc' = [pc EXCEPT ![t] = "idle"] \/ (pc' = [pc EXCEPT ![t] = "update"] /\ req' = req)
    BY <1>5 DEF LookupLogin, Return
  <2>4. \A s \in Thread : s # t => pc'[s] = pc[s] /\ req'[s] = req[s]
    BY <1>5 DEF LookupLogin, Return
  <2>5. pc[t] # "idle" /\ mode' = mode
    BY <1>5 DEF LookupLogin
  <2> QED BY <2>2, <2>3, <2>4, <2>5
<1>6. ASSUME NEW t \in Thread, LookupPair(t) PROVE Calls'
  <2> DEFINE r == req[t]
             is == <<indexOfFollowing(db, r.user, r.target), indexOfFollower(db, r.target, r.user)>>
  <2>1. is \in Nat \X Nat
    BY <1>6, RequestForms, IndexNat DEF LookupPair, Memory
  <2>2. \/ Return(t)
        \/ /\ pc' = [pc EXCEPT ![t] = "update"] /\ req' = req
           /\ at' = [at EXCEPT ![t] = IF r.op = "unfollow" THEN is ELSE @]
    BY <1>6 DEF LookupPair
  <2> HIDE DEF is
  <2>3. at' \in [Thread -> Nat \X Nat]
    <3>1. CASE Return(t)
      BY <3>1, ReturnAt
    <3>2. CASE at' = [at EXCEPT ![t] = IF r.op = "unfollow" THEN is ELSE @]
      <4> DEFINE N == Nat \X Nat
      <4>1. is \in N /\ at \in [Thread -> N]
        BY <2>1
      <4> HIDE DEF N
      <4>2. at' \in [Thread -> N]
        BY <3>2, <4>1
      <4> QED BY <4>2 DEF N
    <3> QED BY <2>2, <3>1, <3>2
  <2> QED BY <1>6, <2>2, <2>3 DEF LookupPair, Return
<1>7. ASSUME NEW t \in Thread, UnknownTarget(t) \/ StaleErase(t) PROVE Calls'
  BY <1>1, <1>7 DEF UnknownTarget, StaleErase
<1>8. ASSUME NEW t \in Thread, Update(t) PROVE Calls'
  BY <1>8 DEF Update
<1>9. ASSUME NEW t \in Thread, Write(t) PROVE Calls'
  BY <1>9 DEF Write
<1>10. ASSUME NEW t \in Thread, Reply(t) PROVE Calls'
  BY <1>10 DEF Reply, Return
<1>11. CASE UNCHANGED vars
  BY <1>11 DEF vars
<1> QED
  BY <1>2, <1>3, <1>4, <1>5, <1>6, <1>7, <1>8, <1>9, <1>10, <1>11
  DEF Next, initializeData, Serve

\* More lines account for as much.
LEMMA AccountedMore ==
    ASSUME NEW d, NEW L, NEW M, Accounted(d, L), L \subseteq M
    PROVE  Accounted(d, M)
BY DEF Accounted

\* The line of a request accounts for what the request accounts for.
LEMMA AccountedLine ==
    ASSUME NEW d, NEW L, NEW q \in Request, Accounted(d, L \cup {q})
    PROVE  Accounted(d, L \cup {Line(q)})
<1>1. q.op = "user" => Line(q) = q
  BY DEF Line
<1>2. Line(q).op = q.op /\ Line(q).user = q.user
  BY RequestForms DEF Line, Follow, UnFollow, Login
<1>3. q.op = "follow" => Line(q).target = q.target
  BY RequestForms DEF Line, Follow
<1>4. \A u : Login(u) = q => Line(q) = q
  BY <1>1 DEF Login
<1>5. \A u \in ToSet(d.users) : Login(u) \in L \cup {Line(q)}
  BY <1>4 DEF Accounted
<1>6. ASSUME NEW u \in User, NEW v \in Followees(d, u)
      PROVE  \E l \in L \cup {Line(q)} : l.op = "follow" /\ l.user = u /\ l.target = v
  <2>1. PICK l \in L \cup {q} : l.op = "follow" /\ l.user = u /\ l.target = v
    BY DEF Accounted
  <2>2. CASE l = q
    <3>1. Line(q).op = "follow" /\ Line(q).user = u /\ Line(q).target = v
      BY <1>2, <1>3, <2>1, <2>2
    <3> QED BY <3>1
  <2>3. CASE l \in L
    BY <2>1, <2>3
  <2> QED BY <2>2, <2>3
<1> QED BY <1>5, <1>6 DEF Accounted

\* Nothing is pending unless the server listens.
LEMMA PendingNone ==
    ASSUME Calls, mode # "up"
    PROVE  Pending = {} /\ \A t \in Thread : pc[t] = "idle"
BY DEF Calls, Pending

\* A server that dies leaves only its file.
LEMMA DeadStep ==
    ASSUME Die
    PROVE  Memory' /\ Known' /\ LookedUp'
<1>1. mode' = "down" /\ db' = EmptyDb /\ \A t \in Thread : pc'[t] = "idle"
  BY DEF Die
<1> QED BY <1>1, EmptyDbIs DEF Memory, Known, LookedUp

\* Starting up.
LEMMA KnownStart ==
    ASSUME KnownInv, initializeData
    PROVE  Memory' /\ Known' /\ LookedUp'
<1> USE DEF KnownInv
<1>1. CASE StartLocal
  <2>1. /\ db' = processUserInfoFromFile(log) /\ log' = log /\ mode' = "up" /\ mode # "up"
        /\ pc' = pc /\ req' = req /\ log \in Seq(Entry)
    BY <1>1 DEF StartLocal, LogTypes
  <2>2. Pending' = {} /\ \A t \in Thread : pc'[t] = "idle"
    BY <2>1, PendingNone DEF Pending
  <2>3. db' \in DbType /\ Accounted(db', ToSet(log)) /\ NamesIn(db', ToSet(log))
    BY <1>1, <2>1, ReplayKnown DEF StartLocal
  <2>4. ToSet(log') \cup Pending' = ToSet(log) /\ ToSet(log') = ToSet(log)
    BY <2>1, <2>2
  <2> QED BY <2>1, <2>2, <2>3, <2>4 DEF Memory, Known, LookedUp
<1>2. CASE StartSync
  <2>1. db' = EmptyDb /\ mode' = "fetch" /\ log' = <<>> /\ pc' = pc /\ req' = req
    BY <1>2 DEF StartSync, Memory
  <2>2. \A t \in Thread : pc'[t] = "idle"
    BY <1>2, <2>1, PendingNone DEF StartSync
  <2> QED BY <2>1, <2>2, EmptyDbIs DEF Memory, Known, LookedUp
<1>3. CASE SyncFetched
  <2>1. db' = EmptyDb /\ mode' = "copy" /\ log' = <<>> /\ pc' = pc /\ req' = req
    BY <1>3 DEF SyncFetched, Memory
  <2>2. Pending' = {} /\ \A t \in Thread : pc'[t] = "idle"
    BY <1>3, <2>1, PendingNone DEF SyncFetched, Pending
  <2>3. ToSet(log') \cup Pending' = {} /\ ToSet(log') = {}
    BY <2>1, <2>2 DEF ToSet
  <2> QED BY <2>1, <2>2, <2>3, EmptyDbIs, AccountedEmpty DEF Memory, Known, LookedUp
<1>4. CASE SyncFailed \/ SyncBroken
  BY <1>4, DeadStep DEF SyncFailed, SyncBroken
<1>5. CASE SyncLine
  <2> DEFINE x == Head(rest)
             e == ReplayLine(db, x)
  <2>1. /\ db' = e /\ e # Broken /\ mode = "copy" /\ mode' = "copy" /\ log' = Append(log, x)
        /\ pc' = pc /\ req' = req
    BY <1>5 DEF SyncLine
  <2>2. x \in Entry
    BY <1>5, ToSetHeadTail DEF SyncLine, LogTypes
  <2>3. Pending = {} /\ Pending' = {} /\ \A t \in Thread : pc'[t] = "idle"
    BY <2>1, PendingNone DEF Pending
  <2>4. ToSet(log') = ToSet(log) \cup {x}
    BY <2>1, <2>2, ToSetAppend DEF LogTypes
  <2> HIDE DEF x
  <2>5. ToSet(log) \cup Pending = ToSet(log)
    BY <2>3
  <2>6. db \in DbType /\ Accounted(db, ToSet(log)) /\ NamesIn(db, ToSet(log))
    BY <2>1, <2>5 DEF Memory, Known
  <2>7. e \in DbType /\ Accounted(e, ToSet(log) \cup {x}) /\ NamesIn(e, ToSet(log) \cup {x})
    BY <2>1, <2>2, <2>6, ReplayLineKnown
  <2> HIDE DEF e
  <2>8. ToSet(log') \cup Pending' = ToSet(log) \cup {x}
    BY <2>3, <2>4
  <2> QED BY <2>1, <2>3, <2>4, <2>7, <2>8 DEF Memory, Known, LookedUp
<1>6. CASE SyncDone
  <2>1. db' = db /\ mode = "copy" /\ mode' = "up" /\ log' = log /\ pc' = pc /\ req' = req
    BY <1>6 DEF SyncDone
  <2>2. Pending = {} /\ Pending' = {} /\ \A t \in Thread : pc'[t] = "idle"
    BY <2>1, PendingNone DEF Pending
  <2>3. ToSet(log') \cup Pending' = ToSet(log) \cup Pending /\ ToSet(log') = ToSet(log)
    BY <2>1, <2>2
  <2> QED BY <2>1, <2>2, <2>3 DEF Memory, Known, LookedUp
<1> QED BY <1>1, <1>2, <1>3, <1>4, <1>5, <1>6 DEF initializeData

\* A step of a call that changes neither memory nor file, nor what is pending.
LEMMA KnownKept ==
    ASSUME KnownInv, UNCHANGED <<mode, db, log>>, Pending' = Pending
    PROVE  Memory' /\ Known'
<1>1. ToSet(log') = ToSet(log)
  OBVIOUS
<1> QED BY <1>1 DEF KnownInv, Memory, Known

\* Calls.
LEMMA KnownServe ==
    ASSUME KnownInv, NEW t \in Thread, Serve(t)
    PROVE  Memory' /\ Known' /\ LookedUp'
<1> USE DEF KnownInv
<1>1. CASE Receive(t)
  <2>1. Pending' = Pending /\ UNCHANGED <<mode, db, log>>
    BY <1>1 DEF Receive, Pending, LogTypes
  <2>2. LookedUp'
    BY <1>1 DEF Receive, LookedUp, LogTypes
  <2> QED BY <2>1, <2>2, KnownKept
<1>2. CASE LookupLogin(t)
  <2>1. Pending' = Pending /\ UNCHANGED <<mode, db, log>>
    BY <1>2 DEF LookupLogin, Return, Pending, LogTypes
  <2>2. LookedUp'
    BY <1>2 DEF LookupLogin, Return, LookedUp, LogTypes
  <2> QED BY <2>1, <2>2, KnownKept
<1>3. CASE LookupPair(t)
  <2>1. Pending' = Pending /\ UNCHANGED <<mode, db, log>>
    <3>1. /\ pc[t] = "lookup" /\ UNCHANGED <<mode, db, log>>
          /\ \/ pc' = [pc EXCEPT ![t] = "idle"] /\ req' = [req EXCEPT ![t] = NoRequest]
             \/ pc' = [pc EXCEPT ![t] = "update"] /\ req' = req
      BY <1>3 DEF LookupPair, Return
    <3> QED BY <3>1 DEF Pending, LogTypes
  <2>2. LookedUp'
    BY <1>3 DEF LookupPair, Return, LookedUp, LogTypes
  <2> QED BY <2>1, <2>2, KnownKept
<1>4. CASE UnknownTarget(t) \/ StaleErase(t)
  BY <1>4, DeadStep DEF UnknownTarget, StaleErase
<1>5. CASE Update(t)
  <2> DEFINE r == req[t]
             L == ToSet(log) \cup Pending
             M == ToSet(log') \cup Pending'
  <2>1. /\ pc[t] = "update" /\ pc' = [pc EXCEPT ![t] = "write"] /\ UNCHANGED <<mode, log, req>>
        /\ mode = "up" /\ r \in Request
    BY <1>5 DEF Update, Calls
  <2>2. Pending' = Pending \cup {r}
    BY <2>1 DEF Pending, LogTypes
  <2>3. L \subseteq M /\ r \in M /\ ToSet(log') = ToSet(log)
    BY <2>1, <2>2
  <2>4. db \in DbType /\ Accounted(db, L) /\ NamesIn(db, ToSet(log))
    BY <2>1 DEF Memory, Known
  <2>5. r.op # "user" => Exists(db, r.user) /\ Exists(db, r.target)
    BY <2>1 DEF LookedUp
  <2> HIDE DEF r, L, M
  <2>6. /\ db' \in DbType /\ Accounted(db', M) /\ NamesIn(db', ToSet(log))
        /\ \A u : Exists(db, u) => Exists(db', u)
    <3>1. CASE r.op = "user"
      <4>1. r.user \in User /\ r = Login(r.user) /\ db' = PushClient(db, r.user)
        BY <1>5, <2>1, <3>1, RequestForms DEF Update, r
      <4>2. db' \in DbType /\ db'.users = Append(db.users, r.user)
        BY <2>4, <4>1, PushClientIs
      <4>3. Accounted(db', M) /\ NamesIn(db', ToSet(log) \cup {Login(r.user)})
        BY <2>3, <2>4, <4>1, AccountedPushClient
      <4>4. \A u : Exists(db, u) => Exists(db', u)
        <5>1. ToSet(db'.users) = ToSet(db.users) \cup {r.user}
          <6>1. db.users \in Seq(User)
            BY <2>4 DEF DbType
          <6>2. ToSet(Append(db.users, r.user)) = ToSet(db.users) \cup {r.user}
            BY <4>1, <6>1, ToSetAppend
          <6> QED BY <4>2, <6>2
        <5> QED BY <2>4, <4>2, <5>1, ExistsIs
      <4> QED BY <4>2, <4>3, <4>4, NamesInLess
    <3>2. CASE r.op = "follow"
      <4>1. /\ r.user \in User /\ r.target \in User /\ r.time \in Nat
            /\ r = Follow(r.user, r.target, r.time)
            /\ db' = PushFollow(db, r.user, r.target, r.time)
        BY <1>5, <2>1, <3>2, RequestForms, UserLogAssumption DEF Update, r
      <4>2. db' \in DbType
        BY <2>4, <4>1, PushFollowIs
      <4>3. db'.users = db.users
        BY <2>4, <4>1 DEF PushFollow, DbType
      <4>4. Accounted(db', M) /\ NamesIn(db', ToSet(log) \cup {Follow(r.user, r.target, r.time)})
        BY <2>3, <2>4, <2>5, <3>2, <4>1, AccountedPushFollow
      <4>5. \A u : Exists(db, u) => Exists(db', u)
        BY <2>4, <4>2, <4>3, ExistsIs
      <4> QED BY <4>2, <4>4, <4>5, NamesInLess
    <3>3. CASE r.op = "unfollow"
      <4> DEFINE i == at[t][1]
                 j == at[t][2]
      <4>1. /\ r.user \in User /\ r.target \in User /\ i \in Nat /\ j \in Nat
            /\ db.following[r.user] # <<>> /\ db.followers[r.target] # <<>>
            /\ db' = EraseFollow(db, r.user, r.target, i, j)
        BY <1>5, <2>1, <3>3, RequestForms DEF Update, r, Calls
      <4> HIDE DEF i, j
      <4>2. db' \in DbType /\ db'.users = db.users
        <5>1. EraseFollow(db, r.user, r.target, i, j) \in DbType
          BY <2>4, <4>1, EraseFollowIs
        <5>2. EraseFollow(db, r.user, r.target, i, j).users = db.users
          BY <2>4 DEF EraseFollow, DbType
        <5> QED BY <4>1, <5>1, <5>2
      <4>3. Accounted(db', M) /\ NamesIn(db', ToSet(log) \cup {UnFollow(r.user, r.target)})
        BY <2>3, <2>4, <2>5, <3>3, <4>1, AccountedErase
      <4>4. \A u : Exists(db, u) => Exists(db', u)
        BY <2>4, <4>2, ExistsIs
      <4> QED BY <4>2, <4>3, <4>4, NamesInLess
    <3> QED BY <2>1, <3>1, <3>2, <3>3, RequestForms
  <2>7. Memory'
    BY <2>1, <2>6 DEF Memory
  <2>8. Known'
    BY <2>3, <2>6 DEF Known, M
  <2>9. LookedUp'
    BY <2>1, <2>6 DEF LookedUp, LogTypes
  <2> QED BY <2>7, <2>8, <2>9
<1>6. CASE Write(t)
  <2> DEFINE r == req[t]
             Others == Pending'
  <2>1. /\ pc[t] = "write" /\ pc' = [pc EXCEPT ![t] = "reply"]
        /\ UNCHANGED <<mode, db, req>> /\ log' = Append(log, Line(r))
        /\ mode = "up" /\ r \in Request
    BY <1>6 DEF Write, Calls
  <2>2. Pending \subseteq Pending' \cup {r}
    BY <2>1 DEF Pending, LogTypes
  <2>3. ToSet(log') = ToSet(log) \cup {Line(r)}
    BY <2>1, EntryOfRequest, ToSetAppend DEF LogTypes
  <2>4. db \in DbType /\ Accounted(db, ToSet(log) \cup Pending) /\ NamesIn(db, ToSet(log))
    BY <2>1 DEF Memory, Known
  <2>5. r.op # "user" => Exists(db, r.user) /\ Exists(db, r.target)
    BY <2>1 DEF LookedUp
  <2> HIDE DEF r, Others
  <2>6. Accounted(db, (ToSet(log) \cup Pending') \cup {r})
    <3>1. ToSet(log) \cup Pending \subseteq (ToSet(log) \cup Pending') \cup {r}
      BY <2>2
    <3> QED BY <2>4, <3>1, AccountedMore
  <2>7. Accounted(db, (ToSet(log) \cup Pending') \cup {Line(r)})
    BY <2>1, <2>6, AccountedLine
  <2>8. (ToSet(log) \cup Pending') \cup {Line(r)} = ToSet(log') \cup Pending'
    BY <2>3
  <2>9. NamesIn(db, ToSet(log'))
    <3>1. Line(r).op # "user" => Line(r).user = r.user /\ Line(r).target = r.target /\ r.op # "user"
      BY <2>1, RequestForms DEF Line, Follow, UnFollow
    <3> QED BY <2>3, <2>4, <2>5, <3>1 DEF NamesIn
  <2>10. Memory'
    BY <2>1, <2>4 DEF Memory
  <2>11. Known'
    BY <2>1, <2>7, <2>8, <2>9 DEF Known
  <2>12. LookedUp'
    BY <2>1 DEF LookedUp, LogTypes
  <2> QED BY <2>10, <2>11, <2>12
<1>7. CASE Reply(t)
  <2>1. Pending' = Pending /\ UNCHANGED <<mode, db, log>>
    BY <1>7 DEF Reply, Return, Pending, LogTypes
  <2>2. LookedUp'
    BY <1>7 DEF Reply, Return, LookedUp, LogTypes
  <2> QED BY <2>1, <2>2, KnownKept
<1> QED BY <1>1, <1>2, <1>3, <1>4, <1>5, <1>6, <1>7 DEF Serve

\* A login that is pending is its own line.
LEMMA PendingLoginIs ==
    ASSUME LogTypes, Calls, NEW r \in PendingLogins
    PROVE  r \in Request /\ r \in Entry /\ Line(r) = r
<1>1. r \in Request /\ r.op = "user"
  BY DEF PendingLogins, Pending, Calls
<1>2. Line(r) = r
  BY <1>1 DEF Line
<1> QED BY <1>1, <1>2, EntryOfRequest

\* A login with a line written or pending is in the file or a pending login.
LEMMA AccountedLogin ==
    ASSUME Accounted(db, ToSet(log) \cup Pending), NEW u \in ToSet(db.users)
    PROVE  Login(u) \in ToSet(log) \cup PendingLogins
<1>1. Login(u) \in ToSet(log) \cup Pending
  BY DEF Accounted
<1>2. Login(u).op = "user"
  BY DEF Login
<1> QED BY <1>1, <1>2 DEF PendingLogins

\* Only the end of the process adds to what is gone.
LEMMA DieOrKept ==
    ASSUME LogTypes, Calls, [Next]_vars
    PROVE  \/ Die /\ UNCHANGED <<log, acked>>
           \/ /\ UNCHANGED <<torn, wiped>>
              /\ mode' = "down" => mode = "down" /\ UNCHANGED <<log, pc, req>>
<1>1. CASE initializeData
  BY <1>1 DEF initializeData, StartLocal, StartSync, SyncFetched, SyncFailed, SyncLine, SyncBroken, SyncDone
<1>2. CASE Crash
  BY <1>2 DEF Crash
<1>3. ASSUME NEW t \in Thread, Serve(t)
      PROVE  \/ Die /\ UNCHANGED <<log, acked>>
             \/ UNCHANGED <<torn, wiped, mode>> /\ mode = "up"
  <2>1. CASE Receive(t)
    BY <2>1 DEF Receive
  <2>2. CASE LookupLogin(t) \/ LookupPair(t) \/ Update(t) \/ Write(t) \/ Reply(t)
    BY <2>2 DEF LookupLogin, LookupPair, Update, Write, Reply, Calls
  <2>3. CASE UnknownTarget(t) \/ StaleErase(t)
    BY <2>3 DEF UnknownTarget, StaleErase
  <2> QED BY <1>3, <2>1, <2>2, <2>3 DEF Serve
<1>4. CASE UNCHANGED vars
  BY <1>4 DEF vars
<1> QED BY <1>1, <1>2, <1>3, <1>4 DEF Next

\* What is gone, and the logins that the log lacks.
LEMMA GoneStep ==
    ASSUME KnownInv, [Next]_vars, Memory', Known'
    PROVE  Gone' /\ LogNamesLoggedIn'
<1> USE DEF KnownInv
<1>1. Gone'
  <2>1. PendingLogins \subseteq Entry
    BY PendingLoginIs
  <2>2. ToSet(rest) \subseteq Entry
    BY DEF LogTypes, ToSet
  <2> QED BY <2>1, <2>2, DieOrKept DEF Die, Gone
<1>2. LogNamesLoggedIn'
  <2> SUFFICES ASSUME NEW l \in ToSet(log'), l.op # "user", NEW u \in {l.user, l.target}
               PROVE  Login(u) \in ToSet(log') \cup PendingLogins' \cup torn'
    BY DEF LogNamesLoggedIn
  <2>1. CASE mode' \in {"copy", "up"}
    <3>1. Exists(db', l.user) /\ Exists(db', l.target) /\ db' \in DbType
      BY <2>1 DEF Known, NamesIn, Memory
    <3>2. u \in ToSet(db'.users)
      BY <3>1, ExistsIs
    <3>3. Login(u) \in ToSet(log') \cup Pending'
      BY <2>1, <3>2 DEF Known, Accounted
    <3>4. Login(u).op = "user"
      BY DEF Login
    <3> QED BY <3>3, <3>4 DEF PendingLogins
  <2>2. CASE mode' = "fetch"
    BY <2>2 DEF Memory, ToSet
  <2>3. CASE mode' = "down"
    <3>1. log' = log /\ PendingLogins \cup torn \subseteq PendingLogins' \cup torn'
      <4>1. CASE Die /\ log' = log
        BY <4>1 DEF Die
      <4>2. CASE UNCHANGED <<torn, log, pc, req>>
        BY <4>2 DEF PendingLogins, Pending
      <4> QED BY <2>3, <4>1, <4>2, DieOrKept
    <3>2. ToSet(log') = ToSet(log)
      BY <3>1
    <3> QED BY <3>1, <3>2 DEF LogNamesLoggedIn
  <2>4. mode' \in {"down", "fetch", "copy", "up"}
    BY DEF Memory
  <2> QED BY <2>1, <2>2, <2>3, <2>4
<1> QED BY <1>1, <1>2

\* The invariant holds at first, and is kept by every step.
LEMMA KnownInit == Init => KnownInv
<1> SUFFICES ASSUME Init PROVE KnownInv
  OBVIOUS
<1>1. LogTypes
  BY DEF Init, LogTypes
<1>2. Calls
  <2> DEFINE N == Nat \X Nat
  <2>1. <<0, 0>> \in N
    OBVIOUS
  <2>2. at = [t \in Thread |-> <<0, 0>>]
    BY DEF Init
  <2> HIDE DEF N
  <2>3. at \in [Thread -> N]
    BY <2>1, <2>2
  <2> QED BY <2>3 DEF Init, Calls, N
<1>3. Gone /\ LogNamesLoggedIn
  BY DEF Init, Gone, LogNamesLoggedIn, ToSet
<1> QED BY <1>1, <1>2, <1>3, EmptyDbIs DEF Init, KnownInv, Memory, Known, LookedUp

\* Every step keeps the invariant.
LEMMA KnownStep ==
    ASSUME KnownInv, [Next]_vars
    PROVE  KnownInv'
<1>1. LogTypes' /\ Calls'
  BY LogTypesStep, CallsStep DEF KnownInv
<1>2. Memory' /\ Known' /\ LookedUp'
  <2>1. CASE initializeData
    BY <2>1, KnownStart
  <2>2. CASE Crash
    BY <2>2, DeadStep DEF Crash
  <2>3. CASE \E t \in Thread : Serve(t)
    BY <2>3, KnownServe
  <2>4. CASE UNCHANGED vars
    <3>1. Pending' = Pending /\ UNCHANGED <<mode, db, log, pc, req>>
      BY <2>4 DEF Pending, vars
    <3>2. LookedUp'
      BY <3>1 DEF KnownInv, LookedUp
    <3> QED BY <3>1, <3>2, KnownKept
  <2> QED BY <2>1, <2>2, <2>3, <2>4 DEF Next
<1> QED BY <1>1, <1>2, GoneStep DEF KnownInv

\* For any number of threads, however their calls overlap, wherever the server
\* crashes and whether or not a copy of a log fails half-way.
THEOREM KnownInvariance == Spec => []KnownInv
<1>1. Init => KnownInv
  BY KnownInit
<1>2. KnownInv /\ [Next]_vars => KnownInv'
  BY KnownStep
<1> QED BY <1>1, <1>2, PTL DEF Spec

\* Nobody sees a user or a follow for which there is no line, in the log or
\* about to be written.
THEOREM NothingIsUnlogged == Spec => []NothingUnlogged
<1>1. KnownInv => NothingUnlogged
  BY DEF KnownInv, Known, Accounted, Pending, NothingUnlogged
<1> QED BY <1>1, KnownInvariance, PTL

\* The log of a server, running or not, names no user whose login is neither in
\* the log, nor about to be written, nor lost with the process that had it in
\* memory.
THEOREM LogNamesAreLoggedIn == Spec => []LogNamesLoggedIn
<1>1. KnownInv => LogNamesLoggedIn
  BY DEF KnownInv
<1> QED BY <1>1, KnownInvariance, PTL

-----------------------------------------------------------------------------
(* What was acknowledged *)

\* Lines are left to be copied only between StartSync and the end of the copy.
RestIsCopied == mode \in {"down", "up"} => rest = <<>>

\* Where a line that was acknowledged can be.
Kept == ToSet(log) \cup ToSet(rest) \cup wiped \cup PendingLogins \cup torn

Replying == {Line(req[t]) : t \in {t \in Thread : pc[t] = "reply"}}

KeptInv == RestIsCopied /\ acked \cup Replying \subseteq Kept

\* What a step acknowledges was kept, or is kept from then on.
LEMMA KeptStep ==
    ASSUME KnownInv, KeptInv, [Next]_vars
    PROVE  KeptInv'
<1> USE DEF KnownInv
<1>1. RestIsCopied'
  BY DEF KeptInv, RestIsCopied, Next, initializeData, Serve, StartLocal, StartSync, SyncFetched,
     SyncFailed, SyncLine, SyncBroken, SyncDone, Crash, Die, Receive, LookupLogin, LookupPair,
     UnknownTarget, Update, StaleErase, Write, Reply, vars
<1>2. ASSUME Kept \subseteq Kept', acked' \cup Replying' \subseteq acked \cup Replying \cup Kept'
      PROVE  KeptInv'
  BY <1>1, <1>2 DEF KeptInv
<1>3. ASSUME Die, UNCHANGED <<log, acked>> PROVE KeptInv'
  <2>1. Kept \subseteq Kept'
    BY <1>3 DEF Die, Kept
  <2>2. Replying' = {}
    BY <1>3 DEF Die, Replying
  <2> QED BY <1>2, <1>3, <2>1, <2>2
<1>4. CASE initializeData /\ ~(SyncFailed \/ SyncBroken)
  <2>1. /\ UNCHANGED <<acked, torn, wiped, pc, req>>
        /\ ToSet(log) \cup ToSet(rest) \subseteq ToSet(log') \cup ToSet(rest')
    <3>1. CASE StartLocal \/ SyncFetched \/ SyncDone
      BY <3>1 DEF StartLocal, SyncFetched, SyncDone
    <3>2. CASE StartSync
      BY <3>2 DEF StartSync, KeptInv, RestIsCopied, ToSet
    <3>3. CASE SyncLine
      <4>1. Head(rest) \in Entry /\ ToSet(rest) = {Head(rest)} \cup ToSet(Tail(rest))
        BY <3>3, ToSetHeadTail DEF SyncLine, LogTypes
      <4>2. ToSet(log') = ToSet(log) \cup {Head(rest)}
        BY <3>3, <4>1, ToSetAppend DEF SyncLine, LogTypes
      <4> QED BY <3>3, <4>1, <4>2 DEF SyncLine
    <3> QED BY <1>4, <3>1, <3>2, <3>3 DEF initializeData
  <2>2. PendingLogins' = PendingLogins /\ Replying' = Replying
    BY <2>1 DEF PendingLogins, Pending, Replying
  <2> QED BY <1>2, <2>1, <2>2 DEF Kept
<1>5. ASSUME NEW t \in Thread, UnknownTarget(t) \/ StaleErase(t) PROVE KeptInv'
  BY <1>3, <1>5 DEF UnknownTarget, StaleErase
<1>6. ASSUME NEW t \in Thread, Receive(t) \/ LookupLogin(t) \/ LookupPair(t) \/ Reply(t)
      PROVE  KeptInv'
  <2>1. UNCHANGED <<log, rest, torn, wiped>> /\ pc[t] # "write" /\ pc'[t] \notin {"write", "reply"}
    BY <1>6 DEF Receive, LookupLogin, LookupPair, Reply, Return, LogTypes
  <2>2. \A s \in Thread : s # t => pc'[s] = pc[s] /\ req'[s] = req[s]
    BY <1>6 DEF Receive, LookupLogin, LookupPair, Reply, Return, LogTypes
  <2>3. PendingLogins' = PendingLogins /\ Replying' \subseteq Replying
    BY <2>1, <2>2 DEF PendingLogins, Pending, Replying
  <2>4. acked' \subseteq acked \cup Replying \cup Kept
    <3>1. CASE Receive(t) \/ LookupPair(t)
      BY <3>1 DEF Receive, LookupPair
    <3>2. CASE Reply(t)
      BY <3>2 DEF Reply, Replying
    <3>3. CASE LookupLogin(t)
      <4>1. CASE Exists(db, req[t].user)
        <5>1. req[t] = Login(req[t].user) /\ Line(req[t]) = req[t] /\ mode = "up"
          BY <3>3, RequestForms DEF LookupLogin, Calls, Line
        <5>2. req[t].user \in ToSet(db.users)
          BY <4>1, ExistsIs DEF Memory
        <5>3. req[t] \in ToSet(log) \cup PendingLogins
          BY <5>1, <5>2, AccountedLogin DEF Known
        <5> QED BY <3>3, <5>1, <5>3 DEF LookupLogin, Kept
      <4>2. CASE ~Exists(db, req[t].user)
        BY <3>3, <4>2 DEF LookupLogin
      <4> QED BY <4>1, <4>2
    <3> QED BY <1>6, <3>1, <3>2, <3>3
  <2>5. Kept' = Kept
    BY <2>1, <2>3 DEF Kept
  <2> QED BY <1>2, <2>3, <2>4, <2>5
<1>7. ASSUME NEW t \in Thread, Update(t) PROVE KeptInv'
  <2>1. /\ UNCHANGED <<log, rest, torn, wiped, acked, req>>
        /\ pc[t] = "update" /\ pc' = [pc EXCEPT ![t] = "write"]
    BY <1>7 DEF Update
  <2>2. PendingLogins \subseteq PendingLogins' /\ Replying' = Replying
    BY <2>1 DEF PendingLogins, Pending, Replying, LogTypes
  <2> QED BY <1>2, <2>1, <2>2 DEF Kept
<1>8. ASSUME NEW t \in Thread, Write(t) PROVE KeptInv'
  <2>1. /\ UNCHANGED <<rest, torn, wiped, acked, req>> /\ log' = Append(log, Line(req[t]))
        /\ pc[t] = "write" /\ pc' = [pc EXCEPT ![t] = "reply"]
    BY <1>8 DEF Write
  <2>2. req[t] \in Request
    BY <2>1 DEF Calls
  <2>3. ToSet(log') = ToSet(log) \cup {Line(req[t])}
    BY <2>1, <2>2, EntryOfRequest, ToSetAppend DEF LogTypes
  <2>4. PendingLogins \subseteq PendingLogins' \cup {Line(req[t])}
    <3> SUFFICES ASSUME NEW r \in PendingLogins PROVE r \in PendingLogins' \/ r = Line(req[t])
      OBVIOUS
    <3>1. Line(r) = r
      BY PendingLoginIs
    <3> QED BY <2>1, <3>1 DEF PendingLogins, Pending, LogTypes
  <2>5. Replying' \subseteq Replying \cup {Line(req[t])}
    BY <2>1 DEF Replying, LogTypes
  <2> QED BY <1>2, <2>1, <2>3, <2>4, <2>5 DEF Kept
<1>9. CASE UNCHANGED vars
  <2>1. PendingLogins' = PendingLogins /\ Replying' = Replying
    BY <1>9 DEF vars, PendingLogins, Pending, Replying
  <2> QED BY <1>2, <1>9, <2>1 DEF vars, Kept
<1>10. CASE SyncFailed \/ SyncBroken \/ Crash
  BY <1>3, <1>10 DEF SyncFailed, SyncBroken, Crash
<1> QED BY <1>4, <1>5, <1>6, <1>7, <1>8, <1>9, <1>10 DEF Next, Serve

\* For any number of threads, however their calls overlap, wherever the server
\* crashes and whether or not a start-up fails, what was acknowledged is lost
\* only with a start-up that had emptied the file, or if a login was welcomed
\* back before its line was written.
THEOREM LostOnlyTwoWays == Spec => []LostTwoWaysOnly
<1>1. Init => KeptInv
  BY DEF Init, KeptInv, RestIsCopied, Replying
<1>2. KnownInv /\ KeptInv /\ [Next]_vars => KeptInv'
  BY KeptStep
<1>3. KeptInv => LostTwoWaysOnly
  BY DEF KeptInv, Kept, LostTwoWaysOnly
<1> QED BY <1>1, <1>2, <1>3, KnownInvariance, PTL DEF Spec

\* One request at a time.
Alone == \A s, t \in Thread : s = t

\* Nothing is gone that was acknowledged: no copy fails, and the call that has a
\* login in memory is the only one.
NothingGone == acked \cup Replying \subseteq ToSet(log) \cup ToSet(rest)

\* One request at a time, no step loses what was acknowledged.
LEMMA NothingGoneStep ==
    ASSUME KnownInv, RestIsCopied, NothingGone, Alone, SyncMayFail = FALSE, [Next]_vars
    PROVE  NothingGone'
<1> USE DEF KnownInv
<1> DEFINE L == ToSet(log) \cup ToSet(rest)
<1>2. ASSUME L \subseteq L', acked' \cup Replying' \subseteq acked \cup Replying \cup L'
      PROVE  NothingGone'
  BY <1>2 DEF NothingGone
<1>3. ASSUME Die, UNCHANGED <<log, acked>>, mode = "up" PROVE NothingGone'
  <2>1. L' = L
    BY <1>3 DEF Die, RestIsCopied
  <2>2. Replying' = {}
    BY <1>3 DEF Die, Replying
  <2> QED BY <1>2, <1>3, <2>1, <2>2
<1>4. CASE initializeData
  <2>1. /\ UNCHANGED <<acked, pc, req>>
        /\ L \subseteq L'
    <3>1. CASE StartLocal \/ SyncFetched \/ SyncDone
      BY <3>1 DEF StartLocal, SyncFetched, SyncDone
    <3>2. CASE StartSync
      BY <3>2 DEF StartSync, RestIsCopied, ToSet
    <3>3. CASE SyncLine
      <4>1. Head(rest) \in Entry /\ ToSet(rest) = {Head(rest)} \cup ToSet(Tail(rest))
        BY <3>3, ToSetHeadTail DEF SyncLine, LogTypes
      <4>2. ToSet(log') = ToSet(log) \cup {Head(rest)}
        BY <3>3, <4>1, ToSetAppend DEF SyncLine, LogTypes
      <4> QED BY <3>3, <4>1, <4>2 DEF SyncLine
    <3> QED BY <1>4, <3>1, <3>2, <3>3 DEF initializeData, SyncFailed, SyncBroken
  <2>2. Replying' = Replying
    BY <2>1 DEF Replying
  <2> QED BY <1>2, <2>1, <2>2
<1>5. ASSUME NEW t \in Thread, UnknownTarget(t) \/ StaleErase(t) PROVE NothingGone'
  BY <1>3, <1>5 DEF UnknownTarget, StaleErase, Calls
<1>6. ASSUME NEW t \in Thread, Receive(t) \/ LookupLogin(t) \/ LookupPair(t) \/ Reply(t)
      PROVE  NothingGone'
  <2>1. UNCHANGED <<log, rest>> /\ pc'[t] # "reply"
    BY <1>6 DEF Receive, LookupLogin, LookupPair, Reply, Return, LogTypes
  <2>2. Replying' = {}
    BY <2>1 DEF Replying, Alone
  <2>3. acked' \subseteq acked \cup Replying \cup L
    <3>1. CASE Receive(t) \/ LookupPair(t)
      BY <3>1 DEF Receive, LookupPair
    <3>2. CASE Reply(t)
      BY <3>2 DEF Reply, Replying
    <3>3. CASE LookupLogin(t)
      <4>1. CASE Exists(db, req[t].user)
        <5>1. /\ req[t] = Login(req[t].user) /\ Line(req[t]) = req[t] /\ mode = "up"
              /\ pc[t] # "write"
          BY <3>3, RequestForms DEF LookupLogin, Calls, Line
        <5>2. req[t].user \in ToSet(db.users)
          BY <4>1, ExistsIs DEF Memory
        <5>3. PendingLogins = {}
          BY <5>1 DEF PendingLogins, Pending, Alone
        <5>4. req[t] \in ToSet(log)
          BY <5>1, <5>2, <5>3, AccountedLogin DEF Known
        <5> QED BY <3>3, <5>1, <5>4 DEF LookupLogin
      <4>2. CASE ~Exists(db, req[t].user)
        BY <3>3, <4>2 DEF LookupLogin
      <4> QED BY <4>1, <4>2
    <3> QED BY <1>6, <3>1, <3>2, <3>3
  <2> QED BY <1>2, <2>1, <2>2, <2>3
<1>7. ASSUME NEW t \in Thread, Update(t) PROVE NothingGone'
  <2>1. UNCHANGED <<log, rest, acked>> /\ pc'[t] # "reply"
    BY <1>7 DEF Update, LogTypes
  <2>2. Replying' = {}
    BY <2>1 DEF Replying, Alone
  <2> QED BY <1>2, <2>1, <2>2
<1>8. ASSUME NEW t \in Thread, Write(t) PROVE NothingGone'
  <2>1. UNCHANGED <<rest, acked, req>> /\ log' = Append(log, Line(req[t])) /\ req[t] \in Request
    BY <1>8 DEF Write, Calls
  <2>2. ToSet(log') = ToSet(log) \cup {Line(req[t])}
    BY <2>1, EntryOfRequest, ToSetAppend DEF LogTypes
  <2>3. Replying' \subseteq {Line(req[t])}
    BY <2>1 DEF Replying, Alone
  <2> QED BY <1>2, <2>1, <2>2, <2>3
<1>9. CASE UNCHANGED vars
  <2>1. Replying' = Replying
    BY <1>9 DEF vars, Replying
  <2> QED BY <1>2, <1>9, <2>1 DEF vars
<1>10. CASE Crash
  BY <1>3, <1>10 DEF Crash
<1> QED BY <1>4, <1>5, <1>6, <1>7, <1>8, <1>9, <1>10 DEF Next, Serve

\* One request at a time, however often the server crashes and is restarted,
\* what a client was told has succeeded is in the log of every server that is
\* up, as long as no copy of a log fails half-way.
THEOREM Durability ==
    ASSUME Alone, SyncMayFail = FALSE
    PROVE  Spec => []Durable
<1>1. Init => KeptInv /\ NothingGone
  BY DEF Init, KeptInv, RestIsCopied, Replying, NothingGone
<1>2. KnownInv /\ KeptInv /\ NothingGone /\ [Next]_vars => KeptInv' /\ NothingGone'
  BY KeptStep, NothingGoneStep DEF KeptInv
<1>3. KeptInv /\ NothingGone => Durable
  BY DEF KeptInv, RestIsCopied, NothingGone, Durable, ToSet
<1> QED BY <1>1, <1>2, <1>3, KnownInvariance, PTL DEF Spec
=============================================================================
