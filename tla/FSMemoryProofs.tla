--------------------------- MODULE FSMemoryProofs ---------------------------
(***************************************************************************)
(* Theorems about FSMemory, for any threads, paths and data: the tree that *)
(* getTreeNode walks is the store of named files that FileStore describes. *)
(***************************************************************************)
EXTENDS FSMemory, Lemmas, SequenceTheorems

\* The first i names of a path.
Names(p, i) == SubSeq(p, 1, i)

\* A tree of which every node but the root hangs below a folder.
Rooted(tree) ==
    /\ tree = [p \in DOMAIN tree |-> tree[p]]
    /\ DOMAIN tree \subseteq Seq(STRING) \ {<<>>}
    /\ \A p \in DOMAIN tree : /\ Front(p) = <<>> \/ Front(p) \in DOMAIN tree
                              /\ IsFolder(tree, Front(p))

\* The nodes are files and folders.
Nodes ==
    \A p \in DOMAIN filetree :
        /\ filetree[p] = [folder |-> filetree[p].folder, data |-> filetree[p].data]
        /\ filetree[p].folder \in BOOLEAN
        /\ filetree[p].folder => filetree[p].data = <<>>

\* TypeOK but for the walks of exists and read.
Types ==
    /\ DOMAIN filetree \subseteq UNION {Prefixes(p) : p \in Path}
    /\ \A p \in DOMAIN filetree : filetree[p].folder \in BOOLEAN
    /\ fsMutex \in Thread \cup {NoThread, Leaked}
    /\ call \in [Thread -> Call \cup {NoCall}]
    /\ ret \in [Thread -> {0, -1}]
    /\ crashed \in BOOLEAN

FSInv == Types /\ Rooted(filetree) /\ Nodes

-----------------------------------------------------------------------------
(* Names and paths *)

\* The first names of a path.
LEMMA NamesOf ==
    ASSUME NEW p \in Seq(STRING), NEW i \in 0 .. Len(p)
    PROVE  /\ Names(p, i) \in Seq(STRING) /\ Len(Names(p, i)) = i
           /\ \A j \in 1 .. i : Names(p, i)[j] = p[j]
           /\ i = 0 => Names(p, i) = <<>>
           /\ i > 0 => Names(p, i) # <<>>
<1>1. \A j \in 1 .. i : p[j] \in STRING
  OBVIOUS
<1>2. /\ Names(p, i) \in Seq(STRING) /\ Len(Names(p, i)) = i
      /\ \A j \in 1 .. i : Names(p, i)[j] = p[j]
  BY <1>1, SubSeqProperties DEF Names
<1> QED BY <1>2, EmptySeq

\* All names are the path, and the first of the first names are the first ones.
LEMMA NamesOfNames ==
    ASSUME NEW p \in Seq(STRING), NEW i \in 0 .. Len(p), NEW j \in 0 .. i
    PROVE  /\ Names(p, Len(p)) = p
           /\ Names(Names(p, i), j) = Names(p, j)
<1>1. Names(p, Len(p)) = p
  BY SubSeqFull DEF Names
<1>2. Names(Names(p, i), j) = Names(p, j)
  <2>1. /\ Names(p, i) \in Seq(STRING) /\ Len(Names(p, i)) = i /\ j \in 0 .. Len(p)
        /\ \A k \in 1 .. i : Names(p, i)[k] = p[k]
    BY NamesOf
  <2>2. /\ Names(p, j) \in Seq(STRING) /\ Len(Names(p, j)) = j
        /\ \A k \in 1 .. j : Names(p, j)[k] = p[k]
    BY <2>1, NamesOf
  <2>3. /\ Names(Names(p, i), j) \in Seq(STRING) /\ Len(Names(Names(p, i), j)) = j
        /\ \A k \in 1 .. j : Names(Names(p, i), j)[k] = Names(p, i)[k]
    BY <2>1, NamesOf
  <2> QED BY <2>1, <2>2, <2>3, SeqEqual
<1> QED BY <1>1, <1>2

\* One name more.
LEMMA NextName ==
    ASSUME NEW p \in Seq(STRING), NEW i \in 1 .. Len(p)
    PROVE  /\ Append(Names(p, i - 1), p[i]) = Names(p, i)
           /\ Front(Names(p, i)) = Names(p, i - 1)
<1>1. /\ Names(p, i) \in Seq(STRING) /\ Len(Names(p, i)) = i
      /\ \A k \in 1 .. i : Names(p, i)[k] = p[k]
  BY NamesOf
<1>2. i - 1 \in 0 .. Len(p) /\ p[i] \in STRING
  OBVIOUS
<1>3. /\ Names(p, i - 1) \in Seq(STRING) /\ Len(Names(p, i - 1)) = i - 1
      /\ \A k \in 1 .. i - 1 : Names(p, i - 1)[k] = p[k]
  BY <1>2, NamesOf
<1>4. Append(Names(p, i - 1), p[i]) = Names(p, i)
  <2> DEFINE q == Append(Names(p, i - 1), p[i])
  <2>1. /\ q \in Seq(STRING) /\ Len(q) = i /\ q[i] = p[i]
        /\ \A k \in 1 .. i - 1 : q[k] = p[k]
    BY <1>2, <1>3, AppendProperties
  <2> HIDE DEF q
  <2>2. q = Names(p, i)
    BY <1>1, <2>1, SeqEqual
  <2> QED BY <2>2 DEF q
<1>5. Front(Names(p, i)) = Names(p, i - 1)
  <2>1. Front(Names(p, i)) = Names(Names(p, i), i - 1)
    BY <1>1 DEF Front, Names
  <2>2. i \in 0 .. Len(p) /\ i - 1 \in 0 .. i
    OBVIOUS
  <2> QED BY <2>1, <2>2, NamesOfNames
<1> QED BY <1>4, <1>5

\* A path in a tree leads through folders.
LEMMA RootedPath ==
    ASSUME NEW tree, Rooted(tree), NEW p \in DOMAIN tree
    PROVE  \A j \in 1 .. Len(p) : /\ Names(p, j) \in DOMAIN tree
                                  /\ j < Len(p) => tree[Names(p, j)].folder
<1> DEFINE n == Len(p) - 1
           Reach(j) == /\ Names(p, j) \in DOMAIN tree
                       /\ j < Len(p) => tree[Names(p, j)].folder
           S == {k \in 0 .. n : Reach(Len(p) - k)}
<1>1. p \in Seq(STRING) /\ p # <<>>
  BY DEF Rooted
<1>2. Len(p) \in Nat \ {0} /\ n \in Nat
  BY <1>1, EmptySeq
<1>3. 0 \in S
  BY <1>1, <1>2, NamesOfNames
<1>4. ASSUME NEW k \in 0 .. n - 1, k \in S PROVE k + 1 \in S
  <2>1. Names(p, Len(p) - k) \in DOMAIN tree /\ Len(p) - k \in 1 .. Len(p)
        /\ Len(p) - (k + 1) = (Len(p) - k) - 1 /\ k + 1 \in 0 .. n
        /\ (Len(p) - k) - 1 > 0 /\ (Len(p) - k) - 1 \in 0 .. Len(p)
    BY <1>2, <1>4
  <2>2. Front(Names(p, Len(p) - k)) = Names(p, (Len(p) - k) - 1)
    BY <1>1, <2>1, NextName
  <2>3. Names(p, (Len(p) - k) - 1) # <<>>
    BY <1>1, <2>1, NamesOf
  <2>4. Reach(Len(p) - (k + 1))
    BY <2>1, <2>2, <2>3 DEF Rooted, IsFolder
  <2> QED BY <2>1, <2>4
<1>5. 0 .. n \subseteq S
  <2> HIDE DEF S, n
  <2> QED BY <1>2, <1>3, <1>4, Induction
<1>6. ASSUME NEW j \in 1 .. Len(p) PROVE Reach(j)
  <2>1. Len(p) - j \in 0 .. n /\ Len(p) - (Len(p) - j) = j
    BY <1>2
  <2> QED BY <1>5, <2>1
<1> QED BY <1>6

-----------------------------------------------------------------------------
(* The walk of getTreeNode *)

\* walk has the walk's first n tokens.
IsWalk(walk, tree, tokens, makeFolders, n) ==
    walk = [i \in 0 .. n |->
               IF i = 0 THEN [tree |-> tree, at |-> <<>>, state |-> "node"]
               ELSE WalkToken(walk[i - 1], tokens[i], makeFolders)]

\* There is a walk: the function that getTreeNode defines by recursion exists.
LEMMA WalkExists ==
    ASSUME NEW tree, NEW tokens \in Seq(STRING), NEW makeFolders, NEW n \in Nat
    PROVE  \E walk : IsWalk(walk, tree, tokens, makeFolders, n)
<1> DEFINE start == [tree |-> tree, at |-> <<>>, state |-> "node"]
           Is(walk, m) == IsWalk(walk, tree, tokens, makeFolders, m)
           S == {m \in 0 .. n : \E walk : Is(walk, m)}
<1>1. 0 \in S
  <2>1. Is([i \in 0 .. 0 |-> start], 0)
    <3>1. \A i \in 0 .. 0 : i = 0
      OBVIOUS
    <3> QED BY <3>1 DEF IsWalk
  <2>2. \E walk : Is(walk, 0)
    BY <2>1
  <2> QED BY <2>2
<1>2. ASSUME NEW m \in 0 .. n - 1, m \in S PROVE m + 1 \in S
  <2>1. PICK g : Is(g, m)
    BY <1>2
  <2>2. \A i \in 0 .. m : g[i] = IF i = 0 THEN start
                                 ELSE WalkToken(g[i - 1], tokens[i], makeFolders)
    BY <2>1 DEF IsWalk
  <2> HIDE DEF start
  <2> DEFINE h == [i \in 0 .. m + 1 |->
                      IF i = m + 1 THEN WalkToken(g[m], tokens[m + 1], makeFolders) ELSE g[i]]
  <2>3. \A i \in 0 .. m : h[i] = g[i]
    OBVIOUS
  <2>4. h[m + 1] = WalkToken(h[m], tokens[m + 1], makeFolders)
    BY <2>3
  <2>5. h = [i \in 0 .. m + 1 |-> h[i]]
    OBVIOUS
  <2> HIDE DEF h
  <2>6. \A i \in 0 .. m + 1 : h[i] = IF i = 0 THEN start
                                     ELSE WalkToken(h[i - 1], tokens[i], makeFolders)
    <3> TAKE i \in 0 .. m + 1
    <3>1. CASE i = m + 1
      BY <3>1, <2>4
    <3>2. CASE i \in 0 .. m
      BY <3>2, <2>2, <2>3
    <3> QED BY <3>1, <3>2
  <2>7. h = [i \in 0 .. m + 1 |-> IF i = 0 THEN start
                                  ELSE WalkToken(h[i - 1], tokens[i], makeFolders)]
    BY <2>5, <2>6
  <2>8. \E walk : Is(walk, m + 1)
    BY <2>7 DEF IsWalk, start
  <2> QED BY <1>2, <2>8
<1>3. 0 .. n \subseteq S
  <2> HIDE DEF S
  <2> QED BY <1>1, <1>2, Induction
<1> QED BY <1>3

\* getTreeNode takes the walk's tokens one after the other.
LEMMA TreeNodeByWalk ==
    ASSUME NEW tree, NEW tokens \in Seq(STRING), NEW makeFolders
    PROVE  \E walk : /\ getTreeNode(tree, tokens, makeFolders) = walk[Len(tokens)]
                     /\ walk[0] = [tree |-> tree, at |-> <<>>, state |-> "node"]
                     /\ \A i \in 1 .. Len(tokens) :
                           walk[i] = WalkToken(walk[i - 1], tokens[i], makeFolders)
<1> DEFINE W == CHOOSE g : IsWalk(g, tree, tokens, makeFolders, Len(tokens))
<1>1. Len(tokens) \in Nat
  OBVIOUS
<1>2. IsWalk(W, tree, tokens, makeFolders, Len(tokens))
  BY <1>1, WalkExists
<1>3. getTreeNode(tree, tokens, makeFolders) = W[Len(tokens)]
  BY DEF getTreeNode, IsWalk
<1> HIDE DEF W
<1>4. /\ W[0] = [tree |-> tree, at |-> <<>>, state |-> "node"]
      /\ \A i \in 1 .. Len(tokens) : W[i] = WalkToken(W[i - 1], tokens[i], makeFolders)
  BY <1>1, <1>2 DEF IsWalk
<1> QED BY <1>3, <1>4

\* The tree with the folders that lead to the first i tokens.
Made(tree, tokens, i) ==
    [q \in DOMAIN tree \cup {Names(tokens, j) : j \in 1 .. i} |->
        IF q \in DOMAIN tree THEN tree[q] ELSE Folder]

\* The walk has come to the node of the first i tokens, through folders, and has made
\* those that it missed; or it has ended before, and has made none.
Walked(walk, tree, tokens, makeFolders, i) ==
    \/ /\ walk = [tree |-> Made(tree, tokens, i), at |-> Names(tokens, i), state |-> "node"]
       /\ \A j \in 1 .. i - 1 :
             Names(tokens, j) \in DOMAIN tree => tree[Names(tokens, j)].folder
       /\ makeFolders \/ \A j \in 1 .. i : Names(tokens, j) \in DOMAIN tree
    \/ /\ walk = [tree |-> tree, at |-> walk.at, state |-> walk.state]
       /\ walk.state \in {"missing", "null", "crash"}

\* Where nothing was missed, nothing is made.
LEMMA MadeNothing ==
    ASSUME NEW tree, Rooted(tree), NEW tokens \in Seq(STRING), NEW i \in 0 .. Len(tokens),
           \A j \in 1 .. i : Names(tokens, j) \in DOMAIN tree
    PROVE  Made(tree, tokens, i) = tree
<1>1. DOMAIN tree \cup {Names(tokens, j) : j \in 1 .. i} = DOMAIN tree
  OBVIOUS
<1>2. Made(tree, tokens, i) = [q \in DOMAIN tree |-> tree[q]]
  BY <1>1 DEF Made
<1> QED BY <1>2 DEF Rooted

\* One token of the walk.
LEMMA WalkStep ==
    ASSUME NEW tree, Rooted(tree), NEW tokens \in Seq(STRING), NEW makeFolders \in BOOLEAN,
           NEW i \in 0 .. Len(tokens) - 1, NEW walk, Walked(walk, tree, tokens, makeFolders, i)
    PROVE  Walked(WalkToken(walk, tokens[i + 1], makeFolders), tree, tokens, makeFolders, i + 1)
<1> DEFINE next == WalkToken(walk, tokens[i + 1], makeFolders)
           at == Names(tokens, i)
           to == Names(tokens, i + 1)
           made == Made(tree, tokens, i)
<1>0. i + 1 \in 1 .. Len(tokens) /\ (i + 1) - 1 = i /\ i \in 0 .. Len(tokens)
  OBVIOUS
<1>1. to = Append(at, tokens[i + 1]) /\ Front(to) = at
  BY <1>0, NextName
<1>2. CASE walk.state # "node"
  <2>1. walk = [tree |-> tree, at |-> walk.at, state |-> walk.state]
        /\ walk.state \in {"missing", "null", "crash"}
    BY <1>2 DEF Walked
  <2>2. \/ next = walk
        \/ next = [tree |-> tree, at |-> walk.at, state |-> "crash"]
    BY <2>1 DEF WalkToken
  <2> QED BY <2>1, <2>2 DEF Walked
<1>3. CASE walk.state = "node"
  <2>1. /\ walk = [tree |-> made, at |-> at, state |-> "node"]
        /\ \A j \in 1 .. i - 1 :
              Names(tokens, j) \in DOMAIN tree => tree[Names(tokens, j)].folder
        /\ makeFolders \/ \A j \in 1 .. i : Names(tokens, j) \in DOMAIN tree
    BY <1>3 DEF Walked
  <2>2. walk.tree = made /\ walk.at = at /\ walk.state = "node"
    BY <2>1
  <2>3. \A j \in 1 .. i : Names(tokens, j) # to
    BY <1>0, NamesOf
  <2>4. to \in DOMAIN made <=> to \in DOMAIN tree
    BY <2>3 DEF Made
  <2>5. /\ {Names(tokens, j) : j \in 1 .. i + 1} = {Names(tokens, j) : j \in 1 .. i} \cup {to}
        /\ \A j \in 1 .. i : j \in 1 .. i - 1 \/ j = i
        /\ \A j \in 1 .. i + 1 : j \in 1 .. i \/ j = i + 1
    BY <1>0
  <2>6. CASE to \in DOMAIN tree
    <3>1. next = [tree |-> made, at |-> to, state |-> "node"]
      BY <2>1, <2>2, <2>4, <2>6, <1>1 DEF WalkToken, HasChild
    <3>2. Made(tree, tokens, i + 1) = made
      <4>1. DOMAIN tree \cup {Names(tokens, j) : j \in 1 .. i + 1}
                = DOMAIN tree \cup {Names(tokens, j) : j \in 1 .. i}
        BY <2>5, <2>6
      <4> QED BY <4>1 DEF Made
    <3>3. i > 0 /\ at \in DOMAIN tree => tree[at].folder
      BY <2>6, <1>0, <1>1, NamesOf DEF Rooted, IsFolder
    <3> QED BY <2>1, <2>5, <2>6, <3>1, <3>2, <3>3 DEF Walked
  <2>7. CASE to \notin DOMAIN tree /\ ~makeFolders
    <3>1. next = [tree |-> made, at |-> at, state |-> "missing"]
      BY <2>1, <2>2, <2>4, <2>7, <1>1 DEF WalkToken, HasChild
    <3>2. made = tree
      BY <2>1, <2>7, <1>0, MadeNothing
    <3> QED BY <3>1, <3>2 DEF Walked
  <2>8. CASE to \notin DOMAIN tree /\ makeFolders /\ ~CanHaveChild(made, at)
    <3>1. next = [tree |-> made, at |-> at, state |-> "null"]
      BY <2>1, <2>2, <2>4, <2>8, <1>1 DEF WalkToken, HasChild
    <3>2. at # <<>> /\ ~made[at].folder
      BY <2>8 DEF CanHaveChild, IsFolder
    <3>3. i \in 1 .. i /\ at \in DOMAIN tree
      BY <3>2, <1>0, NamesOf DEF Made, Folder
    <3>4. Len(at) = i /\ \A j \in 1 .. i : Names(at, j) = Names(tokens, j)
      BY <1>0, NamesOf, NamesOfNames
    <3>5. made = tree
      BY <3>3, <3>4, <1>0, RootedPath, MadeNothing
    <3> QED BY <3>1, <3>5 DEF Walked
  <2>9. CASE to \notin DOMAIN tree /\ makeFolders /\ CanHaveChild(made, at)
    <3>1. next = [tree |-> PutChild(made, at, tokens[i + 1], Folder), at |-> to, state |-> "node"]
      BY <2>1, <2>2, <2>4, <2>9, <1>1 DEF WalkToken, HasChild
    <3>2. PutChild(made, at, tokens[i + 1], Folder) = Made(tree, tokens, i + 1)
      BY <2>5, <2>9, <1>1 DEF PutChild, Made
    <3>3. i > 0 /\ at \in DOMAIN tree => tree[at].folder
      <4>1. ASSUME i > 0, at \in DOMAIN tree PROVE made[at] = tree[at] /\ at # <<>>
        BY <4>1, <1>0, NamesOf DEF Made
      <4>2. at # <<>> => made[at].folder
        <5> HIDE DEF at, made
        <5> QED BY <2>9 DEF CanHaveChild, IsFolder
      <4> HIDE DEF at, made
      <4> QED BY <4>1, <4>2
    <3>4. \A j \in 1 .. i :
             Names(tokens, j) \in DOMAIN tree => tree[Names(tokens, j)].folder
      BY <2>1, <2>5, <3>3
    <3>5. next = [tree |-> Made(tree, tokens, i + 1), at |-> to, state |-> "node"]
      BY <3>1, <3>2
    <3> QED BY <2>9, <3>4, <3>5, <1>0 DEF Walked
  <2> QED BY <2>6, <2>7, <2>8, <2>9
<1> QED BY <1>2, <1>3

\* Where the walk of getTreeNode comes to.
LEMMA TreeNode ==
    ASSUME NEW tree, Rooted(tree), NEW tokens \in Seq(STRING), NEW makeFolders \in BOOLEAN
    PROVE  Walked(getTreeNode(tree, tokens, makeFolders), tree, tokens, makeFolders, Len(tokens))
<1>1. PICK walk : /\ getTreeNode(tree, tokens, makeFolders) = walk[Len(tokens)]
                  /\ walk[0] = [tree |-> tree, at |-> <<>>, state |-> "node"]
                  /\ \A i \in 1 .. Len(tokens) :
                        walk[i] = WalkToken(walk[i - 1], tokens[i], makeFolders)
  BY TreeNodeByWalk
<1> DEFINE S == {i \in 0 .. Len(tokens) : Walked(walk[i], tree, tokens, makeFolders, i)}
<1>2. Len(tokens) \in Nat
  OBVIOUS
<1>3. 0 \in S
  <2>1. Names(tokens, 0) = <<>>
    BY <1>2, NamesOf
  <2>2. Made(tree, tokens, 0) = tree
    BY <1>2, MadeNothing
  <2> QED BY <1>1, <1>2, <2>1, <2>2 DEF Walked
<1>4. ASSUME NEW i \in 0 .. Len(tokens) - 1, i \in S PROVE i + 1 \in S
  <2>1. walk[i + 1] = WalkToken(walk[i], tokens[i + 1], makeFolders)
    BY <1>1, <1>4
  <2> QED BY <1>4, <2>1, WalkStep
<1>5. 0 .. Len(tokens) \subseteq S
  <2> HIDE DEF S
  <2> QED BY <1>2, <1>3, <1>4, Induction
<1> QED BY <1>1, <1>2, <1>5

-----------------------------------------------------------------------------
(* What a call does to the tree *)

\* A path that a call is given, and the folders that lead to it.
LEMMA PathOf ==
    ASSUME NEW p \in Path
    PROVE  /\ p \in Seq(STRING) /\ p # <<>> /\ Front(p) \in Seq(STRING)
           /\ Len(p) \in Nat \ {0} /\ Len(Front(p)) = Len(p) - 1
           /\ Append(Front(p), Last(p)) = p
           /\ Names(Front(p), Len(Front(p))) = Front(p)
           /\ \A j \in 0 .. Len(p) - 1 : Names(Front(p), j) = Names(p, j)
           /\ Files!Ancestors(p) = {Names(Front(p), j) : j \in 1 .. Len(p) - 1}
           /\ p \notin Files!Ancestors(p)
<1>1. p \in Seq(STRING) /\ p # <<>>
  BY FSMemoryAssumption
<1>2. Len(p) \in Nat \ {0} /\ Len(p) \in 1 .. Len(p) /\ Len(p) - 1 \in 0 .. Len(p)
  BY <1>1, EmptySeq
<1>3. Front(p) = Names(p, Len(p) - 1)
  BY DEF Front, Names
<1>4. Front(p) \in Seq(STRING) /\ Len(Front(p)) = Len(p) - 1
  BY <1>1, <1>2, <1>3, NamesOf
<1>5. Append(Front(p), Last(p)) = p
  <2>1. Append(Names(p, Len(p) - 1), p[Len(p)]) = Names(p, Len(p)) /\ Names(p, Len(p)) = p
    BY <1>1, <1>2, NextName, NamesOfNames
  <2> QED BY <2>1, <1>3 DEF Last
<1>6. \A j \in 0 .. Len(p) - 1 : Names(Front(p), j) = Names(p, j)
  BY <1>1, <1>2, <1>3, NamesOfNames
<1>7. Names(Front(p), Len(Front(p))) = Front(p)
  BY <1>4, NamesOfNames
<1>8. Files!Ancestors(p) = {Names(Front(p), j) : j \in 1 .. Len(p) - 1}
  BY <1>2, <1>6 DEF Files!Ancestors, Names
<1>9. p \notin Files!Ancestors(p)
  <2>1. \A j \in 1 .. Len(p) - 1 : Len(Names(Front(p), j)) = j
    BY <1>2, <1>4, NamesOf
  <2> QED BY <1>2, <1>8, <2>1
<1> QED BY <1>1, <1>2, <1>4, <1>5, <1>6, <1>7, <1>8, <1>9

\* A walk that finds the path has made nothing.
LEMMA Found ==
    ASSUME Rooted(filetree), NEW p \in Path, NEW makeFolders \in BOOLEAN, NEW w,
           w = getTreeNode(filetree, Front(p), makeFolders),
           w.state = "node", HasChild(w.tree, w.at, Last(p))
    PROVE  w.tree = filetree /\ p \in DOMAIN filetree /\ w.at = Front(p)
<1>1. Walked(w, filetree, Front(p), makeFolders, Len(Front(p)))
  BY PathOf, TreeNode
<1>2. w = [tree |-> Made(filetree, Front(p), Len(p) - 1), at |-> Front(p), state |-> "node"]
  BY <1>1, PathOf DEF Walked
<1>3. p \in DOMAIN Made(filetree, Front(p), Len(p) - 1)
  <2>1. w.tree = Made(filetree, Front(p), Len(p) - 1) /\ w.at = Front(p)
    BY <1>2
  <2> QED BY <2>1, PathOf DEF HasChild
<1>4. p \in DOMAIN filetree
  BY <1>3, PathOf DEF Made
<1>5. \A j \in 1 .. Len(p) - 1 : Names(Front(p), j) \in DOMAIN filetree
  BY <1>4, PathOf, RootedPath
<1>6. Len(p) - 1 \in 0 .. Len(Front(p))
  BY PathOf
<1>7. Made(filetree, Front(p), Len(p) - 1) = filetree
  BY <1>5, <1>6, PathOf, MadeNothing
<1> QED BY <1>2, <1>4, <1>7

\* Where a walk ends at a folder that has not the last name yet, a node can be put there.
LEMMA Missing ==
    ASSUME Rooted(filetree), NEW p \in Path, NEW makeFolders \in BOOLEAN, NEW w, NEW node,
           w = getTreeNode(filetree, Front(p), makeFolders),
           w.state = "node", ~HasChild(w.tree, w.at, Last(p)), CanHaveChild(w.tree, w.at)
    PROVE  /\ Files!Free(p, makeFolders)
           /\ PutChild(w.tree, w.at, Last(p), node) = Files!With(p, node)
<1> DEFINE made == Made(filetree, Front(p), Len(p) - 1)
<1>1. Walked(w, filetree, Front(p), makeFolders, Len(Front(p)))
  BY PathOf, TreeNode
<1>2. /\ w = [tree |-> made, at |-> Front(p), state |-> "node"]
      /\ \A j \in 1 .. (Len(p) - 1) - 1 :
            Names(Front(p), j) \in DOMAIN filetree => filetree[Names(Front(p), j)].folder
      /\ makeFolders \/ \A j \in 1 .. Len(p) - 1 : Names(Front(p), j) \in DOMAIN filetree
  BY <1>1, PathOf DEF Walked
<1>3. DOMAIN made = DOMAIN filetree \cup Files!Ancestors(p)
  BY PathOf DEF Made
<1>4. p \notin DOMAIN made
  <2>1. w.tree = made /\ w.at = Front(p)
    BY <1>2
  <2> QED BY <2>1, PathOf DEF HasChild
<1>5. Files!Free(p, makeFolders)
  <2>1. ASSUME NEW q \in Files!Ancestors(p)
        PROVE  IF q \in DOMAIN filetree THEN filetree[q].folder ELSE makeFolders
    <3>1. PICK j \in 1 .. Len(p) - 1 : q = Names(Front(p), j)
      BY <2>1, PathOf
    <3>2. CASE j = Len(p) - 1
      <4>1. q = Front(p) /\ q # <<>>
        <5>1. j \in 0 .. Len(Front(p)) /\ j > 0 /\ j = Len(Front(p))
          BY <3>1, <3>2, PathOf
        <5> QED BY <5>1, <3>1, PathOf, NamesOf
      <4>2. q \in DOMAIN filetree => made[q].folder
        BY <1>2, <4>1 DEF CanHaveChild, IsFolder
      <4>3. q \in DOMAIN filetree => made[q] = filetree[q]
        BY DEF Made
      <4> QED BY <1>2, <3>1, <4>2, <4>3
    <3>3. CASE j # Len(p) - 1
      <4>1. j \in 1 .. (Len(p) - 1) - 1
        BY <3>1, <3>3, PathOf
      <4> QED BY <1>2, <3>1, <4>1
    <3> QED BY <3>2, <3>3
  <2> QED BY <1>3, <1>4, <2>1 DEF Files!Free
<1>6. PutChild(w.tree, w.at, Last(p), node) = Files!With(p, node)
  <2>1. PutChild(made, Front(p), Last(p), node)
            = [q \in DOMAIN made \cup {p} |-> IF q = p THEN node ELSE made[q]]
    BY PathOf DEF PutChild
  <2>2. \A q \in DOMAIN made : made[q] = IF q \in DOMAIN filetree THEN filetree[q] ELSE Folder
    BY DEF Made
  <2>3. Files!Folder = Folder
    BY DEF Files!Folder, Folder
  <2> HIDE DEF made
  <2> QED BY <1>2, <1>3, <2>1, <2>2, <2>3 DEF Files!With
<1> QED BY <1>5, <1>6

\* Any other walk has made nothing.
LEMMA NothingMade ==
    ASSUME Rooted(filetree), NEW p \in Path, NEW makeFolders \in BOOLEAN, NEW w,
           w = getTreeNode(filetree, Front(p), makeFolders),
           ~(w.state = "node" /\ ~HasChild(w.tree, w.at, Last(p)) /\ CanHaveChild(w.tree, w.at))
    PROVE  w.tree = filetree
<1> DEFINE made == Made(filetree, Front(p), Len(p) - 1)
<1>1. Walked(w, filetree, Front(p), makeFolders, Len(Front(p)))
  BY PathOf, TreeNode
<1>2. CASE w.state = "node" /\ HasChild(w.tree, w.at, Last(p))
  BY <1>2, Found
<1>3. CASE w.state = "node" /\ ~CanHaveChild(w.tree, w.at)
  <2>1. w = [tree |-> made, at |-> Front(p), state |-> "node"]
    BY <1>1, <1>3, PathOf DEF Walked
  <2>2. Front(p) # <<>> /\ ~made[Front(p)].folder
    BY <1>3, <2>1 DEF CanHaveChild, IsFolder
  <2>3. Len(p) - 1 \in 1 .. Len(p) - 1 /\ Len(p) - 1 \in 0 .. Len(Front(p))
    BY <2>2, PathOf, EmptySeq
  <2>4. Front(p) \in DOMAIN filetree
    BY <2>2, <2>3, PathOf DEF Made, Folder
  <2>5. \A j \in 1 .. Len(p) - 1 : Names(Front(p), j) \in DOMAIN filetree
    BY <2>4, PathOf, RootedPath
  <2>6. made = filetree
    BY <2>3, <2>5, PathOf, MadeNothing
  <2> QED BY <2>1, <2>6
<1>4. CASE w.state # "node"
  BY <1>1, <1>4 DEF Walked
<1> QED BY <1>2, <1>3, <1>4

\* The call of a thread that holds the mutex.
LEMMA CallOf ==
    ASSUME FSInv, NEW t \in Thread, NEW op \in {"create", "write", "remove"}, Working(t, op)
    PROVE  /\ call[t].path \in Path
           /\ op = "create" => call[t].makeFolders \in BOOLEAN /\ call[t].folder \in BOOLEAN
           /\ op = "write" => /\ call[t].makeFolders \in BOOLEAN
                              /\ call[t].overwrite \in BOOLEAN
                              /\ call[t].data \in Data
<1>1. call[t] \in Call /\ call[t].op = op /\ call[t].path # NoPath
  BY DEF FSInv, Types, Working, NoCall
<1> QED BY <1>1 DEF Call

\* A call returns -1 and has changed nothing, or returns 0 and has done what FileStore
\* says.
LEMMA CallEffect ==
    ASSUME FSInv, NEW t \in Thread, create(t) \/ write(t) \/ remove(t)
    PROVE  \/ Return(t, -1) /\ filetree' = filetree
           \/ Return(t, 0) /\ Files!Next
<1> DEFINE c == call[t]
           Effect == \/ Return(t, -1) /\ filetree' = filetree
                     \/ Return(t, 0) /\ Files!Next
<1>0. Rooted(filetree)
  BY DEF FSInv
<1>1. CASE create(t)
  <2> DEFINE w == Parent(t, c.makeFolders)
             name == Last(c.path)
             free == /\ w.state = "node" /\ ~HasChild(w.tree, w.at, name)
                     /\ CanHaveChild(w.tree, w.at)
             node == IF c.folder THEN Folder ELSE File(<<>>)
  <2>1. c.path \in Path /\ c.makeFolders \in BOOLEAN /\ c.folder \in BOOLEAN
    BY <1>1, CallOf DEF create
  <2>2. w = getTreeNode(filetree, Front(c.path), c.makeFolders)
    BY DEF Parent
  <2>3. \/ free /\ filetree' = PutChild(w.tree, w.at, name, node) /\ Return(t, 0)
        \/ ~free /\ filetree' = w.tree /\ Return(t, -1)
    BY <1>1 DEF create
  <2>4. CASE free
    <3>1. /\ Files!Free(c.path, c.makeFolders)
          /\ PutChild(w.tree, w.at, name, node) = Files!With(c.path, node)
      <4> HIDE DEF w, node
      <4> QED BY <1>0, <2>1, <2>2, <2>4, Missing
    <3>2. node = IF c.folder THEN Files!Folder ELSE Files!File(<<>>)
      BY DEF Folder, File, Files!Folder, Files!File
    <3>3. Files!Create(c.path)
      <4> HIDE DEF w, node
      <4> QED BY <2>1, <2>3, <2>4, <3>1, <3>2 DEF Files!Create
    <3> QED BY <2>1, <2>3, <2>4, <3>3 DEF Files!Next
  <2>5. CASE ~free
    <3>1. w.tree = filetree
      <4> HIDE DEF w
      <4> QED BY <1>0, <2>1, <2>2, <2>5, NothingMade
    <3> QED BY <2>3, <2>5, <3>1
  <2> QED BY <2>4, <2>5
<1>2. CASE write(t)
  <2> DEFINE w == Parent(t, c.makeFolders)
             name == Last(c.path)
             old == w.state = "node" /\ HasChild(w.tree, w.at, name)
             new == w.state = "node" /\ ~old /\ CanHaveChild(w.tree, w.at)
  <2>1. c.path \in Path /\ c.makeFolders \in BOOLEAN /\ c.overwrite \in BOOLEAN /\ c.data \in Data
    BY <1>2, CallOf DEF write
  <2>2. w = getTreeNode(filetree, Front(c.path), c.makeFolders)
    BY DEF Parent
  <2>3. \/ /\ old /\ ~w.tree[c.path].folder /\ Return(t, 0)
           /\ filetree' = [w.tree EXCEPT ![c.path].data =
                              IF c.overwrite THEN c.data ELSE @ \o c.data]
        \/ new /\ filetree' = PutChild(w.tree, w.at, name, File(c.data)) /\ Return(t, 0)
        \/ ~new /\ (old => w.tree[c.path].folder) /\ filetree' = w.tree /\ Return(t, -1)
    BY <1>2 DEF write
  <2>4. CASE old /\ ~w.tree[c.path].folder
    <3>1. w.tree = filetree /\ c.path \in DOMAIN filetree
      <4> HIDE DEF w
      <4> QED BY <1>0, <2>1, <2>2, <2>4, Found
    <3> HIDE DEF w
    <3>2. /\ ~filetree[c.path].folder /\ Return(t, 0)
          /\ filetree' = [filetree EXCEPT ![c.path].data =
                             IF c.overwrite THEN c.data ELSE @ \o c.data]
      BY <2>3, <2>4, <3>1
    <3>4. CASE c.overwrite
      <4>1. filetree' = [filetree EXCEPT ![c.path] = [filetree[c.path] EXCEPT !.data = c.data]]
        BY <3>2, <3>4
      <4>2. [filetree[c.path] EXCEPT !.data = c.data] = Files!File(c.data)
        <5> DEFINE r == filetree[c.path]
        <5>1. r = [folder |-> r.folder, data |-> r.data] /\ r.folder = FALSE
          BY <3>1, <3>2 DEF FSInv, Nodes
        <5> HIDE DEF r
        <5>2. [r EXCEPT !.data = c.data] = [folder |-> r.folder, data |-> c.data]
          BY <5>1
        <5> QED BY <5>1, <5>2 DEF Files!File, r
      <4>3. Files!WriteOld(c.path, c.data)
        BY <3>1, <3>2, <4>1, <4>2 DEF Files!WriteOld
      <4> QED BY <2>1, <3>2, <4>3 DEF Files!Next
    <3>5. CASE ~c.overwrite
      <4>1. filetree' = [filetree EXCEPT ![c.path].data = @ \o c.data]
        BY <3>2, <3>5
      <4>2. Files!WriteOld(c.path, c.data)
        BY <3>1, <3>2, <4>1 DEF Files!WriteOld
      <4> QED BY <2>1, <3>2, <4>2 DEF Files!Next
    <3> QED BY <2>1, <3>4, <3>5
  <2>5. CASE new
    <3>1. /\ Files!Free(c.path, c.makeFolders)
          /\ PutChild(w.tree, w.at, name, File(c.data)) = Files!With(c.path, File(c.data))
      <4> HIDE DEF w
      <4> QED BY <1>0, <2>1, <2>2, <2>5, Missing
    <3>2. File(c.data) = Files!File(c.data)
      BY DEF File, Files!File
    <3>3. Files!WriteNew(c.path, c.data)
      <4> HIDE DEF w
      <4> QED BY <2>1, <2>3, <2>5, <3>1, <3>2 DEF Files!WriteNew
    <3> QED BY <2>1, <2>3, <2>5, <3>3 DEF Files!Next
  <2>6. CASE ~new /\ (old => w.tree[c.path].folder)
    <3>1. w.tree = filetree
      <4> HIDE DEF w
      <4> QED BY <1>0, <2>1, <2>2, <2>6, NothingMade
    <3> QED BY <2>3, <2>6, <3>1
  <2> QED BY <2>3, <2>4, <2>5, <2>6
<1>3. CASE remove(t)
  <2> DEFINE w == Parent(t, FALSE)
             name == Last(c.path)
             old == w.state = "node" /\ HasChild(w.tree, w.at, name)
  <2>1. c.path \in Path
    BY <1>3, CallOf DEF remove
  <2>2. w = getTreeNode(filetree, Front(c.path), FALSE)
    BY DEF Parent
  <2>3. \/ old /\ filetree' = DropChild(w.tree, w.at, name) /\ Return(t, 0)
        \/ ~old /\ filetree' = w.tree /\ Return(t, -1)
    BY <1>3 DEF remove
  <2>4. CASE old
    <3>1. w.tree = filetree /\ c.path \in DOMAIN filetree /\ w.at = Front(c.path)
      <4> HIDE DEF w
      <4> QED BY <1>0, <2>1, <2>2, <2>4, Found
    <3> HIDE DEF w
    <3>2. filetree' = [q \in {q \in DOMAIN filetree : ~IsPrefix(c.path, q)} |-> filetree[q]]
      <4>1. filetree' = DropChild(filetree, Front(c.path), name)
        BY <2>3, <2>4, <3>1
      <4>2. Append(Front(c.path), name) = c.path
        BY <2>1, PathOf
      <4> QED BY <4>1, <4>2 DEF DropChild
    <3>3. \A q : IsPrefix(c.path, q) <=> Files!Below(q, c.path)
      BY <2>1, PathOf, SubSeqFull DEF IsPrefix, Files!Below
    <3>4. Files!Remove(c.path)
      BY <3>1, <3>2, <3>3 DEF Files!Remove
    <3> QED BY <2>1, <2>3, <2>4, <3>4 DEF Files!Next
  <2>5. CASE ~old
    <3>1. w.tree = filetree
      <4> DEFINE p == c.path
      <4> HIDE DEF w, p
      <4>1. p \in Path /\ FALSE \in BOOLEAN
        BY <2>1 DEF p
      <4>2. w = getTreeNode(filetree, Front(p), FALSE)
        BY <2>2 DEF p
      <4>3. Walked(w, filetree, Front(p), FALSE, Len(Front(p)))
        BY <1>0, <4>1, <4>2, PathOf, TreeNode
      <4>4. CASE \A j \in 1 .. Len(p) - 1 : Names(Front(p), j) \in DOMAIN filetree
        <5>1. Made(filetree, Front(p), Len(p) - 1) = filetree
          <6>1. Len(p) - 1 \in 0 .. Len(Front(p)) /\ Front(p) \in Seq(STRING)
            BY <4>1, PathOf
          <6> QED BY <1>0, <4>4, <6>1, MadeNothing
        <5> QED BY <4>1, <4>3, <5>1, PathOf DEF Walked
      <4>5. CASE ~ \A j \in 1 .. Len(p) - 1 : Names(Front(p), j) \in DOMAIN filetree
        BY <4>1, <4>3, <4>5, PathOf DEF Walked
      <4> QED BY <4>4, <4>5
    <3> QED BY <2>3, <2>5, <3>1
  <2> QED BY <2>4, <2>5
<1> QED BY <1>1, <1>2, <1>3

-----------------------------------------------------------------------------
(* The invariant *)

\* The parent of a node in the store.
LEMMA ParentIn ==
    ASSUME Rooted(filetree), NEW q \in DOMAIN filetree
    PROVE  \/ Front(q) = <<>>
           \/ Front(q) \in DOMAIN filetree /\ filetree[Front(q)].folder
BY DEF Rooted, IsFolder

\* A new node, with the folders that lead to it.
LEMMA WithStep ==
    ASSUME FSInv, NEW p \in Path, NEW makeFolders \in BOOLEAN, NEW f \in BOOLEAN, NEW d,
           f => d = <<>>,
           Files!Free(p, makeFolders), filetree' = Files!With(p, [folder |-> f, data |-> d])
    PROVE  /\ Rooted(filetree)' /\ Nodes'
           /\ DOMAIN filetree' \subseteq UNION {Prefixes(q) : q \in Path}
<1> DEFINE node == [folder |-> f, data |-> d]
           A == {Names(p, j) : j \in 1 .. Len(p) - 1}
<1>0. Rooted(filetree) /\ Nodes
  BY DEF FSInv
<1>1. /\ p \in Seq(STRING) /\ p # <<>> /\ Len(p) \in Nat \ {0} /\ Front(p) \in Seq(STRING)
      /\ Front(p) = Names(p, Len(p) - 1)
      /\ Names(p, Len(p)) = p /\ Len(p) \in 0 .. Len(p) /\ 0 \in 0 .. Len(p)
  <2>1. p \in Seq(STRING) /\ p # <<>> /\ Len(p) \in Nat \ {0} /\ Front(p) \in Seq(STRING)
    BY PathOf
  <2>2. Front(p) = Names(p, Len(p) - 1)
    BY DEF Front, Names
  <2>3. Names(p, Len(p)) = p
    BY <2>1, SubSeqFull DEF Names
  <2> QED BY <2>1, <2>2, <2>3
<1>2. Files!Ancestors(p) = A /\ p \notin A
  <2>1. Files!Ancestors(p) = A
    BY <1>1 DEF Files!Ancestors, Names
  <2> QED BY <2>1, PathOf
<1>3. /\ DOMAIN filetree' = DOMAIN filetree \cup A \cup {p}
      /\ filetree'[p] = node
      /\ \A q \in DOMAIN filetree \cup A :
            q # p => filetree'[q] = IF q \in DOMAIN filetree THEN filetree[q] ELSE Folder
      /\ filetree' = [q \in DOMAIN filetree' |-> filetree'[q]]
  BY <1>2 DEF Files!With, Files!Folder, Folder
<1>4. /\ p \notin DOMAIN filetree
      /\ \A q \in A : q \in DOMAIN filetree => filetree[q].folder
  BY <1>2 DEF Files!Free
<1>5. \A q \in A : filetree'[q].folder
  BY <1>2, <1>3, <1>4 DEF Folder
<1>6. \A j \in 1 .. Len(p) : /\ Names(p, j) \in Seq(STRING) \ {<<>>}
                             /\ Front(Names(p, j)) = <<>> \/ Front(Names(p, j)) \in A
  <2> TAKE j \in 1 .. Len(p)
  <2>1. j \in 0 .. Len(p) /\ j - 1 \in 0 .. Len(p) /\ (j - 1 = 0 \/ j - 1 \in 1 .. Len(p) - 1)
    BY <1>1
  <2>2. Names(p, j) \in Seq(STRING) \ {<<>>}
    BY <1>1, <2>1, NamesOf
  <2>3. Front(Names(p, j)) = Names(p, j - 1)
    BY <1>1, NextName
  <2>4. j - 1 = 0 => Names(p, j - 1) = <<>>
    BY <1>1, <2>1, NamesOf
  <2> QED BY <2>1, <2>2, <2>3, <2>4
<1>7. \A q \in A \cup {p} : \E j \in 1 .. Len(p) : q = Names(p, j)
  BY <1>1
<1>8. \A q \in A \cup {p} : /\ q \in Seq(STRING) \ {<<>>}
                            /\ Front(q) = <<>> \/ Front(q) \in A
  <2> HIDE DEF A
  <2> QED BY <1>6, <1>7
<1>9. Rooted(filetree)'
  <2> HIDE DEF A
  <2>1. DOMAIN filetree' \subseteq Seq(STRING) \ {<<>>}
    BY <1>0, <1>3, <1>8 DEF Rooted
  <2>2. ASSUME NEW q \in DOMAIN filetree'
        PROVE  /\ Front(q) = <<>> \/ Front(q) \in DOMAIN filetree'
               /\ IsFolder(filetree', Front(q))
    <3>1. CASE q \in DOMAIN filetree
      <4>1. \/ Front(q) = <<>>
            \/ Front(q) \in DOMAIN filetree /\ filetree'[Front(q)].folder
        BY <1>0, <1>3, <1>4, <3>1, ParentIn
      <4> QED BY <1>3, <4>1 DEF IsFolder
    <3>2. CASE q \notin DOMAIN filetree
      <4>1. Front(q) = <<>> \/ Front(q) \in A
        BY <1>3, <1>8, <2>2, <3>2
      <4> QED BY <1>3, <1>5, <4>1 DEF IsFolder
    <3> QED BY <3>1, <3>2
  <2> QED BY <1>3, <2>1, <2>2 DEF Rooted
<1>10. Nodes'
  <2> SUFFICES ASSUME NEW q \in DOMAIN filetree'
               PROVE  /\ filetree'[q] = [folder |-> filetree'[q].folder,
                                         data |-> filetree'[q].data]
                      /\ filetree'[q].folder \in BOOLEAN
                      /\ filetree'[q].folder => filetree'[q].data = <<>>
    BY DEF Nodes
  <2>1. filetree'[q] \in {node, Folder} \/ (q \in DOMAIN filetree /\ filetree'[q] = filetree[q])
    BY <1>3
  <2>2. CASE filetree'[q] = node
    BY <2>2
  <2>3. CASE filetree'[q] = Folder
    <3>1. Folder.folder = TRUE /\ Folder.data = <<>>
      BY DEF Folder
    <3>2. Folder = [folder |-> Folder.folder, data |-> Folder.data]
      BY <3>1 DEF Folder
    <3> QED BY <2>3, <3>1, <3>2
  <2>4. CASE q \in DOMAIN filetree /\ filetree'[q] = filetree[q]
    BY <1>0, <2>4 DEF Nodes
  <2> QED BY <2>1, <2>2, <2>3, <2>4
<1>11. DOMAIN filetree' \subseteq UNION {Prefixes(q) : q \in Path}
  <2>1. A \cup {p} \subseteq Prefixes(p)
    <3>1. \A j \in 1 .. Len(p) : Names(p, j) \in Prefixes(p)
      BY <1>1 DEF Prefixes, Names
    <3> HIDE DEF A
    <3> QED BY <1>7, <3>1
  <2> HIDE DEF A
  <2> QED BY <1>3, <2>1 DEF FSInv, Types
<1> QED BY <1>9, <1>10, <1>11

\* What FileStore lets happen keeps the tree in order.
LEMMA StoreStep ==
    ASSUME FSInv, Files!Next
    PROVE  /\ Rooted(filetree)' /\ Nodes'
           /\ DOMAIN filetree' \subseteq UNION {Prefixes(q) : q \in Path}
<1>0. Rooted(filetree) /\ Nodes /\ DOMAIN filetree \subseteq UNION {Prefixes(q) : q \in Path}
  BY DEF FSInv, Types
<1>1. ASSUME NEW p \in Path, Files!Create(p) PROVE
           /\ Rooted(filetree)' /\ Nodes'
           /\ DOMAIN filetree' \subseteq UNION {Prefixes(q) : q \in Path}
  <2>1. PICK makeFolders \in BOOLEAN, folder \in BOOLEAN :
            /\ Files!Free(p, makeFolders)
            /\ filetree' = Files!With(p, IF folder THEN Files!Folder ELSE Files!File(<<>>))
    BY <1>1 DEF Files!Create
  <2>2. CASE folder
    <3>1. filetree' = Files!With(p, [folder |-> TRUE, data |-> <<>>])
      BY <2>1, <2>2 DEF Files!Folder
    <3> QED BY <2>1, <3>1, WithStep
  <2>3. CASE ~folder
    <3>1. filetree' = Files!With(p, [folder |-> FALSE, data |-> <<>>])
      BY <2>1, <2>3 DEF Files!File
    <3> QED BY <2>1, <3>1, WithStep
  <2> QED BY <2>2, <2>3
<1>2. ASSUME NEW p \in Path, NEW d \in Data, Files!WriteNew(p, d) PROVE
           /\ Rooted(filetree)' /\ Nodes'
           /\ DOMAIN filetree' \subseteq UNION {Prefixes(q) : q \in Path}
  <2>1. PICK makeFolders \in BOOLEAN :
            Files!Free(p, makeFolders) /\ filetree' = Files!With(p, [folder |-> FALSE, data |-> d])
    BY <1>2 DEF Files!WriteNew, Files!File
  <2> QED BY <2>1, WithStep
<1>3. ASSUME NEW p \in Path, NEW d \in Data, Files!WriteOld(p, d) PROVE
           /\ Rooted(filetree)' /\ Nodes'
           /\ DOMAIN filetree' \subseteq UNION {Prefixes(q) : q \in Path}
  <2>1. /\ p \in DOMAIN filetree /\ ~filetree[p].folder
        /\ \/ filetree' = [filetree EXCEPT ![p] = [folder |-> FALSE, data |-> d]]
           \/ filetree' = [filetree EXCEPT ![p].data = @ \o d]
    BY <1>3 DEF Files!WriteOld, Files!File
  <2> DEFINE r == filetree[p]
  <2>2. r = [folder |-> r.folder, data |-> r.data] /\ r.folder = FALSE
    BY <1>0, <2>1 DEF Nodes
  <2> HIDE DEF r
  <2>3. \A e : [r EXCEPT !.data = e] = [folder |-> r.folder, data |-> e]
    BY <2>2
  <2>4. \E e : filetree' = [filetree EXCEPT ![p] = [folder |-> FALSE, data |-> e]]
    <3>1. CASE filetree' = [filetree EXCEPT ![p].data = @ \o d]
      <4>1. filetree' = [filetree EXCEPT ![p] = [r EXCEPT !.data = @ \o d]]
        BY <3>1 DEF r
      <4>2. [r EXCEPT !.data = @ \o d] = [folder |-> FALSE, data |-> r.data \o d]
        BY <2>2, <2>3
      <4> QED BY <4>1, <4>2
    <3> QED BY <2>1, <3>1
  <2>5. PICK e : filetree' = [filetree EXCEPT ![p] = [folder |-> FALSE, data |-> e]]
    BY <2>4
  <2>6. /\ DOMAIN filetree' = DOMAIN filetree
        /\ filetree'[p] = [folder |-> FALSE, data |-> e]
        /\ \A q \in DOMAIN filetree : q # p => filetree'[q] = filetree[q]
        /\ filetree' = [q \in DOMAIN filetree' |-> filetree'[q]]
    BY <2>1, <2>5
  <2>7. Rooted(filetree)'
    BY <1>0, <2>1, <2>6 DEF Rooted, IsFolder
  <2>8. Nodes'
    <3> DEFINE n == [folder |-> FALSE, data |-> e]
    <3>1. n.folder = FALSE /\ n.data = e
      OBVIOUS
    <3>2. n = [folder |-> n.folder, data |-> n.data]
      BY <3>1
    <3> HIDE DEF n
    <3>3. filetree'[p] = n
      BY <2>6 DEF n
    <3> QED BY <1>0, <2>6, <3>1, <3>2, <3>3 DEF Nodes
  <2> QED BY <1>0, <2>6, <2>7, <2>8
<1>4. ASSUME NEW p \in Path, Files!Remove(p) PROVE
           /\ Rooted(filetree)' /\ Nodes'
           /\ DOMAIN filetree' \subseteq UNION {Prefixes(q) : q \in Path}
  <2>1. filetree' = [q \in {q \in DOMAIN filetree : ~Files!Below(q, p)} |-> filetree[q]]
    BY <1>4 DEF Files!Remove
  <2>2. /\ DOMAIN filetree' = {q \in DOMAIN filetree : ~Files!Below(q, p)}
        /\ \A q \in DOMAIN filetree' : filetree'[q] = filetree[q]
        /\ filetree' = [q \in DOMAIN filetree' |-> filetree'[q]]
    BY <2>1
  <2>3. ASSUME NEW q \in DOMAIN filetree, Files!Below(Front(q), p) PROVE Files!Below(q, p)
    <3>1. q \in Seq(STRING) /\ q # <<>> /\ p \in Seq(STRING)
      BY <1>0, PathOf DEF Rooted
    <3>2. Len(q) \in Nat \ {0} /\ Len(q) - 1 \in 0 .. Len(q) /\ Front(q) = Names(q, Len(q) - 1)
      BY <3>1, EmptySeq DEF Front, Names
    <3>3. Len(Front(q)) = Len(q) - 1 /\ Front(q) \in Seq(STRING)
      BY <3>1, <3>2, NamesOf
    <3>4. Len(p) \in 0 .. Len(q) - 1 /\ Names(Front(q), Len(p)) = p
      BY <2>3, <3>1, <3>2, <3>3 DEF Files!Below, Names
    <3>5. Names(q, Len(p)) = p
      BY <3>1, <3>2, <3>4, NamesOfNames
    <3> QED BY <3>2, <3>4, <3>5 DEF Files!Below, Names
  <2>4. ASSUME NEW q \in DOMAIN filetree'
        PROVE  /\ Front(q) = <<>> \/ Front(q) \in DOMAIN filetree'
               /\ IsFolder(filetree', Front(q))
    <3>1. \/ Front(q) = <<>>
          \/ Front(q) \in DOMAIN filetree' /\ filetree'[Front(q)].folder
      BY <1>0, <2>2, <2>3, <2>4, ParentIn
    <3> QED BY <3>1 DEF IsFolder
  <2>5. Rooted(filetree)'
    BY <1>0, <2>2, <2>4 DEF Rooted
  <2>6. Nodes'
    BY <1>0, <2>2 DEF Nodes
  <2> QED BY <1>0, <2>2, <2>5, <2>6
<1> QED BY <1>1, <1>2, <1>3, <1>4 DEF Files!Next

\* The invariant holds at first, and so does that of FileStore.
LEMMA FSInit == Init => FSInv /\ Files!Init
<1> SUFFICES ASSUME Init PROVE FSInv /\ Files!Init
  OBVIOUS
<1>1. DOMAIN filetree = {}
  BY DEF Init
<1>2. filetree = [p \in {} |-> Folder]
  BY DEF Init
<1>3. Rooted(filetree) /\ Nodes
  BY <1>1, <1>2 DEF Rooted, Nodes
<1>4. Types
  BY <1>1 DEF Init, Types
<1>5. Files!Init
  BY <1>2 DEF Files!Init, Files!Folder, Folder
<1> QED BY <1>3, <1>4, <1>5 DEF FSInv

\* The steps that leave the tree alone.
Quiet(t) == \/ Begin(t) \/ Lock(t) \/ ReturnEmptyPath(t) \/ Segfault(t)
            \/ FindToken(t) \/ FindNode(t)

\* A step of a thread: a call returns, having done what FileStore says or nothing, or the
\* tree stays as it is.
LEMMA FSEffect ==
    ASSUME FSInv, [Next]_vars
    PROVE  \/ filetree' = filetree
           \/ Files!Next /\ \E t \in Thread : fsMutex = t /\ call[t] # NoCall /\ Return(t, 0)
<1>1. ASSUME NEW t \in Thread, create(t) \/ write(t) \/ remove(t)
      PROVE  \/ filetree' = filetree
             \/ Files!Next /\ fsMutex = t /\ call[t] # NoCall /\ Return(t, 0)
  <2>1. fsMutex = t /\ call[t] # NoCall
    <3>1. PICK op \in {"create", "write", "remove"} : Working(t, op)
      BY <1>1 DEF create, write, remove
    <3>2. call[t].op # NoCall.op
      BY <3>1 DEF Working, NoCall
    <3> QED BY <3>1, <3>2 DEF Working
  <2> QED BY <1>1, <2>1, CallEffect
<1>2. ASSUME NEW t \in Thread, Quiet(t)
      PROVE  filetree' = filetree
  BY <1>2 DEF Quiet, Begin, Lock, ReturnEmptyPath, Segfault, FindToken, FindNode, ReturnFound
<1>3. CASE UNCHANGED vars
  BY <1>3 DEF vars
<1> QED BY <1>1, <1>2, <1>3 DEF Next, Quiet

\* Every call keeps the invariant.
LEMMA FSStep == FSInv /\ [Next]_vars => FSInv'
<1> SUFFICES ASSUME FSInv, [Next]_vars PROVE FSInv'
  OBVIOUS
<1>1. /\ Rooted(filetree)' /\ Nodes'
      /\ DOMAIN filetree' \subseteq UNION {Prefixes(q) : q \in Path}
  <2>1. CASE filetree' = filetree
    BY <2>1 DEF FSInv, Types, Rooted, Nodes
  <2> QED BY <2>1, FSEffect, StoreStep
<1>2. /\ fsMutex' \in Thread \cup {NoThread, Leaked}
      /\ call' \in [Thread -> Call \cup {NoCall}]
      /\ ret' \in [Thread -> {0, -1}] /\ crashed' \in BOOLEAN
  <2>1. ASSUME NEW t \in Thread, NEW r \in {0, -1}, Return(t, r)
        PROVE  /\ fsMutex' \in Thread \cup {NoThread, Leaked}
               /\ call' \in [Thread -> Call \cup {NoCall}]
               /\ ret' \in [Thread -> {0, -1}] /\ crashed' \in BOOLEAN
    BY <2>1 DEF Return, FSInv, Types
  <2>2. ASSUME NEW t \in Thread, create(t) \/ write(t) \/ remove(t)
        PROVE  \E r \in {0, -1} : Return(t, r)
    BY <2>2, CallEffect
  <2>3. ASSUME NEW t \in Thread, Quiet(t)
        PROVE  /\ fsMutex' \in Thread \cup {NoThread, Leaked}
               /\ call' \in [Thread -> Call \cup {NoCall}]
               /\ ret' \in [Thread -> {0, -1}] /\ crashed' \in BOOLEAN
    <3>1. CASE Begin(t)
      BY <3>1 DEF Begin, FSInv, Types
    <3>2. CASE Lock(t) \/ ReturnEmptyPath(t) \/ Segfault(t)
      BY <3>2 DEF Lock, ReturnEmptyPath, Segfault, FSInv, Types
    <3>3. CASE FindToken(t) \/ FindNode(t)
      <4>1. UNCHANGED <<fsMutex, ret, crashed>> /\ call' \in {call, [call EXCEPT ![t] = NoCall]}
        BY <3>3 DEF FindToken, FindNode, ReturnFound
      <4> QED BY <4>1 DEF FSInv, Types
    <3> QED BY <2>3, <3>1, <3>2, <3>3 DEF Quiet
  <2>4. CASE UNCHANGED vars
    BY <2>4 DEF vars, FSInv, Types
  <2> QED BY <2>1, <2>2, <2>3, <2>4 DEF Next, Quiet
<1>3. \A p \in DOMAIN filetree' : filetree'[p].folder \in BOOLEAN
  BY <1>1 DEF Nodes
<1>4. Types'
  BY <1>1, <1>2, <1>3 DEF Types
<1> QED BY <1>1, <1>4 DEF FSInv

\* After any calls, the values have the right types and the nodes of the map form a
\* tree of files and folders.
THEOREM Invariance == Spec => []FSInv
<1>1. Init => FSInv
  BY FSInit
<1> QED BY <1>1, FSStep, PTL DEF Spec

\* A call of create, write or remove that returns -1 has changed nothing, not even the
\* folders that it would have made on the way.
THEOREM NoTraceOfFailure == Spec => FailureChangesNothing
<1> DEFINE Act == filetree' # filetree =>
               \E t \in Thread : fsMutex = t /\ call[t] # NoCall /\ call'[t] = NoCall /\ ret'[t] = 0
<1>1. FSInv /\ [Next]_vars => [Act]_vars
  <2> SUFFICES ASSUME FSInv, [Next]_vars, filetree' # filetree PROVE Act
    OBVIOUS
  <2>1. PICK t \in Thread : fsMutex = t /\ call[t] # NoCall /\ Return(t, 0)
    BY FSEffect
  <2>2. call'[t] = NoCall /\ ret'[t] = 0
    BY <2>1 DEF Return, FSInv, Types
  <2> QED BY <2>1, <2>2
<1> QED BY <1>1, Invariance, PTL DEF Spec, FailureChangesNothing

\* The walks and changes of getTreeNode, createChild and removeChild implement a store of
\* named files.
THEOREM Refinement == Spec => ImplementsFileStore
<1>1. Init => Files!Init
  BY FSInit
<1>2. FSInv /\ [Next]_vars => [Files!Next]_filetree
  BY FSEffect
<1> QED BY <1>1, <1>2, Invariance, PTL DEF Spec, ImplementsFileStore, Files!Spec

-----------------------------------------------------------------------------
(* exists and read *)

\* A walk has come to the node of the first names of its path, in a tree where the
\* path names what it has named in the file tree at a moment of the call.
FinderOk(s) ==
    LET w == walker[s]
        p == call[s].path
    IN  /\ w = [at |-> w.at, tree |-> w.tree, attached |-> w.attached]
        /\ w.attached \in BOOLEAN
        /\ w.attached => w.tree = filetree
        /\ call[s].op # "find" => w.at = <<>> /\ w.attached
        /\ call[s].op = "find" =>
              /\ Len(w.at) \in 0 .. Len(p) /\ w.at = Names(p, Len(w.at))
              /\ w.at = <<>> \/ w.at \in DOMAIN w.tree
              /\ Rooted(w.tree)
              /\ Named(w.tree, p) \in been[s]

Finders ==
    /\ walker = [s \in Thread |-> walker[s]]
    /\ been = [s \in Thread |-> been[s]]
    /\ found = [s \in Thread |-> found[s]]
    /\ \A s \in Thread : FinderOk(s)

\* A walk goes on by a name.
LEMMA WalkOn ==
    ASSUME NEW x, NEW a, x = [at |-> x.at, tree |-> x.tree, attached |-> x.attached]
    PROVE  [x EXCEPT !.at = Append(@, a)]
               = [at |-> Append(x.at, a), tree |-> x.tree, attached |-> x.attached]
OBVIOUS

\* The call of a thread that walks.
LEMMA FindPath ==
    ASSUME FSInv, NEW t \in Thread, call[t].op = "find"
    PROVE  call[t].path \in Path /\ call[t].path \in Seq(STRING) /\ call[t].path # <<>>
<1>1. call[t] \in Call
  BY DEF FSInv, Types, NoCall
<1>2. call[t].path \in Path
  BY <1>1 DEF Call
<1> QED BY <1>2, FSMemoryAssumption

\* The names that are walked lead to a node only through the nodes of the first of them.
LEMMA NamedOnlyIf ==
    ASSUME NEW tree, Rooted(tree), NEW p \in Seq(STRING), NEW i \in 1 .. Len(p),
           Names(p, i) \notin DOMAIN tree
    PROVE  p \notin DOMAIN tree
BY RootedPath

\* A walk that is not the call's that returns.
LEMMA FinderChange ==
    ASSUME FSInv, Rooted(filetree)', Finders, NEW t \in Thread, NEW s \in Thread, s # t,
           NEW r, Return(t, r)
    PROVE  FinderOk(s)'
<1> DEFINE w == walker[s]
           v == AfterChange(w, filetree')
<1>1. /\ walker'[s] = v /\ call'[s] = call[s]
      /\ call[s].op = "find" => been'[s] = been[s] \cup {Named(filetree', call[s].path)}
  BY DEF Return, FSInv, Types
<1>2. /\ w = [at |-> w.at, tree |-> w.tree, attached |-> w.attached]
      /\ w.attached \in BOOLEAN
      /\ w.attached => w.tree = filetree
      /\ call[s].op # "find" => w.at = <<>> /\ w.attached
  BY DEF Finders, FinderOk
<1>3. /\ v.at = w.at /\ v = [at |-> v.at, tree |-> v.tree, attached |-> v.attached]
      /\ v.attached \in BOOLEAN /\ v.tree \in {w.tree, filetree'}
      /\ v.attached => v.tree = filetree'
      /\ w.at = <<>> /\ w.attached => v.attached
      /\ v.tree # w.tree => v.at = <<>> \/ v.at \in DOMAIN v.tree
  BY <1>2 DEF AfterChange
<1> HIDE DEF v
<1>4. ASSUME call[s].op = "find"
      PROVE  /\ Len(v.at) \in 0 .. Len(call[s].path) /\ v.at = Names(call[s].path, Len(v.at))
             /\ v.at = <<>> \/ v.at \in DOMAIN v.tree
             /\ Rooted(v.tree)
             /\ Named(v.tree, call[s].path) \in been'[s]
  <2> DEFINE p == call[s].path
  <2>1. /\ Len(w.at) \in 0 .. Len(p) /\ w.at = Names(p, Len(w.at))
        /\ w.at = <<>> \/ w.at \in DOMAIN w.tree
        /\ Rooted(w.tree) /\ Named(w.tree, p) \in been[s]
    BY <1>4 DEF Finders, FinderOk
  <2>2. been'[s] = been[s] \cup {Named(filetree', p)}
    BY <1>1, <1>4
  <2>3. Rooted(filetree')
    BY DEF Rooted, IsFolder
  <2> HIDE DEF w, p
  <2> QED BY <1>3, <2>1, <2>2, <2>3 DEF p
<1> HIDE DEF w
<1>5. /\ walker'[s] = v /\ v = [at |-> v.at, tree |-> v.tree, attached |-> v.attached]
      /\ v.attached \in BOOLEAN
      /\ v.attached => v.tree = filetree'
      /\ call[s].op # "find" => v.at = <<>> /\ v.attached
  BY <1>1, <1>2, <1>3
<1> QED BY <1>1, <1>4, <1>5 DEF FinderOk

\* A step of a walk, and the calls that are no walks.
LEMMA FinderStep ==
    ASSUME FSInv, FSInv', Finders, [Next]_vars
    PROVE  Finders'
<1>1. ASSUME NEW t \in Thread, Begin(t) PROVE Finders'
  <2>1. \A s \in Thread : s # t => call'[s] = call[s] /\ been'[s] = been[s]
    BY <1>1 DEF Begin, FSInv, Types, Finders
  <2>2. /\ UNCHANGED <<filetree, walker>> /\ call[t] = NoCall
        /\ call'[t].op = "find" => been'[t] = {Named(filetree, call'[t].path)}
    BY <1>1 DEF Begin, FSInv, Types, Finders
  <2>3. walker[t].at = <<>> /\ walker[t].attached /\ walker[t].tree = filetree
    BY <2>2 DEF Finders, FinderOk, NoCall
  <2>4. FinderOk(t)'
    <3>1. ASSUME call'[t].op = "find"
          PROVE  /\ Len(<<>>) \in 0 .. Len(call'[t].path) /\ <<>> = Names(call'[t].path, Len(<<>>))
                 /\ Rooted(filetree)
                 /\ Named(filetree, call'[t].path) \in been'[t]
      <4>1. call'[t] \in Call
        BY <3>1 DEF FSInv, Types, NoCall
      <4>2. call'[t].path \in Path
        BY <3>1, <4>1 DEF Call
      <4>3. call'[t].path \in Seq(STRING)
        BY <4>2, FSMemoryAssumption
      <4>4. Len(<<>>) = 0 /\ 0 \in 0 .. Len(call'[t].path) /\ Names(call'[t].path, 0) = <<>>
        BY <4>3, NamesOf
      <4> QED BY <2>2, <3>1, <4>4 DEF FSInv
    <3> QED BY <2>2, <2>3, <3>1 DEF Finders, FinderOk
  <2>5. ASSUME NEW s \in Thread, s # t PROVE FinderOk(s)'
    BY <2>1, <2>2, <2>5 DEF Finders, FinderOk
  <2>6. /\ been' = [s \in Thread |-> been'[s]] /\ found' = [s \in Thread |-> found'[s]]
    BY <1>1 DEF Begin, Finders
  <2> QED BY <2>2, <2>4, <2>5, <2>6 DEF Finders
<1>2. ASSUME UNCHANGED <<filetree, walker, been, found, call>> PROVE Finders'
  BY <1>2 DEF Finders, FinderOk
<1>3. ASSUME NEW t \in Thread, ReturnEmptyPath(t) PROVE Finders'
  <2>1. call[t].op # "find"
    BY <1>3, FindPath DEF ReturnEmptyPath, NoPath
  <2>2. /\ call'[t] = NoCall /\ UNCHANGED <<filetree, walker, been, found>>
        /\ \A s \in Thread : s # t => call'[s] = call[s]
    BY <1>3 DEF ReturnEmptyPath, FSInv, Types
  <2> QED BY <2>1, <2>2 DEF Finders, FinderOk, NoCall
<1>4. ASSUME NEW t \in Thread, create(t) \/ write(t) \/ remove(t) PROVE Finders'
  <2>1. PICK r \in {0, -1} : Return(t, r)
    BY <1>4, CallEffect
  <2>2. Rooted(filetree)'
    BY DEF FSInv
  <2>3. ASSUME NEW s \in Thread, s # t PROVE FinderOk(s)'
    BY <2>1, <2>2, <2>3, FinderChange
  <2>4. FinderOk(t)'
    <3>1. call[t].op # "find" /\ call'[t] = NoCall /\ walker'[t] = AfterChange(walker[t], filetree')
      BY <1>4, <2>1 DEF create, write, remove, Working, Return, FSInv, Types
    <3>2. /\ walker[t] = [at |-> walker[t].at, tree |-> walker[t].tree, attached |-> walker[t].attached]
          /\ walker[t].at = <<>> /\ walker[t].attached = TRUE
      BY <3>1 DEF Finders, FinderOk
    <3>3. walker'[t] = [at |-> <<>>, tree |-> filetree', attached |-> TRUE]
      BY <3>1, <3>2 DEF AfterChange
    <3> QED BY <3>1, <3>3 DEF FinderOk, NoCall
  <2>5. /\ walker' = [s \in Thread |-> walker'[s]] /\ been' = [s \in Thread |-> been'[s]]
        /\ found' = [s \in Thread |-> found'[s]]
    BY <2>1 DEF Return, Finders
  <2> QED BY <2>3, <2>4, <2>5 DEF Finders
<1>5. ASSUME NEW t \in Thread, NEW node, ReturnFound(t, node), filetree' = filetree PROVE Finders'
  <2>1. /\ call'[t] = NoCall /\ walker'[t] = [at |-> <<>>, tree |-> filetree, attached |-> TRUE]
        /\ \A s \in Thread : s # t =>
              call'[s] = call[s] /\ walker'[s] = walker[s] /\ been'[s] = been[s]
        /\ walker' = [s \in Thread |-> walker'[s]] /\ been' = [s \in Thread |-> been'[s]]
        /\ found' = [s \in Thread |-> found'[s]]
    BY <1>5 DEF ReturnFound, Start, FSInv, Types, Finders
  <2>2. FinderOk(t)'
    BY <1>5, <2>1 DEF FinderOk, NoCall
  <2>3. ASSUME NEW s \in Thread, s # t PROVE FinderOk(s)'
    BY <1>5, <2>1, <2>3 DEF Finders, FinderOk
  <2> QED BY <2>1, <2>2, <2>3 DEF Finders
<1>6. ASSUME NEW t \in Thread, FindToken(t) PROVE Finders'
  <2> DEFINE w == walker[t]
             p == call[t].path
             token == p[Len(w.at) + 1]
  <2>1. CASE ReturnFound(t, Nothing)
    BY <1>5, <1>6, <2>1 DEF FindToken
  <2>2. CASE /\ HasChild(w.tree, w.at, token)
             /\ walker' = [walker EXCEPT ![t].at = Append(@, token)]
             /\ UNCHANGED <<call, been, found>>
    <3>1. /\ call[t].op = "find" /\ Len(w.at) # Len(p) /\ filetree' = filetree
          /\ Len(w.at) \in 0 .. Len(p) /\ w.at = Names(p, Len(w.at))
          /\ p \in Seq(STRING)
      BY <1>6, FindPath DEF FindToken, Finding, Tokens, Finders, FinderOk
    <3>2. /\ walker'[t] = [at |-> Append(w.at, token), tree |-> w.tree, attached |-> w.attached]
          /\ \A s \in Thread : s # t => walker'[s] = walker[s]
          /\ walker' = [s \in Thread |-> walker'[s]]
      <4>1. walker' = [walker EXCEPT ![t] = [w EXCEPT !.at = Append(@, token)]]
        BY <2>2
      <4>2. w = [at |-> w.at, tree |-> w.tree, attached |-> w.attached]
            /\ walker = [s \in Thread |-> walker[s]]
        BY DEF Finders, FinderOk
      <4> HIDE DEF token
      <4>3. [w EXCEPT !.at = Append(@, token)]
                = [at |-> Append(w.at, token), tree |-> w.tree, attached |-> w.attached]
        <5> HIDE DEF w
        <5> QED BY <4>2, WalkOn
      <4> HIDE DEF w
      <4> QED BY <4>1, <4>2, <4>3
    <3>3. /\ Len(w.at) + 1 \in 1 .. Len(p) /\ (Len(w.at) + 1) - 1 = Len(w.at)
          /\ Len(w.at) + 1 \in 0 .. Len(p)
      BY <3>1
    <3>4. Append(w.at, token) = Names(p, Len(w.at) + 1) /\ Len(Append(w.at, token)) = Len(w.at) + 1
      <4> DEFINE i == Len(w.at) + 1
      <4>1. i \in 1 .. Len(p) /\ i \in 0 .. Len(p) /\ i - 1 = Len(w.at) /\ p \in Seq(STRING)
            /\ w.at = Names(p, i - 1)
        BY <3>1, <3>3
      <4> HIDE DEF i, p
      <4>2. Append(Names(p, i - 1), p[i]) = Names(p, i) /\ Len(Names(p, i)) = i
        BY <4>1, NextName, NamesOf
      <4> QED BY <4>1, <4>2 DEF i, p
    <3>5. FinderOk(t)'
      <4> DEFINE at == Append(w.at, token)
      <4>1. at = Names(p, Len(at)) /\ Len(at) \in 0 .. Len(p) /\ at \in DOMAIN w.tree
        BY <2>2, <3>3, <3>4 DEF HasChild
      <4> HIDE DEF at
      <4>2. walker'[t] = [at |-> at, tree |-> w.tree, attached |-> w.attached]
        BY <3>2 DEF at
      <4> QED BY <2>2, <3>1, <4>1, <4>2 DEF Finders, FinderOk
    <3>6. ASSUME NEW s \in Thread, s # t PROVE FinderOk(s)'
      BY <2>2, <3>1, <3>2, <3>6 DEF Finders, FinderOk
    <3> QED BY <2>2, <3>2, <3>5, <3>6 DEF Finders
  <2> QED BY <1>6, <2>1, <2>2 DEF FindToken, Tokens
<1>7. ASSUME NEW t \in Thread, FindNode(t) PROVE Finders'
  BY <1>5, <1>7 DEF FindNode
<1>8. ASSUME NEW t \in Thread, Lock(t) \/ Segfault(t) PROVE Finders'
  BY <1>2, <1>8 DEF Lock, Segfault
<1>9. CASE UNCHANGED vars
  BY <1>2, <1>9 DEF vars
<1> QED BY <1>1, <1>3, <1>4, <1>6, <1>7, <1>8, <1>9 DEF Next

\* What a walk answers is what its path names in the tree that it sees.
LEMMA FindAnswer ==
    ASSUME FSInv, Finders, [Next]_vars, NEW t \in Thread, call[t].op = "find", call'[t] = NoCall
    PROVE  found'[t] \in been[t]
<1> DEFINE w == walker[t]
           p == call[t].path
<1>1. /\ Len(w.at) \in 0 .. Len(p) /\ w.at = Names(p, Len(w.at)) /\ p \in Seq(STRING)
      /\ Rooted(w.tree) /\ Named(w.tree, p) \in been[t] /\ p # <<>>
  BY FindPath DEF Finders, FinderOk
<1>2. CASE FindToken(t)
  <2>1. Len(w.at) # Len(p) /\ Len(w.at) + 1 \in 1 .. Len(p) /\ (Len(w.at) + 1) - 1 = Len(w.at)
    BY <1>1, <1>2 DEF FindToken, Finding, Tokens
  <2>2. found'[t] = Nothing /\ Append(w.at, p[Len(w.at) + 1]) \notin DOMAIN w.tree
    BY <1>2 DEF FindToken, ReturnFound, Tokens, HasChild, Finders, NoCall
  <2>3. Append(w.at, p[Len(w.at) + 1]) = Names(p, Len(w.at) + 1)
    BY <1>1, <2>1, NextName
  <2>4. p \notin DOMAIN w.tree
    BY <1>1, <2>1, <2>2, <2>3, NamedOnlyIf
  <2> QED BY <1>1, <2>2, <2>4 DEF Named
<1>3. CASE FindNode(t)
  <2>1. Len(w.at) = Len(p) /\ found'[t] = Named(w.tree, w.at)
    BY <1>3 DEF FindNode, Finding, Tokens, ReturnFound, Finders
  <2>2. w.at = p
    BY <1>1, <2>1, NamesOfNames
  <2> QED BY <1>1, <2>1, <2>2
<1>4. call[t] # NoCall
  BY DEF NoCall
<1>5. ASSUME NEW s \in Thread, Begin(s) \/ Lock(s) \/ ReturnEmptyPath(s) \/ Segfault(s) \/ create(s)
                               \/ write(s) \/ remove(s)
      PROVE  call'[t] # NoCall
  <2>1. CASE s # t
    <3>1. call'[t] = call[t]
      BY <1>5, <2>1
      DEF Begin, Lock, ReturnEmptyPath, Segfault, create, write, remove, Return, FSInv, Types
    <3> QED BY <1>4, <3>1
  <2>2. CASE s = t
    BY <1>1, <1>4, <1>5, <2>2
    DEF Begin, Lock, ReturnEmptyPath, Segfault, create, write, remove, Working, NoPath
  <2> QED BY <2>1, <2>2
<1>6. ASSUME NEW s \in Thread, s # t, FindToken(s) \/ FindNode(s) PROVE call'[t] # NoCall
  BY <1>4, <1>6 DEF FindToken, FindNode, ReturnFound, FSInv, Types
<1>7. CASE UNCHANGED vars
  BY <1>4, <1>7 DEF vars
<1> QED BY <1>2, <1>3, <1>5, <1>6, <1>7 DEF Next

\* The walks keep to their paths.
LEMMA FindersAlways == Spec => [](FSInv /\ Finders)
<1>1. Init => Finders
  <2> SUFFICES ASSUME Init, NEW s \in Thread PROVE FinderOk(s)
    BY DEF Init, Finders
  <2>1. walker[s] = [at |-> <<>>, tree |-> filetree, attached |-> TRUE] /\ call[s] = NoCall
    BY DEF Init, Start
  <2> QED BY <2>1 DEF FinderOk, NoCall
<1>2. FSInv /\ FSInv' /\ Finders /\ [Next]_vars => Finders'
  BY FinderStep
<1> QED BY <1>1, <1>2, Invariance, PTL DEF Spec

\* The types of the tree, the mutex, the calls and the walks.
THEOREM Typing == Spec => []TypeOK
<1>1. FSInv /\ Finders => TypeOK
  <2> SUFFICES ASSUME FSInv, Finders, NEW t \in Thread
               PROVE  IsPrefix(walker[t].at, IF call[t].op = "find" THEN call[t].path ELSE <<>>)
    BY DEF FSInv, Types, TypeOK
  <2>1. CASE call[t].op = "find"
    <3>1. Len(walker[t].at) \in 0 .. Len(call[t].path)
          /\ walker[t].at = Names(call[t].path, Len(walker[t].at)) /\ call[t].path \in Seq(STRING)
      BY <2>1, FindPath DEF Finders, FinderOk
    <3> QED BY <2>1, <3>1 DEF IsPrefix, Names
  <2>2. CASE call[t].op # "find"
    <3>1. walker[t].at = <<>>
      BY <2>2 DEF Finders, FinderOk
    <3> QED BY <2>2, <3>1 DEF IsPrefix
  <2> QED BY <2>1, <2>2
<1> QED BY <1>1, FindersAlways, PTL

\* For any threads, paths and data: whatever is created, written, removed and made again
\* while exists or read walk without the mutex, what they answer was true at a moment of
\* the call.
THEOREM FindIsTrue == Spec => FoundWasThere
<1> DEFINE Act == \A t \in Thread :
               call[t].op = "find" /\ call'[t] = NoCall => found'[t] \in been[t]
<1>1. FSInv /\ Finders /\ [Next]_vars => [Act]_vars
  BY FindAnswer
<1> QED BY <1>1, FindersAlways, PTL DEF Spec, FoundWasThere
=============================================================================
