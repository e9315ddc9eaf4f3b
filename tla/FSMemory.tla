------------------------------ MODULE FSMemory ------------------------------
(***************************************************************************)
(* The in-memory file system of the coordinator: a tree of FSTreeNodes     *)
(* that create, write and remove walk and change under one mutex, called   *)
(* by concurrent threads, and that exists and read walk without it.        *)
(*                                                                         *)
(* A call that holds the mutex is one step.  exists and read take a step   *)
(* for each getChild: between two of them the tree may change.             *)
(*                                                                         *)
(* The tree is a function from the paths of the nodes below the root, as   *)
(* sequences of names, to the nodes; the root is an empty folder at first. *)
(***************************************************************************)
EXTENDS Integers, Sequences, SequencesExt

CONSTANTS
    Thread,     \* the threads that call the file system
    Path,       \* the paths they use, never the root's
    Data,       \* what they write
    Op,         \* what they call, see Call
    NoThread,   \* the mutex is free
    Leaked,     \* the mutex is locked and no call will unlock it
    MaxData     \* bound on the length of a file

ASSUME FSMemoryAssumption ==
    /\ \A p \in Path : p \in Seq(STRING) /\ p # <<>>
    /\ NoThread \notin Thread /\ Leaked \notin Thread /\ NoThread # Leaked
    /\ MaxData \in Nat

VARIABLES
    filetree,
    fsMutex,    \* the thread whose call holds the mutex, NoThread, or Leaked
    call,       \* per thread: the call that is in progress, or NoCall
    ret,        \* per thread: what its last call under the mutex returned
    crashed,    \* a NULL node was dereferenced
    walker,     \* per thread: where its exists or read has come to, see Start
    been,       \* per thread: what its path has named since its exists or read began
    found       \* per thread: what its last exists or read found

vars == <<filetree, fsMutex, call, ret, crashed, walker, been, found>>

NoCall   == [op |-> "none"]
NoPath   == <<>>    \* the empty path
Folder   == [folder |-> TRUE, data |-> <<>>]
File(d)  == [folder |-> FALSE, data |-> d]
Nothing  == [missing |-> TRUE]

Call ==
    [op : {"create"}, path : Path \cup {NoPath}, folder : BOOLEAN, makeFolders : BOOLEAN]
    \cup [op : {"write"}, path : Path \cup {NoPath}, data : Data,
          makeFolders : BOOLEAN, overwrite : BOOLEAN]
    \cup [op : {"remove"}, path : Path \cup {NoPath}]
    \cup [op : {"find"}, path : Path]      \* exists, or read

-----------------------------------------------------------------------------
(* FSTreeNode and getTreeNode *)

IsFolder(tree, p) == IF p = <<>> THEN TRUE ELSE tree[p].folder

HasChild(tree, p, name) == Append(p, name) \in DOMAIN tree

\* A variant of CanHaveChild that ImplementsFileStore must reject.
CanHaveChildAnywhere(tree, p) == TRUE

\* createChild, which refuses to put anything below a file.
CanHaveChild(tree, p) == IsFolder(tree, p)

PutChild(tree, p, name, node) ==
    [q \in DOMAIN tree \cup {Append(p, name)} |->
        IF q = Append(p, name) THEN node ELSE tree[q]]

\* removeChild drops the child's node and everything that hangs on it.
DropChild(tree, p, name) ==
    [q \in {q \in DOMAIN tree : ~IsPrefix(Append(p, name), q)} |-> tree[q]]

\* One token of getTreeNode, from the node the walk is at.  The walk ends at
\* a missing node if it must not create one.  If createChild refuses, the
\* node is NULL, and the next token, if there is one, dereferences it.
WalkToken(walk, token, makeFolders) ==
    CASE walk.state \in {"missing", "crash"} -> walk
      [] walk.state = "null" -> [walk EXCEPT !.state = "crash"]
      [] walk.state = "node" /\ HasChild(walk.tree, walk.at, token) ->
            [walk EXCEPT !.at = Append(@, token)]
      [] walk.state = "node" /\ ~HasChild(walk.tree, walk.at, token) ->
            IF ~makeFolders THEN [walk EXCEPT !.state = "missing"]
            ELSE IF ~CanHaveChild(walk.tree, walk.at) THEN [walk EXCEPT !.state = "null"]
            ELSE [walk EXCEPT !.tree = PutChild(@, walk.at, token, Folder),
                              !.at = Append(@, token)]

\* walk[i] is where the walk is after i tokens.
getTreeNode(tree, tokens, makeFolders) ==
    LET walk[i \in 0 .. Len(tokens)] ==
            IF i = 0 THEN [tree |-> tree, at |-> <<>>, state |-> "node"]
            ELSE WalkToken(walk[i - 1], tokens[i], makeFolders)
    IN  walk[Len(tokens)]

\* What a path names.
Named(tree, p) == IF p \in DOMAIN tree THEN tree[p] ELSE Nothing

\* A walk without the mutex holds the node it is at.  As long as that node is in
\* the file tree, the walk sees the file tree; when the node or one above it is
\* taken out, the walk still has the part of the old tree that hangs on it.
Start(tree) == [at |-> <<>>, tree |-> tree, attached |-> TRUE]

AfterChange(w, tree) ==
    CASE ~w.attached -> w
      [] w.attached /\ (w.at = <<>> \/ w.at \in DOMAIN tree) -> [w EXCEPT !.tree = tree]
      [] w.attached /\ w.at # <<>> /\ w.at \notin DOMAIN tree -> [w EXCEPT !.attached = FALSE]

-----------------------------------------------------------------------------

Init ==
    /\ filetree = [p \in {} |-> Folder]
    /\ fsMutex = NoThread
    /\ call = [t \in Thread |-> NoCall]
    /\ ret = [t \in Thread |-> 0]
    /\ crashed = FALSE
    /\ walker = [t \in Thread |-> Start(filetree)]
    /\ been = [t \in Thread |-> {}]
    /\ found = [t \in Thread |-> Nothing]

\* A thread calls create, write, remove, exists or read.
Begin(t) ==
    /\ ~crashed
    /\ call[t] = NoCall
    /\ \E c \in {c \in Call : c.op \in Op} :
          /\ call' = [call EXCEPT ![t] = c]
          /\ been' = [been EXCEPT ![t] = IF c.op = "find" THEN {Named(filetree, c.path)} ELSE {}]
    /\ ret' = [ret EXCEPT ![t] = 0]
    /\ found' = [found EXCEPT ![t] = Nothing]
    /\ UNCHANGED <<filetree, fsMutex, crashed, walker>>

Lock(t) ==
    /\ ~crashed
    /\ call[t] # NoCall
    /\ call[t].op # "find"
    /\ fsMutex = NoThread
    /\ fsMutex' = t
    /\ UNCHANGED <<filetree, call, ret, crashed, walker, been, found>>

\* The call returns r, with the mutex unlocked, having made the tree filetree'.
\* The walks that are under way go on from the nodes that they hold.
Return(t, r) ==
    /\ ret' = [ret EXCEPT ![t] = r]
    /\ call' = [call EXCEPT ![t] = NoCall]
    /\ fsMutex' = NoThread
    /\ walker' = [s \in Thread |-> AfterChange(walker[s], filetree')]
    /\ been' = [s \in Thread |->
                   IF call[s].op = "find" THEN been[s] \cup {Named(filetree', call[s].path)}
                                          ELSE {}]
    /\ UNCHANGED <<crashed, found>>

\* A call with an empty path returns -1 before it comes to the unlock: every
\* later call waits for ever.
ReturnEmptyPath(t) ==
    /\ ~crashed
    /\ fsMutex = t /\ call[t] # NoCall
    /\ call[t].path = NoPath
    /\ ret' = [ret EXCEPT ![t] = -1]
    /\ call' = [call EXCEPT ![t] = NoCall]
    /\ fsMutex' = Leaked
    /\ UNCHANGED <<filetree, crashed, walker, been, found>>

\* t is in a call of op with a path, and holds the mutex.
Working(t, op) ==
    /\ ~crashed
    /\ fsMutex = t
    /\ call[t].op = op
    /\ call[t].path # NoPath

\* Variants of Parent that TypeOK and FailureChangesNothing must reject: the last
\* name is not taken off the path; folders are made whatever the flag says.
ParentIsFile(t, makeFolders) == getTreeNode(filetree, call[t].path, makeFolders)
ParentMade(t, makeFolders)   == getTreeNode(filetree, Front(call[t].path), TRUE)

\* The walk to the folder that holds, or will hold, the last name of the path.
Parent(t, makeFolders) == getTreeNode(filetree, Front(call[t].path), makeFolders)

create(t) ==
    LET c == call[t]
        w == Parent(t, c.makeFolders)
        name == Last(c.path)
        free == w.state = "node" /\ ~HasChild(w.tree, w.at, name)
                                 /\ CanHaveChild(w.tree, w.at)
    IN
    /\ Working(t, "create")
    /\ w.state # "crash"
    /\ \/ /\ free
          /\ filetree' = PutChild(w.tree, w.at, name, IF c.folder THEN Folder ELSE File(<<>>))
          /\ Return(t, 0)
       \/ /\ ~free
          /\ filetree' = w.tree
          /\ Return(t, -1)

write(t) ==
    LET c == call[t]
        w == Parent(t, c.makeFolders)
        name == Last(c.path)
        old == w.state = "node" /\ HasChild(w.tree, w.at, name)
        new == w.state = "node" /\ ~old /\ CanHaveChild(w.tree, w.at)
    IN
    /\ Working(t, "write")
    /\ w.state # "crash"
    /\ \/ /\ old
          /\ ~w.tree[c.path].folder
          /\ c.overwrite \/ Len(w.tree[c.path].data) < MaxData
          /\ filetree' = [w.tree EXCEPT ![c.path].data =
                             IF c.overwrite THEN c.data ELSE @ \o c.data]
          /\ Return(t, 0)
       \/ /\ new
          /\ filetree' = PutChild(w.tree, w.at, name, File(c.data))
          /\ Return(t, 0)
       \/ /\ ~new /\ (old => w.tree[c.path].folder)
          /\ filetree' = w.tree
          /\ Return(t, -1)

remove(t) ==
    LET c == call[t]
        w == Parent(t, FALSE)
        name == Last(c.path)
        old == w.state = "node" /\ HasChild(w.tree, w.at, name)
    IN
    /\ Working(t, "remove")
    /\ \/ /\ old
          /\ filetree' = DropChild(w.tree, w.at, name)
          /\ Return(t, 0)
       \/ /\ ~old
          /\ filetree' = w.tree
          /\ Return(t, -1)

\* The walk dereferences NULL: the process dies.
Segfault(t) ==
    /\ Working(t, "create") \/ Working(t, "write")
    /\ Parent(t, call[t].makeFolders).state = "crash"
    /\ crashed' = TRUE
    /\ UNCHANGED <<filetree, fsMutex, call, ret, walker, been, found>>

\* A variant of Tokens that FoundWasThere must reject: getParent is passed as TRUE.
TokensOfParent(p) == Front(p)

\* The names that exists and read walk: getParent is FALSE.
Tokens(p) == p

\* exists or read returns having found a node, or Nothing.
ReturnFound(t, node) ==
    /\ found' = [found EXCEPT ![t] = node]
    /\ call' = [call EXCEPT ![t] = NoCall]
    /\ walker' = [walker EXCEPT ![t] = Start(filetree)]
    /\ been' = [been EXCEPT ![t] = {}]

\* t is in exists or read, and the walk has come to the last of its names or not.
Finding(t, toEnd) ==
    /\ ~crashed
    /\ call[t].op = "find"
    /\ toEnd = (Len(walker[t].at) = Len(Tokens(call[t].path)))

\* One token of getTreeNode in exists and read, which create nothing.
FindToken(t) ==
    LET w == walker[t]
        token == Tokens(call[t].path)[Len(w.at) + 1]
    IN
    /\ Finding(t, FALSE)
    /\ \/ /\ HasChild(w.tree, w.at, token)
          /\ walker' = [walker EXCEPT ![t].at = Append(@, token)]
          /\ UNCHANGED <<call, been, found>>
       \/ /\ ~HasChild(w.tree, w.at, token)
          /\ ReturnFound(t, Nothing)
    /\ UNCHANGED <<filetree, fsMutex, ret, crashed>>

\* The walk has come to the node: exists is TRUE, and read has what is in it.
FindNode(t) ==
    /\ Finding(t, TRUE)
    /\ ReturnFound(t, Named(walker[t].tree, walker[t].at))
    /\ UNCHANGED <<filetree, fsMutex, ret, crashed>>

Next ==
    \E t \in Thread :
        \/ Begin(t) \/ Lock(t) \/ ReturnEmptyPath(t)
        \/ create(t) \/ write(t) \/ remove(t) \/ Segfault(t)
        \/ FindToken(t) \/ FindNode(t)

Spec == Init /\ [][Next]_vars

-----------------------------------------------------------------------------
(* Properties *)

\* The types of the variables.
TypeOK ==
    /\ DOMAIN filetree \subseteq UNION {Prefixes(p) : p \in Path}
    /\ \A p \in DOMAIN filetree : filetree[p].folder \in BOOLEAN
    /\ fsMutex \in Thread \cup {NoThread, Leaked}
    /\ call \in [Thread -> Call \cup {NoCall}]
    /\ ret \in [Thread -> {0, -1}]
    /\ crashed \in BOOLEAN
    /\ \A t \in Thread : IsPrefix(walker[t].at, IF call[t].op = "find" THEN call[t].path ELSE <<>>)

\* exists and read walk the tree without the mutex, while other threads create,
\* write, remove whole folders and make them again; yet what they answer was
\* true at one moment of the call: the path then named what they found, or did
\* not exist.
FoundWasThere ==
    [][\A t \in Thread :
          call[t].op = "find" /\ call'[t] = NoCall => found'[t] \in been[t]]_vars

\* A call that fails leaves no folders behind that it made on the way, and a
\* step that changes the tree is the return of a call that succeeds.
FailureChangesNothing ==
    [][filetree' # filetree =>
        \E t \in Thread : fsMutex = t /\ call[t] # NoCall /\ call'[t] = NoCall /\ ret'[t] = 0]_vars

\* Walking the tree name by name under the mutex is the store of named files
\* that FileStore describes.
Files == INSTANCE FileStore WITH store <- filetree

ImplementsFileStore == Files!Spec

=============================================================================
