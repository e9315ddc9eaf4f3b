----------------------------- MODULE FileStore -----------------------------
(***************************************************************************)
(* What FSMemory promises: a set of named files and folders.  A call does  *)
(* one of the actions below or fails, and a call that fails changes        *)
(* nothing.  FSMemory implements this with a tree that it walks name by    *)
(* name, making the folders it misses on the way.                          *)
(***************************************************************************)
EXTENDS Naturals, Sequences

CONSTANTS Path, Data

VARIABLE store   \* from the paths that exist to their nodes

Folder  == [folder |-> TRUE, data |-> <<>>]
File(d) == [folder |-> FALSE, data |-> d]

\* The folders that lead to p, without the root.
Ancestors(p) == {SubSeq(p, 1, i) : i \in 1 .. Len(p) - 1}

\* p is q or lies below q.
Below(p, q) == Len(q) <= Len(p) /\ SubSeq(p, 1, Len(q)) = q

\* The store with a new node at p and the folders that lead to it.
With(p, node) ==
    [q \in DOMAIN store \cup Ancestors(p) \cup {p} |->
        IF q = p THEN node
        ELSE IF q \in DOMAIN store THEN store[q] ELSE Folder]

Init == store = [p \in {} |-> Folder]

\* p does not exist, and a node can be put there.
Free(p, makeFolders) ==
    /\ p \notin DOMAIN store
    /\ \A q \in Ancestors(p) : IF q \in DOMAIN store THEN store[q].folder
                                                     ELSE makeFolders

Create(p) ==
    \E makeFolders, folder \in BOOLEAN :
        /\ Free(p, makeFolders)
        /\ store' = With(p, IF folder THEN Folder ELSE File(<<>>))

WriteNew(p, d) ==
    \E makeFolders \in BOOLEAN :
        /\ Free(p, makeFolders)
        /\ store' = With(p, File(d))

WriteOld(p, d) ==
    /\ p \in DOMAIN store
    /\ ~store[p].folder
    /\ \/ store' = [store EXCEPT ![p] = File(d)]
       \/ store' = [store EXCEPT ![p].data = @ \o d]

\* A folder goes with everything in it.
Remove(p) ==
    /\ p \in DOMAIN store
    /\ store' = [q \in {q \in DOMAIN store : ~Below(q, p)} |-> store[q]]

Next ==
    \E p \in Path :
        \/ Create(p)
        \/ Remove(p)
        \/ \E d \in Data : WriteNew(p, d) \/ WriteOld(p, d)

Spec == Init /\ [][Next]_store
=============================================================================
