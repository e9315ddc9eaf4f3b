---------------------------- MODULE MCFSMemory ----------------------------
(* Instances of FSMemory for TLC. *)
EXTENDS FSMemory, TLC

CONSTANTS t1, t2

Threads == {t1, t2}

\* A branch that is long enough for a walk to go on below a name that is a file,
\* or that is removed and made again behind it.  The walks of create add its
\* other folders.
Paths == {<<"a">>, <<"a", "b">>, <<"a", "b", "c", "d">>}

AllOps == {"create", "write", "remove", "find"}

Bytes == {<<>>, <<"x">>}

\* Threads are interchangeable.
Symmetry == Permutations(Threads)
=============================================================================
