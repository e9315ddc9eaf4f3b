----------------------------- MODULE MCUserLog -----------------------------
(* Instances of UserLog for TLC. *)
EXTENDS UserLog, TLC

CONSTANTS ann, bob, cid, t1, t2

Users      == {ann, bob, cid}
TwoUsers   == {ann, bob}
Threads    == {t1}
TwoThreads == {t1, t2}

\* User names are interchangeable, and so are threads.
UserSymmetry == Permutations(Users)
Symmetry     == Permutations(TwoUsers) \cup Permutations(TwoThreads)
=============================================================================
