------------------------------ MODULE MCPosts ------------------------------
(* Instances of Posts for TLC. *)
EXTENDS Posts, TLC

CONSTANTS ann, bob

Users == {ann, bob}

\* User names are interchangeable.
Symmetry == Permutations(Users)
=============================================================================
