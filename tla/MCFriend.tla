------------------------------ MODULE MCFriend ------------------------------
(* Instances of Friend for TLC. *)
EXTENDS Friend, TLC

\* Users are interchangeable, and so are workers.
Symmetry == Permutations(Users) \cup Permutations(Workers)
============================================================================
