------------------------------ MODULE MCSession ------------------------------
(* A small instance of Session for TLC. *)
EXTENDS Session, TLC

Symmetry ==
  Permutations(Users) \cup Permutations(Objs) \cup Permutations(Threads)
  \cup Permutations(Workers) \cup Permutations(Tokens) \cup Permutations(Items)
=============================================================================
