------------------------------ MODULE MCParty ------------------------------
(* Instances of Party for TLC. *)
EXTENDS Party, TLC

\* Users are interchangeable, and so are servers, and objects other than object 0.
Symmetry ==
  Permutations(Users) \cup Permutations(Servers) \cup Permutations(Objs \ {Obj0})
============================================================================
