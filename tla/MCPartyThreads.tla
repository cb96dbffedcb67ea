---------------------------- MODULE MCPartyThreads ----------------------------
(* A small instance of PartyThreads for TLC. *)
EXTENDS PartyThreads, TLC

Symmetry == Permutations(Users) \cup Permutations(Workers)
=============================================================================
