------------------------------ MODULE MCConnIO ------------------------------
(* Instances of ConnIO for TLC. *)
EXTENDS ConnIO, TLC

\* Workers are interchangeable, and so are pushers (for safety properties only).
Symmetry == Permutations(Workers) \cup Permutations(Pushers)
=============================================================================
