------------------------------ MODULE MCDbPool ------------------------------
(* Instances of DbPool for TLC. *)
EXTENDS DbPool, TLC

\* Threads are interchangeable, and so are connections.
Symmetry == Permutations(Threads) \cup Permutations(Conns)
============================================================================
