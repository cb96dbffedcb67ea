------------------------------ MODULE ByteQueue ------------------------------
(***************************************************************************)
(* What a receive buffer promises to those who use it: a bounded queue of  *)
(* bytes.  A write appends all of its bytes or has no effect; a read takes *)
(* from the front as many bytes as it asks for, or has no effect.          *)
(***************************************************************************)
EXTENDS Integers, Sequences

CONSTANTS
  Bytes,  \* what a byte can be
  Limit   \* how many bytes fit

VARIABLES
  queue,  \* the bytes written and not read yet
  got     \* what the last successful read returned

PutAll ==
  \E n \in 1 .. Limit - Len(queue) :
    /\ Len(queue') = Len(queue) + n
    /\ SubSeq(queue', 1, Len(queue)) = queue
    /\ UNCHANGED got

TakeFront ==
  \E n \in 1 .. Len(queue) :
    /\ got' = SubSeq(queue, 1, n)
    /\ queue' = SubSeq(queue, n + 1, Len(queue))

Init == queue = <<>> /\ got = <<>>

Next == queue' \in Seq(Bytes) /\ (PutAll \/ TakeFront)

Spec == Init /\ [][Next]_<<queue, got>>
=============================================================================
