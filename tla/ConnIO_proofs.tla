----------------------------- MODULE ConnIO_proofs -----------------------------
(***************************************************************************)
(* Proofs about ConnIO: the counter of the send queue and the life of the  *)
(* object, for any number of workers, pushers, sockets and messages, and   *)
(* any width of the counter.                                               *)
(***************************************************************************)
EXTENDS ConnIO, FiniteSetTheorems, TLAPS

Inv == TypeOK /\ Accounted

Sent == WorkerAt({"sent"})

Pushing == PusherAt({"pushed"})

\* What the counter of the send queue counts, without its width.
Total ==
  sendQueue + Cardinality(Operations(snd)) + lost + Cardinality(Sent) - Cardinality(Pushing)

\* The workers that carry a life of the object.
Carrying == {"accepted", "received", "reset", "requeue"}

----------------------------------------------------------------------------
(* Remainders *)

LEMMA Division ==
  ASSUME NEW M \in Nat, M > 1, NEW e \in Int
  PROVE  \E q \in Int, r \in 0 .. M - 1 : r = e % M /\ e = M * q + r
<1>1. PICK q \in Int : q = e \div M
  OBVIOUS
<1>2. PICK r \in Int : r = e % M
  OBVIOUS
<1>3. e = M * q + r
  BY <1>1, <1>2
<1>4. r \in 0 .. M - 1
  BY <1>2
<1> QED BY <1>1, <1>2, <1>3, <1>4

LEMMA Remainder ==
  ASSUME NEW M \in Nat, M > 1, NEW q \in Int, NEW r \in 0 .. M - 1
  PROVE  (M * q + r) % M = r
OBVIOUS

\* A counter that wraps around keeps the remainder of what it counts.
LEMMA Wraps ==
  ASSUME NEW M \in Nat, M > 1, NEW e \in Int
  PROVE  /\ e % M \in 0 .. M - 1
         /\ ((e % M) + 1) % M = (e + 1) % M
         /\ ((e % M) - 1) % M = (e - 1) % M
<1>1. PICK q \in Int, r \in 0 .. M - 1 : r = e % M /\ e = M * q + r
  BY Division
<1>2. (r + 1) % M = (e + 1) % M
  <2>1. CASE r + 1 < M
    <3>1. e + 1 = M * q + (r + 1) /\ r + 1 \in 0 .. M - 1
      BY <1>1, <2>1
    <3>2. (M * q + (r + 1)) % M = r + 1 /\ (r + 1) % M = r + 1
      BY <3>1, Remainder
    <3> QED BY <3>1, <3>2
  <2>2. CASE r + 1 = M
    <3>1. e + 1 = M * (q + 1) + 0 /\ r + 1 = M * 1 + 0
      BY <1>1, <2>2
    <3>2. (M * (q + 1) + 0) % M = 0 /\ (M * 1 + 0) % M = 0
      BY Remainder
    <3> QED BY <3>1, <3>2
  <2> QED BY <2>1, <2>2
<1>3. (r - 1) % M = (e - 1) % M
  <2>1. CASE r > 0
    <3>1. e - 1 = M * q + (r - 1) /\ r - 1 \in 0 .. M - 1
      BY <1>1, <2>1
    <3>2. (M * q + (r - 1)) % M = r - 1 /\ (r - 1) % M = r - 1
      BY <3>1, Remainder
    <3> QED BY <3>1, <3>2
  <2>2. CASE r = 0
    <3>1. e - 1 = M * (q - 1) + (M - 1) /\ r - 1 = M * (-1) + (M - 1)
      BY <1>1, <2>2
    <3>2. (M * (q - 1) + (M - 1)) % M = M - 1 /\ (M * (-1) + (M - 1)) % M = M - 1
      BY Remainder
    <3> QED BY <3>1, <3>2
  <2> QED BY <2>1, <2>2
<1> QED BY <1>1, <1>2, <1>3

----------------------------------------------------------------------------
(* Operations in flight, and threads at a place *)

LEMMA OperationsFinite ==
  ASSUME NEW f \in [Socks -> Nat]
  PROVE  IsFiniteSet(Operations(f)) /\ Cardinality(Operations(f)) \in Nat
<1> DEFINE g == [s \in Socks |-> {s} \X (1 .. f[s])]
           T == {g[s] : s \in Socks}
<1>1. IsFiniteSet(Socks)
  BY ConnIOAssumption, FS_Interval DEF Socks
<1>2. IsFiniteSet(T)
  <2>1. g \in Surjection(Socks, T)
    BY DEF Surjection
  <2> QED BY <1>1, <2>1, FS_Surjection
<1>3. \A t \in T : IsFiniteSet(t)
  <2> SUFFICES ASSUME NEW s \in Socks PROVE IsFiniteSet({s} \X (1 .. f[s]))
    OBVIOUS
  <2>1. IsFiniteSet({s}) /\ IsFiniteSet(1 .. f[s])
    <3>1. 1 \in Int /\ f[s] \in Int
      OBVIOUS
    <3> QED BY <3>1, FS_Singleton, FS_Interval
  <2> QED BY <2>1, FS_Product
<1>4. IsFiniteSet(UNION T)
  BY <1>2, <1>3, FS_UNION
<1>5. Operations(f) = UNION T
  BY DEF Operations
<1> QED BY <1>4, <1>5, FS_CardinalityType

\* One more operation on the socket s.
LEMMA OneMore ==
  ASSUME NEW f \in [Socks -> Nat], NEW s \in Socks, NEW h, h = [f EXCEPT ![s] = @ + 1]
  PROVE  /\ h \in [Socks -> Nat]
         /\ Cardinality(Operations(h)) = Cardinality(Operations(f)) + 1
<1>1. /\ h \in [Socks -> Nat] /\ h[s] = f[s] + 1 /\ f[s] \in Nat
      /\ \A r \in Socks \ {s} : h[r] = f[r]
  OBVIOUS
<1>2. 1 .. h[s] = (1 .. f[s]) \cup {f[s] + 1}
  BY <1>1
<1>3. Operations(h) = Operations(f) \cup {<<s, f[s] + 1>>}
  BY <1>1, <1>2 DEF Operations
<1>4. <<s, f[s] + 1>> \notin Operations(f)
  BY <1>1 DEF Operations
<1> QED BY <1>1, <1>3, <1>4, OperationsFinite, FS_AddElement

LEMMA OneLess ==
  ASSUME NEW f \in [Socks -> Nat], NEW s \in Socks, f[s] > 0,
         NEW h, h = [f EXCEPT ![s] = @ - 1]
  PROVE  /\ h \in [Socks -> Nat]
         /\ Cardinality(Operations(h)) = Cardinality(Operations(f)) - 1
<1>1. /\ h \in [Socks -> Nat] /\ h[s] = f[s] - 1 /\ f[s] \in Nat
      /\ \A r \in Socks \ {s} : h[r] = f[r]
  OBVIOUS
<1>0. f = [h EXCEPT ![s] = @ + 1]
  <2> DEFINE k == [h EXCEPT ![s] = @ + 1]
  <2>1. k \in [Socks -> Nat] /\ \A r \in Socks : k[r] = f[r]
    BY <1>1
  <2> QED BY <2>1
<1>2. Cardinality(Operations(f)) = Cardinality(Operations(h)) + 1
  BY <1>0, <1>1, OneMore
<1>3. Cardinality(Operations(f)) \in Nat /\ Cardinality(Operations(h)) \in Nat
  BY <1>1, OperationsFinite
<1> QED BY <1>1, <1>2, <1>3

\* A thread goes from one place to another: two sets that differ at most in it.
LEMMA Moves ==
  ASSUME NEW S, IsFiniteSet(S), NEW w \in S, NEW F \in SUBSET S, NEW H \in SUBSET S,
         F \ {w} = H \ {w}
  PROVE  /\ Cardinality(F) \in Nat /\ Cardinality(H) \in Nat
         /\ Cardinality(H) + (IF w \in F THEN 1 ELSE 0)
              = Cardinality(F) + (IF w \in H THEN 1 ELSE 0)
<1>1. /\ IsFiniteSet(F) /\ IsFiniteSet(H)
      /\ Cardinality(F) \in Nat /\ Cardinality(H) \in Nat
  BY FS_Subset, FS_CardinalityType
<1>2. /\ Cardinality(F \ {w}) = IF w \in F THEN Cardinality(F) - 1 ELSE Cardinality(F)
      /\ Cardinality(H \ {w}) = IF w \in H THEN Cardinality(H) - 1 ELSE Cardinality(H)
  BY <1>1, FS_RemoveElement
<1>3. Cardinality(F \ {w}) = Cardinality(H \ {w})
  OBVIOUS
<1> QED BY <1>1, <1>2, <1>3

----------------------------------------------------------------------------
(* The numbers that the properties add up *)

WorkerPlaces ==
  {"wait", "accepted", "received", "reset", "requeue", "sent", "more", "send"}

PusherPlaces == {"idle", "pushed", "added", "send"}

Busy == WorkerAt(Carrying)

Accepting == IF accepter THEN 1 ELSE 0

LEMMA Numbers ==
  ASSUME TypeOK
  PROVE  /\ IsFiniteSet(acc) /\ Cardinality(acc) \in Nat
         /\ Cardinality(Operations(rcv)) \in Nat /\ Cardinality(Operations(snd)) \in Nat
         /\ Cardinality(Sent) \in Nat /\ Cardinality(Busy) \in Nat
         /\ Cardinality(Pushing) \in Nat
         /\ Total \in Int
         /\ Lives = queued + Accepting + Cardinality(acc) + Cardinality(Operations(rcv))
                      + Cardinality(Busy)
         /\ Lives \in Nat
<1>1. IsFiniteSet(acc)
  <2>1. 1 \in Int /\ MaxSock \in Int /\ acc \subseteq 1 .. MaxSock
    BY ConnIOAssumption DEF TypeOK, Socks
  <2>2. IsFiniteSet(1 .. MaxSock)
    BY <2>1, FS_Interval
  <2> QED BY <2>1, <2>2, FS_Subset
<1>2. Cardinality(acc) \in Nat
  BY <1>1, FS_CardinalityType
<1>3. Cardinality(Operations(rcv)) \in Nat /\ Cardinality(Operations(snd)) \in Nat
  BY OperationsFinite DEF TypeOK
<1>4. /\ Sent \subseteq Workers /\ Busy \subseteq Workers /\ Pushing \subseteq Pushers
      /\ IsFiniteSet(Workers) /\ IsFiniteSet(Pushers)
  BY ConnIOAssumption DEF Sent, Busy, Pushing, WorkerAt, PusherAt
<1>5. /\ Cardinality(Sent) \in Nat /\ Cardinality(Busy) \in Nat
      /\ Cardinality(Pushing) \in Nat
  BY <1>4, FS_Subset, FS_CardinalityType
<1>6. Total \in Int
  BY <1>3, <1>5 DEF Total, TypeOK
<1>7. Lives = queued + Accepting + Cardinality(acc) + Cardinality(Operations(rcv))
                + Cardinality(Busy)
  BY DEF Lives, Accepting, Busy, Carrying
<1>8. Accepting \in Nat
  BY DEF Accepting
<1>9. Lives \in Nat
  BY <1>2, <1>3, <1>5, <1>7, <1>8 DEF TypeOK
<1> QED BY <1>1, <1>2, <1>3, <1>5, <1>6, <1>7, <1>9

\* A worker moves: the types, and the workers that are counted.
LEMMA WorkerMoves ==
  ASSUME TypeOK, NEW w \in Workers, NEW from \in WorkerPlaces, NEW to \in WorkerPlaces,
         GoW(w, from, to)
  PROVE  /\ wpc' \in [Workers -> WorkerPlaces] /\ wpc[w] = from /\ wpc'[w] = to
         /\ Cardinality(Sent) \in Nat /\ Cardinality(Sent') \in Nat
         /\ Cardinality(Busy) \in Nat /\ Cardinality(Busy') \in Nat
         /\ Cardinality(Sent') + (IF from = "sent" THEN 1 ELSE 0)
              = Cardinality(Sent) + (IF to = "sent" THEN 1 ELSE 0)
         /\ Cardinality(Busy') + (IF from \in Carrying THEN 1 ELSE 0)
              = Cardinality(Busy) + (IF to \in Carrying THEN 1 ELSE 0)
<1>1. /\ wpc' \in [Workers -> WorkerPlaces] /\ wpc[w] = from /\ wpc'[w] = to
      /\ \A v \in Workers \ {w} : wpc'[v] = wpc[v]
  BY DEF GoW, TypeOK, WorkerPlaces
<1>2. /\ Sent \in SUBSET Workers /\ Sent' \in SUBSET Workers
      /\ Busy \in SUBSET Workers /\ Busy' \in SUBSET Workers
      /\ Sent \ {w} = Sent' \ {w} /\ Busy \ {w} = Busy' \ {w}
  BY <1>1 DEF Sent, Busy, WorkerAt
<1>3. /\ w \in Sent <=> from = "sent"
      /\ w \in Sent' <=> to = "sent"
      /\ w \in Busy <=> from \in Carrying
      /\ w \in Busy' <=> to \in Carrying
  BY <1>1 DEF Sent, Busy, WorkerAt
<1>4. IsFiniteSet(Workers)
  BY ConnIOAssumption
<1>5. /\ Cardinality(Sent) \in Nat /\ Cardinality(Sent') \in Nat
      /\ Cardinality(Sent') + (IF w \in Sent THEN 1 ELSE 0)
           = Cardinality(Sent) + (IF w \in Sent' THEN 1 ELSE 0)
  BY <1>2, <1>4, Moves
<1>6. /\ Cardinality(Busy) \in Nat /\ Cardinality(Busy') \in Nat
      /\ Cardinality(Busy') + (IF w \in Busy THEN 1 ELSE 0)
           = Cardinality(Busy) + (IF w \in Busy' THEN 1 ELSE 0)
  BY <1>2, <1>4, Moves
<1> QED BY <1>1, <1>3, <1>5, <1>6

LEMMA PusherMoves ==
  ASSUME TypeOK, NEW p \in Pushers, NEW from \in PusherPlaces, NEW to \in PusherPlaces,
         GoP(p, from, to)
  PROVE  /\ ppc' \in [Pushers -> PusherPlaces]
         /\ Cardinality(Pushing) \in Nat /\ Cardinality(Pushing') \in Nat
         /\ Cardinality(Pushing') + (IF from = "pushed" THEN 1 ELSE 0)
              = Cardinality(Pushing) + (IF to = "pushed" THEN 1 ELSE 0)
<1>1. /\ ppc' \in [Pushers -> PusherPlaces] /\ ppc[p] = from /\ ppc'[p] = to
      /\ \A v \in Pushers \ {p} : ppc'[v] = ppc[v]
  BY DEF GoP, TypeOK, PusherPlaces
<1>2. /\ Pushing \in SUBSET Pushers /\ Pushing' \in SUBSET Pushers
      /\ Pushing \ {p} = Pushing' \ {p}
      /\ p \in Pushing <=> from = "pushed"
      /\ p \in Pushing' <=> to = "pushed"
  BY <1>1 DEF Pushing, PusherAt
<1>3. IsFiniteSet(Pushers)
  BY ConnIOAssumption
<1>4. /\ Cardinality(Pushing) \in Nat /\ Cardinality(Pushing') \in Nat
      /\ Cardinality(Pushing') + (IF p \in Pushing THEN 1 ELSE 0)
           = Cardinality(Pushing) + (IF p \in Pushing' THEN 1 ELSE 0)
  BY <1>2, <1>3, Moves
<1> QED BY <1>1, <1>2, <1>4

\* The counter moves with what it counts.
LEMMA AccountedKept ==
  ASSUME Inv, Total' \in Int,
         \/ Total' = Total /\ sendQueueSize' = sendQueueSize
         \/ Total' = Total + 1 /\ sendQueueSize' = (sendQueueSize + 1) % SizeMod
         \/ Total' = Total - 1 /\ sendQueueSize' = (sendQueueSize - 1) % SizeMod
  PROVE  Accounted' /\ sendQueueSize' \in 0 .. SizeMod - 1
<1>1. /\ sendQueueSize = Total % SizeMod /\ Total \in Int
      /\ SizeMod \in Nat /\ SizeMod > 1
  BY Numbers, ConnIOAssumption DEF Inv, Accounted, Total, Sent, Pushing
<1>2. sendQueueSize' = Total' % SizeMod
  BY <1>1, Wraps
<1>3. sendQueueSize' \in 0 .. SizeMod - 1
  BY <1>1, <1>2, Wraps
<1> QED BY <1>2, <1>3 DEF Accounted, Total, Sent, Pushing

----------------------------------------------------------------------------
(* Steps *)

\* What a step that keeps the life of the object shows.
Same == Inv' /\ Lives' = Lives

LEMMA AccepterStep == ASSUME Inv, Accepter PROVE Same
<1>1. /\ TypeOK /\ Accounted /\ IsFiniteSet(acc) /\ Cardinality(acc) \in Nat
      /\ Total \in Int /\ queued \in Nat
      /\ Cardinality(Operations(rcv)) \in Nat /\ Cardinality(Busy) \in Nat
      /\ Lives = queued + Accepting + Cardinality(acc) + Cardinality(Operations(rcv))
                   + Cardinality(Busy)
  BY Numbers DEF Inv, TypeOK
<1>2. UNCHANGED <<sock, open, rcv, snd, wpc, Sends>>
  BY DEF Accepter, PopAccept, PostAccept, AcceptExFails
<1>3. /\ Total' = Total /\ sendQueueSize' = sendQueueSize
      /\ Operations(rcv)' = Operations(rcv) /\ Busy' = Busy
  BY <1>2 DEF Total, Sends, Operations, Sent, Pushing, Busy, WorkerAt, PusherAt
<1>4. Accounted'
  BY <1>1, <1>3, AccountedKept
<1>5. /\ acc' \subseteq Socks /\ queued' \in Nat /\ accepter' \in BOOLEAN
      /\ Cardinality(acc') \in Nat
      /\ queued' + Accepting' + Cardinality(acc') = queued + Accepting + Cardinality(acc)
  <2>1. CASE PopAccept \/ AcceptExFails
    <3>1. /\ acc' = acc
          /\ \/ queued > 0 /\ queued' = queued - 1 /\ ~accepter /\ accepter' = TRUE
             \/ queued' = queued + 1 /\ accepter /\ accepter' = FALSE
      BY <2>1 DEF PopAccept, AcceptExFails
    <3>2. /\ queued' \in Nat
          /\ queued' + Accepting' = queued + Accepting
      BY <1>1, <3>1 DEF Accepting
    <3>3. acc' \subseteq Socks /\ accepter' \in BOOLEAN
      BY <1>1, <3>1 DEF TypeOK
    <3> QED BY <1>1, <3>1, <3>2, <3>3 DEF Accepting
  <2>2. CASE PostAccept
    <3>1. /\ acc' = acc \cup {sock} /\ sock \notin acc /\ sock \in Socks
          /\ accepter /\ accepter' = FALSE /\ queued' = queued
      BY <1>1, <2>2 DEF PostAccept, TypeOK
    <3>2. Cardinality(acc') = Cardinality(acc) + 1
      BY <1>1, <3>1, FS_AddElement
    <3>3. Accepting = 1 /\ Accepting' = 0
      BY <3>1 DEF Accepting
    <3>4. acc' \subseteq Socks /\ accepter' \in BOOLEAN
      BY <1>1, <3>1 DEF TypeOK
    <3> QED BY <1>1, <3>1, <3>2, <3>3, <3>4
  <2> QED BY <2>1, <2>2 DEF Accepter
<1>6. TypeOK'
  BY <1>1, <1>2, <1>5 DEF TypeOK, Sends
<1>7. Lives' = queued' + Accepting' + Cardinality(acc') + Cardinality(Operations(rcv)')
                 + Cardinality(Busy')
  BY DEF Lives, Accepting, Busy, Carrying
<1>8. Accepting \in Nat /\ Accepting' \in Nat
  BY DEF Accepting
<1>9. Lives' = Lives
  BY <1>1, <1>3, <1>5, <1>7, <1>8
<1> QED BY <1>4, <1>6, <1>9 DEF Inv, Same

\* A worker takes the completion of an accept.
LEMMA TakeAcceptStep ==
  ASSUME Inv, NEW w \in Workers, NEW s \in Socks, TakeAccept(w, s) \/ TakeAcceptFailed(w, s)
  PROVE  Same
<1>1. /\ TypeOK /\ Accounted /\ IsFiniteSet(acc) /\ Cardinality(acc) \in Nat
      /\ Total \in Int /\ queued \in Nat
      /\ Cardinality(Operations(rcv)) \in Nat /\ Cardinality(Busy) \in Nat
      /\ Lives = queued + Accepting + Cardinality(acc) + Cardinality(Operations(rcv))
                   + Cardinality(Busy)
  BY Numbers DEF Inv, TypeOK
<1>2. /\ s \in acc /\ acc' = acc \ {s} /\ open' \in BOOLEAN
      /\ UNCHANGED <<sock, rcv, snd, queued, accepter, Sends>>
  BY <1>1 DEF TakeAccept, TakeAcceptFailed, TypeOK
<1>3. PICK to \in {"accepted", "reset"} : GoW(w, "wait", to)
  BY DEF TakeAccept, TakeAcceptFailed
<1>4. /\ wpc' \in [Workers -> WorkerPlaces]
      /\ Cardinality(Sent') = Cardinality(Sent)
      /\ Cardinality(Busy') = Cardinality(Busy) + 1
  <2>1. "wait" \in WorkerPlaces /\ to \in WorkerPlaces /\ to \in Carrying /\ to # "sent"
        /\ "wait" \notin Carrying
    BY DEF WorkerPlaces, Carrying
  <2> QED BY <1>1, <1>3, <2>1, WorkerMoves
<1>5. /\ Total' = Total /\ sendQueueSize' = sendQueueSize
      /\ Operations(rcv)' = Operations(rcv)
  BY <1>2, <1>4 DEF Total, Sends, Operations, Pushing, PusherAt
<1>6. Accounted'
  BY <1>1, <1>5, AccountedKept
<1>7. TypeOK'
  BY <1>1, <1>2, <1>4 DEF TypeOK, Sends, WorkerPlaces
<1>8. Cardinality(acc') = Cardinality(acc) - 1
  BY <1>1, <1>2, FS_RemoveElement
<1>9. Lives' = queued' + Accepting' + Cardinality(acc') + Cardinality(Operations(rcv)')
                 + Cardinality(Busy')
  BY DEF Lives, Accepting, Busy, Carrying
<1>10. Accepting \in Nat /\ Accepting' = Accepting
  BY <1>2 DEF Accepting
<1>11. Lives' = Lives
  BY <1>1, <1>2, <1>4, <1>5, <1>8, <1>9, <1>10
<1> QED BY <1>6, <1>7, <1>11 DEF Inv, Same

\* A worker takes the completion of a receive.
LEMMA TakeRecvStep ==
  ASSUME Inv, NEW w \in Workers, NEW s \in Socks, TakeRecv(w, s) \/ TakeRecvFailed(w, s)
  PROVE  Same
<1>1. /\ TypeOK /\ Accounted /\ Total \in Int /\ queued \in Nat /\ Cardinality(acc) \in Nat
      /\ rcv \in [Socks -> Nat]
      /\ Cardinality(Operations(rcv)) \in Nat /\ Cardinality(Busy) \in Nat
      /\ Lives = queued + Accepting + Cardinality(acc) + Cardinality(Operations(rcv))
                   + Cardinality(Busy)
  BY Numbers DEF Inv, TypeOK
<1>2. /\ rcv[s] > 0 /\ rcv' = [rcv EXCEPT ![s] = @ - 1]
      /\ UNCHANGED <<sock, open, acc, snd, queued, accepter, Sends>>
  BY DEF TakeRecv, TakeRecvFailed
<1>3. PICK to \in {"received", "reset"} : GoW(w, "wait", to)
  BY DEF TakeRecv, TakeRecvFailed
<1>4. /\ wpc' \in [Workers -> WorkerPlaces]
      /\ Cardinality(Sent') = Cardinality(Sent)
      /\ Cardinality(Busy') = Cardinality(Busy) + 1
  <2>1. "wait" \in WorkerPlaces /\ to \in WorkerPlaces /\ to \in Carrying /\ to # "sent"
        /\ "wait" \notin Carrying
    BY DEF WorkerPlaces, Carrying
  <2> QED BY <1>1, <1>3, <2>1, WorkerMoves
<1>5. /\ rcv' \in [Socks -> Nat]
      /\ Cardinality(Operations(rcv')) = Cardinality(Operations(rcv)) - 1
  BY <1>1, <1>2, OneLess
<1>6. Total' = Total /\ sendQueueSize' = sendQueueSize
  BY <1>2, <1>4 DEF Total, Sends, Operations, Pushing, PusherAt
<1>7. Accounted'
  BY <1>1, <1>6, AccountedKept
<1>8. TypeOK'
  BY <1>1, <1>2, <1>4, <1>5 DEF TypeOK, Sends, WorkerPlaces
<1>9. Lives' = queued' + Accepting' + Cardinality(acc') + Cardinality(Operations(rcv'))
                 + Cardinality(Busy')
  BY DEF Lives, Accepting, Busy, Carrying
<1>10. Accepting \in Nat /\ Accepting' = Accepting
  BY <1>2 DEF Accepting
<1>11. Lives' = Lives
  BY <1>1, <1>2, <1>4, <1>5, <1>9, <1>10
<1> QED BY <1>7, <1>8, <1>11 DEF Inv, Same

\* A worker takes the completion of a send: a failed one gives the object another life.
LEMMA TakeSendStep ==
  ASSUME Inv, NEW w \in Workers, NEW s \in Socks, TakeSend(w, s) \/ TakeSendFailed(w, s)
  PROVE  /\ Inv'
         /\ Lives' = Lives \/ (Lives' = Lives + 1 /\ TakeSendFailed(w, s))
<1>1. /\ TypeOK /\ Accounted /\ Total \in Int /\ queued \in Nat /\ Cardinality(acc) \in Nat
      /\ snd \in [Socks -> Nat] /\ sendQueue \in Nat /\ lost \in Nat
      /\ Cardinality(Operations(rcv)) \in Nat /\ Cardinality(Busy) \in Nat
      /\ Cardinality(Operations(snd)) \in Nat /\ Cardinality(Sent) \in Nat
      /\ Cardinality(Pushing) \in Nat
      /\ Lives = queued + Accepting + Cardinality(acc) + Cardinality(Operations(rcv))
                   + Cardinality(Busy)
  BY Numbers DEF Inv, TypeOK
<1>2. /\ snd[s] > 0 /\ snd' = [snd EXCEPT ![s] = @ - 1]
      /\ UNCHANGED <<sock, open, acc, rcv, queued, accepter, sendQueue, sendQueueSize, ppc,
                     pushed, raced>>
  BY DEF TakeSend, TakeSendFailed, Sends
<1>3. /\ snd' \in [Socks -> Nat]
      /\ Cardinality(Operations(snd')) = Cardinality(Operations(snd)) - 1
  BY <1>1, <1>2, OneLess
<1>4. /\ Cardinality(Pushing') = Cardinality(Pushing)
      /\ Operations(rcv') = Operations(rcv) /\ Accepting' = Accepting /\ Accepting \in Nat
  BY <1>2 DEF Pushing, PusherAt, Operations, Accepting
<1>5. /\ Total = sendQueue + Cardinality(Operations(snd)) + lost + Cardinality(Sent)
                   - Cardinality(Pushing)
      /\ Total' = sendQueue' + Cardinality(Operations(snd')) + lost' + Cardinality(Sent')
                   - Cardinality(Pushing')
  BY DEF Total
<1>6. Lives' = queued' + Accepting' + Cardinality(acc') + Cardinality(Operations(rcv'))
                 + Cardinality(Busy')
  BY DEF Lives, Accepting, Busy, Carrying
<1>7. CASE TakeSend(w, s)
  <2>1. GoW(w, "wait", "sent") /\ lost' = lost
    BY <1>7 DEF TakeSend, Sends
  <2>2. /\ wpc' \in [Workers -> WorkerPlaces]
        /\ Cardinality(Sent') = Cardinality(Sent) + 1
        /\ Cardinality(Busy') = Cardinality(Busy)
    <3>1. "wait" \in WorkerPlaces /\ "sent" \in WorkerPlaces /\ "sent" \notin Carrying
          /\ "wait" \notin Carrying
      BY DEF WorkerPlaces, Carrying
    <3> QED BY <1>1, <2>1, <3>1, WorkerMoves
  <2>3. Total' = Total
    BY <1>1, <1>2, <1>3, <1>4, <1>5, <2>1, <2>2
  <2>4. Accounted'
    BY <1>1, <1>2, <2>3, AccountedKept
  <2>5. TypeOK'
    BY <1>1, <1>2, <1>3, <2>1, <2>2 DEF TypeOK, WorkerPlaces
  <2>6. Lives' = Lives
    BY <1>1, <1>2, <1>4, <1>6, <2>2
  <2> QED BY <2>4, <2>5, <2>6 DEF Inv
<1>8. CASE TakeSendFailed(w, s)
  <2>1. GoW(w, "wait", "reset") /\ lost' = lost + 1
    BY <1>8 DEF TakeSendFailed
  <2>2. /\ wpc' \in [Workers -> WorkerPlaces]
        /\ Cardinality(Sent') = Cardinality(Sent)
        /\ Cardinality(Busy') = Cardinality(Busy) + 1
    <3>1. "wait" \in WorkerPlaces /\ "reset" \in WorkerPlaces /\ "reset" \in Carrying
          /\ "wait" \notin Carrying
      BY DEF WorkerPlaces, Carrying
    <3> QED BY <1>1, <2>1, <3>1, WorkerMoves
  <2>3. Total' = Total
    BY <1>1, <1>2, <1>3, <1>4, <1>5, <2>1, <2>2
  <2>4. Accounted'
    BY <1>1, <1>2, <2>3, AccountedKept
  <2>5. TypeOK'
    BY <1>1, <1>2, <1>3, <2>1, <2>2 DEF TypeOK, WorkerPlaces
  <2>6. Lives' = Lives + 1
    BY <1>1, <1>2, <1>4, <1>6, <2>2
  <2> QED BY <1>8, <2>4, <2>5, <2>6 DEF Inv
<1> QED BY <1>7, <1>8

\* A worker receives again, resets the object or queues it: only a receive that cannot
\* be posted again takes a life.
LEMMA ReceiverStep ==
  ASSUME Inv, NEW w \in Workers,
         Recv(w) \/ FirstRecvFails(w) \/ RecvFails(w) \/ Reset(w) \/ Requeue(w)
  PROVE  /\ Inv'
         /\ Lives' = Lives \/ (Lives' = Lives - 1 /\ RecvFails(w))
<1>1. /\ TypeOK /\ Accounted /\ Total \in Int /\ queued \in Nat /\ Cardinality(acc) \in Nat
      /\ rcv \in [Socks -> Nat] /\ sock \in Socks
      /\ Cardinality(Operations(rcv)) \in Nat /\ Cardinality(Busy) \in Nat
      /\ Lives = queued + Accepting + Cardinality(acc) + Cardinality(Operations(rcv))
                   + Cardinality(Busy)
  BY Numbers DEF Inv, TypeOK
<1>2. UNCHANGED <<acc, snd, accepter, Sends>>
  BY DEF Recv, FirstRecvFails, RecvFails, Reset, Requeue
<1>3. PICK from \in Carrying, to \in {"wait", "reset", "requeue"} :
        /\ GoW(w, from, to)
        /\ \/ from \in {"accepted", "received"} /\ to = "wait" /\ Recv(w)
           \/ from = "accepted" /\ to = "reset" /\ FirstRecvFails(w)
           \/ from = "received" /\ to = "wait" /\ RecvFails(w)
           \/ from = "reset" /\ to = "requeue" /\ Reset(w)
           \/ from = "requeue" /\ to = "wait" /\ Requeue(w)
  BY DEF Carrying, Recv, FirstRecvFails, RecvFails, Reset, Requeue
<1>4. /\ wpc' \in [Workers -> WorkerPlaces]
      /\ Cardinality(Sent') = Cardinality(Sent)
      /\ Cardinality(Busy') \in Nat
      /\ to = "wait" => Cardinality(Busy') = Cardinality(Busy) - 1
      /\ to # "wait" => Cardinality(Busy') = Cardinality(Busy)
  <2>1. /\ from \in WorkerPlaces /\ to \in WorkerPlaces /\ from # "sent" /\ to # "sent"
        /\ to \in Carrying <=> to # "wait"
    BY DEF WorkerPlaces, Carrying
  <2> QED BY <1>1, <1>3, <2>1, WorkerMoves
<1>5. Total' = Total /\ sendQueueSize' = sendQueueSize
  BY <1>2, <1>4 DEF Total, Sends, Operations, Pushing, PusherAt
<1>6. Accounted'
  BY <1>1, <1>5, AccountedKept
<1>7. Lives' = queued' + Accepting' + Cardinality(acc') + Cardinality(Operations(rcv'))
                 + Cardinality(Busy')
  BY DEF Lives, Accepting, Busy, Carrying
<1>8. Accepting \in Nat /\ Accepting' = Accepting /\ acc' = acc
  BY <1>2 DEF Accepting
<1>9. CASE Recv(w)
  <2>1. to = "wait" /\ rcv' = [rcv EXCEPT ![sock] = @ + 1] /\ UNCHANGED <<sock, open, queued>>
    <3>1. GoW(w, "accepted", "wait") \/ GoW(w, "received", "wait")
      BY <1>9 DEF Recv
    <3> QED BY <1>1, <1>3, <1>9, <3>1 DEF Recv, GoW, TypeOK
  <2>2. /\ rcv' \in [Socks -> Nat]
        /\ Cardinality(Operations(rcv')) = Cardinality(Operations(rcv)) + 1
    BY <1>1, <2>1, OneMore
  <2>3. TypeOK'
    BY <1>1, <1>2, <1>4, <2>1, <2>2, <1>5 DEF TypeOK, Sends, WorkerPlaces
  <2>4. Lives' = Lives
    BY <1>1, <1>4, <1>7, <1>8, <2>1, <2>2
  <2> QED BY <1>6, <2>3, <2>4 DEF Inv
<1>10. CASE FirstRecvFails(w) \/ RecvFails(w)
  <2>1. UNCHANGED <<sock, open, rcv, queued>>
    BY <1>10 DEF FirstRecvFails, RecvFails
  <2>2. TypeOK'
    BY <1>1, <1>2, <1>4, <1>5, <2>1 DEF TypeOK, Sends, WorkerPlaces
  <2>3. /\ FirstRecvFails(w) => to = "reset"
        /\ RecvFails(w) => to = "wait"
    BY <1>1, <1>3 DEF FirstRecvFails, RecvFails, GoW, TypeOK
  <2>4. Lives' = Lives \/ (Lives' = Lives - 1 /\ RecvFails(w))
    BY <1>1, <1>4, <1>7, <1>8, <1>10, <2>1, <2>3
  <2> QED BY <1>6, <2>2, <2>4 DEF Inv
<1>11. CASE Reset(w)
  <2>1. /\ sock' \in Socks /\ open' = FALSE /\ UNCHANGED <<rcv, queued>>
    BY <1>1, <1>11, ConnIOAssumption DEF Reset, Socks
  <2>2. to = "requeue"
    BY <1>1, <1>3, <1>11 DEF Reset, GoW, TypeOK
  <2>3. TypeOK'
    BY <1>1, <1>2, <1>4, <1>5, <2>1 DEF TypeOK, Sends, WorkerPlaces
  <2>4. Lives' = Lives
    BY <1>1, <1>4, <1>7, <1>8, <2>1, <2>2
  <2> QED BY <1>6, <2>3, <2>4 DEF Inv
<1>12. CASE Requeue(w)
  <2>1. queued' = queued + 1 /\ UNCHANGED <<sock, open, rcv>>
    BY <1>12 DEF Requeue
  <2>2. to = "wait"
    BY <1>1, <1>3, <1>12 DEF Requeue, GoW, TypeOK
  <2>3. TypeOK'
    BY <1>1, <1>2, <1>4, <1>5, <2>1 DEF TypeOK, Sends, WorkerPlaces
  <2>4. Lives' = Lives
    BY <1>1, <1>4, <1>7, <1>8, <2>1, <2>2
  <2> QED BY <1>6, <2>3, <2>4 DEF Inv
<1> QED BY <1>9, <1>10, <1>11, <1>12

\* ProcSend moves a message on; no message leaves the account.
LEMMA SendsOn ==
  ASSUME Inv, ProcSend, UNCHANGED <<sock, open>>
  PROVE  /\ snd' \in [Socks -> Nat] /\ sendQueue' \in Nat /\ lost' \in Nat
         /\ Cardinality(Operations(snd)) \in Nat /\ Cardinality(Operations(snd')) \in Nat
         /\ sendQueue' + Cardinality(Operations(snd')) + lost'
              = sendQueue + Cardinality(Operations(snd)) + lost
<1>1. /\ snd \in [Socks -> Nat] /\ sendQueue \in Nat /\ lost \in Nat /\ sock \in Socks
      /\ Cardinality(Operations(snd)) \in Nat
  BY Numbers DEF Inv, TypeOK
<1>2. CASE UNCHANGED <<sendQueue, snd, lost>>
  BY <1>1, <1>2
<1>3. CASE /\ sendQueue > 0 /\ sendQueue' = sendQueue - 1
           /\ snd' = [snd EXCEPT ![sock] = @ + 1] /\ lost' = lost
  <2>1. /\ snd' \in [Socks -> Nat]
        /\ Cardinality(Operations(snd')) = Cardinality(Operations(snd)) + 1
    BY <1>1, <1>3, OneMore
  <2> QED BY <1>1, <1>3, <2>1
<1>4. CASE /\ sendQueue > 0 /\ sendQueue' = sendQueue - 1
           /\ lost' = lost + 1 /\ snd' = snd
  BY <1>1, <1>4
<1> QED BY <1>2, <1>3, <1>4 DEF ProcSend

\* SendComplete counts down, looks, and sends on.
LEMMA CompleteStep ==
  ASSUME Inv, NEW w \in Workers, CompleteSub(w) \/ CompleteLoad(w) \/ CompleteSend(w)
  PROVE  Same
<1>1. /\ TypeOK /\ Accounted /\ Total \in Int /\ Cardinality(Sent) \in Nat
      /\ Cardinality(Pushing) \in Nat /\ Cardinality(Operations(snd)) \in Nat
      /\ snd \in [Socks -> Nat] /\ sendQueue \in Nat /\ lost \in Nat
  BY Numbers DEF Inv, TypeOK
<1>2. UNCHANGED <<sock, open, acc, rcv, queued, accepter, ppc, pushed, raced>>
  BY DEF CompleteSub, CompleteLoad, CompleteSend, Sends
<1>3. PICK from \in {"sent", "more", "send"}, to \in {"more", "send", "wait"} :
        /\ GoW(w, from, to)
        /\ \/ from = "sent" /\ to = "more" /\ CompleteSub(w)
           \/ from = "more" /\ to \in {"send", "wait"} /\ CompleteLoad(w)
           \/ from = "send" /\ to = "wait" /\ CompleteSend(w)
  BY DEF CompleteSub, CompleteLoad, CompleteSend
<1>4. /\ wpc' \in [Workers -> WorkerPlaces] /\ Cardinality(Sent') \in Nat
      /\ Cardinality(Sent') = Cardinality(Sent) - (IF from = "sent" THEN 1 ELSE 0)
      /\ Cardinality(Busy') = Cardinality(Busy)
  <2>1. /\ from \in WorkerPlaces /\ to \in WorkerPlaces /\ to # "sent"
        /\ from \notin Carrying /\ to \notin Carrying
    BY DEF WorkerPlaces, Carrying
  <2> QED BY <1>1, <1>3, <2>1, WorkerMoves
<1>5. Lives' = Lives
  BY <1>2, <1>4 DEF Lives, Busy, Carrying, Operations
<1>6. /\ Total = sendQueue + Cardinality(Operations(snd)) + lost + Cardinality(Sent)
                   - Cardinality(Pushing)
      /\ Total' = sendQueue' + Cardinality(Operations(snd')) + lost' + Cardinality(Sent')
                   - Cardinality(Pushing')
      /\ Cardinality(Pushing') = Cardinality(Pushing)
  BY <1>2 DEF Total, Pushing, PusherAt
<1>7. CASE from = "sent"
  <2>1. /\ sendQueueSize' = (sendQueueSize - 1) % SizeMod
        /\ UNCHANGED <<sendQueue, snd, lost>>
    BY <1>3, <1>7 DEF CompleteSub
  <2>2. Total' = Total - 1
    BY <1>1, <1>4, <1>6, <1>7, <2>1
  <2>3. Accounted' /\ sendQueueSize' \in 0 .. SizeMod - 1
    BY <1>1, <2>1, <2>2, AccountedKept
  <2>4. TypeOK'
    BY <1>1, <1>2, <1>4, <2>1, <2>3 DEF TypeOK, WorkerPlaces
  <2> QED BY <1>5, <2>3, <2>4 DEF Inv, Same
<1>8. CASE from = "more"
  <2>1. UNCHANGED <<sendQueueSize, sendQueue, snd, lost>>
    BY <1>3, <1>8 DEF CompleteLoad, Sends
  <2>2. Total' = Total
    BY <1>1, <1>4, <1>6, <1>8, <2>1
  <2>3. Accounted'
    BY <1>1, <2>1, <2>2, AccountedKept
  <2>4. TypeOK'
    BY <1>1, <1>2, <1>4, <2>1 DEF TypeOK, WorkerPlaces
  <2> QED BY <1>5, <2>3, <2>4 DEF Inv, Same
<1>9. CASE from = "send"
  <2>1. ProcSend /\ sendQueueSize' = sendQueueSize
    BY <1>3, <1>9 DEF CompleteSend
  <2>2. /\ snd' \in [Socks -> Nat] /\ sendQueue' \in Nat /\ lost' \in Nat
        /\ Cardinality(Operations(snd')) \in Nat
        /\ sendQueue' + Cardinality(Operations(snd')) + lost'
             = sendQueue + Cardinality(Operations(snd)) + lost
    BY <1>2, <2>1, SendsOn
  <2>3. Total' = Total
    BY <1>1, <1>4, <1>6, <1>9, <2>2
  <2>4. Accounted'
    BY <1>1, <2>1, <2>3, AccountedKept
  <2>5. TypeOK'
    BY <1>1, <1>2, <1>4, <2>1, <2>2 DEF TypeOK, WorkerPlaces
  <2> QED BY <1>5, <2>4, <2>5 DEF Inv, Same
<1> QED BY <1>3, <1>7, <1>8, <1>9

\* PushSendMsg queues a message, counts it, looks, and sends.
LEMMA PusherStep ==
  ASSUME Inv, NEW p \in Pushers, Push(p) \/ PushStep(p)
  PROVE  Same
<1>1. /\ TypeOK /\ Accounted /\ Total \in Int /\ Cardinality(Sent) \in Nat
      /\ Cardinality(Pushing) \in Nat /\ Cardinality(Operations(snd)) \in Nat
      /\ snd \in [Socks -> Nat] /\ sendQueue \in Nat /\ lost \in Nat
      /\ pushed \in 0 .. MaxMsgs /\ MaxMsgs \in Nat
  BY Numbers, ConnIOAssumption DEF Inv, TypeOK
<1>2. UNCHANGED <<sock, open, acc, rcv, queued, accepter, wpc>>
  BY DEF Push, PushStep, PushAdd, PushLoad, PushSend
<1>3. PICK from \in PusherPlaces, to \in PusherPlaces :
        /\ GoP(p, from, to)
        /\ \/ from = "idle" /\ to = "pushed" /\ Push(p)
           \/ from = "pushed" /\ to = "added" /\ PushAdd(p)
           \/ from = "added" /\ to \in {"send", "idle"} /\ PushLoad(p)
           \/ from = "send" /\ to = "idle" /\ PushSend(p)
  BY DEF Push, PushStep, PushAdd, PushLoad, PushSend, PusherPlaces
<1>4. /\ ppc' \in [Pushers -> PusherPlaces] /\ Cardinality(Pushing') \in Nat
      /\ Cardinality(Pushing') + (IF from = "pushed" THEN 1 ELSE 0)
           = Cardinality(Pushing) + (IF to = "pushed" THEN 1 ELSE 0)
  BY <1>1, <1>3, PusherMoves
<1>5. Lives' = Lives /\ Cardinality(Sent') = Cardinality(Sent)
  BY <1>2 DEF Lives, Sent, WorkerAt, Operations
<1>6. /\ Total = sendQueue + Cardinality(Operations(snd)) + lost + Cardinality(Sent)
                   - Cardinality(Pushing)
      /\ Total' = sendQueue' + Cardinality(Operations(snd')) + lost' + Cardinality(Sent')
                   - Cardinality(Pushing')
  BY DEF Total
<1>7. CASE from = "idle"
  <2>1. /\ to = "pushed" /\ pushed' \in 0 .. MaxMsgs /\ sendQueue' = sendQueue + 1
        /\ raced' \in BOOLEAN /\ UNCHANGED <<sendQueueSize, snd, lost>>
    BY <1>1, <1>3, <1>7 DEF Push, TypeOK
  <2>2. Total' = Total
    BY <1>1, <1>4, <1>5, <1>6, <1>7, <2>1
  <2>3. Accounted'
    BY <1>1, <2>1, <2>2, AccountedKept
  <2>4. TypeOK'
    BY <1>1, <1>2, <1>4, <2>1 DEF TypeOK, PusherPlaces
  <2> QED BY <1>5, <2>3, <2>4 DEF Inv, Same
<1>8. CASE from = "pushed"
  <2>1. /\ to = "added" /\ sendQueueSize' = (sendQueueSize + 1) % SizeMod
        /\ UNCHANGED <<sendQueue, snd, lost, pushed, raced>>
    BY <1>3, <1>8 DEF PushAdd
  <2>2. Total' = Total + 1
    BY <1>1, <1>4, <1>5, <1>6, <1>8, <2>1
  <2>3. Accounted' /\ sendQueueSize' \in 0 .. SizeMod - 1
    BY <1>1, <2>1, <2>2, AccountedKept
  <2>4. TypeOK'
    BY <1>1, <1>2, <1>4, <2>1, <2>3 DEF TypeOK, PusherPlaces
  <2> QED BY <1>5, <2>3, <2>4 DEF Inv, Same
<1>9. CASE from = "added"
  <2>1. /\ to # "pushed" /\ UNCHANGED <<sendQueueSize, sendQueue, snd, lost, pushed, raced>>
    BY <1>3, <1>9 DEF PushLoad
  <2>2. Total' = Total
    BY <1>1, <1>4, <1>5, <1>6, <1>9, <2>1
  <2>3. Accounted'
    BY <1>1, <2>1, <2>2, AccountedKept
  <2>4. TypeOK'
    BY <1>1, <1>2, <1>4, <2>1 DEF TypeOK, PusherPlaces
  <2> QED BY <1>5, <2>3, <2>4 DEF Inv, Same
<1>10. CASE from = "send"
  <2>1. /\ to # "pushed" /\ ProcSend /\ UNCHANGED <<sendQueueSize, pushed, raced>>
    BY <1>3, <1>10 DEF PushSend
  <2>2. /\ snd' \in [Socks -> Nat] /\ sendQueue' \in Nat /\ lost' \in Nat
        /\ Cardinality(Operations(snd')) \in Nat
        /\ sendQueue' + Cardinality(Operations(snd')) + lost'
             = sendQueue + Cardinality(Operations(snd)) + lost
    BY <1>2, <2>1, SendsOn
  <2>3. Total' = Total
    BY <1>1, <1>4, <1>5, <1>6, <1>10, <2>1, <2>2
  <2>4. Accounted'
    BY <1>1, <2>1, <2>3, AccountedKept
  <2>5. TypeOK'
    BY <1>1, <1>2, <1>4, <2>1, <2>2 DEF TypeOK, PusherPlaces
  <2> QED BY <1>5, <2>4, <2>5 DEF Inv, Same
<1> QED BY <1>3, <1>7, <1>8, <1>9, <1>10

----------------------------------------------------------------------------
(* The theorems *)

LEMMA InvInit == Init => Inv
<1> SUFFICES ASSUME Init PROVE Inv
  OBVIOUS
<1>1. TypeOK
  <2>1. sock \in Socks /\ sendQueueSize \in 0 .. SizeMod - 1 /\ pushed \in 0 .. MaxMsgs
    BY ConnIOAssumption DEF Init, Socks
  <2>2. rcv \in [Socks -> Nat] /\ snd \in [Socks -> Nat]
    BY DEF Init
  <2> QED BY <2>1, <2>2 DEF Init, TypeOK
<1>2. Operations(snd) = {} /\ Sent = {} /\ Pushing = {} /\ sendQueue = 0 /\ lost = 0
  BY DEF Init, Operations, Sent, Pushing, WorkerAt, PusherAt
<1>3. /\ Cardinality(Operations(snd)) = 0 /\ Cardinality(Sent) = 0
      /\ Cardinality(Pushing) = 0
  BY <1>2, FS_EmptySet
<1>4. Total = 0
  BY <1>2, <1>3 DEF Total
<1>5. 0 % SizeMod = 0 /\ sendQueueSize = 0
  BY ConnIOAssumption DEF Init
<1>6. Accounted
  BY <1>4, <1>5 DEF Accounted, Total, Sent, Pushing
<1> QED BY <1>1, <1>6 DEF Inv

LEMMA InvStep ==
  ASSUME Inv, [Next]_vars
  PROVE  /\ Inv'
         /\ Lives' # Lives
              => \E w \in Workers :
                   \/ Lives' = Lives + 1 /\ \E s \in Socks : TakeSendFailed(w, s)
                   \/ Lives' = Lives - 1 /\ RecvFails(w)
<1>1. CASE UNCHANGED vars
  <2>1. UNCHANGED <<sock, open, acc, rcv, snd, queued, accepter, sendQueue, sendQueueSize,
                    wpc, ppc, pushed, lost, raced>>
    BY <1>1 DEF vars
  <2>2. TypeOK'
    BY <2>1 DEF Inv, TypeOK
  <2>3. Accounted' /\ Lives' = Lives
    BY <2>1 DEF Inv, Accounted, Lives, Operations, WorkerAt, PusherAt
  <2> QED BY <2>2, <2>3 DEF Inv
<1>2. CASE Accepter
  BY <1>2, AccepterStep DEF Same
<1>3. ASSUME NEW w \in Workers, Completion(w) \/ Work(w)
      PROVE  /\ Inv'
             /\ \/ Lives' = Lives
                \/ Lives' = Lives + 1 /\ \E s \in Socks : TakeSendFailed(w, s)
                \/ Lives' = Lives - 1 /\ RecvFails(w)
  <2>1. CASE Completion(w)
    <3>1. PICK s \in Socks : \/ TakeAccept(w, s) \/ TakeAcceptFailed(w, s)
                             \/ TakeRecv(w, s) \/ TakeRecvFailed(w, s)
                             \/ TakeSend(w, s) \/ TakeSendFailed(w, s)
      BY <2>1 DEF Completion
    <3> QED BY <3>1, TakeAcceptStep, TakeRecvStep, TakeSendStep DEF Same
  <2>2. CASE Work(w)
    BY <2>2, ReceiverStep, CompleteStep DEF Work, Same
  <2> QED BY <1>3, <2>1, <2>2
<1>4. CASE \E p \in Pushers : Push(p) \/ PushStep(p)
  BY <1>4, PusherStep DEF Same
<1> QED BY <1>1, <1>2, <1>3, <1>4 DEF Next

LEMMA Invariance == Spec => []Inv
<1>1. Inv /\ [Next]_vars => Inv'
  BY InvStep
<1> QED BY <1>1, InvInit, PTL DEF Spec

\* Every variable keeps its type; the counter of the send queue never leaves its width
\* (uint16_t sendQueueSize).
THEOREM ConnIOTypes == Spec => []TypeOK
<1>1. Inv => TypeOK
  BY DEF Inv
<1> QED BY <1>1, Invariance, PTL

\* Between any two steps of the threads in PushSendMsg and SendComplete the counter is
\* what waits, is under way, is being completed or was lost, modulo its width.
THEOREM CounterAccounts == Spec => []Accounted
<1>1. Inv => Accounted
  BY DEF Inv
<1> QED BY <1>1, Invariance, PTL

\* The object is accepted once for each time it is given back: only a failed send gives
\* it a second life, and only a receive that cannot be posted again takes its life.
THEOREM ObjectHasOneLife == Spec => OneLife
<1>1. Inv /\ [Next]_vars
        => [Lives' # Lives
              => \E w \in Workers :
                   \/ Lives' = Lives + 1 /\ \E s \in Socks : TakeSendFailed(w, s)
                   \/ Lives' = Lives - 1 /\ RecvFails(w)]_vars
  BY InvStep
<1> QED BY <1>1, Invariance, PTL DEF Spec, OneLife

=============================================================================
