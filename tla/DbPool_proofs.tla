--------------------------- MODULE DbPool_proofs ---------------------------
(***************************************************************************)
(* Theorems about DbPool, for any number of threads and connections.       *)
(***************************************************************************)
EXTENDS DbPool, FiniteSetTheorems, TLAPS

Labels == {"idle", "acquire", "get", "use", "release"}

\* Threads inside the region between acquire and release.
Inside == Cardinality(At("get")) + Cardinality(At("use"))
            + Cardinality(At("release"))

\* The inductive invariant.  Bounded bounds the semaphore; Early says that before
\* init has returned, with no early requests, every thread is idle; Counted ties
\* the length of the queue to the set of connections in it.
Shape ==
  /\ phase \in {"starting", "ready", "failed"}
  /\ dbPool \in Seq(Conns)
  /\ permits \in Nat
  /\ mutex \in Threads \cup {NoThread}
  /\ pc \in [Threads -> Labels]
  /\ conn \in [Threads -> Conns \cup {NoConn}]
  /\ \A t \in Threads : conn[t] # NoConn <=> pc[t] = "use"

Bounded == permits + Inside <= N

Early == ~EarlyCalls /\ phase = "starting"
           => /\ \A t \in Threads : pc[t] = "idle"
              /\ permits = N

Counted == Len(dbPool) = Cardinality(InPool)

-----------------------------------------------------------------------------
(* Counting *)

LEMMA AtFinite == \A l : IsFiniteSet(At(l)) /\ Cardinality(At(l)) \in Nat
<1> TAKE l
<1>1. At(l) \subseteq Threads
  BY DEF At
<1>2. IsFiniteSet(At(l))
  BY <1>1, FS_Subset, PoolAssumption
<1> QED BY <1>2, FS_CardinalityType

\* A thread that goes from one label to another is counted at the new one.
LEMMA AtMove ==
  ASSUME pc \in [Threads -> Labels], NEW t \in Threads, NEW a \in Labels,
         NEW b \in Labels, a # b, pc[t] = a, pc' = [pc EXCEPT ![t] = b]
  PROVE  /\ Cardinality(At(a)') = Cardinality(At(a)) - 1
         /\ Cardinality(At(b)') = Cardinality(At(b)) + 1
         /\ \A l \in Labels \ {a, b} : At(l)' = At(l)
         /\ Cardinality(At(a)) >= 1
<1>1. At(a)' = At(a) \ {t} /\ t \in At(a)
  BY DEF At
<1>2. At(b)' = At(b) \cup {t} /\ t \notin At(b)
  BY DEF At
<1>3. \A l \in Labels \ {a, b} : At(l)' = At(l)
  BY DEF At
<1>4. Cardinality(At(a) \ {t}) = Cardinality(At(a)) - 1
  BY <1>1, AtFinite, FS_RemoveElement
<1>5. Cardinality(At(b) \cup {t}) = Cardinality(At(b)) + 1
  BY <1>2, AtFinite, FS_AddElement
<1>6. Cardinality(At(a)) \in Nat /\ Cardinality(At(a) \ {t}) \in Nat
  BY <1>1, AtFinite, FS_RemoveElement, FS_CardinalityType
<1>7. Cardinality(At(a)) >= 1
  BY <1>4, <1>6
<1> QED BY <1>1, <1>2, <1>3, <1>4, <1>5, <1>7

\* What push does to the set of queued connections.
LEMMA Pushed ==
  ASSUME NEW q \in Seq(Conns), NEW c \in Conns
  PROVE  {Append(q, c)[i] : i \in 1 .. Len(Append(q, c))}
           = {q[i] : i \in 1 .. Len(q)} \cup {c}
<1>1. /\ Len(Append(q, c)) = Len(q) + 1
      /\ Append(q, c)[Len(q) + 1] = c
      /\ \A i \in 1 .. Len(q) : Append(q, c)[i] = q[i]
      /\ Len(q) \in Nat
  OBVIOUS
<1>2. 1 .. Len(q) + 1 = (1 .. Len(q)) \cup {Len(q) + 1}
  BY <1>1
<1> QED BY <1>1, <1>2

\* What front and pop do to it, when no connection is queued twice.
LEMMA Popped ==
  ASSUME NEW q \in Seq(Conns), q # <<>>,
         \A i, j \in 1 .. Len(q) : q[i] = q[j] => i = j
  PROVE  /\ {Tail(q)[i] : i \in 1 .. Len(Tail(q))}
              = {q[i] : i \in 1 .. Len(q)} \ {Head(q)}
         /\ Head(q) \in {q[i] : i \in 1 .. Len(q)}
         /\ \A i, j \in 1 .. Len(Tail(q)) : Tail(q)[i] = Tail(q)[j] => i = j
<1>1. /\ Len(q) \in Nat \ {0}
      /\ Len(Tail(q)) = Len(q) - 1
      /\ Head(q) = q[1]
      /\ \A i \in 1 .. Len(q) - 1 : Tail(q)[i] = q[i + 1]
  OBVIOUS
<1>2. \A i \in 1 .. Len(q) - 1 : i + 1 \in 2 .. Len(q)
  BY <1>1
<1>3. \A i \in 2 .. Len(q) : i - 1 \in 1 .. Len(q) - 1 /\ q[i] = Tail(q)[i - 1]
  BY <1>1
<1>4. {Tail(q)[i] : i \in 1 .. Len(Tail(q))} = {q[i] : i \in 2 .. Len(q)}
  BY <1>1, <1>2, <1>3
<1>5. {q[i] : i \in 2 .. Len(q)} = {q[i] : i \in 1 .. Len(q)} \ {q[1]}
  BY <1>1
<1> QED BY <1>1, <1>2, <1>4, <1>5
-----------------------------------------------------------------------------
(* The inductive invariant *)

IInv == Shape /\ NoSharing /\ Bounded /\ Early /\ Counted /\ PoolBacksPermits

LEMMA InitIInv == Init => IInv
<1> SUFFICES ASSUME Init PROVE IInv
  OBVIOUS
<1>1. N \in Nat
  BY PoolAssumption, FS_CardinalityType DEF N
<1>2. /\ dbPool = <<>> /\ Len(dbPool) = 0
      /\ pc = [t \in Threads |-> "idle"] /\ conn = [t \in Threads |-> NoConn]
      /\ permits = N /\ mutex = NoThread
      /\ phase \in {"starting", "ready"}
      /\ phase = "ready" => Conns = {}
  BY DEF Init
<1>3. InPool = {}
  BY <1>2 DEF InPool
<1>4. At("get") = {} /\ At("use") = {} /\ At("release") = {}
  BY <1>2 DEF At
<1>5. Cardinality({}) = 0
  BY FS_EmptySet
<1>zero. /\ Cardinality(At("get")) = 0 /\ Cardinality(At("use")) = 0
      /\ Cardinality(At("release")) = 0
  BY <1>4, <1>5
<1>6. Shape
  BY <1>1, <1>2, PoolAssumption DEF Shape, Labels
<1>7. NoSharing
  <2>1. 1 .. Len(dbPool) = {}
    BY <1>2
  <2>2. \A t \in Threads : conn[t] = NoConn
    BY <1>2
  <2> QED BY <2>1, <2>2 DEF NoSharing
<1>8. Bounded
  BY <1>zero, <1>1, <1>2 DEF Bounded, Inside
<1>9. Early
  BY <1>2 DEF Early
<1>10. Counted
  BY <1>2, <1>3, <1>5 DEF Counted
<1>11. PoolBacksPermits
  <2>1. phase = "ready" => N = 0
    BY <1>2, <1>5 DEF N
  <2> QED BY <1>zero, <1>2, <2>1 DEF PoolBacksPermits
<1> QED BY <1>6, <1>7, <1>8, <1>9, <1>10, <1>11 DEF IInv

\* init opens one more connection.
LEMMA OpenKeeps == IInv /\ Open => IInv'
<1> SUFFICES ASSUME IInv, Open PROVE IInv'
  OBVIOUS
<1> USE DEF IInv
<1>1. PICK c \in Conns \ (InPool \cup {conn[t] : t \in Threads}) :
        /\ dbPool' = Append(dbPool, c)
        /\ phase' = IF Conns \subseteq InPool \cup {c} \cup {conn[t] : t \in Threads}
                    THEN "ready" ELSE "starting"
  BY DEF Open
<1>2. phase = "starting" /\ UNCHANGED <<permits, mutex, pc, conn>>
  BY DEF Open
<1>3. Shape'
  BY <1>1, <1>2 DEF Shape
<1>4. InPool' = InPool \cup {c}
  BY <1>1, Pushed DEF Shape, InPool
<1>5. NoSharing'
  <2>1. \A i, j \in 1 .. Len(dbPool') : dbPool'[i] = dbPool'[j] => i = j
    BY <1>1 DEF NoSharing, Shape, InPool
  <2> QED BY <1>1, <1>2, <1>4, <2>1 DEF NoSharing
<1>6. \A l : At(l)' = At(l)
  BY <1>2 DEF At
<1>7. Bounded'
  BY <1>2, <1>6 DEF Bounded, Inside, N
<1>8. Early'
  BY <1>2 DEF Early
<1>9. IsFiniteSet(InPool)
  <2>1. InPool \subseteq Conns
    BY DEF Shape, InPool
  <2> QED BY <2>1, FS_Subset, PoolAssumption
<1>10. Counted'
  <2>1. Cardinality(InPool \cup {c}) = Cardinality(InPool) + 1
    BY <1>1, <1>9, FS_AddElement
  <2>2. Len(dbPool') = Len(dbPool) + 1
    BY <1>1 DEF Shape
  <2> QED BY <1>4, <2>1, <2>2 DEF Counted
<1>11. PoolBacksPermits'
  <2> SUFFICES ASSUME phase' = "ready", ~EarlyCalls
               PROVE  Len(dbPool') = permits' + Cardinality(At("get")')
                                              + Cardinality(At("release")')
    BY DEF PoolBacksPermits
  <2>1. (\A t \in Threads : pc[t] = "idle") /\ permits = N
    BY <1>2 DEF Early
  <2>2. At("get") = {} /\ At("release") = {}
    BY <2>1 DEF At
  <2>3. \A t \in Threads : conn[t] = NoConn
    BY <2>1 DEF Shape
  <2>4. Conns \subseteq InPool \cup {c} \cup {conn[t] : t \in Threads}
    BY <1>1
  <2>5. InPool' = Conns
    <3>1. Conns \subseteq InPool \cup {c}
      BY <2>3, <2>4, PoolAssumption
    <3>2. InPool \subseteq Conns
      BY DEF Shape, InPool
    <3> QED BY <1>1, <1>4, <3>1, <3>2
  <2>6. Len(dbPool') = N
    BY <1>10, <2>5 DEF Counted, N
  <2>7. Cardinality({}) = 0 /\ N \in Nat
    BY FS_EmptySet, FS_CardinalityType, PoolAssumption DEF N
  <2>8. permits' = N
    BY <1>2, <2>1
  <2>9. Cardinality(At("get")') = 0 /\ Cardinality(At("release")') = 0
    BY <1>6, <2>2, <2>7
  <2> QED BY <2>6, <2>7, <2>8, <2>9
<1> QED BY <1>3, <1>5, <1>7, <1>8, <1>10, <1>11

\* What a step that touches neither the queue nor a ConnPtr leaves alone.
LEMMA QueueKeeps ==
  ASSUME NoSharing, Counted, UNCHANGED <<dbPool, conn>>
  PROVE  NoSharing' /\ Counted'
<1>1. InPool' = InPool
  BY DEF InPool
<1>2. NoSharing'
  BY <1>1 DEF NoSharing
<1>3. Counted'
  BY <1>1 DEF Counted
<1> QED BY <1>2, <1>3

\* A step of thread t inside a query function.
LEMMA ThreadKeeps ==
  ASSUME IInv, NEW t \in Threads, Call(t) \/ Step(t)
  PROVE  IInv'
<1> USE DEF IInv
<1>pc. pc \in [Threads -> Labels] /\ permits \in Nat /\ dbPool \in Seq(Conns)
  BY DEF Shape
<1>n. /\ N \in Nat
      /\ \A l : Cardinality(At(l)) \in Nat
  BY AtFinite, PoolAssumption, FS_CardinalityType DEF N
<1>1. CASE Call(t)
  <2>1. /\ pc[t] = "idle" /\ pc' = [pc EXCEPT ![t] = "acquire"]
        /\ EarlyCalls \/ phase # "starting"
        /\ UNCHANGED <<phase, dbPool, permits, mutex, conn>>
    BY <1>1 DEF Call
  <2>2. \A l \in {"get", "use", "release"} : At(l)' = At(l)
    BY <2>1, <1>pc, AtMove DEF At, Labels
  <2>3. Shape'
    BY <2>1 DEF Shape, Labels
  <2>4. NoSharing' /\ Counted'
    BY <2>1, QueueKeeps
  <2>5. Bounded' /\ Early' /\ PoolBacksPermits'
    BY <2>1, <2>2 DEF Bounded, Inside, N, Early, PoolBacksPermits
  <2> QED BY <2>3, <2>4, <2>5
<1>2. CASE Acquire(t)
  <2>1. /\ pc[t] = "acquire" /\ pc' = [pc EXCEPT ![t] = "get"]
        /\ permits > 0 /\ permits' = permits - 1
        /\ UNCHANGED <<phase, dbPool, mutex, conn>>
    BY <1>2 DEF Acquire
  <2>2. /\ Cardinality(At("get")') = Cardinality(At("get")) + 1
        /\ At("use")' = At("use") /\ At("release")' = At("release")
    BY <2>1, <1>pc, AtMove DEF At, Labels
  <2>3. Shape'
    BY <2>1 DEF Shape, Labels
  <2>4. NoSharing' /\ Counted'
    BY <2>1, QueueKeeps
  <2>5. Bounded' /\ PoolBacksPermits'
    BY <2>1, <2>2, <1>n, <1>pc DEF Bounded, Inside, N, PoolBacksPermits
  <2>6. Early'
    BY <2>1 DEF Early
  <2> QED BY <2>3, <2>4, <2>5, <2>6
<1>3. CASE GetConnection(t)
  <2>1. /\ pc[t] = "get" /\ pc' = [pc EXCEPT ![t] = "use"]
        /\ dbPool # <<>> /\ dbPool' = Tail(dbPool)
        /\ conn' = [conn EXCEPT ![t] = Head(dbPool)]
        /\ UNCHANGED <<phase, permits, mutex>>
    BY <1>3 DEF GetConnection
  <2>2. /\ Cardinality(At("get")') = Cardinality(At("get")) - 1
        /\ Cardinality(At("use")') = Cardinality(At("use")) + 1
        /\ At("release")' = At("release")
    BY <2>1, <1>pc, AtMove DEF At, Labels
  <2>3. /\ InPool' = InPool \ {Head(dbPool)}
        /\ Head(dbPool) \in InPool
        /\ \A i, j \in 1 .. Len(dbPool') : dbPool'[i] = dbPool'[j] => i = j
    <3>1. \A i, j \in 1 .. Len(dbPool) : dbPool[i] = dbPool[j] => i = j
      BY DEF NoSharing
    <3>2. /\ {Tail(dbPool)[i] : i \in 1 .. Len(Tail(dbPool))}
               = {dbPool[i] : i \in 1 .. Len(dbPool)} \ {Head(dbPool)}
          /\ Head(dbPool) \in {dbPool[i] : i \in 1 .. Len(dbPool)}
          /\ \A i, j \in 1 .. Len(Tail(dbPool)) :
               Tail(dbPool)[i] = Tail(dbPool)[j] => i = j
      BY <2>1, <3>1, <1>pc, Popped
    <3>3. dbPool' = Tail(dbPool)
      BY <2>1
    <3>4. InPool' = {Tail(dbPool)[i] : i \in 1 .. Len(Tail(dbPool))}
      BY <3>3 DEF InPool
    <3>5. InPool = {dbPool[i] : i \in 1 .. Len(dbPool)}
      BY DEF InPool
    <3>6. InPool' = InPool \ {Head(dbPool)} /\ Head(dbPool) \in InPool
      BY <3>2, <3>4, <3>5
    <3>7. \A i, j \in 1 .. Len(dbPool') : dbPool'[i] = dbPool'[j] => i = j
      BY <3>2, <3>3
    <3> QED BY <3>6, <3>7
  <2>4. Head(dbPool) \in Conns /\ Head(dbPool) # NoConn
    BY <2>1, <1>pc, PoolAssumption
  <2>5. Shape'
    BY <2>1, <2>4 DEF Shape, Labels
  <2>6. NoSharing'
    BY <2>1, <2>3, <2>4 DEF NoSharing, Shape
  <2>7. Len(dbPool') = Len(dbPool) - 1 /\ Len(dbPool) \in Nat
    BY <2>1, <1>pc
  <2>8. Counted'
    <3>1. InPool \subseteq Conns
      BY <1>pc DEF InPool
    <3>2. IsFiniteSet(InPool)
      BY <3>1, FS_Subset, PoolAssumption
    <3>3. Cardinality(InPool \ {Head(dbPool)}) = Cardinality(InPool) - 1
      BY <2>3, <3>2, FS_RemoveElement
    <3> QED BY <2>3, <2>7, <3>3 DEF Counted
  <2>9. Bounded' /\ PoolBacksPermits'
    BY <2>1, <2>2, <2>7, <1>n, <1>pc DEF Bounded, Inside, N, PoolBacksPermits
  <2>10. Early'
    BY <2>1 DEF Early
  <2> QED BY <2>5, <2>6, <2>8, <2>9, <2>10
<1>4. CASE GetNothing(t)
  <2>1. /\ pc[t] = "get" /\ pc' = [pc EXCEPT ![t] = "idle"]
        /\ dbPool = <<>>
        /\ UNCHANGED <<phase, dbPool, permits, mutex, conn>>
    BY <1>4 DEF GetNothing
  <2>2. /\ Cardinality(At("get")') = Cardinality(At("get")) - 1
        /\ Cardinality(At("get")) >= 1
        /\ At("use")' = At("use") /\ At("release")' = At("release")
    BY <2>1, <1>pc, AtMove DEF At, Labels
  <2>3. Shape'
    BY <2>1 DEF Shape, Labels
  <2>4. NoSharing' /\ Counted'
    BY <2>1, QueueKeeps
  <2>5. Bounded'
    BY <2>1, <2>2, <1>n, <1>pc DEF Bounded, Inside, N
  <2>6. Early' /\ PoolBacksPermits'
    <3>1. ~EarlyCalls /\ phase = "ready" => FALSE
      BY <2>1, <2>2, <1>n, <1>pc DEF PoolBacksPermits
    <3> QED BY <2>1, <3>1 DEF Early, PoolBacksPermits
  <2> QED BY <2>3, <2>4, <2>5, <2>6
<1>5. CASE PushBack(t)
  <2>1. /\ pc[t] = "use" /\ pc' = [pc EXCEPT ![t] = "release"]
        /\ dbPool' = Append(dbPool, conn[t])
        /\ conn' = [conn EXCEPT ![t] = NoConn]
        /\ mutex' = t
        /\ UNCHANGED <<phase, permits>>
    BY <1>5 DEF PushBack
  <2>2. /\ Cardinality(At("use")') = Cardinality(At("use")) - 1
        /\ Cardinality(At("release")') = Cardinality(At("release")) + 1
        /\ At("get")' = At("get")
    BY <2>1, <1>pc, AtMove DEF At, Labels
  <2>3. conn[t] \in Conns /\ conn[t] \notin InPool
    BY <2>1, PoolAssumption DEF Shape, NoSharing
  <2>4. InPool' = InPool \cup {conn[t]}
    BY <2>1, <2>3, <1>pc, Pushed DEF InPool
  <2>5. Shape'
    BY <2>1, <2>3 DEF Shape, Labels
  <2>6. NoSharing'
    <3>1. \A i, j \in 1 .. Len(dbPool') : dbPool'[i] = dbPool'[j] => i = j
      BY <2>1, <2>3, <1>pc DEF NoSharing, InPool
    <3>2. \A r \in Threads : conn'[r] # NoConn => conn'[r] \notin InPool'
      BY <2>1, <2>3, <2>4 DEF NoSharing, Shape
    <3>3. \A q, r \in Threads : conn'[q] # NoConn /\ conn'[q] = conn'[r] => q = r
      BY <2>1 DEF NoSharing, Shape
    <3> QED BY <3>1, <3>2, <3>3 DEF NoSharing
  <2>7. Len(dbPool') = Len(dbPool) + 1 /\ Len(dbPool) \in Nat
    BY <2>1, <2>3, <1>pc
  <2>8. Counted'
    <3>1. InPool \subseteq Conns
      BY <1>pc DEF InPool
    <3>2. IsFiniteSet(InPool)
      BY <3>1, FS_Subset, PoolAssumption
    <3>3. Cardinality(InPool \cup {conn[t]}) = Cardinality(InPool) + 1
      BY <2>3, <3>2, FS_AddElement
    <3> QED BY <2>4, <2>7, <3>3 DEF Counted
  <2>9. Bounded' /\ PoolBacksPermits'
    BY <2>1, <2>2, <2>7, <1>n, <1>pc DEF Bounded, Inside, N, PoolBacksPermits
  <2>10. Early'
    BY <2>1 DEF Early
  <2> QED BY <2>5, <2>6, <2>8, <2>9, <2>10
<1>6. CASE Release(t)
  <2>1. /\ pc[t] = "release" /\ pc' = [pc EXCEPT ![t] = "idle"]
        /\ permits' = permits + 1 /\ mutex' = NoThread
        /\ UNCHANGED <<phase, dbPool, conn>>
    BY <1>6 DEF Release
  <2>2. /\ Cardinality(At("release")') = Cardinality(At("release")) - 1
        /\ At("get")' = At("get") /\ At("use")' = At("use")
    BY <2>1, <1>pc, AtMove DEF At, Labels
  <2>3. Shape'
    BY <2>1 DEF Shape, Labels
  <2>4. NoSharing' /\ Counted'
    BY <2>1, QueueKeeps
  <2>5. Bounded' /\ PoolBacksPermits'
    BY <2>1, <2>2, <1>n, <1>pc DEF Bounded, Inside, N, PoolBacksPermits
  <2>6. Early'
    BY <2>1 DEF Early
  <2> QED BY <2>3, <2>4, <2>5, <2>6
<1> QED BY <1>1, <1>2, <1>3, <1>4, <1>5, <1>6 DEF Step

LEMMA NextIInv == IInv /\ [Next]_vars => IInv'
<1> SUFFICES ASSUME IInv, [Next]_vars PROVE IInv'
  OBVIOUS
<1>1. CASE Open
  BY <1>1, OpenKeeps
<1>2. ASSUME UNCHANGED <<dbPool, permits, mutex, pc, conn>>,
             phase' = phase \/ phase' = "failed"
      PROVE  IInv'
  <2> USE <1>2 DEF IInv
  <2>1. InPool' = InPool /\ \A l : At(l)' = At(l)
    BY DEF InPool, At
  <2>2. Shape'
    BY DEF Shape
  <2>3. NoSharing'
    BY <2>1 DEF NoSharing
  <2>4. Bounded'
    BY <2>1 DEF Bounded, Inside, N
  <2>5. Early'
    BY DEF Early
  <2>6. Counted'
    BY <2>1 DEF Counted
  <2>7. PoolBacksPermits'
    BY <2>1 DEF PoolBacksPermits
  <2> QED BY <2>2, <2>3, <2>4, <2>5, <2>6, <2>7
<1>3. CASE OpenFails
  BY <1>2, <1>3 DEF OpenFails
<1>4. CASE \E t \in Threads : Call(t) \/ Step(t)
  BY <1>4, ThreadKeeps
<1>5. CASE UNCHANGED vars
  BY <1>2, <1>5 DEF vars
<1> QED BY <1>1, <1>3, <1>4, <1>5 DEF Next

LEMMA IInvConsequences == IInv => TypeOK /\ NoSharing /\ PoolBacksPermits
<1> SUFFICES ASSUME IInv PROVE TypeOK /\ NoSharing /\ PoolBacksPermits
  OBVIOUS
<1>1. N \in Nat /\ \A l : Cardinality(At(l)) \in Nat
  BY AtFinite, PoolAssumption, FS_CardinalityType DEF N
<1>2. permits \in 0 .. N
  BY <1>1 DEF IInv, Shape, Bounded, Inside
<1> QED BY <1>2 DEF IInv, Shape, Labels, TypeOK

LEMMA Invariance == Spec => []IInv
<1> QED BY InitIInv, NextIInv, PTL DEF Spec

\* The semaphore stays within its maximum and every variable has its type, for any
\* number of threads and connections and however init ends.
THEOREM PoolTypeCorrect == Spec => []TypeOK
<1> QED BY Invariance, IInvConsequences, PTL

\* No connection is ever held by two threads, nor held and queued, however many
\* threads call, provided each push and pop is atomic (which the lock gives, except
\* to the pushes of init).
THEOREM ConnectionsNotShared == Spec => []NoSharing
<1> QED BY Invariance, IInvConsequences, PTL

\* If no request precedes init and init succeeds, the queue always has a connection
\* for every permit that is out: a caller that got a permit gets a connection.
THEOREM PermitMeansConnection == Spec => []PoolBacksPermits
<1> QED BY Invariance, IInvConsequences, PTL
\* A step of a thread that does not find the queue empty keeps the budget: what it
\* takes from the semaphore it holds, and what it no longer holds it gives back.
LEMMA StepKeepsBudget ==
  ASSUME IInv, NEW t \in Threads, Call(t) \/ Step(t), ~GetNothing(t)
  PROVE  Budget' = Budget
<1>pc. pc \in [Threads -> Labels] /\ permits \in Nat
  BY DEF IInv, Shape
<1>n. \A l : Cardinality(At(l)) \in Nat /\ Cardinality(At(l)') \in Nat
  <2>1. \A l : At(l)' \subseteq Threads
    BY DEF At
  <2>2. \A l : Cardinality(At(l)') \in Nat
    BY <2>1, FS_Subset, FS_CardinalityType, PoolAssumption
  <2> QED BY <2>2, AtFinite
<1>1. CASE Call(t)
  <2>1. \A l \in {"get", "use", "release"} : At(l)' = At(l)
    BY <1>1, <1>pc, AtMove DEF Call, At, Labels
  <2> QED BY <1>1, <2>1 DEF Call, Budget
<1>2. CASE Acquire(t)
  <2>1. /\ Cardinality(At("get")') = Cardinality(At("get")) + 1
        /\ At("use")' = At("use") /\ At("release")' = At("release")
    BY <1>2, <1>pc, AtMove DEF Acquire, At, Labels
  <2> QED BY <1>2, <2>1, <1>n, <1>pc DEF Acquire, Budget
<1>3. CASE GetConnection(t)
  <2>1. /\ Cardinality(At("get")') = Cardinality(At("get")) - 1
        /\ Cardinality(At("use")') = Cardinality(At("use")) + 1
        /\ At("release")' = At("release")
    BY <1>3, <1>pc, AtMove DEF GetConnection, At, Labels
  <2> QED BY <1>3, <2>1, <1>n, <1>pc DEF GetConnection, Budget
<1>4. CASE PushBack(t)
  <2>1. /\ Cardinality(At("use")') = Cardinality(At("use")) - 1
        /\ Cardinality(At("release")') = Cardinality(At("release")) + 1
        /\ At("get")' = At("get")
    BY <1>4, <1>pc, AtMove DEF PushBack, At, Labels
  <2> QED BY <1>4, <2>1, <1>n, <1>pc DEF PushBack, Budget
<1>5. CASE Release(t)
  <2>1. /\ Cardinality(At("release")') = Cardinality(At("release")) - 1
        /\ At("get")' = At("get") /\ At("use")' = At("use")
    BY <1>5, <1>pc, AtMove DEF Release, At, Labels
  <2> QED BY <1>5, <2>1, <1>n, <1>pc DEF Release, Budget
<1> QED BY <1>1, <1>2, <1>3, <1>4, <1>5 DEF Step

LEMMA NextLosesNothingElse ==
  ASSUME IInv, [Next]_vars, Budget' # Budget
  PROVE  \E t \in Threads : GetNothing(t)
<1>1. ASSUME UNCHANGED <<permits, pc>> PROVE FALSE
  <2>1. \A l : At(l)' = At(l)
    BY <1>1 DEF At
  <2> QED BY <1>1, <2>1 DEF Budget
<1>2. ASSUME NEW t \in Threads, Call(t) \/ Step(t) PROVE GetNothing(t)
  BY <1>2, StepKeepsBudget
<1> QED BY <1>1, <1>2 DEF Next, Open, OpenFails, vars

\* Whatever init does and in whatever order callers come, a permit is lost only by a
\* query function that found the queue empty (MySQLManager.cpp:54).
THEOREM PermitLostWhenEmpty == Spec => LostWhenEmpty
<1>1. IInv /\ [Next]_vars => [Budget' # Budget => \E t \in Threads : GetNothing(t)]_vars
  BY NextLosesNothingElse
<1> QED BY <1>1, Invariance, PTL DEF Spec, LostWhenEmpty
=============================================================================
