------------------------------- MODULE DbPool -------------------------------
(***************************************************************************)
(* The pool of MySQL connections: a queue under a mutex, and a semaphore   *)
(* that counts the connections a caller may expect to find in it.  Every   *)
(* query function of MySQLManager takes a permit, takes a connection, and  *)
(* leaves both to the destructor of AutoConn.  The threads that handle     *)
(* requests are running before MySQLManager::init fills the queue.         *)
(***************************************************************************)
EXTENDS Integers, Sequences, FiniteSets

CONSTANTS
  Threads,     \* the Redis threads and IOCP workers that call MySQLManager
  Conns,       \* the connections init tries to open (dbConnectionCount)
  NoThread,
  NoConn,
  EarlyCalls,  \* whether a request may arrive before init has returned
  InitFails    \* whether mysql_real_connect may fail

ASSUME PoolAssumption ==
  /\ IsFiniteSet(Threads)
  /\ IsFiniteSet(Conns)
  /\ NoThread \notin Threads
  /\ NoConn \notin Conns
  /\ {EarlyCalls, InitFails} \subseteq BOOLEAN

VARIABLES
  phase,    \* of init: "starting", "ready", "failed"
  dbPool,   \* the queue of connections
  permits,  \* the semaphore
  mutex,    \* owner of dbPoolMutex between two steps
  pc,       \* where each thread is in a query function
  conn      \* ConnPtr of each thread

vars == <<phase, dbPool, permits, mutex, pc, conn>>

N == Cardinality(Conns)

InPool == {dbPool[i] : i \in 1 .. Len(dbPool)}

At(l) == {t \in Threads : pc[t] = l}

----------------------------------------------------------------------------

\* The loop of MySQLManager::init: one more connection.  init takes no lock, so
\* this may also happen inside a caller's critical section.  The push is taken to
\* be atomic: what two overlapping operations do to a std::queue is undefined and
\* not modelled (it takes EarlyCalls).
Open ==
  /\ phase = "starting"
  /\ \E c \in Conns \ (InPool \cup {conn[t] : t \in Threads}) :
       /\ dbPool' = Append(dbPool, c)
       /\ phase' = IF Conns \subseteq InPool \cup {c} \cup {conn[t] : t \in Threads}
                   THEN "ready" ELSE "starting"
  /\ UNCHANGED <<permits, mutex, pc, conn>>

\* init gives up; StartWork returns false and main goes on all the same.
OpenFails ==
  /\ InitFails
  /\ phase = "starting"
  /\ phase' = "failed"
  /\ UNCHANGED <<dbPool, permits, mutex, pc, conn>>

\* A request reaches a query function.
Call(t) ==
  /\ pc[t] = "idle"
  /\ EarlyCalls \/ phase # "starting"
  /\ pc' = [pc EXCEPT ![t] = "acquire"]
  /\ UNCHANGED <<phase, dbPool, permits, mutex, conn>>

\* semaphore.acquire() returns.
Acquire(t) ==
  /\ pc[t] = "acquire"
  /\ permits > 0
  /\ permits' = permits - 1
  /\ pc' = [pc EXCEPT ![t] = "get"]
  /\ UNCHANGED <<phase, dbPool, mutex, conn>>

\* Mutant: front() without pop().
GetConnectionPeeks(t) ==
  /\ pc[t] = "get"
  /\ mutex = NoThread
  /\ dbPool # <<>>
  /\ conn' = [conn EXCEPT ![t] = Head(dbPool)]
  /\ pc' = [pc EXCEPT ![t] = "use"]
  /\ UNCHANGED <<phase, dbPool, permits, mutex>>

\* GetConnection finds a connection.
GetConnection(t) ==
  /\ pc[t] = "get"
  /\ mutex = NoThread
  /\ dbPool # <<>>
  /\ conn' = [conn EXCEPT ![t] = Head(dbPool)]
  /\ dbPool' = Tail(dbPool)
  /\ pc' = [pc EXCEPT ![t] = "use"]
  /\ UNCHANGED <<phase, permits, mutex>>

\* GetConnection returns nullptr and the query function returns: there is no
\* AutoConn yet, and nothing gives the permit back.
GetNothing(t) ==
  /\ pc[t] = "get"
  /\ mutex = NoThread
  /\ dbPool = <<>>
  /\ pc' = [pc EXCEPT ![t] = "idle"]
  /\ UNCHANGED <<phase, dbPool, permits, mutex, conn>>

\* Mutant: the query function releases the semaphore and ~AutoConn does so again.
PushBackReleases(t) ==
  /\ pc[t] = "use"
  /\ mutex = NoThread
  /\ mutex' = t
  /\ dbPool' = Append(dbPool, conn[t])
  /\ conn' = [conn EXCEPT ![t] = NoConn]
  /\ permits' = permits + 1
  /\ pc' = [pc EXCEPT ![t] = "release"]
  /\ UNCHANGED phase

\* ~AutoConn: lock and push; the query function is done, on whichever path.
PushBack(t) ==
  /\ pc[t] = "use"
  /\ mutex = NoThread
  /\ mutex' = t
  /\ dbPool' = Append(dbPool, conn[t])
  /\ conn' = [conn EXCEPT ![t] = NoConn]
  /\ pc' = [pc EXCEPT ![t] = "release"]
  /\ UNCHANGED <<phase, permits>>

\* Mutant: ~AutoConn without the release.
ReleaseForgets(t) ==
  /\ pc[t] = "release"
  /\ mutex' = NoThread
  /\ pc' = [pc EXCEPT ![t] = "idle"]
  /\ UNCHANGED <<phase, dbPool, permits, conn>>

\* ~AutoConn: release the semaphore and then the lock.
Release(t) ==
  /\ pc[t] = "release"
  /\ permits' = permits + 1
  /\ mutex' = NoThread
  /\ pc' = [pc EXCEPT ![t] = "idle"]
  /\ UNCHANGED <<phase, dbPool, conn>>

----------------------------------------------------------------------------

Init ==
  /\ phase = IF Conns = {} THEN "ready" ELSE "starting"
  /\ dbPool = <<>>
  /\ permits = N
  /\ mutex = NoThread
  /\ pc = [t \in Threads |-> "idle"]
  /\ conn = [t \in Threads |-> NoConn]

Step(t) ==
  \/ Acquire(t)
  \/ GetConnection(t)
  \/ GetNothing(t)
  \/ PushBack(t)
  \/ Release(t)

Next ==
  \/ Open
  \/ OpenFails
  \/ \E t \in Threads : Call(t) \/ Step(t)

\* The system keeps running init, and every thread inside a query function.  A
\* thread waiting for a permit may be overtaken: std::counting_semaphore promises
\* no order.
Fairness ==
  /\ WF_vars(Open)
  /\ \A t \in Threads : WF_vars(Step(t))

Spec == Init /\ [][Next]_vars

FairSpec == Spec /\ Fairness

----------------------------------------------------------------------------
(* Properties *)

TypeOK ==
  /\ phase \in {"starting", "ready", "failed"}
  /\ dbPool \in Seq(Conns)
  /\ permits \in 0 .. N
  /\ mutex \in Threads \cup {NoThread}
  /\ pc \in [Threads -> {"idle", "acquire", "get", "use", "release"}]
  /\ conn \in [Threads -> Conns \cup {NoConn}]

\* No connection is used by two threads, or used while it is in the queue.
NoSharing ==
  /\ \A i, j \in 1 .. Len(dbPool) : dbPool[i] = dbPool[j] => i = j
  /\ \A t \in Threads : conn[t] # NoConn => conn[t] \notin InPool
  /\ \A t, r \in Threads : conn[t] # NoConn /\ conn[t] = conn[r] => t = r

\* When no request comes before init is done and init succeeds, the queue holds a
\* connection for every permit that is free or already taken by a thread on its
\* way to the queue.  So GetConnection never returns nullptr.
PoolBacksPermits ==
  phase = "ready" /\ ~EarlyCalls
    => Len(dbPool) = permits + Cardinality(At("get")) + Cardinality(At("release"))

\* The permits that are free or that a caller will give back.
Budget ==
  permits + Cardinality(At("get")) + Cardinality(At("use"))
          + Cardinality(At("release"))

\* A permit is lost in one way only: a query function that finds the queue empty
\* returns before there is an AutoConn (MySQLManager.cpp:54).  No other path,
\* whatever init does meanwhile, changes what all callers together may hold.
LostWhenEmpty ==
  [][Budget' # Budget => \E t \in Threads : GetNothing(t)]_vars

\* Requests keep being served: some waiting thread gets on, again and again.
SomebodyServed ==
  (\E t \in Threads : pc[t] = "acquire") ~> (\E t \in Threads : pc[t] = "use")
=============================================================================
