------------------------------ MODULE Lifecycle ------------------------------
(***************************************************************************)
(* The start and the end of one lobby server: main, against the threads it *)
(* has started already or has not stopped yet.  A step of main starts,     *)
(* makes or stops one part.  What the threads do with a completion or a    *)
(* request is the subject of the other modules; here it matters what they  *)
(* use: the object, the manager, the table of handlers, the MySQL manager, *)
(* and whether they come back from its semaphore.                          *)
(*                                                                         *)
(* Time is counted in the heartbeat's intervals (5 s).                     *)
(***************************************************************************)
EXTENDS Integers, Sequences, FiniteSets

CONSTANTS
  Workers,         \* IOCP workers
  Threads,         \* Redis threads
  maxClientCount,
  Skipped,         \* the object that StartWork leaves out (11)
  Ttl,             \* TtlSec / IntervalSec
  dbConnectionCount,
  MaxConns,        \* bound: connections ever made
  MaxPackets,      \* bound: packets ever sent
  MaxErrors        \* bound: commands of the heartbeat and the subscriber that fail

ASSUME LifecycleAssumption ==
  /\ IsFiniteSet(Workers) /\ IsFiniteSet(Threads)
  /\ {maxClientCount, Ttl} \subseteq Nat \ {0}
  /\ {Skipped, dbConnectionCount, MaxConns, MaxPackets, MaxErrors} \subseteq Nat

VARIABLES
  main,          \* where main is
  fate,          \* "runs", or why the process ended before main did
  next,          \* the object that StartWork makes next
  ConnUsers,     \* objects in connUsersManager
  manager,       \* whether RedisManager::connUsersManager is set
  table,         \* whether packetIDTable is filled
  AcceptQueue,   \* objects that wait for an accepter
  listening,     \* objects with an accept posted
  receiving,     \* objects with a receive posted
  port,          \* completions not yet taken
  conns, packets,
  WorkRun,
  worker,        \* where each IOCP worker is, and the completion it handles
  procSktQueue,  \* number of packets in the queue
  thread,        \* where each Redis thread is
  permits,       \* MySQLManager::semaphore
  dbPool,        \* number of connections in the pool
  lost,          \* permits of queries that found no connection, of these so far
  heartbeat,     \* where this thread is, and
  subscriber,    \* where this one is
  left,          \* intervals for which lobby:{id}:status still exists
  errors

made == <<next, ConnUsers, manager, table>>

net == <<AcceptQueue, listening, receiving, port, conns, packets>>

iocp == <<WorkRun, worker>>

requests == <<procSktQueue, thread>>

db == <<permits, dbPool, lost>>

lobby == <<heartbeat, subscriber, left, errors>>

vars == <<main, fate, made, net, iocp, requests, db, lobby>>

Objs == 0 .. maxClientCount - 1

Order == <<"init", "workers", "accepters", "push", "insert", "table", "manager", "mysql",
           "heartbeat", "subscriber", "serving",
           "post", "join", "stopHeartbeat", "stopSubscriber", "wait", "statics",
           "joinRedis", "done">>

Stages == {Order[i] : i \in DOMAIN Order}

Position == [stage \in Stages |-> CHOOSE i \in DOMAIN Order : Order[i] = stage]

\* main has come to this stage or gone past it.
Past(stage) == Position[main] >= Position[stage]

None == [kind |-> "null", obj |-> 0]

Completion(kind, o) == [kind |-> kind, obj |-> o]

Runs == fate = "runs"

----------------------------------------------------------------------------
(* main: init and StartWork *)

Goes(from, to) == Runs /\ main = from /\ main' = to

\* main ignores the result of init.  Without a port the first worker ends the process:
\* it finds no completion and reads one all the same.
OpenPort ==
  /\ Goes("init", "workers")
  /\ fate' \in {"runs", "noPort"}
  /\ UNCHANGED <<made, net, iocp, requests, db, lobby>>

CreateWorkThread ==
  /\ Goes("workers", "accepters")
  /\ WorkRun' = TRUE
  /\ worker' = [w \in Workers |-> [at |-> "wait", item |-> None]]
  /\ UNCHANGED <<fate, made, net, requests, db, lobby>>

\* Accepters serve the queue from here on.
CreateAccepterThread ==
  /\ Goes("accepters", "push")
  /\ UNCHANGED <<fate, made, net, iocp, requests, db, lobby>>

\* Mutant: one turn of the loop too many.
PushObjectOneMore ==
  /\ next <= maxClientCount
  /\ AcceptQueue' = AcceptQueue \cup {next}
  /\ Goes("push", "insert")
  /\ UNCHANGED <<fate, made, listening, receiving, port, conns, packets, iocp, requests,
                 db, lobby>>

\* Mutant: the object that is left out is left out of the manager only.
PushObjectAll ==
  /\ next < maxClientCount
  /\ AcceptQueue' = AcceptQueue \cup {next}
  /\ IF next = Skipped THEN Goes("push", "push") /\ next' = next + 1
                       ELSE Goes("push", "insert") /\ UNCHANGED next
  /\ UNCHANGED <<fate, ConnUsers, manager, table, listening, receiving, port, conns,
                 packets, iocp, requests, db, lobby>>

\* The loop of StartWork: an object goes to the accepters first ...
PushObject ==
  /\ next < maxClientCount
  /\ IF next = Skipped
       THEN Goes("push", "push") /\ next' = next + 1 /\ UNCHANGED AcceptQueue
       ELSE Goes("push", "insert") /\ UNCHANGED next
                                   /\ AcceptQueue' = AcceptQueue \cup {next}
  /\ UNCHANGED <<fate, ConnUsers, manager, table, listening, receiving, port, conns,
                 packets, iocp, requests, db, lobby>>

\* ... and to the manager next.
InsertUser ==
  /\ Goes("insert", "push")
  /\ ConnUsers' = ConnUsers \cup {next}
  /\ next' = next + 1
  /\ UNCHANGED <<fate, manager, table, net, iocp, requests, db, lobby>>

\* RedisRun starts its threads when it is connected.  Otherwise it throws, and nobody
\* catches.
RedisRun ==
  /\ next = maxClientCount
  /\ Goes("push", "table")
  /\ \/ /\ thread' = [t \in Threads |-> "idle"] /\ UNCHANGED fate
     \/ /\ fate' = "noRedis" /\ UNCHANGED thread
  /\ UNCHANGED <<made, net, iocp, procSktQueue, db, lobby>>

\* Mutant: the manager is known before RedisRun has filled the table.
SetManagerFirst ==
  /\ \/ Goes("table", "manager") /\ manager' = TRUE /\ UNCHANGED table
     \/ Goes("manager", "mysql") /\ table' = TRUE /\ UNCHANGED manager
  /\ UNCHANGED <<fate, next, ConnUsers, net, iocp, requests, db, lobby>>

\* RedisRun goes on to fill the table of handlers.
SetHandlers ==
  /\ Goes("table", "manager")
  /\ table' = TRUE
  /\ UNCHANGED <<fate, next, ConnUsers, manager, net, iocp, requests, db, lobby>>

SetManager ==
  /\ Goes("manager", "mysql")
  /\ manager' = TRUE
  /\ UNCHANGED <<fate, next, ConnUsers, table, net, iocp, requests, db, lobby>>

\* When MySQLManager::init fails, with the connections it has made, StartWork is over,
\* and main serves all the same: without heartbeat and subscriber.
StartMySQL ==
  /\ \E n \in 0 .. dbConnectionCount :
       /\ dbPool' = dbPool + n
       /\ Goes("mysql", IF n = dbConnectionCount THEN "heartbeat" ELSE "serving")
  /\ UNCHANGED <<fate, made, net, iocp, requests, permits, lost, lobby>>

StartHeartbeat ==
  /\ Goes("heartbeat", "subscriber")
  /\ heartbeat' = "set"
  /\ UNCHANGED <<fate, made, net, iocp, requests, db, subscriber, left, errors>>

StartSubscriber ==
  /\ Goes("subscriber", "serving")
  /\ subscriber' = "consume"
  /\ UNCHANGED <<fate, made, net, iocp, requests, db, heartbeat, left, errors>>

----------------------------------------------------------------------------
(* main: ServerEnd, and the destructors of the singletons *)

\* Somebody types E.
Stop ==
  /\ Goes("serving", "post")
  /\ WorkRun' = FALSE
  /\ UNCHANGED <<fate, made, net, worker, requests, db, lobby>>

\* workThreads holds the workers and the one accepter.
Nulls == Cardinality(Workers) + 1

\* Mutant: one null completion for all workers.
WakeOne ==
  /\ Goes("post", "join")
  /\ port' = Append(port, None)
  /\ UNCHANGED <<fate, made, AcceptQueue, listening, receiving, conns, packets, iocp,
                 requests, db, lobby>>

\* PostQueuedCompletionStatus, once for each of workThreads.
WakeAll ==
  /\ Goes("post", "join")
  /\ port' = port \o [i \in 1 .. Nulls |-> None]
  /\ UNCHANGED <<fate, made, AcceptQueue, listening, receiving, conns, packets, iocp,
                 requests, db, lobby>>

\* Mutant: nobody waits for the workers.
JoinNobody ==
  /\ Goes("join", "stopHeartbeat")
  /\ UNCHANGED <<fate, made, net, iocp, requests, db, lobby>>

JoinWorkers ==
  /\ \A w \in Workers : worker[w].at = "ended"
  /\ Goes("join", "stopHeartbeat")
  /\ UNCHANGED <<fate, made, net, iocp, requests, db, lobby>>

\* LobbyHeartbeat::Stop and LobbyRedisSubscriber::Stop join their threads, if there are
\* any.  The rest of ServerEnd closes the port and waits 5 s.
StopLobby ==
  /\ \/ Goes("stopHeartbeat", "stopSubscriber") /\ heartbeat \in {"none", "ended"}
     \/ Goes("stopSubscriber", "wait") /\ subscriber \in {"none", "ended"}
  /\ UNCHANGED <<fate, made, net, iocp, requests, db, lobby>>

\* After main the singletons are destroyed, the last one made first: ~MySQLManager,
\* which closes what is in the pool, and then ~RedisManager, which joins the Redis
\* threads.
EndMain ==
  /\ \/ Goes("wait", "statics") /\ UNCHANGED dbPool
     \/ Goes("statics", "joinRedis") /\ dbPool' = 0
     \/ /\ Goes("joinRedis", "done") /\ UNCHANGED dbPool
        /\ \A t \in Threads : thread[t] \in {"none", "ended"}
  /\ UNCHANGED <<fate, made, net, iocp, requests, permits, lost, lobby>>

----------------------------------------------------------------------------
(* The accepter and clients *)

Listens == Runs /\ Past("push") /\ ~Past("post")

Accepter(o) ==
  /\ Listens
  /\ o \in AcceptQueue
  /\ AcceptQueue' = AcceptQueue \ {o}
  /\ listening' = listening \cup {o}
  /\ UNCHANGED <<main, fate, made, receiving, port, conns, packets, iocp, requests,
                 db, lobby>>

Client ==
  /\ Runs
  /\ UNCHANGED <<main, fate, made, AcceptQueue, iocp, requests, db, lobby>>

Connect(o) ==
  /\ Client
  /\ o \in listening /\ conns < MaxConns
  /\ conns' = conns + 1
  /\ listening' = listening \ {o}
  /\ port' = Append(port, Completion("accept", o))
  /\ UNCHANGED <<receiving, packets>>

Send(o) ==
  /\ Client
  /\ o \in receiving /\ packets < MaxPackets
  /\ packets' = packets + 1
  /\ receiving' = receiving \ {o}
  /\ port' = Append(port, Completion("recv", o))
  /\ UNCHANGED <<listening, conns>>

Disconnect(o) ==
  /\ Client
  /\ o \in receiving
  /\ receiving' = receiving \ {o}
  /\ port' = Append(port, Completion("gone", o))
  /\ UNCHANGED <<listening, conns, packets>>

----------------------------------------------------------------------------
(* A query of the MySQL manager.  (DbPool has its single steps.) *)

\* The permit of a query that finds no connection is lost.
Acquire ==
  /\ permits > 0 /\ permits' = permits - 1
  /\ IF dbPool > 0 THEN dbPool' = dbPool - 1 /\ UNCHANGED lost
                   ELSE lost' = lost + 1 /\ UNCHANGED dbPool

\* ~AutoConn
Release == permits' = permits + 1 /\ dbPool' = dbPool + 1 /\ UNCHANGED lost

----------------------------------------------------------------------------
(* IOCP workers *)

Worker(w, from) ==
  /\ Runs /\ worker[w].at = from
  /\ UNCHANGED <<main, made, listening, conns, packets, thread, lobby>>

WorkerAt(w, at, item) == worker' = [worker EXCEPT ![w] = [at |-> at, item |-> item]]

\* GetQueuedCompletionStatus returns.
TakeCompletion(w) ==
  LET x == Head(port)
  IN /\ Worker(w, "wait")
     /\ port # <<>> /\ port' = Tail(port)
     /\ IF x = None THEN WorkRun' = FALSE /\ WorkerAt(w, "ended", None)
                    ELSE WorkerAt(w, "handle", x) /\ UNCHANGED WorkRun
     /\ UNCHANGED <<fate, AcceptQueue, receiving, procSktQueue, db>>

\* What a completion uses: its object, and for what a client sent or for its end, the
\* manager that RedisManager keeps.
Ready(x) == x.obj \in ConnUsers /\ (x.kind = "accept" \/ manager)

\* The completion is handled; then while (WorkRun)
Handled(w) ==
  LET x == worker[w].item
  IN /\ WorkerAt(w, IF WorkRun THEN "wait" ELSE "ended", None)
     /\ receiving' = receiving \cup (IF x.kind = "gone" THEN {} ELSE {x.obj})
     /\ AcceptQueue' = AcceptQueue \cup (IF x.kind = "gone" THEN {x.obj} ELSE {})
     /\ UNCHANGED <<port, WorkRun>>

Handle(w) ==
  LET x == worker[w].item
  IN /\ Worker(w, "handle")
     /\ Handled(w)
     /\ fate' = IF Ready(x) THEN fate ELSE "unset"
     /\ procSktQueue' = procSktQueue + (IF x.kind = "recv" /\ Ready(x) THEN 1 ELSE 0)
     /\ UNCHANGED db

\* The logout of a user first asks MySQL for the friends.
Logout(w) ==
  LET x == worker[w].item
  IN /\ Worker(w, "handle")
     /\ x.kind = "gone" /\ Ready(x)
     /\ WorkerAt(w, "acquire", x)
     /\ UNCHANGED <<fate, AcceptQueue, receiving, port, WorkRun, procSktQueue, db>>

Query(w) ==
  /\ \/ Worker(w, "acquire") /\ Acquire
     \/ Worker(w, "query") /\ Release
  /\ IF worker[w].at = "acquire" /\ dbPool > 0
       THEN /\ WorkerAt(w, "query", worker[w].item)
            /\ UNCHANGED <<AcceptQueue, receiving, port, WorkRun>>
       ELSE Handled(w)
  /\ UNCHANGED <<fate, procSktQueue>>

----------------------------------------------------------------------------
(* Redis threads *)

Redis(t, from, to) ==
  /\ Runs /\ thread[t] = from
  /\ thread' = [thread EXCEPT ![t] = to]
  /\ UNCHANGED <<main, made, net, iocp, lobby>>

\* while (redisRun)
TakePacket(t) ==
  /\ ~Past("joinRedis")
  /\ Redis(t, "idle", "request")
  /\ procSktQueue > 0
  /\ procSktQueue' = procSktQueue - 1
  /\ fate' = IF table THEN fate ELSE "unset"
  /\ UNCHANGED db

\* A request is done with, or comes to its query.  (One query stands for all of them.)
Request(t) ==
  /\ Redis(t, "request", "idle") \/ Redis(t, "request", "acquire")
  /\ UNCHANGED <<fate, procSktQueue, db>>

\* After its destructor the use of the MySQL manager is undefined.
Late == fate' \in {"runs"} \cup (IF Past("joinRedis") THEN {"late"} ELSE {})

\* Mutant: the connection stays out of the pool, and its permit too.
RequestQueryKeeps(t) ==
  /\ \/ Acquire /\ Redis(t, "acquire", IF dbPool > 0 THEN "query" ELSE "idle")
     \/ UNCHANGED db /\ Redis(t, "query", "idle")
  /\ Late
  /\ UNCHANGED procSktQueue

RequestQuery(t) ==
  /\ \/ Acquire /\ Redis(t, "acquire", IF dbPool > 0 THEN "query" ELSE "idle")
     \/ Release /\ Redis(t, "query", "idle")
  /\ Late
  /\ UNCHANGED procSktQueue

EndRedis(t) ==
  /\ Past("joinRedis")
  /\ Redis(t, "idle", "ended")
  /\ UNCHANGED <<fate, procSktQueue, db>>

----------------------------------------------------------------------------
(* Heartbeat and subscriber *)

Lobby == Runs /\ UNCHANGED <<main, fate, made, net, iocp, requests, db>>

Fails == errors < MaxErrors /\ errors' = errors + 1

\* SET gives the key TtlSec, of which one interval passes.
Older == IF left = 0 THEN 0 ELSE left - 1

\* Mutant: a failing SET ends the loop, as in the subscriber.
SetKeyOnce ==
  /\ Lobby /\ heartbeat = "set"
  /\ \/ heartbeat' = "sleep" /\ left' = Ttl /\ UNCHANGED errors
     \/ heartbeat' = "del" /\ Fails /\ UNCHANGED left
  /\ UNCHANGED subscriber

\* SET with its time to live.  A failing one is passed over.
SetKey ==
  /\ Lobby /\ heartbeat = "set"
  /\ heartbeat' = "sleep"
  /\ \/ left' = Ttl /\ UNCHANGED errors
     \/ Fails /\ UNCHANGED left
  /\ UNCHANGED subscriber

\* 5 s pass; then while (running)
Sleep ==
  /\ Lobby /\ heartbeat = "sleep"
  /\ heartbeat' = IF Past("stopHeartbeat") THEN "del" ELSE "set"
  /\ left' = Older
  /\ UNCHANGED <<subscriber, errors>>

\* DEL
DelKey ==
  /\ Lobby /\ heartbeat = "del"
  /\ heartbeat' = "ended"
  /\ \/ left' = 0 /\ UNCHANGED errors
     \/ Fails /\ UNCHANGED left
  /\ UNCHANGED subscriber

\* Time also passes when nobody counts it: a call of the heartbeat takes long, or its
\* thread is no more.
Tick ==
  /\ ~(Runs /\ heartbeat = "sleep")
  /\ left' = Older
  /\ UNCHANGED <<main, fate, made, net, iocp, requests, db, heartbeat, subscriber, errors>>

\* consume returns with a message or a timeout, and then while (running_)
Consume ==
  /\ Lobby /\ subscriber = "consume"
  /\ Past("stopSubscriber")
  /\ subscriber' = "ended"
  /\ UNCHANGED <<heartbeat, left, errors>>

\* Any other error ends the loop, and nothing starts it again.
ConsumeFails ==
  /\ Lobby /\ subscriber = "consume"
  /\ Fails
  /\ subscriber' = "ended"
  /\ UNCHANGED <<heartbeat, left>>

----------------------------------------------------------------------------

Init ==
  /\ main = "init" /\ fate = "runs"
  /\ next = 0 /\ ConnUsers = {} /\ manager = FALSE /\ table = FALSE
  /\ AcceptQueue = {} /\ listening = {} /\ receiving = {} /\ port = <<>>
  /\ conns = 0 /\ packets = 0
  /\ WorkRun = FALSE /\ worker = [w \in Workers |-> [at |-> "none", item |-> None]]
  /\ procSktQueue = 0 /\ thread = [t \in Threads |-> "none"]
  /\ permits = dbConnectionCount /\ dbPool = 0 /\ lost = 0
  /\ heartbeat = "none" /\ subscriber = "none" /\ left = 0 /\ errors = 0

Start ==
  \/ OpenPort \/ CreateWorkThread \/ CreateAccepterThread \/ PushObject \/ InsertUser
  \/ RedisRun \/ SetHandlers \/ SetManager \/ StartMySQL
  \/ StartHeartbeat \/ StartSubscriber

End == WakeAll \/ JoinWorkers \/ StopLobby \/ EndMain

Work(w) == TakeCompletion(w) \/ Handle(w) \/ Logout(w) \/ Query(w)

RedisThread(t) == TakePacket(t) \/ Request(t) \/ RequestQuery(t) \/ EndRedis(t)

HeartbeatLoop == SetKey \/ Sleep \/ DelKey

Next ==
  \/ Start \/ Stop \/ End
  \/ \E o \in Objs : Accepter(o) \/ Connect(o) \/ Send(o) \/ Disconnect(o)
  \/ \E w \in Workers : Work(w)
  \/ \E t \in Threads : RedisThread(t)
  \/ HeartbeatLoop \/ Tick
  \/ Consume \/ ConsumeFails

Spec == Init /\ [][Next]_vars

\* Threads run, calls return, and time passes, except that a query waits for its permit,
\* for good if there will be none.  Nobody has to type E, to connect or to send.
FairSpec ==
  /\ Spec
  /\ WF_vars(Start) /\ WF_vars(End)
  /\ \A w \in Workers : WF_vars(Work(w))
  /\ \A t \in Threads : WF_vars(RedisThread(t))
  /\ WF_vars(HeartbeatLoop) /\ WF_vars(Tick) /\ WF_vars(Consume)

----------------------------------------------------------------------------
(* Properties *)

Fates == {"runs", "noPort", "noRedis", "unset", "late"}

Kinds == {"null", "accept", "recv", "gone"}

\* Every variable has its type.
TypeOK ==
  /\ main \in Stages /\ fate \in Fates
  /\ next \in 0 .. maxClientCount
  /\ {ConnUsers, AcceptQueue, listening, receiving} \subseteq SUBSET Objs
  /\ {manager, table, WorkRun} \subseteq BOOLEAN
  /\ port \in Seq([kind : Kinds, obj : Objs])
  /\ conns \in 0 .. MaxConns /\ packets \in 0 .. MaxPackets
  /\ worker \in [Workers -> [at : {"none", "wait", "handle", "acquire", "query",
                                    "ended"},
                             item : [kind : Kinds, obj : Objs]]]
  /\ procSktQueue \in 0 .. MaxPackets
  /\ thread \in [Threads -> {"none", "idle", "request", "acquire", "query", "ended"}]
  /\ permits \in Nat /\ dbPool \in Nat /\ lost \in Nat
  /\ heartbeat \in {"none", "set", "sleep", "del", "ended"}
  /\ subscriber \in {"none", "consume", "ended"}
  /\ left \in 0 .. Ttl /\ errors \in 0 .. MaxErrors

Requesting == {t \in Threads : thread[t] \in {"request", "acquire", "query"}}

\* The Redis threads run before the table of handlers is filled, but no packet gets to
\* them that early (RedisRun, StartWork).
NoPacketBeforeHandlers == procSktQueue > 0 \/ Requesting # {} => table

\* A client that is faster than StartWork makes a worker use an object or a manager
\* that is not there yet, which ends the process; a server past that point is not ended
\* by it any more, whatever its clients do and whatever else failed to start.
UnsetWhileStarting ==
  [][fate' = "unset" => main \in {"push", "insert", "table", "manager"}]_vars

\* A request that uses the MySQL manager too late was in hand, or in the queue, when the
\* workers ended: from the join of the workers on the work of the Redis threads only
\* shrinks (ServerEnd).
WorkOfRedis == procSktQueue + Cardinality(Requesting)

NoNewWorkAfterJoin == [][Past("stopHeartbeat") => WorkOfRedis' <= WorkOfRedis]_vars

\* Somebody waits for a permit when every one has been lost to a query that found no
\* connection: while init was still at work, after it had failed, or with the pool closed.
Starved ==
  /\ lost = dbConnectionCount
  /\ \/ \E w \in Workers : worker[w].at = "acquire"
     \/ \E t \in Threads : thread[t] = "acquire"

\* A server that is asked to stop does so, or ends because of what a late request uses,
\* or has a thread to join that waits for a permit when all of them are lost: no worker
\* sleeps on without its null completion, nobody waits for a permit that another one
\* keeps, however few are left, and no other thread is joined that does not end
\* (ServerEnd, ~RedisManager).
StopEnds == main = "post" ~> main = "done" \/ ~Runs \/ Starved

\* The list of lobby servers comes to tell who serves: a server that has ended, in
\* whatever way, is not assigned to users for ever, and one that goes on serving is
\* listed again after an outage of Redis, over any number of failing commands that
\* comes to an end (HeartbeatLoop).
Ended == main = "done" \/ ~Runs

ListedWhileServing ==
  /\ Ended ~> left = 0
  /\ main = "serving" /\ heartbeat # "none" ~> left > 0 \/ main # "serving" \/ ~Runs
=============================================================================
