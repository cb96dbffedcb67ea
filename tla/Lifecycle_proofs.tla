--------------------------- MODULE Lifecycle_proofs ---------------------------
(***************************************************************************)
(* Proofs about Lifecycle: what holds of a server that starts and stops,   *)
(* with any number of threads, objects, connections and packets.           *)
(***************************************************************************)
EXTENDS Lifecycle, FiniteSetTheorems, TLAPS

----------------------------------------------------------------------------
(* The inductive invariant *)

Places == {"none", "wait", "handle", "acquire", "query", "ended"}

\* Workers with a completion in hand.
Handling == {w \in Workers : worker[w].at \in {"handle", "acquire", "query"}}

\* The objects that have gone to the accepters.
Known == ConnUsers \cup (IF main = "insert" THEN {next} ELSE {})

Real(x) == x.kind \in {"accept", "recv", "gone"} /\ x.obj \in Known

\* How far main has come, and what there is by then.
Staged ==
  /\ ~Past("push") => next = 0
  /\ main = "insert" => next < maxClientCount /\ next # Skipped
  /\ Past("table") => next = maxClientCount
  /\ ConnUsers = {o \in Objs : o < next /\ o # Skipped}
  /\ table <=> Past("manager")
  /\ manager <=> Past("mysql")
  /\ fate = "unset" => main \in {"push", "insert", "table", "manager"}
  /\ Past("stopHeartbeat") => \A w \in Workers : worker[w].at = "ended"

\* A connection, a receive or a completion is about an object that the accepters have.
Backed ==
  /\ AcceptQueue \cup listening \cup receiving \subseteq Known
  /\ \A i \in DOMAIN port : port[i] = None \/ Real(port[i])
  /\ \A w \in Handling : Real(worker[w].item)

\* The completions of receives that are not handled yet.
InPort(s) == {i \in DOMAIN s : s[i].kind = "recv"}

InHand == {w \in Handling : worker[w].item.kind = "recv"}

\* Each packet is in one place at most.
Counted == procSktQueue + Cardinality(InPort(port)) + Cardinality(InHand) <= packets

Inv == TypeOK /\ Staged /\ Backed /\ Counted /\ NoPacketBeforeHandlers

----------------------------------------------------------------------------
(* The stages of main, by number *)

LEMMA StageNames ==
  Stages = {"init", "workers", "accepters", "push", "insert", "table", "manager", "mysql",
            "heartbeat", "subscriber", "serving", "post", "join", "stopHeartbeat",
            "stopSubscriber", "wait", "statics", "joinRedis", "done"}
BY DEF Order, Stages

LEMMA Positions ==
  /\ Position["init"] = 1 /\ Position["workers"] = 2 /\ Position["accepters"] = 3
  /\ Position["push"] = 4 /\ Position["insert"] = 5 /\ Position["table"] = 6
  /\ Position["manager"] = 7 /\ Position["mysql"] = 8 /\ Position["heartbeat"] = 9
  /\ Position["subscriber"] = 10 /\ Position["serving"] = 11 /\ Position["post"] = 12
  /\ Position["join"] = 13 /\ Position["stopHeartbeat"] = 14
  /\ Position["stopSubscriber"] = 15 /\ Position["wait"] = 16 /\ Position["statics"] = 17
  /\ Position["joinRedis"] = 18 /\ Position["done"] = 19
<1>1. \A i, j \in DOMAIN Order : Order[i] = Order[j] => i = j
  BY DEF Order
<1>2. \A i \in DOMAIN Order : Position[Order[i]] = i
  <2> SUFFICES ASSUME NEW i \in DOMAIN Order PROVE Position[Order[i]] = i
    OBVIOUS
  <2>1. Order[i] \in Stages
    BY DEF Stages
  <2>2. Position[Order[i]] = CHOOSE j \in DOMAIN Order : Order[j] = Order[i]
    BY <2>1 DEF Position
  <2>3. \A j \in DOMAIN Order : Order[j] = Order[i] => j = i
    BY <1>1
  <2> QED BY <2>2, <2>3
<1> QED BY <1>2 DEF Order

----------------------------------------------------------------------------
(* Receives in a sequence of completions *)

Items == [kind : Kinds, obj : Objs]

LEMMA NoneItem == None \in Items /\ None.kind = "null"
  BY LifecycleAssumption DEF None, Items, Kinds, Objs

LEMMA InPortFinite ==
  ASSUME NEW s \in Seq(Items)
  PROVE  IsFiniteSet(InPort(s)) /\ Cardinality(InPort(s)) \in Nat
<1>1. InPort(s) \subseteq 1 .. Len(s) /\ Len(s) \in Int
  BY DEF InPort
<1>2. IsFiniteSet(1 .. Len(s))
  BY <1>1, FS_Interval
<1> QED BY <1>1, <1>2, FS_Subset, FS_CardinalityType

\* A completion at the end of the queue.
LEMMA AppendCount ==
  ASSUME NEW s \in Seq(Items), NEW x \in Items
  PROVE  /\ Append(s, x) \in Seq(Items)
         /\ DOMAIN Append(s, x) = DOMAIN s \cup {Len(s) + 1}
         /\ \A i \in DOMAIN s : Append(s, x)[i] = s[i]
         /\ Append(s, x)[Len(s) + 1] = x
         /\ Cardinality(InPort(Append(s, x)))
              = Cardinality(InPort(s)) + (IF x.kind = "recv" THEN 1 ELSE 0)
<1>1. /\ Append(s, x) \in Seq(Items) /\ DOMAIN Append(s, x) = DOMAIN s \cup {Len(s) + 1}
      /\ \A i \in DOMAIN s : Append(s, x)[i] = s[i]
      /\ Append(s, x)[Len(s) + 1] = x
      /\ Len(s) + 1 \notin DOMAIN s
  OBVIOUS
<1>2. CASE x.kind = "recv"
  <2>1. InPort(Append(s, x)) = InPort(s) \cup {Len(s) + 1} /\ Len(s) + 1 \notin InPort(s)
    BY <1>1, <1>2 DEF InPort
  <2> QED BY <1>1, <1>2, <2>1, InPortFinite, FS_AddElement
<1>3. CASE x.kind # "recv"
  <2>1. InPort(Append(s, x)) = InPort(s)
    BY <1>1, <1>3 DEF InPort
  <2> QED BY <1>1, <1>3, <2>1, InPortFinite
<1> QED BY <1>2, <1>3

\* A completion is taken from its front.
LEMMA TailCount ==
  ASSUME NEW s \in Seq(Items), s # <<>>
  PROVE  /\ Tail(s) \in Seq(Items) /\ Head(s) \in Items /\ 1 \in DOMAIN s /\ Head(s) = s[1]
         /\ \A i \in DOMAIN Tail(s) : i + 1 \in DOMAIN s /\ Tail(s)[i] = s[i + 1]
         /\ Cardinality(InPort(Tail(s)))
              = Cardinality(InPort(s)) - (IF Head(s).kind = "recv" THEN 1 ELSE 0)
<1>1. /\ Tail(s) \in Seq(Items) /\ Head(s) \in Items /\ Head(s) = s[1]
      /\ Len(s) \in Nat \ {0} /\ DOMAIN s = 1 .. Len(s)
      /\ DOMAIN Tail(s) = 1 .. Len(s) - 1
      /\ \A i \in DOMAIN Tail(s) : i + 1 \in DOMAIN s /\ Tail(s)[i] = s[i + 1]
  OBVIOUS
<1> DEFINE T == InPort(Tail(s))
           S == InPort(s) \ {1}
           f == [i \in T |-> i + 1]
<1>2. f \in Bijection(T, S)
  <2>1. f \in [T -> S]
    BY <1>1 DEF InPort
  <2>2. \A i, j \in T : f[i] = f[j] => i = j
    BY <1>1 DEF InPort
  <2>3. \A j \in S : \E i \in T : f[i] = j
    <3> SUFFICES ASSUME NEW j \in S PROVE \E i \in T : f[i] = j
      OBVIOUS
    <3>1. j - 1 \in T /\ (j - 1) + 1 = j
      BY <1>1 DEF InPort
    <3> QED BY <3>1
  <2> QED BY <2>1, <2>2, <2>3 DEF Bijection, Injection, Surjection, IsInjective
<1>3. ExistsBijection(T, S)
  BY <1>2 DEF ExistsBijection
<1>4. Cardinality(S) = Cardinality(T)
  BY <1>1, <1>3, InPortFinite, FS_Bijection
<1>5. CASE Head(s).kind = "recv"
  <2>1. 1 \in InPort(s)
    BY <1>1, <1>5 DEF InPort
  <2>2. Cardinality(S) = Cardinality(InPort(s)) - 1
    BY <2>1, InPortFinite, FS_RemoveElement
  <2> QED BY <1>1, <1>4, <1>5, <2>2
<1>6. CASE Head(s).kind # "recv"
  <2>1. S = InPort(s)
    BY <1>1, <1>6 DEF InPort
  <2>2. Cardinality(S) = Cardinality(InPort(s)) /\ Cardinality(InPort(s)) \in Nat
    BY <2>1, InPortFinite
  <2> QED BY <1>1, <1>4, <1>6, <2>2
<1> QED BY <1>5, <1>6

\* Null completions are about no receive.
LEMMA NullsCount ==
  ASSUME NEW s \in Seq(Items), NEW n \in Nat
  PROVE  LET t == s \o [i \in 1 .. n |-> None]
         IN /\ t \in Seq(Items)
            /\ \A i \in DOMAIN t : t[i] = None \/ (i \in DOMAIN s /\ t[i] = s[i])
            /\ InPort(t) = InPort(s)
<1> DEFINE m == [i \in 1 .. n |-> None]
           t == s \o m
<1>1. m \in Seq(Items) /\ Len(m) = n /\ \A i \in 1 .. n : m[i] = None
  BY NoneItem
<1>h. HIDE DEF m
<1>2. /\ t \in Seq(Items) /\ Len(t) = Len(s) + n /\ Len(s) \in Nat
      /\ DOMAIN t = 1 .. Len(s) + n
  BY <1>1
<1>3. DOMAIN s = 1 .. Len(s)
  OBVIOUS
<1>4. \A i \in DOMAIN s : i \in DOMAIN t /\ t[i] = s[i]
  BY <1>1, <1>2, <1>3
<1>5. \A i \in DOMAIN t \ DOMAIN s : t[i] = None
  <2> SUFFICES ASSUME NEW i \in DOMAIN t \ DOMAIN s PROVE t[i] = None
    OBVIOUS
  <2>1. i - Len(s) \in 1 .. n /\ t[i] = m[i - Len(s)]
    BY <1>1, <1>2, <1>3
  <2> QED BY <1>1, <2>1
<1>6. InPort(t) = InPort(s)
  BY <1>4, <1>5, NoneItem DEF InPort
<1> QED BY <1>2, <1>4, <1>5, <1>6 DEF m

----------------------------------------------------------------------------
(* Frames *)

LEMMA Types ==
  ASSUME TypeOK
  PROVE  /\ main \in Stages /\ next \in Nat /\ next <= maxClientCount
         /\ ConnUsers \subseteq Objs /\ AcceptQueue \subseteq Objs
         /\ listening \subseteq Objs /\ receiving \subseteq Objs
         /\ port \in Seq(Items)
         /\ worker \in [Workers -> [at : Places, item : Items]]
         /\ packets \in Nat /\ procSktQueue \in Nat /\ maxClientCount \in Nat \ {0}
         /\ MaxPackets \in Nat /\ MaxConns \in Nat /\ MaxErrors \in Nat /\ Ttl \in Nat
BY LifecycleAssumption DEF TypeOK, Items, Places

LEMMA HandFinite ==
  /\ IsFiniteSet(InHand) /\ Cardinality(InHand) \in Nat
  /\ \A x \in Workers : /\ IsFiniteSet(InHand \ {x})
                        /\ Cardinality(InHand \ {x}) \in Nat
<1>1. InHand \subseteq Workers /\ IsFiniteSet(Workers)
  BY LifecycleAssumption DEF InHand, Handling
<1> QED BY <1>1, FS_Subset, FS_CardinalityType

\* What is not about completions leaves them as they are.
LEMMA BackedKept ==
  ASSUME Backed, Known \subseteq Known',
         UNCHANGED <<AcceptQueue, listening, receiving, port, worker>>
  PROVE  Backed'
BY DEF Backed, Handling, Real

LEMMA CountedKept ==
  ASSUME Counted, UNCHANGED <<procSktQueue, packets, port, worker>>
  PROVE  Counted'
BY DEF Counted, InHand, Handling

\* A step that is not one of main's.
LEMMA MainKept ==
  ASSUME Staged, UNCHANGED <<main, made>>,
         fate' = "unset" => main \in {"push", "insert", "table", "manager"},
         \A w \in Workers : worker[w].at = "ended" => worker'[w].at = "ended"
  PROVE  Staged' /\ Known' = Known
BY DEF Staged, Past, made, Known

----------------------------------------------------------------------------
(* Steps of main *)

LEMMA StartStep == ASSUME Inv, Start PROVE Inv'
<1> USE Positions DEF Goes, Past, made, net, iocp, requests, db, lobby
<1>1. /\ TypeOK /\ Staged /\ Backed /\ Counted /\ NoPacketBeforeHandlers
  BY DEF Inv
<1>2. /\ next \in Nat /\ maxClientCount \in Nat \ {0} /\ fate = "runs"
      /\ ConnUsers \subseteq Objs /\ main \in Stages
  BY <1>1, Types DEF Start, OpenPort, CreateWorkThread, CreateAccepterThread, PushObject,
       InsertUser, RedisRun, SetHandlers, SetManager, StartMySQL, StartHeartbeat,
       StartSubscriber, Runs
<1>3. CASE OpenPort
  <2>1. /\ main = "init" /\ main' = "workers" /\ fate' \in {"runs", "noPort"}
        /\ UNCHANGED <<made, net, iocp, requests, db, lobby>>
    BY <1>3 DEF OpenPort
  <2>2. TypeOK'
    BY <1>1, <2>1, StageNames DEF TypeOK, Fates
  <2>3. Staged' /\ Known' = Known
    BY <1>1, <2>1 DEF Staged, Known
  <2>4. NoPacketBeforeHandlers'
    BY <1>1, <2>1 DEF NoPacketBeforeHandlers, Requesting
  <2> QED BY <1>1, <2>1, <2>2, <2>3, <2>4, BackedKept, CountedKept DEF Inv
<1>4. CASE CreateWorkThread
  <2>1. /\ main = "workers" /\ main' = "accepters" /\ WorkRun' = TRUE
        /\ worker' = [w \in Workers |-> [at |-> "wait", item |-> None]]
        /\ UNCHANGED <<fate, made, net, requests, db, lobby>>
    BY <1>4 DEF CreateWorkThread
  <2>2. \A w \in Workers : worker'[w] = [at |-> "wait", item |-> None]
    BY <2>1
  <2>3. TypeOK'
    BY <1>1, <2>1, StageNames, NoneItem DEF TypeOK, Items, Places
  <2>4. Staged' /\ Known' = Known
    BY <1>1, <1>2, <2>1 DEF Staged, Known
  <2>5. Handling' = {} /\ InHand' = {} /\ InHand' \subseteq InHand
    BY <2>2 DEF Handling, InHand
  <2>6. Backed'
    BY <1>1, <2>1, <2>4, <2>5 DEF Backed, Real
  <2>7. Cardinality(InHand') = 0
    BY <2>5, FS_EmptySet
  <2>8. Counted'
    BY <1>1, <2>1, <2>7, HandFinite, InPortFinite, Types DEF Counted
  <2>9. NoPacketBeforeHandlers'
    BY <1>1, <2>1 DEF NoPacketBeforeHandlers, Requesting
  <2> QED BY <2>3, <2>4, <2>6, <2>8, <2>9 DEF Inv
<1>5. CASE CreateAccepterThread
  <2>1. /\ main = "accepters" /\ main' = "push"
        /\ UNCHANGED <<fate, made, net, iocp, requests, db, lobby>>
    BY <1>5 DEF CreateAccepterThread
  <2>2. TypeOK'
    BY <1>1, <2>1, StageNames DEF TypeOK, Fates
  <2>3. Staged' /\ Known' = Known
    BY <1>1, <1>2, <2>1 DEF Staged, Known
  <2>4. NoPacketBeforeHandlers'
    BY <1>1, <2>1 DEF NoPacketBeforeHandlers, Requesting
  <2> QED BY <1>1, <2>1, <2>2, <2>3, <2>4, BackedKept, CountedKept DEF Inv
<1>6. CASE PushObject
  <2>0. /\ main = "push" /\ next < maxClientCount /\ next \in Objs
        /\ UNCHANGED <<fate, ConnUsers, manager, table, listening, receiving, port, conns,
                       packets, iocp, requests, db, lobby>>
    BY <1>2, <1>6 DEF PushObject, Objs
  <2>1. CASE next = Skipped
    <3>1. main' = "push" /\ next' = next + 1 /\ AcceptQueue' = AcceptQueue
      BY <1>6, <2>1 DEF PushObject
    <3>2. TypeOK'
      <4>1. next' \in 0 .. maxClientCount
        BY <1>2, <2>0, <3>1
      <4> QED BY <1>1, <2>0, <3>1, <4>1, StageNames DEF TypeOK
    <3>3. \A o \in Objs : o \in Nat /\ (o < next /\ o # Skipped <=> o < next' /\ o # Skipped)
      BY <1>2, <2>1, <3>1 DEF Objs
    <3>4. Staged' /\ Known' = Known
      <4>1. ConnUsers' = {o \in Objs : o < next' /\ o # Skipped}
        BY <1>1, <2>0, <3>3 DEF Staged
      <4> QED BY <1>1, <1>2, <2>0, <3>1, <4>1 DEF Staged, Known
    <3>5. NoPacketBeforeHandlers'
      BY <1>1, <2>0 DEF NoPacketBeforeHandlers, Requesting
    <3> QED BY <1>1, <2>0, <3>1, <3>2, <3>4, <3>5, BackedKept, CountedKept DEF Inv
  <2>2. CASE next # Skipped
    <3>1. main' = "insert" /\ next' = next /\ AcceptQueue' = AcceptQueue \cup {next}
      BY <1>6, <2>2 DEF PushObject
    <3>2. TypeOK'
      <4>1. AcceptQueue' \in SUBSET Objs
        BY <1>1, <2>0, <3>1, Types
      <4> QED BY <1>1, <2>0, <3>1, <4>1, StageNames DEF TypeOK
    <3>3. Staged' /\ Known' = Known \cup {next}
      BY <1>1, <1>2, <2>0, <2>2, <3>1 DEF Staged, Known
    <3>4. Backed'
      BY <1>1, <2>0, <3>1, <3>3 DEF Backed, Real, Handling
    <3>5. NoPacketBeforeHandlers'
      BY <1>1, <2>0 DEF NoPacketBeforeHandlers, Requesting
    <3> QED BY <1>1, <2>0, <3>2, <3>3, <3>4, <3>5, CountedKept DEF Inv
  <2> QED BY <2>1, <2>2
<1>7. CASE InsertUser
  <2>1. /\ main = "insert" /\ main' = "push" /\ ConnUsers' = ConnUsers \cup {next}
        /\ next' = next + 1
        /\ UNCHANGED <<fate, manager, table, net, iocp, requests, db, lobby>>
    BY <1>7 DEF InsertUser
  <2>2. next < maxClientCount /\ next # Skipped /\ next \in Objs
    BY <1>1, <1>2, <2>1 DEF Staged, Objs
  <2>3. TypeOK'
    <3>1. ConnUsers' \in SUBSET Objs
      BY <1>1, <2>1, <2>2, Types
    <3>2. next' \in 0 .. maxClientCount
      BY <1>2, <2>1, <2>2
    <3> QED BY <1>1, <2>1, <3>1, <3>2, StageNames DEF TypeOK
  <2>4. \A o \in Objs :
          o \in Nat /\ (o < next' /\ o # Skipped <=> o = next \/ (o < next /\ o # Skipped))
    BY <1>2, <2>1, <2>2 DEF Objs
  <2>5. Staged' /\ Known' = Known
    <3>1. ConnUsers' = {o \in Objs : o < next' /\ o # Skipped}
      BY <1>1, <2>1, <2>2, <2>4 DEF Staged
    <3> QED BY <1>1, <1>2, <2>1, <2>2, <3>1 DEF Staged, Known
  <2>6. NoPacketBeforeHandlers'
    BY <1>1, <2>1 DEF NoPacketBeforeHandlers, Requesting
  <2> QED BY <1>1, <2>1, <2>3, <2>5, <2>6, BackedKept, CountedKept DEF Inv
<1>8. CASE RedisRun
  <2>1. /\ main = "push" /\ main' = "table" /\ next = maxClientCount
        /\ fate' \in {"runs", "noRedis"}
        /\ thread' = [t \in Threads |-> "idle"] \/ thread' = thread
        /\ UNCHANGED <<made, net, iocp, procSktQueue, db, lobby>>
    BY <1>2, <1>8 DEF RedisRun, Runs
  <2>2. TypeOK'
    BY <1>1, <2>1, StageNames DEF TypeOK, Fates
  <2>3. Staged' /\ Known' = Known
    BY <1>1, <1>2, <2>1 DEF Staged, Known
  <2>4. NoPacketBeforeHandlers'
    BY <1>1, <2>1 DEF NoPacketBeforeHandlers, Requesting
  <2> QED BY <1>1, <2>1, <2>2, <2>3, <2>4, BackedKept, CountedKept DEF Inv
<1>9. CASE SetHandlers
  <2>1. /\ main = "table" /\ main' = "manager" /\ table' = TRUE
        /\ UNCHANGED <<fate, next, ConnUsers, manager, net, iocp, requests, db, lobby>>
    BY <1>9 DEF SetHandlers
  <2>2. TypeOK'
    BY <1>1, <2>1, StageNames DEF TypeOK
  <2>3. Staged' /\ Known' = Known
    BY <1>1, <1>2, <2>1 DEF Staged, Known
  <2>4. NoPacketBeforeHandlers'
    BY <2>1 DEF NoPacketBeforeHandlers, Requesting
  <2> QED BY <1>1, <2>1, <2>2, <2>3, <2>4, BackedKept, CountedKept DEF Inv
<1>10. CASE SetManager
  <2>1. /\ main = "manager" /\ main' = "mysql" /\ manager' = TRUE
        /\ UNCHANGED <<fate, next, ConnUsers, table, net, iocp, requests, db, lobby>>
    BY <1>10 DEF SetManager
  <2>2. TypeOK'
    BY <1>1, <2>1, StageNames DEF TypeOK
  <2>3. Staged' /\ Known' = Known
    BY <1>1, <1>2, <2>1 DEF Staged, Known
  <2>4. NoPacketBeforeHandlers'
    BY <1>1, <2>1 DEF NoPacketBeforeHandlers, Requesting
  <2> QED BY <1>1, <2>1, <2>2, <2>3, <2>4, BackedKept, CountedKept DEF Inv
<1>11. CASE StartMySQL \/ StartHeartbeat \/ StartSubscriber
  <2>1. /\ \/ main = "mysql" /\ main' \in {"heartbeat", "serving"}
           \/ main = "heartbeat" /\ main' = "subscriber"
           \/ main = "subscriber" /\ main' = "serving"
        /\ heartbeat' \in {heartbeat, "set"} /\ subscriber' \in {subscriber, "consume"}
        /\ UNCHANGED <<fate, made, net, iocp, requests, permits, lost, left, errors>>
        /\ dbPool' \in Nat
    <3>1. CASE StartMySQL
      <4>1. PICK n \in 0 .. dbConnectionCount :
              /\ dbPool' = dbPool + n
              /\ Goes("mysql", IF n = dbConnectionCount THEN "heartbeat" ELSE "serving")
        BY <3>1 DEF StartMySQL
      <4>2. dbPool' \in Nat
        BY <1>1, <4>1, LifecycleAssumption DEF TypeOK
      <4> QED BY <3>1, <4>1, <4>2 DEF StartMySQL
    <3>2. CASE StartHeartbeat \/ StartSubscriber
      BY <1>1, <3>2 DEF StartHeartbeat, StartSubscriber, TypeOK
    <3> QED BY <1>11, <3>1, <3>2
  <2>2. TypeOK'
    BY <1>1, <2>1, StageNames DEF TypeOK
  <2>3. Staged' /\ Known' = Known
    BY <1>1, <1>2, <2>1 DEF Staged, Known
  <2>4. NoPacketBeforeHandlers'
    BY <1>1, <2>1 DEF NoPacketBeforeHandlers, Requesting
  <2> QED BY <1>1, <2>1, <2>2, <2>3, <2>4, BackedKept, CountedKept DEF Inv
<1> QED BY <1>3, <1>4, <1>5, <1>6, <1>7, <1>8, <1>9, <1>10, <1>11 DEF Start

LEMMA StopStep == ASSUME Inv, Stop PROVE Inv'
<1> USE Positions DEF Goes, Past, made, net, iocp, requests, db, lobby
<1>1. /\ TypeOK /\ Staged /\ Backed /\ Counted /\ NoPacketBeforeHandlers
      /\ main = "serving" /\ main' = "post" /\ WorkRun' = FALSE
      /\ UNCHANGED <<fate, made, net, worker, requests, db, lobby>>
  BY DEF Inv, Stop
<1>2. TypeOK'
  BY <1>1, StageNames DEF TypeOK
<1>3. Staged' /\ Known' = Known
  BY <1>1 DEF Staged, Known
<1>4. NoPacketBeforeHandlers'
  BY <1>1 DEF NoPacketBeforeHandlers, Requesting
<1> QED BY <1>1, <1>2, <1>3, <1>4, BackedKept, CountedKept DEF Inv

LEMMA EndStep == ASSUME Inv, End PROVE Inv'
<1> USE Positions DEF Goes, Past, made, net, iocp, requests, db, lobby
<1>1. /\ TypeOK /\ Staged /\ Backed /\ Counted /\ NoPacketBeforeHandlers
      /\ port \in Seq(Items)
  BY Types DEF Inv
<1>2. CASE WakeAll
  <2>1. /\ main = "post" /\ main' = "join" /\ port' = port \o [i \in 1 .. Nulls |-> None]
        /\ UNCHANGED <<fate, made, AcceptQueue, listening, receiving, conns, packets, iocp,
                       requests, db, lobby>>
    BY <1>2 DEF WakeAll
  <2>2. Nulls \in Nat
    <3>1. Cardinality(Workers) \in Nat
      BY LifecycleAssumption, FS_CardinalityType
    <3> QED BY <3>1 DEF Nulls
  <2>3. /\ port' \in Seq(Items) /\ InPort(port') = InPort(port)
        /\ \A i \in DOMAIN port' : port'[i] = None \/ (i \in DOMAIN port /\ port'[i] = port[i])
    BY <1>1, <2>1, <2>2, NullsCount
  <2>4. TypeOK'
    BY <1>1, <2>1, <2>3, StageNames DEF TypeOK, Items, Places
  <2>5. Staged' /\ Known' = Known
    BY <1>1, <2>1 DEF Staged, Known
  <2>6. Backed'
    BY <1>1, <2>1, <2>3, <2>5 DEF Backed, Real, Handling
  <2>7. Counted'
    BY <1>1, <2>1, <2>3 DEF Counted, InHand, Handling
  <2>8. NoPacketBeforeHandlers'
    BY <1>1, <2>1 DEF NoPacketBeforeHandlers, Requesting
  <2> QED BY <2>4, <2>5, <2>6, <2>7, <2>8 DEF Inv
<1>3. CASE JoinWorkers \/ StopLobby \/ EndMain
  <2>1. /\ \/ /\ main = "join" /\ main' = "stopHeartbeat"
              /\ \A w \in Workers : worker[w].at = "ended"
           \/ main = "stopHeartbeat" /\ main' = "stopSubscriber"
           \/ main = "stopSubscriber" /\ main' = "wait"
           \/ main = "wait" /\ main' = "statics"
           \/ main = "statics" /\ main' = "joinRedis"
           \/ main = "joinRedis" /\ main' = "done"
        /\ UNCHANGED <<fate, made, net, iocp, requests, permits, lost, lobby>>
        /\ dbPool' \in Nat
    <3>1. CASE JoinWorkers
      BY <1>1, <3>1 DEF JoinWorkers, TypeOK
    <3>2. CASE StopLobby
      BY <1>1, <3>2 DEF StopLobby, TypeOK
    <3>3. CASE EndMain
      BY <1>1, <3>3 DEF EndMain, TypeOK
    <3> QED BY <1>3, <3>1, <3>2, <3>3
  <2>2. TypeOK'
    BY <1>1, <2>1, StageNames DEF TypeOK
  <2>3. Staged' /\ Known' = Known
    BY <1>1, <2>1 DEF Staged, Known
  <2>4. NoPacketBeforeHandlers'
    BY <1>1, <2>1 DEF NoPacketBeforeHandlers, Requesting
  <2> QED BY <1>1, <2>1, <2>2, <2>3, <2>4, BackedKept, CountedKept DEF Inv
<1> QED BY <1>2, <1>3 DEF End

----------------------------------------------------------------------------
(* The accepter and clients *)

\* An object that something happens to is known.
LEMMA NetStep ==
  ASSUME Inv, NEW o \in Objs, Accepter(o) \/ Connect(o) \/ Send(o) \/ Disconnect(o)
  PROVE  Inv'
<1> USE DEF Client, made, net, iocp, requests, db, lobby
<1>1. /\ TypeOK /\ Staged /\ Backed /\ Counted /\ NoPacketBeforeHandlers
      /\ port \in Seq(Items) /\ packets \in Nat /\ procSktQueue \in Nat
      /\ AcceptQueue \subseteq Objs /\ listening \subseteq Objs /\ receiving \subseteq Objs
      /\ MaxPackets \in Nat /\ MaxConns \in Nat
  BY Types DEF Inv
<1>2. /\ UNCHANGED <<main, fate, made, iocp, requests, db, lobby>> /\ fate = "runs"
      /\ AcceptQueue' \subseteq AcceptQueue
      /\ listening' \cup receiving' \subseteq AcceptQueue \cup listening \cup receiving
      /\ conns' = conns \/ (conns < MaxConns /\ conns' = conns + 1)
      /\ o \in AcceptQueue \cup listening \cup receiving
  BY DEF Accepter, Connect, Send, Disconnect, Listens, Runs
<1>3. Staged' /\ Known' = Known
  BY <1>1, <1>2, MainKept
<1>4. o \in Known /\ NoPacketBeforeHandlers'
  BY <1>1, <1>2 DEF Backed, NoPacketBeforeHandlers, Requesting
<1>5. /\ AcceptQueue' \in SUBSET Objs /\ listening' \in SUBSET Objs
      /\ receiving' \in SUBSET Objs /\ conns' \in 0 .. MaxConns
  BY <1>1, <1>2 DEF TypeOK
<1>6. CASE Accepter(o)
  <2>1. UNCHANGED <<port, packets>>
    BY <1>6 DEF Accepter
  <2>2. TypeOK'
    BY <1>1, <1>2, <1>5, <2>1 DEF TypeOK
  <2>3. Backed'
    BY <1>1, <1>2, <1>3, <2>1 DEF Backed, Real, Handling
  <2> QED BY <1>1, <1>2, <1>3, <1>4, <2>1, <2>2, <2>3, CountedKept DEF Inv
<1>7. CASE Connect(o) \/ Send(o) \/ Disconnect(o)
  <2>1. PICK kind \in {"accept", "recv", "gone"} :
          /\ port' = Append(port, Completion(kind, o))
          /\ packets' = packets + (IF kind = "recv" THEN 1 ELSE 0)
          /\ packets' <= MaxPackets
    BY <1>1, <1>7 DEF Connect, Send, Disconnect, TypeOK
  <2> PICK x : x = Completion(kind, o)
    OBVIOUS
  <2>2. x \in Items /\ x.kind = kind /\ x.obj = o /\ port' = Append(port, x)
    BY <2>1 DEF Completion, Items, Kinds
  <2>3. /\ port' \in Seq(Items) /\ DOMAIN port' = DOMAIN port \cup {Len(port) + 1}
        /\ \A i \in DOMAIN port : port'[i] = port[i]
        /\ port'[Len(port) + 1] = x
        /\ Cardinality(InPort(port'))
             = Cardinality(InPort(port)) + (IF x.kind = "recv" THEN 1 ELSE 0)
    BY <1>1, <2>2, AppendCount
  <2>4. packets' \in 0 .. MaxPackets
    BY <1>1, <2>1
  <2>5. TypeOK'
    BY <1>1, <1>2, <1>5, <2>3, <2>4 DEF TypeOK, Items, Places
  <2>6. Backed'
    <3>1. \A i \in DOMAIN port : \/ port'[i] = None
                                  \/ /\ port'[i].kind \in {"accept", "recv", "gone"}
                                     /\ port'[i].obj \in Known
      BY <1>1, <2>3 DEF Backed, Real
    <3>2. \A i \in DOMAIN port' : \/ port'[i] = None
                                   \/ /\ port'[i].kind \in {"accept", "recv", "gone"}
                                      /\ port'[i].obj \in Known
      BY <1>4, <2>2, <2>3, <3>1
    <3> QED BY <1>1, <1>2, <1>3, <3>2 DEF Backed, Real, Handling
  <2>7. InHand' = InHand
    BY <1>2 DEF InHand, Handling
  <2>8. Counted'
    BY <1>1, <1>2, <2>1, <2>2, <2>3, <2>7, HandFinite, InPortFinite DEF Counted
  <2> QED BY <1>3, <1>4, <2>5, <2>6, <2>8 DEF Inv
<1> QED BY <1>6, <1>7

----------------------------------------------------------------------------
(* IOCP workers *)

LEMMA TakeStep == ASSUME Inv, NEW w \in Workers, TakeCompletion(w) PROVE Inv'
<1> USE DEF made, net, iocp, requests, db, lobby
<1>1. /\ TypeOK /\ Staged /\ Backed /\ Counted /\ NoPacketBeforeHandlers
      /\ port \in Seq(Items) /\ packets \in Nat /\ procSktQueue \in Nat
      /\ worker \in [Workers -> [at : Places, item : Items]]
  BY Types DEF Inv
<1> PICK x : x = Head(port)
  OBVIOUS
<1>2. /\ worker[w].at = "wait" /\ port # <<>> /\ port' = Tail(port) /\ fate = "runs"
      /\ \/ x = None /\ worker' = [worker EXCEPT ![w] = [at |-> "ended", item |-> None]]
         \/ x # None /\ worker' = [worker EXCEPT ![w] = [at |-> "handle", item |-> x]]
      /\ WorkRun' \in {WorkRun, FALSE}
      /\ UNCHANGED <<main, made, thread, lobby, fate, AcceptQueue, listening, receiving,
                     conns, packets, procSktQueue, db>>
  BY DEF TakeCompletion, Worker, WorkerAt, Runs
<1>3. /\ port' \in Seq(Items) /\ x \in Items /\ 1 \in DOMAIN port /\ x = port[1]
      /\ \A i \in DOMAIN port' : i + 1 \in DOMAIN port /\ port'[i] = port[i + 1]
      /\ Cardinality(InPort(port'))
           = Cardinality(InPort(port)) - (IF x.kind = "recv" THEN 1 ELSE 0)
  BY <1>1, <1>2, TailCount
<1>4. /\ worker' \in [Workers -> [at : Places, item : Items]]
      /\ \A v \in Workers \ {w} : worker'[v] = worker[v]
      /\ worker'[w] \in {[at |-> "ended", item |-> None], [at |-> "handle", item |-> x]}
      /\ worker'[w].at \in {"handle", "acquire", "query"} => worker'[w].item = x
      /\ worker'[w].at \in {"handle", "acquire", "query"} <=> x # None
  BY <1>1, <1>2, <1>3, NoneItem DEF Places
<1>5. TypeOK'
  BY <1>1, <1>2, <1>3, <1>4 DEF TypeOK, Items, Places
<1>6. Staged' /\ Known' = Known
  BY <1>1, <1>2, <1>4, MainKept
<1>7. Backed'
  <2>1. \A i \in DOMAIN port' : \/ port'[i] = None
                                \/ /\ port'[i].kind \in {"accept", "recv", "gone"}
                                   /\ port'[i].obj \in Known
    BY <1>1, <1>3 DEF Backed, Real
  <2>2. x # None => x.kind \in {"accept", "recv", "gone"} /\ x.obj \in Known
    BY <1>1, <1>3 DEF Backed, Real
  <2>3. \A v \in Handling' : /\ worker'[v].item.kind \in {"accept", "recv", "gone"}
                             /\ worker'[v].item.obj \in Known
    BY <1>1, <1>4, <2>2 DEF Backed, Real, Handling
  <2> QED BY <1>1, <1>2, <1>6, <2>1, <2>3 DEF Backed, Real
<1>8. Counted'
  <2>1. CASE x.kind = "recv"
    <3>1. InHand' = InHand \cup {w} /\ w \notin InHand
      BY <1>2, <1>4, <2>1, NoneItem DEF InHand, Handling
    <3>2. Cardinality(InHand') = Cardinality(InHand) + 1
      BY <3>1, HandFinite, FS_AddElement
    <3> QED BY <1>1, <1>2, <1>3, <2>1, <3>2, HandFinite, InPortFinite DEF Counted
  <2>2. CASE x.kind # "recv"
    <3>1. InHand' = InHand
      BY <1>2, <1>4, <2>2 DEF InHand, Handling
    <3> QED BY <1>1, <1>2, <1>3, <2>2, <3>1, HandFinite, InPortFinite DEF Counted
  <2> QED BY <2>1, <2>2
<1>9. NoPacketBeforeHandlers'
  BY <1>1, <1>2 DEF NoPacketBeforeHandlers, Requesting
<1> QED BY <1>5, <1>6, <1>7, <1>8, <1>9 DEF Inv

\* What a completion uses may not be there while StartWork is at work, and then only.
LEMMA ReadyLater ==
  ASSUME Inv, NEW x, Real(x), ~Ready(x)
  PROVE  main \in {"push", "insert", "table", "manager"}
<1>1. TypeOK /\ Staged /\ main \in Stages /\ next \in Nat /\ ConnUsers \subseteq Objs
  BY Types DEF Inv
<1>2. x.obj \in Known
  BY DEF Real
<1>3. x.obj \notin ConnUsers => main = "insert"
  BY <1>2 DEF Known
<1>4. x.obj \in ConnUsers => ~manager
  BY DEF Ready
<1>5. ~manager => Position[main] < 8
  BY <1>1, StageNames, Positions DEF Staged, Past
<1>6. x.obj \in ConnUsers => next # 0
  BY <1>1 DEF Staged, Objs
<1>7. next # 0 => Position[main] >= 4
  BY <1>1, StageNames, Positions DEF Staged, Past
<1> QED BY <1>1, <1>3, <1>4, <1>5, <1>6, <1>7, StageNames, Positions

LEMMA HandleStep == ASSUME Inv, NEW w \in Workers, Handle(w) PROVE Inv'
<1> USE DEF made, net, iocp, requests, db, lobby
<1>1. /\ TypeOK /\ Staged /\ Backed /\ Counted /\ NoPacketBeforeHandlers
      /\ port \in Seq(Items) /\ packets \in 0 .. MaxPackets /\ procSktQueue \in Nat
      /\ worker \in [Workers -> [at : Places, item : Items]]
      /\ AcceptQueue \subseteq Objs /\ receiving \subseteq Objs /\ MaxPackets \in Nat
  BY Types DEF Inv, TypeOK
<1> PICK x : x = worker[w].item
  OBVIOUS
<1>2. PICK at \in {"wait", "ended"} :
        worker' = [worker EXCEPT ![w] = [at |-> at, item |-> None]]
  BY DEF Handle, Handled, WorkerAt
<1>3. /\ worker[w].at = "handle" /\ fate = "runs"
      /\ fate' = IF Ready(x) THEN fate ELSE "unset"
      /\ procSktQueue' = procSktQueue + (IF x.kind = "recv" /\ Ready(x) THEN 1 ELSE 0)
      /\ receiving' = receiving \cup (IF x.kind = "gone" THEN {} ELSE {x.obj})
      /\ AcceptQueue' = AcceptQueue \cup (IF x.kind = "gone" THEN {x.obj} ELSE {})
      /\ UNCHANGED <<main, made, thread, lobby, listening, port, conns, packets, WorkRun, db>>
  BY DEF Handle, Handled, Worker, Runs
<1>4. /\ worker' \in [Workers -> [at : Places, item : Items]]
      /\ \A v \in Workers \ {w} : worker'[v] = worker[v]
      /\ worker'[w].at \notin {"handle", "acquire", "query"}
  BY <1>1, <1>2, NoneItem DEF Places
<1>5. /\ Real(x) /\ x \in Items /\ x.obj \in Known /\ x.obj \in Objs
      /\ w \in Handling /\ Handling' = Handling \ {w}
  BY <1>1, <1>3, <1>4 DEF Backed, Handling, Real, Items
<1>6. Staged' /\ Known' = Known
  <2>1. fate' = "unset" => main \in {"push", "insert", "table", "manager"}
    BY <1>3, <1>5, ReadyLater
  <2> QED BY <1>1, <1>3, <1>4, <2>1, MainKept
<1>7. Backed'
  BY <1>1, <1>3, <1>4, <1>5, <1>6 DEF Backed, Real, Handling
<1>8. Counted'
  <2>1. CASE x.kind = "recv"
    <3>1. InHand' = InHand \ {w} /\ w \in InHand
      BY <1>4, <1>5, <2>1 DEF InHand, Handling
    <3>2. Cardinality(InHand') = Cardinality(InHand) - 1
      BY <3>1, HandFinite, FS_RemoveElement
    <3> QED BY <1>1, <1>3, <2>1, <3>2, HandFinite, InPortFinite DEF Counted
  <2>2. CASE x.kind # "recv"
    <3>1. InHand' = InHand
      BY <1>4, <1>5, <2>2 DEF InHand, Handling
    <3> QED BY <1>1, <1>3, <2>2, <3>1 DEF Counted
  <2> QED BY <2>1, <2>2
<1>9. procSktQueue' \in 0 .. MaxPackets
  <2>1. Cardinality(InHand') \in Nat
    <3>1. InHand' = InHand \ {w}
      BY <1>4, <1>5 DEF InHand, Handling
    <3> QED BY <3>1, HandFinite
  <2>2. /\ Cardinality(InPort(port)) \in Nat
        /\ procSktQueue' + Cardinality(InPort(port)) + Cardinality(InHand') <= packets
        /\ procSktQueue' \in Nat
    BY <1>1, <1>3, <1>8, InPortFinite DEF Counted
  <2> QED BY <1>1, <2>1, <2>2
<1>10. TypeOK'
  <2>1. AcceptQueue' \in SUBSET Objs /\ receiving' \in SUBSET Objs
    BY <1>1, <1>3, <1>5
  <2>2. fate' \in Fates
    BY <1>3 DEF Fates
  <2> QED BY <1>1, <1>3, <1>4, <1>9, <2>1, <2>2 DEF TypeOK, Items, Places
<1>11. NoPacketBeforeHandlers'
  <2>1. manager => table
    <3>1. main \in Stages
      BY <1>1, Types
    <3>2. Position[main] \in Nat
      BY <3>1, StageNames, Positions
    <3> QED BY <1>1, <3>2, Positions DEF Staged, Past
  <2>2. procSktQueue' > 0 => procSktQueue > 0 \/ manager
    BY <1>1, <1>3 DEF Ready
  <2> QED BY <1>1, <1>3, <2>1, <2>2 DEF NoPacketBeforeHandlers, Requesting
<1> QED BY <1>6, <1>7, <1>8, <1>10, <1>11 DEF Inv

\* A logout that comes to its query, and what follows it.
LEMMA LogoutStep == ASSUME Inv, NEW w \in Workers, Logout(w) \/ Query(w) PROVE Inv'
<1> USE DEF made, net, iocp, requests, lobby
<1>1. /\ TypeOK /\ Staged /\ Backed /\ Counted /\ NoPacketBeforeHandlers
      /\ port \in Seq(Items) /\ packets \in Nat /\ procSktQueue \in Nat
      /\ worker \in [Workers -> [at : Places, item : Items]]
      /\ AcceptQueue \subseteq Objs /\ receiving \subseteq Objs
  BY Types DEF Inv
<1> PICK x : x = worker[w].item
  OBVIOUS
<1>2. /\ worker[w].at \in {"handle", "acquire", "query"} /\ fate = "runs" /\ fate' = fate
      /\ receiving' \subseteq receiving \cup {x.obj}
      /\ AcceptQueue' \subseteq AcceptQueue \cup {x.obj}
      /\ UNCHANGED <<main, made, thread, lobby, listening, port, conns, packets, WorkRun,
                     procSktQueue>>
  BY DEF Logout, Query, Handled, Worker, Runs
<1>3. permits' \in Nat /\ dbPool' \in Nat /\ lost' \in Nat
  BY <1>1 DEF Logout, Query, Acquire, Release, TypeOK, db
<1>4. PICK y : /\ worker' = [worker EXCEPT ![w] = y]
               /\ \/ y.at \in {"wait", "ended"} /\ y.item = None
                  \/ y.at \in {"acquire", "query"} /\ y.item = x
               /\ y = [at |-> y.at, item |-> y.item]
  <2>1. ASSUME NEW at \in {"acquire", "query"}, WorkerAt(w, at, x)
        PROVE  \E y : /\ worker' = [worker EXCEPT ![w] = y]
                      /\ y.at \in {"acquire", "query"} /\ y.item = x
                      /\ y = [at |-> y.at, item |-> y.item]
    <3> DEFINE y == [at |-> at, item |-> x]
    <3>1. worker' = [worker EXCEPT ![w] = y] /\ y.at = at /\ y.item = x
      BY <2>1 DEF WorkerAt
    <3> QED BY <3>1
  <2>2. ASSUME Handled(w)
        PROVE  \E y : /\ worker' = [worker EXCEPT ![w] = y]
                      /\ y.at \in {"wait", "ended"} /\ y.item = None
                      /\ y = [at |-> y.at, item |-> y.item]
    <3> DEFINE y == [at |-> IF WorkRun THEN "wait" ELSE "ended", item |-> None]
    <3>1. worker' = [worker EXCEPT ![w] = y] /\ y.at \in {"wait", "ended"} /\ y.item = None
      BY <2>2 DEF Handled, WorkerAt
    <3> QED BY <3>1
  <2> QED BY <2>1, <2>2 DEF Logout, Query
<1>5. /\ worker' \in [Workers -> [at : Places, item : Items]]
      /\ \A v \in Workers \ {w} : worker'[v] = worker[v]
      /\ worker'[w].at \in {"handle", "acquire", "query"} => worker'[w].item = x
  <2>1. y \in [at : Places, item : Items]
    BY <1>1, <1>4, NoneItem DEF Places
  <2> QED BY <1>1, <1>4, <2>1
<1>6. Real(x) /\ x.obj \in Known /\ x.obj \in Objs /\ w \in Handling
  BY <1>1, <1>2 DEF Backed, Handling, Real, Items
<1>7. TypeOK'
  <2>1. AcceptQueue' \in SUBSET Objs /\ receiving' \in SUBSET Objs
    BY <1>1, <1>2, <1>6
  <2> QED BY <1>1, <1>2, <1>3, <1>5, <2>1 DEF TypeOK, Items, Places
<1>8. Staged' /\ Known' = Known
  BY <1>1, <1>2, <1>5, MainKept
<1>9. Backed'
  <2>1. Handling' \subseteq Handling
    BY <1>5, <1>6 DEF Handling
  <2>2. \A v \in Handling' : worker'[v].item = worker[v].item
    BY <1>5 DEF Handling
  <2> QED BY <1>1, <1>2, <1>6, <1>8, <2>1, <2>2 DEF Backed, Real
<1>10. Counted'
  <2>1. InHand' = InHand \/ InHand' = InHand \ {w}
    BY <1>5, <1>6 DEF InHand, Handling
  <2>2. Cardinality(InHand') <= Cardinality(InHand) /\ Cardinality(InHand') \in Nat
    BY <2>1, HandFinite, FS_Subset
  <2> QED BY <1>1, <1>2, <2>2, HandFinite, InPortFinite DEF Counted
<1>11. NoPacketBeforeHandlers'
  BY <1>1, <1>2 DEF NoPacketBeforeHandlers, Requesting
<1> QED BY <1>7, <1>8, <1>9, <1>10, <1>11 DEF Inv

----------------------------------------------------------------------------
(* Redis threads, heartbeat and subscriber *)

\* These threads leave completions alone.
LEMMA Aside ==
  ASSUME Inv, UNCHANGED <<main, made, net, iocp>>, TypeOK',
         fate' = "unset" => main \in {"push", "insert", "table", "manager"},
         procSktQueue' <= procSktQueue,
         NoPacketBeforeHandlers'
  PROVE  Inv'
<1> USE DEF made, net, iocp
<1>1. TypeOK /\ Staged /\ Backed /\ Counted
  BY DEF Inv
<1>2. Staged' /\ Known' = Known
  BY <1>1, MainKept
<1>3. Backed'
  BY <1>1, <1>2, BackedKept
<1>4. Counted'
  <2>1. InHand' = InHand /\ port' = port /\ packets' = packets
    BY DEF InHand, Handling
  <2>2. procSktQueue \in Nat /\ procSktQueue' \in Nat /\ packets \in Nat
    BY <1>1, LifecycleAssumption DEF TypeOK
  <2>3. Cardinality(InPort(port)) \in Nat /\ Cardinality(InHand) \in Nat
    BY <1>1, Types, InPortFinite, HandFinite
  <2> QED BY <1>1, <2>1, <2>2, <2>3 DEF Counted
<1> QED BY <1>2, <1>3, <1>4 DEF Inv

LEMMA RedisStep == ASSUME Inv, NEW t \in Threads, RedisThread(t) PROVE Inv'
<1> USE DEF Redis, lobby
<1>1. /\ TypeOK /\ Staged /\ NoPacketBeforeHandlers
      /\ procSktQueue \in 0 .. MaxPackets /\ MaxPackets \in Nat
      /\ thread \in [Threads -> {"none", "idle", "request", "acquire", "query", "ended"}]
  BY Types DEF Inv, TypeOK
<1>2. /\ UNCHANGED <<main, made, net, iocp, lobby>> /\ fate = "runs"
  BY DEF RedisThread, TakePacket, Request, RequestQuery, EndRedis, Runs
<1>3. CASE TakePacket(t)
  <2>1. /\ procSktQueue > 0 /\ procSktQueue' = procSktQueue - 1
        /\ thread' = [thread EXCEPT ![t] = "request"]
        /\ fate' = IF table THEN fate ELSE "unset"
        /\ UNCHANGED db
    BY <1>3 DEF TakePacket
  <2>2. table /\ fate' = "runs"
    BY <1>1, <1>2, <2>1 DEF NoPacketBeforeHandlers, Requesting
  <2>3. TypeOK'
    <3>1. procSktQueue' \in 0 .. MaxPackets
      BY <1>1, <2>1
    <3> QED BY <1>1, <1>2, <2>1, <2>2, <3>1 DEF TypeOK, Fates, made, net, iocp, db
  <2>4. NoPacketBeforeHandlers'
    BY <1>2, <2>2 DEF NoPacketBeforeHandlers, Requesting, made
  <2> QED BY <1>1, <1>2, <2>1, <2>2, <2>3, <2>4, Aside
<1>4. CASE Request(t) \/ RequestQuery(t) \/ EndRedis(t)
  <2>1. /\ fate' \in {"runs", "late"} /\ procSktQueue' = procSktQueue
        /\ \/ /\ thread[t] \in {"request", "acquire", "query"}
              /\ \E at \in {"idle", "acquire", "query"} : thread' = [thread EXCEPT ![t] = at]
           \/ thread' = [thread EXCEPT ![t] = "ended"]
    BY <1>2, <1>4 DEF Request, RequestQuery, Late, EndRedis
  <2>2. permits' \in Nat /\ dbPool' \in Nat /\ lost' \in Nat
    BY <1>1, <1>4 DEF Request, RequestQuery, EndRedis, Acquire, Release, TypeOK, db
  <2>3. TypeOK'
    BY <1>1, <1>2, <2>1, <2>2 DEF TypeOK, Fates, made, net, iocp
  <2>4. NoPacketBeforeHandlers'
    BY <1>1, <1>2, <2>1 DEF NoPacketBeforeHandlers, Requesting, made
  <2> QED BY <1>1, <1>2, <2>1, <2>3, <2>4, Aside
<1> QED BY <1>3, <1>4 DEF RedisThread

LEMMA LobbyStep ==
  ASSUME Inv, HeartbeatLoop \/ Tick \/ Consume \/ ConsumeFails
  PROVE  Inv'
<1>1. /\ TypeOK /\ Staged /\ NoPacketBeforeHandlers /\ procSktQueue \in Nat
      /\ left \in 0 .. Ttl /\ errors \in 0 .. MaxErrors /\ Ttl \in Nat /\ MaxErrors \in Nat
  BY Types DEF Inv, TypeOK
<1>2. UNCHANGED <<main, fate, made, net, iocp, requests, db>>
  BY DEF HeartbeatLoop, SetKey, Sleep, DelKey, Tick, Consume, ConsumeFails, Lobby
<1>3. Older \in 0 .. Ttl
  BY <1>1 DEF Older
<1>4. left' \in {left, Ttl, 0, Older}
  BY DEF HeartbeatLoop, SetKey, Sleep, DelKey, Tick, Consume, ConsumeFails
<1>5. errors' = errors \/ (errors < MaxErrors /\ errors' = errors + 1)
  BY DEF HeartbeatLoop, SetKey, Sleep, DelKey, Tick, Consume, ConsumeFails, Fails
<1>6. /\ heartbeat' \in {heartbeat, "sleep", "del", "set", "ended"}
      /\ subscriber' \in {subscriber, "ended"}
  BY DEF HeartbeatLoop, SetKey, Sleep, DelKey, Tick, Consume, ConsumeFails
<1>7. left' \in 0 .. Ttl /\ errors' \in 0 .. MaxErrors
  BY <1>1, <1>3, <1>4, <1>5
<1>8. TypeOK'
  BY <1>1, <1>2, <1>6, <1>7 DEF TypeOK, made, net, iocp, requests, db
<1>9. NoPacketBeforeHandlers'
  BY <1>1, <1>2 DEF NoPacketBeforeHandlers, Requesting, made, requests
<1> QED BY <1>1, <1>2, <1>8, <1>9, Aside DEF Staged, requests

----------------------------------------------------------------------------
(* The theorems *)

LEMMA InvInit == Init => Inv
<1> SUFFICES ASSUME Init PROVE Inv
  OBVIOUS
<1> USE LifecycleAssumption DEF Init
<1>1. TypeOK
  <2>1. main \in Stages /\ fate \in Fates /\ next \in 0 .. maxClientCount
    BY StageNames DEF Fates
  <2>2. worker \in [Workers -> [at : Places, item : [kind : Kinds, obj : Objs]]]
    BY NoneItem DEF Items, Places
  <2>3. /\ conns \in 0 .. MaxConns /\ packets \in 0 .. MaxPackets
        /\ procSktQueue \in 0 .. MaxPackets /\ left \in 0 .. Ttl
        /\ errors \in 0 .. MaxErrors
    OBVIOUS
  <2>4. /\ {ConnUsers, AcceptQueue, listening, receiving} \subseteq SUBSET Objs
        /\ {manager, table, WorkRun} \subseteq BOOLEAN
    OBVIOUS
  <2>p. port \in Seq([kind : Kinds, obj : Objs])
    <3>1. port = <<>>
      OBVIOUS
    <3> HIDE DEF Init
    <3> QED BY <3>1
  <2>5. /\ thread \in [Threads -> {"none", "idle", "request", "acquire", "query", "ended"}]
        /\ permits \in Nat /\ dbPool \in Nat /\ lost \in Nat
        /\ heartbeat = "none" /\ subscriber = "none"
    OBVIOUS
  <2> HIDE DEF Init
  <2> QED BY <2>1, <2>2, <2>3, <2>4, <2>p, <2>5 DEF TypeOK, Places
<1>2. Staged
  BY Positions DEF Staged, Past, Objs
<1>3. Backed
  BY DEF Backed, Handling
<1>4. Counted
  <2>1. InPort(port) = {} /\ InHand = {}
    BY DEF InPort, InHand, Handling
  <2>2. Cardinality(InPort(port)) = 0 /\ Cardinality(InHand) = 0
    BY <2>1, FS_EmptySet
  <2> QED BY <2>2 DEF Counted
<1>5. NoPacketBeforeHandlers
  BY DEF NoPacketBeforeHandlers, Requesting
<1> QED BY <1>1, <1>2, <1>3, <1>4, <1>5 DEF Inv

LEMMA InvStep == Inv /\ [Next]_vars => Inv'
<1> SUFFICES ASSUME Inv, [Next]_vars PROVE Inv'
  OBVIOUS
<1>1. CASE UNCHANGED vars
  <2>1. /\ UNCHANGED <<main, made, net, iocp, fate, requests, db, lobby>>
        /\ TypeOK /\ Staged /\ NoPacketBeforeHandlers /\ procSktQueue \in Nat
    BY <1>1, Types DEF vars, Inv
  <2>2. TypeOK' /\ NoPacketBeforeHandlers'
    BY <2>1 DEF TypeOK, NoPacketBeforeHandlers, Requesting, made, net, iocp, requests, db, lobby
  <2> QED BY <2>1, <2>2, Aside DEF Staged, requests
<1> QED BY <1>1, StartStep, StopStep, EndStep, NetStep, TakeStep, HandleStep, LogoutStep,
           RedisStep, LobbyStep DEF Next, Work

LEMMA Invariance == Spec => []Inv
<1> QED BY InvInit, InvStep, PTL DEF Spec

\* Every variable keeps its type: no object, stage or counter leaves its range, and the
\* packet queue never holds more than the packets sent (main, and every thread).
THEOREM LifecycleTypes == Spec => []TypeOK
<1>1. Inv => TypeOK
  BY DEF Inv
<1> QED BY <1>1, Invariance, PTL

\* No Redis thread reads the table of handlers before RedisRun has filled it, whoever
\* connects and sends while StartWork is still at work.
THEOREM HandlersComeFirst == Spec => []NoPacketBeforeHandlers
<1>1. Inv => NoPacketBeforeHandlers
  BY DEF Inv
<1> QED BY <1>1, Invariance, PTL

\* Only a completion that comes while StartWork is between its first object and the
\* manager ends the process on something that is not set.
THEOREM UnsetOnlyWhileStarting == Spec => UnsetWhileStarting
<1>1. Inv /\ Inv' /\ [Next]_vars
        => [fate' = "unset" => main \in {"push", "insert", "table", "manager"}]_vars
  <2> SUFFICES ASSUME Inv, Inv', Next, fate' = "unset"
               PROVE  main \in {"push", "insert", "table", "manager"}
    OBVIOUS
  <2>1. fate = "unset" => main \in {"push", "insert", "table", "manager"}
    BY DEF Inv, Staged
  <2>2. CASE fate' # fate
    <3>1. CASE \E w \in Workers : Handle(w)
      BY <2>2, <3>1 DEF Handle, Worker, Inv, Staged
    <3>2. CASE \E t \in Threads : TakePacket(t)
      BY <2>2, <3>2 DEF TakePacket, Redis, Inv, Staged
    <3>3. CASE Start
      BY <2>2, <3>3 DEF Start, OpenPort, CreateWorkThread, CreateAccepterThread, PushObject,
           InsertUser, RedisRun, SetHandlers, SetManager, StartMySQL, StartHeartbeat,
           StartSubscriber, Goes
    <3> QED BY <2>2, <3>1, <3>2, <3>3
          DEF Next, Stop, End, WakeAll, JoinWorkers, StopLobby, EndMain, Accepter, Connect,
              Send, Disconnect, Client, Work, TakeCompletion, Logout, Query, RedisThread,
              Request, RequestQuery, Late, EndRedis, HeartbeatLoop, SetKey, Sleep, DelKey, Tick, Consume, ConsumeFails, Lobby
  <2> QED BY <2>1, <2>2
<1> QED BY <1>1, Invariance, PTL DEF Spec, UnsetWhileStarting

LEMMA RequestingFinite ==
  /\ IsFiniteSet(Requesting) /\ Cardinality(Requesting) \in Nat
<1>1. Requesting \subseteq Threads /\ IsFiniteSet(Threads)
  BY LifecycleAssumption DEF Requesting
<1> QED BY <1>1, FS_Subset, FS_CardinalityType

\* Once the workers are joined nothing adds to the work of the Redis threads, so that
\* what a late request can use was sent before.
THEOREM NoWorkAfterJoin == Spec => NoNewWorkAfterJoin
<1>1. ASSUME Inv, Next, Past("stopHeartbeat")
      PROVE  WorkOfRedis' <= WorkOfRedis
  <2>1. /\ \A w \in Workers : worker[w].at = "ended"
        /\ procSktQueue \in Nat /\ Cardinality(Requesting) \in Nat
        /\ thread \in [Threads -> {"none", "idle", "request", "acquire", "query", "ended"}]
    BY <1>1, RequestingFinite, Types DEF Inv, Staged, TypeOK
  <2>2. /\ WorkOfRedis = procSktQueue + Cardinality(Requesting)
        /\ WorkOfRedis' = procSktQueue' + Cardinality(Requesting')
    BY DEF WorkOfRedis
  <2>3. CASE UNCHANGED requests
    BY <2>1, <2>2, <2>3 DEF requests, Requesting
  <2>4. CASE \E t \in Threads : TakePacket(t)
    <3>1. PICK t \in Threads : /\ thread[t] = "idle" /\ procSktQueue > 0
                               /\ thread' = [thread EXCEPT ![t] = "request"]
                               /\ procSktQueue' = procSktQueue - 1
      BY <2>4 DEF TakePacket, Redis
    <3>2. Requesting' = Requesting \cup {t} /\ t \notin Requesting
      BY <2>1, <3>1 DEF Requesting
    <3>3. Cardinality(Requesting') = Cardinality(Requesting) + 1
      BY <3>2, RequestingFinite, FS_AddElement
    <3> QED BY <2>1, <2>2, <3>1, <3>3
  <2>5. CASE \E t \in Threads : Request(t) \/ RequestQuery(t) \/ EndRedis(t)
    <3>1. /\ procSktQueue' = procSktQueue /\ Requesting' \subseteq Requesting
      BY <2>1, <2>5 DEF Request, RequestQuery, EndRedis, Redis, Requesting
    <3>2. Cardinality(Requesting') <= Cardinality(Requesting) /\ Cardinality(Requesting') \in Nat
      BY <3>1, RequestingFinite, FS_Subset, FS_CardinalityType
    <3> QED BY <2>1, <2>2, <3>1, <3>2
  <2>6. ~ \E w \in Workers : Work(w)
    BY <2>1 DEF Work, TakeCompletion, Handle, Logout, Query, Worker
  <2>7. ~ RedisRun
    BY <1>1, Positions DEF RedisRun, Goes, Past
  <2> QED BY <1>1, <2>3, <2>4, <2>5, <2>6, <2>7
        DEF Next, Start, OpenPort, CreateWorkThread, CreateAccepterThread, PushObject,
            InsertUser, SetHandlers, SetManager, StartMySQL, StartHeartbeat,
            StartSubscriber, Stop, End, WakeAll, JoinWorkers, StopLobby, EndMain, Accepter,
            Connect, Send, Disconnect, Client, RedisThread, HeartbeatLoop, SetKey, Sleep,
            DelKey, Tick, Consume, ConsumeFails, Lobby
<1>2. Inv /\ [Next]_vars => [Past("stopHeartbeat") => WorkOfRedis' <= WorkOfRedis]_vars
  BY <1>1
<1> QED BY <1>2, Invariance, PTL DEF Spec, NoNewWorkAfterJoin

=============================================================================
