# Lobby server: specifications, model checks and proofs

Formal models of the out-game lobby server (`src/`): TLA+ modules, TLC
configurations and theorems checked by TLAPS. The reference is the code; every
definition that models code is listed with its source lines in `PROJECT.json`
(`map`), and every property with the hazard it is aimed at (`hazards`).

Check an instance with `tlc -config MCParty_one.cfg MCParty`, a proof module with
`tlapm Party_proofs.tla`.

## 1. The system

One lobby server is one process on Windows; several of them share one Redis and
one MySQL. A client keeps one TCP connection to one lobby server.

```
 client --TCP--> IOCP workers --> circular buffer of the connection
                      |                   |
                      +--> packet queue --+--> Redis threads (handlers)
                                                |         |         |
                                             sessions   Redis     MySQL pool
                                                ^      publish
                                                |         |
                                   subscriber thread <-- {server}:events
```

### Inventory

| Part | State it keeps | Operations | Talks to |
|---|---|---|---|
| Party requests (`RedisManager::ProcessParty*`, `LeavePartyInternal`, `ProcessMatchStart`) | Redis: `party:counter`, `party:{id}:members`, `party:{id}:leader`, `user:{pk}` with `partyId` | follow, invite, accept or refuse an invitation, leave, kick, delegate, match start | sessions (direct), other servers (publish) |
| Sessions (`ConnUser`, `ConnUsersManager`) | per object: pk, id, level, cached party (16 bits), friend cache; map pk -> object number | login, disconnect, `FindUser`, `FindUserByPk`, `Reset` | handlers, subscriber, IOCP workers |
| Publish/subscribe (`PublishToUsers`, `LobbyRedisSubscriber`) | one channel per server, not persistent | publish to the servers the targets are registered on; handle one message | sessions, clients |
| Login (`UserConnect`, `VerifyUserToken`, `UserDisConnect`) | Redis: token, `user:{pk}` with `server`, `state`, time to live | verify and delete the token, load friends and session data, resume the party; notices on both ends | MySQL, Redis, sessions |
| MySQL pool (`MySQLManager`, `AutoConn`) | queue of connections, mutex, counting semaphore | `init`, acquire, `GetConnection`, `~AutoConn`, shutdown | every query |
| Friends (`SendFriendRequest`, `AcceptFriend`, `RemoveFriend`) | MySQL table `friend`, two rows per relation | ask, accept, refuse/cancel/unfriend | pool, publish |
| Costume (`ProcessCostumeChange`, `UpdateEquipSlot`) | MySQL and Redis equipment slots | change one slot | pool, publish |
| Packet pipeline (`CircularBuffer`, `PushRedisPacket`, `RedisThread`) | per connection a ring of bytes; one queue of (object, size) | receive, enqueue, dequeue, read, dispatch | IOCP workers, Redis threads |
| Send queue (`ConnUser::PushSendMsg`, `ProcSend`, `SendComplete`) | per connection a queue, an atomic size, one overlapped | push, start a send, complete | Redis threads, subscriber, IOCP workers |
| Connection I/O (`OutGameLobbyServer`, `OverLappedManager`) | accept queue, overlapped pool, object flags | accept, receive, disconnect and reuse of an object | kernel |
| Startup and shutdown (`main`, `StartWork`, `ServerEnd`) | which threads run, which parts exist | start, stop | everything |
| Heartbeat (`LobbyHeartbeat`) | Redis key of the server with a time to live | refresh | Redis |

### What is hard, and what makes each part correct

* **Parties.** One party is described three times: the member set and the leader
  key, the `partyId` of each user key, and the cached id of each session, on
  whatever server the user is. A handler writes them one after the other and
  tells other servers by messages that are handled later. Correct means: the
  user key, when it names a party, names one that lists the user; a party does
  not exceed its size; leadership is passed on by its holder and never lost;
  whoever loses a party is told. The session is a cache, and the checks at the
  start of a handler trust it.
* **Sessions.** `GetObjNumByPk` reads with `operator[]`, so an absent user is
  object 0. What is meant for an absent user must not reach another one.
* **Pool.** A semaphore and a queue have to agree; a caller blocks for good when
  permits get lost. Threads that call it run before `init` fills it.
* **Friends.** A check and an insert in one transaction, against a transaction
  of the other user. The two rows must agree at all times.
* **Packet pipeline and send queue.** Several threads of one process on one
  connection object; order, bytes, and a wake-up that must not be lost.
* **Connection I/O, startup, shutdown.** Completions of an object that is already
  reused; threads that run before what they use exists.

## 2. Modules

| Module | Models | Theorems |
|---|---|---|
| `Party` | the party registry, all party requests, sessions, login and disconnect as far as they touch parties, the channels between servers; handlers do not overlap | `Party_proofs` |
| `PartyThreads` | the handlers that write the registry, command by command, on several threads, with failing commands and a process that ends | `PartyThreads_proofs` |
| `Session` | login with its token, logout, costume changes, on threads and objects that overlap | `Session_proofs` |
| `DbPool` | the connection pool with its callers and `init` | `DbPool_proofs` |
| `Friend` | table `friend` and its three requests | `Friend_proofs` |
| `ConnIO` | one connection object: accept, receive, send queue, failed completions, reset and reuse | `ConnIO_proofs` |
| `ByteQueue` | what a receive buffer promises: a bounded queue of bytes | |
| `CircularBuffer` | the array, its positions, `Write` and `Read`; implements `ByteQueue` | `Ingest_proofs` |
| `Ingest` | a client's stream through `CircularBuffer`, the queue of sizes and the Redis threads to the handler | `Ingest_proofs` |
| `Lifecycle` | `main`, `StartWork` and `ServerEnd` against the threads; heartbeat and subscriber | `Lifecycle_proofs` |
| `MCParty`, `MCDbPool`, `MCFriend`, `MCConnIO`, `MCIngest`, `MCPartyThreads`, `MCSession`, `MCLifecycle` | symmetry sets and small definitions of constants; the rest is in the cfgs | |

How they fit: `Ingest` ends where a handler begins; `Party`, `PartyThreads` and `Session`
are what handlers do; `DbPool` is under each query they make, `Friend` inside some of them;
`ConnIO` carries what they send, and says when an object is reset twice; `Session`'s `Drop`
to `Reset` is what `ConnIO` calls "reset", on two workers if need be. `Lifecycle` says when these threads run. `Ingest` EXTENDS `CircularBuffer` and
drives its real actions; the other modules meet in names and not in one state
space, which would be far out of TLC's reach.

### Party

State: `counter`, `members`, `leader`, `userParty`, `userServer` and `ttl` are the
Redis keys; `sess` and `objNum` are the connection objects and the map of every
server; `chan` holds what is published to a server and not handled yet. An
absent `partyId` and a `partyId` of 0 are read alike by the code and are both 0;
an absent map entry is object 0, which is what the code makes of it. No party handler asks for
a login: a connection without one sends its requests with the pk that `Reset` leaves, 0. So
members, leaders and user keys range over `Pks`, the users and `NoUser`, which is pk 0; a
missing leader key is `NoLeader`, another value. Nobody can name pk 0 in a request, since targets
are looked up in the database, and it is on no server, since `user:0` has no field "server".

Each handler is one action (`Follow`, `Invite`, `InviteAccept`, `InviteRefuse`,
`Leave`, `Kick`, `Delegate`, `MatchStart`, `Connect`, `Disconnect`, and `DisconnectStranger` for a
connection without a login), and each message one `Deliver`. So this module is about handlers that do not overlap,
which is already enough for stale sessions and late messages; handlers that
interleave command by command are the subject of `PartyThreads`.
Accepting an invitation has three outcomes and so three actions: from no party
(`InviteAccept`), after leaving one (`InviteSwitch`), and leaving one only to find
the new one full (`InviteSwitchFull`). In all three, as in the code, the host's
party is read first and the own party is left after that. A successor
is any remaining member: the code takes the first that SMEMBERS lists, and
Redis promises no order.

Requests that are refused before the first write are stuttering steps. A message
keeps the fields that matter: kind, party, the user it is about, the new
leader, and the targets on this server. `SetPartyId` narrows to 16 bits as
`ConnUser` does.

Left out of `Party`: ids, levels and equipment carried in messages, the answer to
the client, the token (see `Session`), Redis errors in the middle of a handler
(see `PartyThreads`), and the loss of messages, which for Redis publish/subscribe
means a lost subscriber connection.

Bounds: `MaxParty` (parties ever created), `MaxMsgs` (messages waiting per
channel); a step that would go over one is not taken. Restrictions that a cfg
may lift: `KeysExpire` (the user key's time to live may run out while the user is
online, after 300 s), `Relogin` (a user may log in while logged in, a connection
may log in twice), `SelfRequests` (a request may name its sender), `Strangers` (connections
without a login send requests).

### PartyThreads

A step is one Redis command (or one pipeline) together with the handler's work on
sessions up to the next command. `worker` holds for every Redis thread the command it
runs next (`at`) and the handler's local variables: the party it works on, the host's
party as it was read, the successor. Where a handler reads and later writes, the read
and the write are two steps, and every other thread may come in between. So SCARD and SADD
of a join, SISMEMBER and HSET of a login, GET and SET of a leader are apart here.

`CommandFails` throws at any command: inside a `try` block the handler ends (or, in the notices,
goes on), outside of one the exception leaves `RedisThread` and the process ends,
which is `Crash`: sessions are gone, the registry stays. `undefined` is where the
code dereferences the first of an empty SMEMBERS or writes past the array of four
members; a thread that gets there stops, and the property says when it may.

A worker disconnects and resets an object at any time, also under a request of that object
that is in hand (`Disconnect`). The request goes on with the pk it has read, and where it
comes back to its object it finds the session that the object has by then: none, or that of the next
user to log in there (`Reused`). `holder` is that session's user; `Returning` lists the requests
that look at their object again. A queued request that is only popped then is one of
the next user's, as far as the registry is concerned.

`calm` of a request is a history variable: no other thread was at a request since it
was taken, and no notice reset its user's session. It is not lost when the user goes: what the registry
then holds is the same, and `LoginRepairs` names the case by `holder`. Notices are kept only
as the set of users whose sessions they reset.

Left out, because `Party` has them: senders with pk 0, and writes to the session on object 0 that are
meant for absent users. A user who has no party and no request in hand does not go in the run (`IdleGo`
is FALSE; the theorems have both values).

### Session

Tokens, user keys, sessions and the pk-to-object map of one server. `job` says which
command of a login or costume change each Redis thread runs next; `leaving` the same for
each IOCP worker that logs out and resets an object. A worker does so for every failed completion,
so `Drop` asks neither whether the object has a connection nor whether another worker is already at
it: two workers may log out one object at once, and one that is late logs out or
resets the object's next client. What is queued for the Redis threads names only the
object, and `Reset` does not empty that queue: `Take` picks a request of any
connection the object has had (`conn` numbers them), and carries it out on whatever the object
is by then. `userPk` has no initializer (`ConnUser.h:292`): as long as it is `Unset`, whoever reads it
may find any pk (`PkRead`). The ghosts name the exceptions of the properties (`tainted`, `missed`,
`stale`, `unlimited`): each is filled at the very step of the code that makes
the exception, so that a property says "in these ways and in no other".

`CallFails` and `LogoutCallFails` are the error paths, `Crash` is the exception that
nobody catches at the end of `UserConnect`. `Issue` (the login server) and `Expire` are external.

### DbPool

`dbPool`, `permits` and `mutex` are the queue, the semaphore and `dbPoolMutex`; `pc`
and `conn` say where each thread is in a query function: before the acquire,
between acquire and `GetConnection`, in the query, in `~AutoConn` between the push
and the release. `GetConnection` holds its lock over one queue operation and is
one step; `~AutoConn` holds it over two effects that others can see, so its
lock is a state. `Open` is one turn of the loop in `init`, which takes no lock.
Two overlapping operations on a `std::queue` are undefined behaviour; the module
takes each as atomic and shows what is wrong or right even so. `EarlyCalls`
allows requests before `init` is done: `StartWork` starts the Redis threads first.

### Friend

`friend` holds the rows. UPDATE and DELETE lock what they touch until COMMIT, so
`AcceptFriend` and `RemoveFriend` are one step each. `SendFriendRequest` looks with
a plain SELECT, which locks nothing, and inserts later: two steps
(`CheckRequest`, then `InsertRequest` or `InsertFails`), with `checked` remembering
the request in between. MySQL reports the rows an UPDATE really changes, so
accepting twice changes none and is rolled back. The schema is not in the
repository; the module assumes the unique key (user_pk, friend_pk) that the test
for exactly two changed rows relies on. The friend cache of a session is written and
never read, and friend notices change no modelled state: both are left out.

### ConnIO

One object, with its sockets numbered in the order in which `Reset` opens them. `acc`,
`rcv` and `snd` count the operations outstanding on each socket; a closed socket's operations
still complete, and the code dispatches them by the number of the object. A worker takes
a completion in one step and goes through what it does with it in others; a
pusher goes through `PushSendMsg` as push, `fetch_add`, `load` and `ProcSend`, and
`SendComplete` is `fetch_sub`, `load` and `ProcSend`. The counter has 16 bits. Every
completion may be a failed one, and WSARecv, WSASend and AcceptEx may fail to be posted.
`lost` and `raced` are history variables. The overlapped structures are not modelled:
`OverLappedManager` allocates when its pool is empty, so no step depends on how many
are left.

### ByteQueue, CircularBuffer and Ingest

`CircularBuffer` has the array, `writePos`, `readPos` and `currentSize`, with `Write` and
`Read` as in the code, in one or two copies. `Contents` is the refinement mapping to
`ByteQueue`'s queue; `IsByteQueue` is `ByteQueue!Spec` under it. In `Ingest`, `Receive` takes any
non-empty prefix of the client's stream up to `MAX_RECV_SIZE`, `WriteRecvData` writes it
or is refused, `PushPacket` queues its size in any case; a Redis thread pops a size (`Pop`),
reads (`ReadRecvData`) and runs the handler on `readData` (`Dispatch`). The
connection has only one `readData`, and `Reset` empties neither buffer nor queue.
A byte is a pair of packet number and place, so that bytes are told apart; place 1 is the
header. A thread whose packet begins with no header, or whose read finds too little,
stops as `undefined`. `calm` and `due` are history variables for what has been received
undisturbed.

### Lifecycle

`main` goes through `Order`, the calls of `init`, `StartWork` and `ServerEnd` and the
destructors of the singletons, and every step of it starts or stops one part. The other
threads are as coarse as the question allows: what a worker or a Redis thread does
with its work is one step that says what it uses. `fate` says why a process ended
before `main` did: no port, no Redis, something unset, or a late use of MySQL. A request, and a
logout, may come to a query, and a query waits for a permit of `permits` and takes
a connection of `dbPool`; when there is none it loses its permit (`lost`), as `DbPool` has it in single
steps. `StartMySQL` may fail with any number of connections made, and ~MySQLManager empties
the pool. `left` is
the remaining life of the server's key in intervals of the heartbeat; `Tick` lets time pass
while the heartbeat is in a call, or when the process is no more.

## 3. Runs

All pass unless marked; TLC explores the whole bounded state space.

| Run | Instance | Properties | Shows |
|---|---|---|---|
| `MCParty_one` | 1 server, 3 users and connections without a login, 2 objects, parties of 3, 2 parties | `Capacity`, `LeaderHandsOver`, `LeaderStaysMember`, `LedUnlessRejoined` | who leads, over every request in every order, with late messages and a fourth pk that must not fit; the one way to lose a leader |
| `MCParty_two` | 2 servers with 2 objects, 3 users, 1 party | `DroppedAreTold` | whoever loses a party is told, on whatever server |
| `MCParty_churn` | 2 users, parties of 2, keys expire, second logins, self requests, session field of 2 values | `TypeOK`, `PartyPointsHome` | the unusual histories, and ids that do not fit the session |
| `MCParty_kept` | 1 server, 3 users, 3 objects, parties of 3, 2 parties | `KeptPartyKeepsSessions` (violated) | section 6 |
| `MCPartyThreads_all` | 4 users, 2 threads, parties of 2, 2 parties, 3 requests, 1 failing command, users who go under their request | `TypeOK`, `Overbooked`, `UndefinedNeedsOverlap`, `LoginRepairs`, `OpensForIdleHost` | by how much a party exceeds its size, when undefined reads happen, what a login repairs |
| `MCSession_all` | 2 users, objects, threads, workers, tokens and items, 2 connections, 2 requests, 2 faults | `TokenReuse`, `NoMisroute`, `FriendsLearn`, `EquipFollows`, `LobbyIsLimited` | logins and logouts that overlap: whose connection is found, what friends are told, what stays behind |
| `MCDbPool_early` | 4 threads, 3 connections, early requests, failing init | `TypeOK`, `NoSharing`, `LostWhenEmpty` | permits stay in range, connections are not shared, and the one way to lose a permit |
| `MCDbPool_live` | 4 threads, 3 connections, init first | `PoolBacksPermits`, `SomebodyServed` | a permit means a connection; requests keep being served |
| `MCFriend_rows` | 3 users, 3 workers | `TypeOK`, `Paired`, `FriendsStay` | rows agree, friendships end by removal only |
| `MCConnIO_all` | 2 workers, 2 pushers, 3 sockets, 3 messages | `TypeOK`, `Accounted`, `OneLife`, `WaitingLeave` | the send counter over resets, what keeps an object in use, whether messages leave |
| `MCIngest_all` | buffer of 5 bytes, packets of 2 or 3, receives of at most 4, 3 packets, 2 clients, 2 threads | `TypeOK`, `ReadsBacked`, `IsByteQueue`, `HandledAsSent`, `ArrivedIsHandled` | the stream through buffer and threads |
| `MCLifecycle_all` | 2 workers, 2 threads, 2 objects of which number 0 is skipped, life of 3 intervals, 2 clients, 2 packets, 2 pool connections, 1 failing call | `TypeOK`, `NoPacketBeforeHandlers`, `UnsetWhileStarting`, `NoNewWorkAfterJoin`, `StopEnds`, `ListedWhileServing` | what runs before it may and after it may, that a stop ends, and when the server is listed |

### Bounds

*Parties.* Three users are what a leave needs to tell a kept party from a dissolved one,
and a kick its bystander; in `MCParty_one` pk 0 is a fourth who can join, be kept out, lead, and be
left as the last member, and whoever comes last finds the party of three full (the code's limit is 4). Two users online at a time are enough there, since a request has
one sender and the others are members whether online or not; `MCParty_two` has up to
four sessions. Two parties are what a user needs to leave one for another. Object 0 is
always among the objects, because an absent user is found there. One waiting message per
channel already lets any request happen between a publication and its handling; it does
leave out two messages that wait together, and the theorems do not. `MCParty_one` and
`MCParty_two` leave second logins, expiry and self requests out to stay small, so that the
exemption of a leader who kicks itself in `LeaderStaysMember` is not exercised;
`MCParty_churn` has them for two users, and there checks `PartyPointsHome`, which is also
proved for every instance.

*Threads.* In `MCPartyThreads_all` two threads make every race of two commands possible, the
third request comes after or between them and can be the login that repairs; with
parties of two, the third member is the one too many and the fourth user the
one who must not get in as well. A third request can also be the login that takes over the object
of a user who has gone under a request. 3 171 331 states.
`MCSession_all` needs two connections to reuse an object, two workers to log one out twice, two requests
to log two users in, on one object or on two, or one user twice, and two tokens
for that. Two faults are a connection that ends and its second failed completion, which comes late, or a
late one and a failing call; a used token that is presented again counts as one too.
1 943 000 states.

*Bytes.* A buffer of 5 and packets of 2 and 3 wrap at different places, fill the array exactly and
overfill it; a receive of 4 holds one packet and a part of the next. 950 244 states.
*Connection.* Three sockets let a completion of a closed one arrive after its object got a
new client, twice. 69 010 states. *Lifecycle.* The skipped object comes first, so that one which is not
skipped is never the first of the loop; two packets are what a thread needs to have one in hand while
one is queued, and two pool connections what init needs to fail in between and leave
threads with too few permits, or with none. 324 994 states.

Deadlock is checked except where the bounded system really comes to an end: in
`MCDbPool_early` lost permits leave every thread waiting; in `MCPartyThreads_all`,
`MCSession_all`, `MCConnIO_all` and `MCIngest_all` requests, connections and messages are
bounded; in `MCLifecycle_all` the server stops.

## 4. Fairness

* `DbPool`: `WF(Open)`, the loop of `init` runs to its end; `WF(Step(t))` for every thread, since the
  operating system runs a thread that can go on, and a call on a connection returns.
  None for `Call`: nobody has to ask for anything. A thread waiting in `acquire` may be
  overtaken for ever, because `std::counting_semaphore` promises no order, so that
  `SomebodyServed` says that *some* waiting thread gets on.
* `ConnIO`: every worker and every pusher goes on with what it has in hand, and a send that is under way
  completes, well or not. No receive has to complete, and no client has to connect.
* `Ingest`: the worker finishes what it has begun; every Redis thread runs (its loop polls, so a
  queued size is always found). The client does not have to send, nor the network to deliver.
* `Lifecycle`: the steps of `main`, workers, Redis threads and heartbeat go on, `consume`
  returns at its timeout, and time passes. A request that has a connection comes back; one that waits for a
  permit comes back when there is one, and never if all are lost (weak fairness asks nothing of a
  disabled step). `StopEnds` names that as an outcome, `Starved`. Nobody has to type E, connect, send or
  disconnect; that a call fails is never forced.

The other modules state none, and no liveness property.

## 5. Theorems

Every invariant and every action property that a passing run checks is also proved, for
every value of the constants: any number of users, servers, threads, objects, connections
and messages, any size of buffer, party and counter. What TLC alone checks are the liveness
properties (`SomebodyServed`, `WaitingLeave`, `ArrivedIsHandled`, `StopEnds`,
`ListedWhileServing`), because fairness is out of the prover's reach.

The proofs assume what the modules state of their constants, by name: `PartyAssumption`,
`PartyThreadsAssumption`, `SessionAssumption`, `PoolAssumption`, `FriendAssumption`,
`ConnIOAssumption`, `BufferAssumption`, `IngestAssumption`, `LifecycleAssumption`. They say that
sets of threads, users and objects are finite, that bounds and sizes are positive, and that the
names for "none" are not members. TLC evaluates each on a run.

| Theorem | States | Argument |
|---|---|---|
| `TypeCorrect` | `Party!TypeOK` | inductive as it stands; one lemma each for narrowing an id, publishing, leaving and admitting |
| `PointsHome` | `PartyPointsHome` | with `TypeOK` and `Capacity` as one invariant: a leave clears the key of everybody it drops, an admission adds to the set whoever's key it sets |
| `NeverOverfull` | `Capacity` | same invariant; sets shrink, or grow by one below the limit |
| `LeadersHandOver`, `LeadersStay`, `PartiesStayLed` | `LeaderHandsOver`, `LeaderStaysMember`, `LedUnlessRejoined` | by cases on the request, from what a leave and an admission make of one party (`LeaveOutcome`, `AdmitOutcome`) |
| `DroppedUsersAreTold` | `DroppedAreTold` | a message for whoever a leave or kick drops is the last of that user's channel (`LeaveTells`, `LastSent`) |
| `PartyThreadsTypes` | `PartyThreads!TypeOK` | see below |
| `OverbookingIsBounded` | `Overbooked` | members of a party and threads about to add one are counted together |
| `UndefinedOnlyByOverlap`, `CalmLoginRepairs`, `CalmOpeningIsIdle` | `UndefinedNeedsOverlap`, `LoginRepairs`, `OpensForIdleHost` | what a request that was never overlapped knows of the registry |
| `SessionTypes` | types, and what a request in hand names | one lemma for each way in which a thread or a logout goes on |
| `TokenReuseIsBounded` | `TokenReuse` | uses of a token and threads that may still use it share one budget |
| `MapLeadsToUser`, `FriendsAreTold`, `CostumesAgree`, `LobbyEnds` | `NoMisroute`, `FriendsLearn`, `EquipFollows`, `LobbyIsLimited` | one invariant of six parts, see below |
| `PoolTypeCorrect`, `ConnectionsNotShared`, `PermitMeansConnection` | `TypeOK`, `NoSharing`, `PoolBacksPermits` | one inductive invariant, see below |
| `PermitLostWhenEmpty` | `LostWhenEmpty` | from that invariant: every other step moves a thread between places that are counted alike, or moves a permit with it |
| `FriendTypeCorrect`, `RelationsPaired` | `TypeOK`, `Paired` | `TypeOK /\ Paired` is inductive |
| `FriendshipLasts` | `FriendsStay` | from the same invariant, by cases on the action |
| `ConnIOTypes`, `CounterAccounts` | `TypeOK`, `Accounted` | inductive together; the lemma `Wraps` carries remainders over an increment and a decrement |
| `ObjectHasOneLife` | `OneLife` | each completion takes one operation away and gives one worker the life, or the reverse |
| `BufferIsQueue` | `CircularBuffer`'s `BufferSpec` implements `ByteQueue` | step simulation under the mapping `Contents`, see below |
| `PipelineIsByteQueue` | `IsByteQueue` of `Ingest` | every step of worker and threads is a step of the buffer or leaves it alone (`BufferMoves`) |
| `IngestTypes`, `ReadsAreBacked`, `RequestsHandledAsSent` | `TypeOK`, `ReadsBacked`, `HandledAsSent` | see below |
| `LifecycleTypes` | `TypeOK` | each packet is counted in one place: queue, completions, hands of a worker |
| `HandlersComeFirst` | `NoPacketBeforeHandlers` | a packet is queued only by a worker that finds the `manager` (`Ready`; without it the process ends), and `main` sets the manager after it has filled the table (`Staged`) |
| `UnsetOnlyWhileStarting`, `NoWorkAfterJoin` | `UnsetWhileStarting`, `NoNewWorkAfterJoin` | the parts that exist are those whose stage `main` has passed; after the join every worker has ended |

### The inductive invariants, and why they are needed

*Party.* The second invariant needs the type invariant only for finiteness and for
the ranges of ids. The theorems on leaders add `Unopened`: a party whose id was not given out yet
has no leader; otherwise a new party might begin with one. `NeverOverfull` is about
handlers that do not overlap, as the module is. It does not say that the running program
never exceeds the limit: the check and the insertion are two Redis commands, and
`Overbooked` in `PartyThreads` is what is left of the limit then. `LeadersStay` is proved with
the exemption of a leader who kicks itself, which `MCParty_one` does not exercise.

*PartyThreads.* `Overbooked` is not inductive: between SCARD and SADD a thread holds the result
of a comparison that the set may have outgrown. `Booked` counts the threads between the two
commands with the members: at most `PartyCap + Cardinality(Workers) - 1` for each party. It starts
afresh when an id is handed out, so the invariant also says that such an id is `Fresh`
(nobody names it) and that a party without its first member is `Private` to the
thread that opens it. `Working` says what the local variables of a request are by the time
it needs them, and `Alone` what a `calm` request knows: it is the only one in hand, the member set it
is about to pick from is not empty, and the host it opens a party for has none. A user may go
under all of them: `Working` says that a request's `holder` is nobody or somebody online, and `Alone`
says of a login's session what it is only while its user is the holder.

*Session.* Six parts. `Shape`: types, and that a request names what its next commands use.
`TokenInv`: a token that is live was not used, and uses and threads between HGET and DEL are at
most as many as the threads. `Proven`: a login past its token belongs to a connection that
proved it, unless that connection is over. `Mapped`: an entry of the map is the user of
its object's session, and every logout that has begun there, by whatever worker, has read that
user's pk and has not yet removed the entry. This is what a second, late logout would break: one that
has read another pk, or none, is there already when the login sets its session (`Late`
marks the user), or begins later and then reads this pk. `ShownInv`: each user
whom friends still see online has a login, a session or a logout to answer for it. `EquipInv`: without overlap
at most one thread has a costume to copy, and it is the one in the database.

*DbPool.* `PoolBacksPermits` and `TypeOK` are not inductive by themselves. That `permits`
never exceeds the number of connections needs a bound: free permits, and
threads that hold one, together never exceed that number (permits lost through
`GetNothing` only lower it). That this sum and the length of the queue match needs
to know which connections exist: until `init` is done, some are neither queued nor
held. The invariant therefore counts connections and permits side by side, and says
that a thread has a connection exactly while it uses one and that, when no request
may come early, no thread has begun before `init` has returned.

*ConnIO.* `TypeOK /\ Accounted` is inductive. The counter is what waits, is under way, is
being completed or was lost, less what was pushed and not counted yet, modulo its width. The
sum may be more than the width and, for a moment, less than the counter, so the proof works with
quotient and remainder (`Division`, `Wraps`).

*CircularBuffer.* `BufferIsQueue` says that every `Write` is a `PutAll` and every `Read` a
`TakeFront` of the abstract queue, for every size of the array. The invariant it needs ties
the positions together: `writePos` is `readPos + currentSize` modulo the size. A write
changes no cell that holds content (`WriteAppends`) and puts its bytes behind it (`WriteEnds`),
and what `Read` copies, in one piece or two, is the front of the content
(`FirstBytesAreFront`); all come down to one lemma on indices that wrap (`Wrap`).

*Ingest.* `ReadsBacked` and the buffer's invariant carry each other: a size in hand is never
larger than the content, because sizes and content are counted byte by byte (`Queued`, `Popped`
are sets of bytes, and `QueueAppend`, `QueueTail`, `HandLess` move a size from one to the other).
`HandledAsSent` needs more than counts. `Undisturbed` says of a calm state that at most one
thread is at work, that `due` is what this thread has, what is queued and what
the worker has, in this order, that each size is the length of its entry, and that the
content of the buffer is these entries one behind the other (`Stored`: there are offsets at
which they lie, see `Places`). Each step changes the offsets in its own way: a receive adds one, a
write fills it, a read shifts them all, a handler drops the first
(`PlacesAppend`, `PlacesWrite`, `PlacesRead`, `PlacesTail`).

*Lifecycle.* `Staged` says for each part whether `main` has passed the stage at which it comes
into being, and which objects the accepters have by then. `Backed` says that a connection, a
receive or a completion is about one of these, and `Counted` that a packet is in one place at
most. `NoPacketBeforeHandlers` and the bound on the queue follow only from the three together.

## 6. Where code and comments disagree, and what is true of the code only with exceptions

`MCParty_kept` has a counterexample: a leave from a party that lives on is announced with
`newLeaderPk` 0 when the leader stays, and `SendPartyLeaveToUser`
(`RedisManager.cpp:1374`) takes 0 for a dissolved party: the remaining members' sessions
forget the party.

The modules have the following as the code has them, without a run of their own; the property in
brackets says how far they reach. Where a property excepts what the hazard itself brings about, it is
not listed for that hazard: `hazards` then has no property and a note that says which
property limits the case (the races of two follows and of a login with a kick, object 0, the process that ends
between HSET and EXPIRE, the full buffer, the late use of MySQL, the subscriber that is gone).

* `ProcessPartyInviteAccept` reads the inviter's party (`RedisManager.cpp:544`) and then leaves
  its own (`:552`). If both are one party of two, it is dissolved, and the user is added to a party
  without a leader (`LedUnlessRejoined`: in no other way).
* An absent user is object 0 (`ConnUsersManager.cpp:24`): what is meant for a user of
  another server reaches the session on object 0.
* A host on another server does not learn that it has a party, and may enter a second one
  (`RedisManager.cpp:365`).
* A party may get one member too many for every further thread (`Overbooked`), and the code
  then writes past an array of four (`UndefinedNeedsOverlap`).
* A query that finds no connection returns before there is an `AutoConn` to give the permit back
  (`MySQLManager.cpp:54`; `LostWhenEmpty`: in no other way).
* The sender of a friend request can accept it (`MySQLManager.cpp:175`).
* Two threads that push to one connection at once may leave its queue without a send, and a failed
  send never counts down, also for the object's next client (`WaitingLeave`: in no other way).
* A failed send next to a pending receive gives the object two lives: it is reset twice and queued for accept
  twice; a receive that cannot be posted again takes its life (`OneLife`).
* A size is no frame: a receive that brings more or less than one packet, or two threads at one
  connection, upset what is handled (`HandledAsSent`: nothing else does).
* `UserDisConnect` and `Reset` run once for every failed completion (`OutGameLobbyServer.cpp:181`), and
  a late one hits the object's next client: if its pk is read before that client's login and `Reset` comes
  after it, the session loses its pk, the map keeps the entry, friends are not told at the end; a
  request that was queued by a connection that is over logs its user in on an object nobody
  will log out for that user. `NoMisroute` and `FriendsLearn` except these users by name
  (a login carried out when its connection was over, or while a worker was at its object) and hold for
  everybody else, over all other late logouts.
* The pk of an object is not initialized (`ConnUser.h:292`), so a first, refused connection may log
  anybody out. `Session` has it. In `Party` and `PartyThreads` a fresh object has pk 0; what a request
  under a foreign pk does to the registry is what a request of that user on another session does
  (`MCParty_churn` has second sessions).
* A connection without a login can follow, accept, be a member with pk 0 and lead. As pk 0 also stands
  for "no new leader" (`RedisManager.cpp:1374`), a party that passes to pk 0 is taken for a dissolved one by
  the members' sessions. `Party` has it, and the properties on leaders hold for pk 0 too.
* When every permit is lost, which is what becomes of a server whose `MySQLManager::init` failed, threads wait in
  `acquire` for good, and `~RedisManager` waits for them (`Starved` in `StopEnds`).
* A request that is still running when ~MySQLManager has run uses it (`fate` "late").
  `NoNewWorkAfterJoin` says which requests these can be, not that there are none.
* A token can be used once by every thread (`TokenReuse`); a login that fails late has been announced
  already (`FriendsLearn`).
* No code sends the notice of a costume change to the party (`RedisManager.cpp:852`), the
  published user count never changes (`LobbyHeartbeat.cpp:20`), and the subscriber is not started
  again after an error (`LobbyRedisSubscriber.cpp:48`).

## 7. Not modelled, and the plan

Not modelled, with the reason:

* The pool of overlapped structures: no step depends on it (section 2, `ConnIO`).
* Friend notices to other servers and the friend cache of a session: the cache is written
  and never read. What friends were last told is in `Session`.
* The search for a user and its answer, and log lines: they change no
  state.
* In `PartyThreads`, a party that a request in hand leaves on an object after its user has gone: the next
  login there overwrites it at the end of its lookup, and the model does so at the beginning.
* COMMIT results: nobody looks at them, and the models take a COMMIT to succeed.
* Wire formats and configuration: declarations only.
* The Windows, Redis and MySQL libraries: external, modelled by how the code uses them. What two
  unsynchronised operations on a `std::queue` or `std::unordered_set` do is undefined and is
  not modelled beyond the interleaving of whole operations.

Next:

1. `Ingest` without `calm`: which bytes a handler sees when two threads are at one connection is
   described by no property yet; the invariant to start from is `Stored` without the order of `due`.
2. Abstract specifications of the registry and of the pool (a set of parties that are led, a set of
   connections that are lent), implemented by `Party` and `DbPool` in the states where nobody rejoins
   and no permit is lost.
