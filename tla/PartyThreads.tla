---------------------------- MODULE PartyThreads ----------------------------
(***************************************************************************)
(* The party requests of module Party, command by command: the Redis       *)
(* threads of a server run handlers at the same time, each handler is a    *)
(* sequence of Redis commands, and any command may fail.                   *)
(*                                                                         *)
(* A step is one Redis command together with the handler's work on         *)
(* sessions up to the next one.  Each user who is online has one session,  *)
(* and notices are kept only as far as they reset sessions.                *)
(***************************************************************************)
EXTENDS Integers, Sequences, FiniteSets

CONSTANTS
  Users,
  Workers,      \* the Redis threads
  NoUser,
  PartyCap,     \* most members of a party; 4 in the code
  MaxParty,     \* bound: parties ever created
  MaxRequests,  \* bound: requests ever taken
  MaxErrors,    \* bound: Redis commands that fail
  IdleGo        \* whether users go who have no party and no request in hand

ASSUME PartyThreadsAssumption ==
  /\ IsFiniteSet(Users) /\ IsFiniteSet(Workers)
  /\ NoUser \notin Users
  /\ PartyCap \in Nat \ {0}
  /\ {MaxParty, MaxRequests, MaxErrors} \subseteq Nat
  /\ IdleGo \in BOOLEAN

VARIABLES
  counter,    \* party:counter
  members,    \* party:{id}:members
  leader,     \* party:{id}:leader, NoUser when absent
  userParty,  \* user:{pk}.partyId, 0 when absent
  online,     \* users with a session
  cached,     \* ConnUser::partyId of a user's session
  notices,    \* whose sessions the published messages reset, in order
  worker,     \* the request each thread is at
  taken,      \* requests taken so far
  errors      \* commands that have failed

registry == <<counter, members, leader, userParty>>

session == <<online, cached>>

vars == <<registry, session, notices, worker, taken, errors>>

PartyIds == 1 .. MaxParty

\* at is the command the thread runs next; p is the party it works on and known
\* the host's party as it was read.  A request that comes back to the session of its
\* connection object finds holder's there, which need not be that of me any more.
\* calm: nobody else has been at a request since this one was taken, and no notice
\* reset this user's session.
Idle == [at |-> "idle", req |-> "none", me |-> NoUser, holder |-> NoUser,
         other |-> NoUser, p |-> 0, known |-> 0, heir |-> NoUser, calm |-> TRUE]

----------------------------------------------------------------------------
(* Steps of a thread *)

Becomes(w, x) == worker' = [worker EXCEPT ![w] = x]

Goes(w, at) == Becomes(w, [worker[w] EXCEPT !.at = at])

\* SetPartyId on the sessions of those of U who are online.
SetPartyId(U, p) ==
  cached' = [u \in Users |-> IF u \in U \cap online THEN p ELSE cached[u]]

\* Requests that use their connection object again after their first command.
Returning == {"join", "accept", "connect"}

\* A thread takes a request and is about to run command at; the others are at ws.
BeginBeside(ws, w, req, me, other, at, p) ==
  /\ worker[w] = Idle
  /\ taken < MaxRequests
  /\ taken' = taken + 1
  /\ worker' =
       [v \in Workers |->
          IF v = w
          THEN [Idle EXCEPT !.at = at, !.req = req, !.me = me,
                            !.holder = IF req \in Returning THEN me ELSE NoUser,
                            !.other = other, !.p = p,
                            !.calm = \A u \in Workers : worker[u] = Idle]
          ELSE [ws[v] EXCEPT !.calm = ws[v] = Idle]]

Begin(w, req, me, other, at, p) == BeginBeside(worker, w, req, me, other, at, p)

\* The thread runs command at, which is no more than the change of the registry.
Command(w, at) ==
  /\ worker[w].at = at
  /\ UNCHANGED <<online, taken, errors>>

----------------------------------------------------------------------------
(* Requests that join a party: ProcessPartyFollow, ProcessPartyInviteAccept *)

\* Mutant: a party is opened in any case.
JoiningFresh(x) == [x EXCEPT !.req = "join", !.at = "incr", !.known = 0, !.heir = NoUser]

\* The join begins: with a new party when the host has none.
Joining(x) ==
  IF x.known = 0
  THEN [x EXCEPT !.req = "join", !.at = "incr", !.p = 0, !.heir = NoUser]
  ELSE [x EXCEPT !.req = "join", !.at = "scard", !.p = x.known, !.known = 0,
                 !.heir = NoUser, !.other = NoUser]

Follow(w, me, host) ==
  /\ me \in online /\ cached[me] = 0
  /\ Begin(w, "join", me, host, "hget", 0)
  /\ UNCHANGED <<registry, session, notices, errors>>

InviteAccept(w, me, host) ==
  /\ me \in online
  /\ Begin(w, "accept", me, host, "hget", 0)
  /\ UNCHANGED <<registry, session, notices, errors>>

\* The party in the session that the request's object has now.
CachedParty(x) == IF x.holder = NoUser THEN 0 ELSE cached[x.holder]

\* HGET of the host's partyId; an accepting user with a party then leaves it.
ReadHost(w) ==
  LET x == [worker[w] EXCEPT !.known = userParty[worker[w].other]]
  IN /\ Command(w, "hget")
     /\ Becomes(w, IF x.req = "accept" /\ CachedParty(x) # 0
                   THEN [x EXCEPT !.at = "srem", !.p = CachedParty(x)]
                   ELSE Joining(x))
     /\ UNCHANGED <<registry, cached, notices>>

\* INCR party:counter
OpenParty(w) ==
  /\ Command(w, "incr")
  /\ counter < MaxParty
  /\ counter' = counter + 1
  /\ Becomes(w, [worker[w] EXCEPT !.at = "saddHost", !.p = counter'])
  /\ UNCHANGED <<members, leader, userParty, cached, notices>>

\* SADD of the host, SET of the leader, HSET of the host's partyId.
OpenMembers(w) ==
  /\ Command(w, "saddHost")
  /\ members' = [members EXCEPT ![worker[w].p] = @ \cup {worker[w].other}]
  /\ Goes(w, "setHost")
  /\ UNCHANGED <<counter, leader, userParty, cached, notices>>

\* Mutant: the party's id is stored in place of the host.
OpenLeaderSwapped(w) ==
  /\ Command(w, "setHost")
  /\ leader' = [leader EXCEPT ![worker[w].p] = worker[w].p]
  /\ Goes(w, "hsetHost")
  /\ UNCHANGED <<counter, members, userParty, cached, notices>>

OpenLeader(w) ==
  /\ Command(w, "setHost")
  /\ leader' = [leader EXCEPT ![worker[w].p] = worker[w].other]
  /\ Goes(w, "hsetHost")
  /\ UNCHANGED <<counter, members, userParty, cached, notices>>

OpenKey(w) ==
  /\ Command(w, "hsetHost")
  /\ userParty' = [userParty EXCEPT ![worker[w].other] = worker[w].p]
  /\ SetPartyId({worker[w].other}, worker[w].p)
  /\ Becomes(w, [worker[w] EXCEPT !.at = "scard", !.other = NoUser])
  /\ UNCHANGED <<counter, members, leader, notices>>

\* Mutant: SCARD <= 4.
HasSeatPlusOne(p) == Cardinality(members[p]) <= PartyCap

HasSeat(p) == Cardinality(members[p]) < PartyCap

\* SCARD: a full party ends the request.
CountSeats(w) ==
  /\ Command(w, "scard")
  /\ IF HasSeat(worker[w].p) THEN Goes(w, "sadd") ELSE Becomes(w, Idle)
  /\ UNCHANGED <<registry, cached, notices>>

TakeSeat(w) ==
  /\ Command(w, "sadd")
  /\ members' = [members EXCEPT ![worker[w].p] = @ \cup {worker[w].me}]
  /\ Goes(w, "hset")
  /\ UNCHANGED <<counter, leader, userParty, cached, notices>>

JoinKey(w) ==
  /\ Command(w, "hset")
  /\ userParty' = [userParty EXCEPT ![worker[w].me] = worker[w].p]
  /\ SetPartyId({worker[w].holder}, worker[w].p)
  /\ Becomes(w, [worker[w] EXCEPT !.at = "info", !.holder = NoUser])
  /\ UNCHANGED <<counter, members, leader, notices>>

\* SendPartyInfo: one element per member is written into an array of PartyCap.
SendPartyInfo(w) ==
  LET x == worker[w]
  IN /\ Command(w, "info")
     /\ \/ Becomes(w, IF x.req = "connect" THEN [x EXCEPT !.at = "state"] ELSE Idle)
        \/ Cardinality(members[x.p]) > PartyCap /\ Goes(w, "undefined")
     /\ UNCHANGED <<registry, cached, notices>>

\* ProcessPartyInvite of a user with a party: SCARD for the check, and later, with a
\* free seat, SCARD for the message.
Invite(w, me) ==
  /\ me \in online /\ cached[me] # 0
  /\ Begin(w, "invite", me, NoUser, "scardInvite", cached[me])
  /\ UNCHANGED <<registry, session, notices, errors>>

CountInvite(w) ==
  /\ Command(w, "scardInvite")
  /\ \/ HasSeat(worker[w].p) /\ UNCHANGED worker
     \/ Becomes(w, Idle)
  /\ UNCHANGED <<registry, cached, notices>>

----------------------------------------------------------------------------
(* LeavePartyInternal *)

Leave(w, me) ==
  /\ me \in online /\ cached[me] # 0
  /\ Begin(w, "leave", me, NoUser, "srem", cached[me])
  /\ UNCHANGED <<registry, session, notices, errors>>

\* Where a request goes on after LeavePartyInternal.
Left(x) == IF x.req = "accept" THEN Joining(x) ELSE Idle

LeaveMembers(w) ==
  /\ Command(w, "srem")
  /\ members' = [members EXCEPT ![worker[w].p] = @ \ {worker[w].me}]
  /\ SetPartyId({worker[w].me}, 0)
  /\ Goes(w, "hsetLeaver")
  /\ UNCHANGED <<counter, leader, userParty, notices>>

LeaveKey(w) ==
  /\ Command(w, "hsetLeaver")
  /\ userParty' = [userParty EXCEPT ![worker[w].me] = 0]
  /\ Goes(w, "scardRest")
  /\ UNCHANGED <<counter, members, leader, cached, notices>>

\* Mutant: nobody left and one member left are treated alike.
CountRestOne(w) ==
  /\ Command(w, "scardRest")
  /\ Goes(w, IF Cardinality(members[worker[w].p]) <= 1 THEN "tellLast" ELSE "getLeader")
  /\ UNCHANGED <<registry, cached, notices>>

CountRest(w) ==
  LET rest == Cardinality(members[worker[w].p])
  IN /\ Command(w, "scardRest")
     /\ Goes(w, IF rest = 0 THEN "delMembers"
                ELSE IF rest = 1 THEN "tellLast" ELSE "getLeader")
     /\ UNCHANGED <<registry, cached, notices>>

\* NotifyPartyLeave to whoever is a member now; without a new leader the sessions
\* of those users are reset.
NotifyPartyLeave(w) ==
  LET x    == worker[w]
      told == IF x.heir = NoUser THEN members[x.p] ELSE {}
  IN /\ \/ Command(w, "tellLast") /\ Goes(w, "smembersLast")
        \/ Command(w, "tellRest") /\ Becomes(w, Left(x))
     /\ notices' = IF told = {} THEN notices ELSE Append(notices, told)
     /\ UNCHANGED <<registry, cached>>

\* SMEMBERS, of which the first element is taken, whether there is one or not.
FirstMember(w, at, next) ==
  /\ Command(w, at)
  /\ \/ \E u \in members[worker[w].p] :
          Becomes(w, [worker[w] EXCEPT !.at = next, !.heir = u])
     \/ members[worker[w].p] = {} /\ Goes(w, "undefined")

LastMember(w) ==
  /\ FirstMember(w, "smembersLast", "hsetLast")
  /\ SetPartyId({worker'[w].heir}, 0)
  /\ UNCHANGED <<registry, notices>>

LastKey(w) ==
  /\ Command(w, "hsetLast")
  /\ userParty' = [userParty EXCEPT ![worker[w].heir] = 0]
  /\ Goes(w, "delMembers")
  /\ UNCHANGED <<counter, members, leader, cached, notices>>

DissolveMembers(w) ==
  /\ Command(w, "delMembers")
  /\ members' = [members EXCEPT ![worker[w].p] = {}]
  /\ Goes(w, "delLeader")
  /\ UNCHANGED <<counter, leader, userParty, cached, notices>>

DissolveLeader(w) ==
  /\ Command(w, "delLeader")
  /\ leader' = [leader EXCEPT ![worker[w].p] = NoUser]
  /\ Becomes(w, Left(worker[w]))
  /\ UNCHANGED <<counter, members, userParty, cached, notices>>

CheckSuccession(w) ==
  /\ Command(w, "getLeader")
  /\ Goes(w, IF leader[worker[w].p] = worker[w].me THEN "smembersHeir" ELSE "tellRest")
  /\ UNCHANGED <<registry, cached, notices>>

ChooseHeir(w) ==
  /\ FirstMember(w, "smembersHeir", "setHeir")
  /\ UNCHANGED <<registry, cached, notices>>

Succeed(w) ==
  /\ Command(w, "setHeir")
  /\ leader' = [leader EXCEPT ![worker[w].p] = worker[w].heir]
  /\ Goes(w, "tellRest")
  /\ UNCHANGED <<counter, members, userParty, cached, notices>>

----------------------------------------------------------------------------
(* ProcessPartyKick, ProcessPartyDelegate *)

Kick(w, me, target) ==
  /\ me \in online /\ cached[me] # 0
  /\ Begin(w, "kick", me, target, "isLeader", cached[me])
  /\ UNCHANGED <<registry, session, notices, errors>>

Delegate(w, me, target) ==
  /\ me \in online /\ cached[me] # 0
  /\ Begin(w, "delegate", me, target, "isLeader", cached[me])
  /\ UNCHANGED <<registry, session, notices, errors>>

IsPartyLeader(w) ==
  /\ Command(w, "isLeader")
  /\ IF leader[worker[w].p] = worker[w].me THEN Goes(w, "sismember")
                                           ELSE Becomes(w, Idle)
  /\ UNCHANGED <<registry, cached, notices>>

IsMember(w) ==
  /\ Command(w, "sismember")
  /\ IF worker[w].other \notin members[worker[w].p] THEN Becomes(w, Idle)
     ELSE Goes(w, IF worker[w].req = "kick" THEN "sremTarget" ELSE "setTarget")
  /\ UNCHANGED <<registry, cached, notices>>

KickMember(w) ==
  /\ Command(w, "sremTarget")
  /\ members' = [members EXCEPT ![worker[w].p] = @ \ {worker[w].other}]
  /\ Goes(w, "hsetTarget")
  /\ UNCHANGED <<counter, leader, userParty, cached, notices>>

KickKey(w) ==
  /\ Command(w, "hsetTarget")
  /\ userParty' = [userParty EXCEPT ![worker[w].other] = 0]
  /\ SetPartyId({worker[w].other}, 0)
  /\ Goes(w, "tellKick")
  /\ UNCHANGED <<counter, members, leader, notices>>

NotifyPartyKick(w) ==
  /\ Command(w, "tellKick")
  /\ notices' = Append(notices, {worker[w].other})
  /\ Becomes(w, Idle)
  /\ UNCHANGED <<registry, cached>>

HandOver(w) ==
  /\ Command(w, "setTarget")
  /\ leader' = [leader EXCEPT ![worker[w].p] = worker[w].other]
  /\ Becomes(w, Idle)
  /\ UNCHANGED <<counter, members, userParty, cached, notices>>

----------------------------------------------------------------------------
(* UserConnect, from where the new session has its pk. *)

\* The object of the new session may be the one of a user who has gone, with requests
\* still in hand.
Reused(before, me) ==
  [v \in Workers |->
     IF /\ worker[v].req \in Returning /\ worker[v].at # "info"
        /\ worker[v].me = before /\ worker[v].holder = NoUser
     THEN [worker[v] EXCEPT !.holder = me] ELSE worker[v]]

Connect(w, me) ==
  /\ me \notin online
  /\ \E before \in Users \cup {NoUser} :
       BeginBeside(Reused(before, me), w, "connect", me, NoUser, "hgetParty", 0)
  /\ online' = online \cup {me}
  /\ cached' = [cached EXCEPT ![me] = 0]
  /\ UNCHANGED <<registry, notices, errors>>

ReadParty(w) ==
  LET p == userParty[worker[w].me]
  IN /\ Command(w, "hgetParty")
     /\ \/ p = 0 /\ Goes(w, "state") /\ SetPartyId({worker[w].holder}, 0)
        \/ /\ p # 0
           /\ Becomes(w, [worker[w] EXCEPT !.at = "stillMember", !.p = p])
           /\ UNCHANGED cached
     /\ UNCHANGED <<registry, notices>>

StillMember(w) ==
  LET x == worker[w]
  IN /\ Command(w, "stillMember")
     /\ \/ /\ x.me \in members[x.p]
           /\ SetPartyId({x.holder}, x.p)
           /\ Goes(w, "info")
        \/ /\ x.me \notin members[x.p]
           /\ Becomes(w, [x EXCEPT !.at = "forget", !.p = 0])
           /\ UNCHANGED cached
     /\ UNCHANGED <<registry, notices>>

ForgetParty(w) ==
  /\ Command(w, "forget")
  /\ userParty' = [userParty EXCEPT ![worker[w].me] = 0]
  /\ SetPartyId({worker[w].holder}, 0)
  /\ Goes(w, "state")
  /\ UNCHANGED <<counter, members, leader, notices>>

\* Mutant: the state is stored without the partyId.
StoreStateOnly(w) ==
  /\ Command(w, "state")
  /\ Becomes(w, Idle)
  /\ UNCHANGED <<registry, cached, notices>>

\* HSET of the user's state, with the party as it was read.
StoreState(w) ==
  /\ Command(w, "state")
  /\ userParty' = [userParty EXCEPT ![worker[w].me] = worker[w].p]
  /\ Becomes(w, Idle)
  /\ UNCHANGED <<counter, members, leader, cached, notices>>

\* A user goes, at any point of the requests in hand (UserDisConnect and Reset, on an
\* IOCP worker).
Disconnect(u) ==
  /\ u \in online
  /\ IdleGo \/ cached[u] # 0 \/ \E w \in Workers : worker[w].me = u
  /\ online' = online \ {u}
  /\ cached' = [cached EXCEPT ![u] = 0]
  /\ worker' = [w \in Workers |->
                  IF worker[w].holder = u
                  THEN [worker[w] EXCEPT !.holder = NoUser] ELSE worker[w]]
  /\ UNCHANGED <<registry, notices, taken, errors>>

\* The subscriber thread resets sessions.
Deliver ==
  /\ notices # <<>>
  /\ notices' = Tail(notices)
  /\ SetPartyId(Head(notices), 0)
  /\ worker' = [w \in Workers |->
                  IF worker[w].me \in Head(notices) THEN [worker[w] EXCEPT !.calm = FALSE]
                                                    ELSE worker[w]]
  /\ UNCHANGED <<registry, online, taken, errors>>

----------------------------------------------------------------------------
(* Failing commands *)

\* Commands whose failure the notifying functions swallow.
Tells == {"tellLast", "tellRest", "tellKick", "info"}

\* Commands of a login whose failure leaves it without a party.
Lookups == {"hgetParty", "stillMember", "forget"}

\* Commands outside every try block: their failure ends the process.
Unguarded(x) ==
  x.at \in {"state", "scardInvite"} \/ (x.at = "hget" /\ x.req = "accept")

\* What a swallowed failure of command x.at goes on with.
Resumed(x) ==
  IF x.at = "tellLast" THEN [x EXCEPT !.at = "smembersLast"]
  ELSE IF x.at = "tellRest" THEN Left(x)
  ELSE IF x.at = "info" /\ x.req = "connect" THEN [x EXCEPT !.at = "state"]
  ELSE Idle

Error ==
  /\ errors < MaxErrors
  /\ errors' = errors + 1
  /\ UNCHANGED <<registry, online, notices, taken>>

\* Anywhere else the handler's catch answers the client, and what was done stays.
CommandFails(w) ==
  LET x == worker[w]
  IN /\ Error
     /\ x.at \notin {"idle", "undefined"} /\ ~Unguarded(x)
     /\ \/ /\ x.at \in Lookups
           /\ Becomes(w, [x EXCEPT !.at = "state", !.p = 0])
           /\ SetPartyId({x.holder}, 0)
        \/ x.at \in Tells /\ Becomes(w, Resumed(x)) /\ UNCHANGED cached
        \/ x.at \notin Lookups \cup Tells /\ Becomes(w, Idle) /\ UNCHANGED cached

\* The process ends and is started again; notices to it are lost.
Crash ==
  /\ \/ /\ \E w \in Workers : Unguarded(worker[w])
        /\ errors < MaxErrors
        /\ errors' = errors + 1
     \/ /\ \E w \in Workers : worker[w].at = "undefined"
        /\ UNCHANGED errors
  /\ online' = {}
  /\ cached' = [u \in Users |-> 0]
  /\ notices' = <<>>
  /\ worker' = [w \in Workers |-> Idle]
  /\ UNCHANGED <<registry, taken>>

----------------------------------------------------------------------------

Init ==
  /\ counter = 0
  /\ members = [p \in PartyIds |-> {}]
  /\ leader = [p \in PartyIds |-> NoUser]
  /\ userParty = [u \in Users |-> 0]
  /\ online = Users
  /\ cached = [u \in Users |-> 0]
  /\ notices = <<>>
  /\ worker = [w \in Workers |-> Idle]
  /\ taken = 0
  /\ errors = 0

Take(w) ==
  \E me \in Users :
    \/ Leave(w, me) \/ Invite(w, me)
    \/ Connect(w, me)
    \/ \E other \in Users : \/ Follow(w, me, other)
                            \/ InviteAccept(w, me, other)
                            \/ Kick(w, me, other)
                            \/ Delegate(w, me, other)

Join(w) ==
  \/ ReadHost(w) \/ OpenParty(w) \/ OpenMembers(w) \/ OpenLeader(w) \/ OpenKey(w)
  \/ CountSeats(w) \/ TakeSeat(w) \/ JoinKey(w) \/ SendPartyInfo(w)
  \/ CountInvite(w)

LeavePartyInternal(w) ==
  \/ LeaveMembers(w) \/ LeaveKey(w) \/ CountRest(w) \/ NotifyPartyLeave(w)
  \/ LastMember(w) \/ LastKey(w) \/ DissolveMembers(w) \/ DissolveLeader(w)
  \/ CheckSuccession(w) \/ ChooseHeir(w) \/ Succeed(w)

Lead(w) ==
  \/ IsPartyLeader(w) \/ IsMember(w) \/ KickMember(w) \/ KickKey(w)
  \/ NotifyPartyKick(w) \/ HandOver(w)

LogIn(w) == ReadParty(w) \/ StillMember(w) \/ ForgetParty(w) \/ StoreState(w)

Next ==
  \/ \E w \in Workers :
       \/ Take(w)
       \/ Join(w) \/ LeavePartyInternal(w) \/ Lead(w) \/ LogIn(w)
       \/ CommandFails(w)
  \/ \E u \in Users : Disconnect(u)
  \/ Deliver
  \/ Crash

Spec == Init /\ [][Next]_vars

----------------------------------------------------------------------------
(* Properties *)

Places ==
  {"idle", "hget", "incr", "saddHost", "setHost", "hsetHost", "scard", "sadd", "hset",
   "srem", "hsetLeaver", "scardRest", "smembersLast", "hsetLast", "delMembers",
   "delLeader", "getLeader", "smembersHeir", "setHeir", "isLeader", "sismember",
   "sremTarget", "hsetTarget", "setTarget", "scardInvite",
   "state", "undefined"} \cup Tells \cup Lookups

Requests ==
  {"none", "join", "accept", "invite", "leave", "kick", "delegate", "connect"}

\* Every variable has its type.
TypeOK ==
  /\ counter \in 0 .. MaxParty
  /\ members \in [PartyIds -> SUBSET Users]
  /\ leader \in [PartyIds -> Users \cup {NoUser}]
  /\ userParty \in [Users -> 0 .. MaxParty]
  /\ online \subseteq Users
  /\ cached \in [Users -> 0 .. MaxParty]
  /\ notices \in Seq(SUBSET Users)
  /\ worker \in [Workers -> [at : Places, req : Requests, me : Users \cup {NoUser},
                             holder : Users \cup {NoUser},
                             other : Users \cup {NoUser}, p : 0 .. MaxParty,
                             known : 0 .. MaxParty, heir : Users \cup {NoUser},
                             calm : BOOLEAN]]
  /\ taken \in 0 .. MaxRequests /\ errors \in 0 .. MaxErrors

\* The check for a free seat and the SADD are two commands, so that a party may get
\* too many members; but never more than one too many for every further thread,
\* whatever else the threads do and whichever commands fail.
Overbooked ==
  \A p \in PartyIds : Cardinality(members[p]) <= PartyCap + Cardinality(Workers) - 1

\* LeavePartyInternal takes the first of an empty set, and SendPartyInfo writes past
\* its array, only when requests overlapped: in this very leave, or before, when the
\* party got too many members.
UndefinedNeedsOverlap ==
  \A w \in Workers :
    worker[w].at = "undefined" =>
      ~worker[w].calm \/ Cardinality(members[worker[w].p]) > PartyCap

\* A login that nothing comes in between repairs what failed commands left behind:
\* the key and the session, if its user is still there, name the same party, and its
\* member set holds the user.
LoginRepairs ==
  [][\A w \in Workers :
       StoreState(w) /\ worker[w].calm /\ worker[w].holder = worker[w].me =>
         LET u == worker[w].me
         IN /\ cached'[u] = userParty'[u]
            /\ userParty'[u] # 0 => u \in members'[userParty'[u]]]_vars

\* The host for whom a party is opened has none at that point, unless requests
\* overlapped (then a party that another thread opened for the host is orphaned).
OpensForIdleHost ==
  [][\A w \in Workers :
       OpenKey(w) /\ worker[w].calm => userParty[worker[w].other] = 0]_vars
=============================================================================
