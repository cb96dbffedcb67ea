------------------------------- MODULE Session -------------------------------
(***************************************************************************)
(* Logins, logouts and costumes of the users of one lobby server.  Logins  *)
(* and costume changes run on the Redis threads, a logout on the IOCP      *)
(* worker that sees an operation of the object fail: a receive, a send, an *)
(* accept, each on its own, so that several workers may log out one object *)
(* and one of them may come late, to the object's next connection.  A step *)
(* is one Redis command, pipeline or database call, with the session       *)
(* accesses that follow it; the two writes of a login are two steps.       *)
(*                                                                         *)
(* Tokens are issued by the login server, which is not part of src.        *)
(***************************************************************************)
EXTENDS Integers, FiniteSets

CONSTANTS
  Users,
  Objs,         \* connection objects
  Threads,      \* the Redis threads
  Workers,      \* the IOCP workers
  Tokens,       \* login tokens
  Items,        \* costumes, for one slot
  NoUser, NoObj, NoToken, NoItem,
  Unset,        \* what ConnUser::userPk holds before it is first written
  MaxConns,     \* bound: connections ever accepted
  MaxRequests,  \* bound: requests ever taken, except with used tokens
  MaxFaults     \* bound: commands, calls and socket operations that fail, keys that
                \* expire, used tokens that are presented again

ASSUME SessionAssumption ==
  /\ IsFiniteSet(Threads)
  /\ NoUser \notin Users /\ Unset \notin Users /\ NoObj \notin Objs /\ NoToken \notin Tokens
  /\ NoItem \notin Items
  /\ {MaxConns, MaxRequests, MaxFaults} \subseteq Nat

VARIABLES
  owner,     \* whom a token was issued for
  live,      \* tokens in the jwtcheck keys
  conn,      \* number of an object's connection, 0 when it waits for one
  lastConn,  \* connections accepted so far, by object
  leaving,   \* where the logout is that a worker is at, its object, the pk it has read
  pk,        \* ConnUser::userPk
  objNum,    \* pkToObjNum, NoObj for no entry
  state,     \* user:{pk}.state
  ttl,       \* whether user:{pk} has a time to live
  wears,     \* user_equip_slot
  equip,     \* user:{pk}:equip
  shown,     \* whom their friends were last told to be online
  job,       \* the request each Redis thread is at
  taken,     \* of these, so far
  faults,    \* of these, so far
  uses,      \* how many logins each token was accepted for
  proved,    \* users whose token an object's present connection has presented
  tainted,   \* users, see NoMisroute
  missed,    \* users, see FriendsLearn
  stale,     \* users, see EquipFollows
  unlimited  \* users, see LobbyIsLimited

redis == <<live, state, ttl, equip>>

session == <<conn, lastConn, pk, objNum, proved>>

marks == <<tainted, missed, stale, unlimited>>

ghosts == <<uses, marks>>

vars == <<redis, session, ghosts, owner, leaving, wears, shown, job, taken, faults>>

Idle == [at |-> "idle", obj |-> NoObj, user |-> NoUser, token |-> NoToken,
         item |-> NoItem, conn |-> 0]

Stays == [at |-> "no", obj |-> NoObj, user |-> NoUser]

\* Some worker has begun to log out and reset the object, and not ended.
Ending(o) == \E w \in Workers : leaving[w].at # "no" /\ leaving[w].obj = o

\* What may be read as the pk of an object: anything, as long as it is unset.
PkRead(o) == IF pk[o] = Unset THEN Users \cup {NoUser} ELSE {pk[o]}

\* A command, a call or a socket operation fails, a key expires, a token comes again.
Fault == faults < MaxFaults /\ faults' = faults + 1

----------------------------------------------------------------------------
(* The login server, and clients *)

\* (A token for which there is no request left within the bounds makes no difference.)
Issue(k, u) ==
  /\ owner[k] = NoUser
  /\ taken < MaxRequests
  /\ owner' = [owner EXCEPT ![k] = u]
  /\ live' = live \cup {k}
  /\ UNCHANGED <<session, ghosts, state, ttl, equip, leaving, wears, shown, job, taken,
                 faults>>

Accept(o) ==
  /\ conn[o] = 0
  /\ Cardinality({c \in Objs \X (1 .. MaxConns) : c[2] <= lastConn[c[1]]}) < MaxConns
  /\ lastConn' = [lastConn EXCEPT ![o] = @ + 1]
  /\ conn' = [conn EXCEPT ![o] = lastConn[o] + 1]
  /\ UNCHANGED <<redis, ghosts, pk, objNum, proved, owner, leaving, wears, shown, job,
                 taken, faults>>

\* A Redis thread takes a request that connection c of object o sent.  What is queued
\* names the object only and outlives the connection, so that c may be over, and the
\* object wait or have another connection.
Take(t, o, c, x) ==
  /\ c \in 1 .. lastConn[o]
  /\ job[t] = Idle
  /\ job' = [job EXCEPT ![t] = [x EXCEPT !.obj = o, !.conn = c]]
  /\ UNCHANGED <<redis, session, ghosts, owner, leaving, wears, shown>>

Counts == taken < MaxRequests /\ taken' = taken + 1 /\ UNCHANGED faults

\* Whoever has a token can present it, and more than once.
RequestLogin(t, o, c, k) ==
  /\ owner[k] # NoUser
  /\ IF uses[k] > 0 THEN Fault /\ UNCHANGED taken ELSE Counts
  /\ Take(t, o, c, [Idle EXCEPT !.at = "hget", !.user = owner[k], !.token = k])

----------------------------------------------------------------------------
(* UserConnect *)

At(t, at) == job[t].at = at

Goes(t, at) == job' = [job EXCEPT ![t].at = at]

Ends(t) == job' = [job EXCEPT ![t] = Idle]

\* No step of a request that succeeds changes these.
Calm == UNCHANGED <<conn, lastConn, owner, leaving, taken, faults>>

\* VerifyUserToken: HGET
CheckToken(t) ==
  /\ At(t, "hget")
  /\ IF job[t].token \in live THEN Goes(t, "del") ELSE Ends(t)
  /\ Calm /\ UNCHANGED <<redis, pk, objNum, proved, ghosts, wears, shown>>

\* Mutant: the token is not deleted.
UseTokenKept(t) ==
  /\ At(t, "del")
  /\ uses' = [uses EXCEPT ![job[t].token] = @ + 1]
  /\ proved' = [proved EXCEPT ![job[t].obj] = IF conn[job[t].obj] = job[t].conn
                                              THEN @ \cup {job[t].user} ELSE @]
  /\ Goes(t, "friends")
  /\ Calm /\ UNCHANGED <<redis, pk, objNum, marks, wears, shown>>

\* VerifyUserToken: DEL of the key, with every token it holds for the user.
UseToken(t) ==
  LET x == job[t]
  IN /\ At(t, "del")
     /\ live' = {k \in live : owner[k] # x.user}
     /\ uses' = [uses EXCEPT ![x.token] = @ + 1]
     /\ proved' = [proved EXCEPT ![x.obj] = IF conn[x.obj] = x.conn
                                            THEN @ \cup {x.user} ELSE @]
     /\ Goes(t, "friends")
     /\ Calm
     /\ UNCHANGED <<state, ttl, equip, pk, objNum, marks, wears, shown>>

\* GetUserFriendsPks, SetFriendPks, NotifyFriendOnline
TellOnline(t) ==
  /\ At(t, "friends")
  /\ shown' = shown \cup {job[t].user}
  /\ Goes(t, "info")
  /\ Calm /\ UNCHANGED <<redis, pk, objNum, proved, ghosts, wears>>

\* The login finds its connection over, or about to be.
Late(x) == conn[x.obj] # x.conn \/ Ending(x.obj)

\* GetUserSessionInfo; then SetPk, SetId, SetLevel and SetExp.
SetSession(t) ==
  LET x == job[t]
  IN /\ At(t, "info")
     /\ pk' = [pk EXCEPT ![x.obj] = x.user]
     /\ tainted' = tainted \cup {u \in Users \ {x.user} : objNum[u] = x.obj}
     /\ missed' = (IF Late(x) THEN missed \cup {x.user} ELSE missed \ {x.user})
                  \cup (({pk[x.obj]} \cap Users) \ {x.user})
     /\ Goes(t, "map")
     /\ Calm /\ UNCHANGED <<redis, objNum, proved, uses, stale, unlimited, wears, shown>>

SetPkToObjNum(t) ==
  LET x == job[t]
  IN /\ At(t, "map")
     /\ objNum' = [objNum EXCEPT ![x.user] = x.obj]
     /\ tainted' = IF Late(x) \/ pk[x.obj] # x.user
                   THEN tainted \cup {x.user} ELSE tainted \ {x.user}
     /\ Goes(t, "hset")
     /\ Calm
     /\ UNCHANGED <<redis, pk, proved, uses, missed, stale, unlimited, wears, shown>>

\* Mutant: the login ends with the HSET.
StoreStateOnly(t) ==
  /\ At(t, "hset")
  /\ state' = [state EXCEPT ![job[t].user] = "lobby"]
  /\ Ends(t)
  /\ Calm /\ UNCHANGED <<live, ttl, equip, pk, objNum, proved, ghosts, wears, shown>>

\* HSET of the user's state.
StoreState(t) ==
  /\ At(t, "hset")
  /\ state' = [state EXCEPT ![job[t].user] = "lobby"]
  /\ Goes(t, "expire")
  /\ Calm /\ UNCHANGED <<live, ttl, equip, pk, objNum, proved, ghosts, wears, shown>>

\* EXPIRE, 300 s, which nothing renews.
LimitState(t) ==
  /\ At(t, "expire")
  /\ ttl' = IF state[job[t].user] = "none" THEN ttl ELSE ttl \cup {job[t].user}
  /\ unlimited' = unlimited \ {job[t].user}
  /\ Ends(t)
  /\ Calm
  /\ UNCHANGED <<live, state, equip, pk, objNum, proved, uses, tainted, missed, stale,
                 wears, shown>>

----------------------------------------------------------------------------
(* ProcessCostumeChange *)

\* UpdateEquipSlot finds nothing that a session without user owns, and ends there.
RequestCostume(t, o, c, item) ==
  /\ Counts
  /\ \E u \in PkRead(o) \cap Users :
       Take(t, o, c, [Idle EXCEPT !.at = "update", !.user = u, !.item = item])

Changing(u) == {t \in Threads : At(t, "equip") /\ job[t].user = u}

\* UpdateEquipSlot, committed.
UpdateEquipSlot(t) ==
  LET u == job[t].user
  IN /\ At(t, "update")
     /\ wears' = [wears EXCEPT ![u] = job[t].item]
     /\ stale' = IF Changing(u) = {} THEN stale ELSE stale \cup {u}
     /\ Goes(t, "equip")
     /\ Calm
     /\ UNCHANGED <<redis, pk, objNum, proved, uses, tainted, missed, unlimited, shown>>

\* Mutant: a slot that is filled already is left alone.
CacheEquipOnce(t) ==
  LET u == job[t].user
  IN /\ At(t, "equip")
     /\ equip' = [equip EXCEPT ![u] = IF @ = NoItem THEN job[t].item ELSE @]
     /\ Ends(t)
     /\ Calm /\ UNCHANGED <<live, state, ttl, pk, objNum, proved, ghosts, wears, shown>>

\* HSET of the slot.
CacheEquip(t) ==
  /\ At(t, "equip")
  /\ equip' = [equip EXCEPT ![job[t].user] = job[t].item]
  /\ Ends(t)
  /\ Calm /\ UNCHANGED <<live, state, ttl, pk, objNum, proved, ghosts, wears, shown>>

----------------------------------------------------------------------------
(* The end of a connection: UserDisConnect, then Reset, on an IOCP worker. *)

Leaves(w, at) == leaving' = [leaving EXCEPT ![w].at = at]

\* No step of a logout that succeeds changes these, except Reset.
LeaveCalm == UNCHANGED <<conn, lastConn, owner, wears, job, taken, uses, stale>>

\* A worker sees an operation of the object fail, of this connection or of one before.
\* The pk is read; an object without one is only reset.
Drop(w, o) ==
  /\ leaving[w] = Stays
  /\ Fault
  /\ \E u \in PkRead(o) :
       leaving' = [leaving EXCEPT ![w] =
                     [at |-> IF u = NoUser THEN "reset" ELSE "tell", obj |-> o,
                      user |-> u]]
  /\ LeaveCalm
  /\ UNCHANGED <<redis, pk, objNum, proved, tainted, missed, unlimited, shown>>

\* Mutant: the friends are not told.
TellNobody(w) ==
  /\ leaving[w].at = "tell"
  /\ Leaves(w, "pipeline")
  /\ LeaveCalm
  /\ UNCHANGED <<redis, pk, objNum, proved, tainted, missed, unlimited, shown, faults>>

\* NotifyFriendOffline
TellOffline(w) ==
  /\ leaving[w].at = "tell"
  /\ shown' = shown \ {leaving[w].user}
  /\ Leaves(w, "pipeline")
  /\ LeaveCalm
  /\ UNCHANGED <<redis, pk, objNum, proved, tainted, missed, unlimited, faults>>

\* HSET of the state, EXPIRE, DEL of the costumes, in one pipeline.
StoreOffline(w) ==
  LET u == leaving[w].user
  IN /\ leaving[w].at = "pipeline"
     /\ state' = [state EXCEPT ![u] = "offline"]
     /\ ttl' = ttl \cup {u}
     /\ equip' = [equip EXCEPT ![u] = NoItem]
     /\ unlimited' = unlimited \ {u}
     /\ Leaves(w, "unmap")
     /\ LeaveCalm /\ UNCHANGED <<live, pk, objNum, proved, tainted, missed, shown, faults>>

\* Mutant: the map keeps the entry.
KeepPkToObjNum(w) ==
  /\ leaving[w].at = "unmap"
  /\ Leaves(w, "reset")
  /\ LeaveCalm
  /\ UNCHANGED <<redis, pk, objNum, proved, tainted, missed, unlimited, shown, faults>>

DelPkToObjNum(w) ==
  /\ leaving[w].at = "unmap"
  /\ objNum' = [objNum EXCEPT ![leaving[w].user] = NoObj]
  /\ Leaves(w, "reset")
  /\ LeaveCalm
  /\ UNCHANGED <<redis, pk, proved, tainted, missed, unlimited, shown, faults>>

\* What Reset and Clear do to the object, which then waits for another connection.
Clears(o) ==
  /\ pk' = [pk EXCEPT ![o] = NoUser]
  /\ conn' = [conn EXCEPT ![o] = 0]
  /\ proved' = [proved EXCEPT ![o] = {}]
  /\ UNCHANGED <<redis, lastConn, objNum, owner, wears, shown, job, taken, uses, stale,
                 unlimited>>

\* Reset after a logout, whatever connection the object has by now.
Reset(w) ==
  /\ leaving[w].at = "reset"
  /\ leaving' = [leaving EXCEPT ![w] = Stays]
  /\ Clears(leaving[w].obj)
  /\ UNCHANGED <<tainted, missed, faults>>

\* Reset without a logout, when an accepted connection cannot be received from.
Refuse(o) ==
  /\ Fault
  /\ Clears(o)
  /\ tainted' = tainted \cup {u \in Users : objNum[u] = o}
  /\ missed' = missed \cup ({pk[o]} \cap Users)
  /\ UNCHANGED leaving

----------------------------------------------------------------------------
(* Redis drops a user's key, calls fail, the process ends. *)

Expire(u) ==
  /\ u \in ttl
  /\ Fault
  /\ ttl' = ttl \ {u}
  /\ state' = [state EXCEPT ![u] = "none"]
  /\ UNCHANGED <<session, ghosts, live, equip, owner, leaving, wears, shown, job, taken>>

CallError ==
  /\ Fault
  /\ UNCHANGED <<redis, session, owner, wears, shown, taken, uses>>

\* A failing lookup refuses the login, also after the token is gone and the friends
\* are told.  A failing cache of a costume changes nothing.
CallFails(t) ==
  LET x == job[t]
  IN /\ CallError
     /\ x.at \notin {"idle", "hset", "expire"}
     /\ Ends(t)
     /\ missed' = IF x.at = "info" THEN missed \cup {x.user} ELSE missed
     /\ stale' = IF x.at = "equip" THEN stale \cup {x.user} ELSE stale
     /\ UNCHANGED <<leaving, tainted, unlimited>>

\* In a logout, a friend list that cannot be read is passed over, and a failing
\* pipeline skips the removal from the map.
LogoutCallFails(w) ==
  LET u == leaving[w].user
  IN /\ CallError
     /\ \/ /\ leaving[w].at = "tell" /\ Leaves(w, "pipeline")
           /\ missed' = missed \cup {u} /\ UNCHANGED tainted
        \/ /\ leaving[w].at = "pipeline" /\ Leaves(w, "reset")
           /\ tainted' = tainted \cup {u} /\ UNCHANGED missed
     /\ UNCHANGED <<job, stale, unlimited>>

\* The last two commands of a login are outside every try block: their failure ends
\* the process.  What Redis and the database hold stays.
Crash ==
  /\ \E t \in Threads : job[t].at \in {"hset", "expire"}
  /\ Fault
  /\ conn' = [o \in Objs |-> 0] /\ lastConn' = [o \in Objs |-> 0]
  /\ pk' = [o \in Objs |-> Unset]
  /\ objNum' = [u \in Users |-> NoObj]
  /\ proved' = [o \in Objs |-> {}]
  /\ leaving' = [w \in Workers |-> Stays]
  /\ job' = [t \in Threads |-> Idle]
  /\ tainted' = {}
  /\ missed' = shown
  /\ stale' = stale \cup {u \in Users : Changing(u) # {}}
  /\ unlimited' = unlimited \cup {job[t].user : t \in {r \in Threads : At(r, "expire")}}
  /\ UNCHANGED <<redis, owner, wears, shown, taken, uses>>

----------------------------------------------------------------------------

Init ==
  /\ owner = [k \in Tokens |-> NoUser] /\ live = {}
  /\ conn = [o \in Objs |-> 0] /\ lastConn = [o \in Objs |-> 0]
  /\ leaving = [w \in Workers |-> Stays]
  /\ pk = [o \in Objs |-> Unset] /\ objNum = [u \in Users |-> NoObj]
  /\ state = [u \in Users |-> "none"] /\ ttl = {}
  /\ wears = [u \in Users |-> NoItem] /\ equip = [u \in Users |-> NoItem]
  /\ shown = {}
  /\ job = [t \in Threads |-> Idle]
  /\ taken = 0 /\ faults = 0
  /\ uses = [k \in Tokens |-> 0] /\ proved = [o \in Objs |-> {}]
  /\ tainted = {} /\ missed = {} /\ stale = {} /\ unlimited = {}

Work(t) ==
  \/ CheckToken(t) \/ UseToken(t) \/ TellOnline(t) \/ SetSession(t) \/ SetPkToObjNum(t)
  \/ StoreState(t) \/ LimitState(t)
  \/ UpdateEquipSlot(t) \/ CacheEquip(t)
  \/ CallFails(t)

Logout(w) ==
  \/ TellOffline(w) \/ StoreOffline(w) \/ DelPkToObjNum(w) \/ Reset(w)
  \/ LogoutCallFails(w)

Next ==
  \/ \E k \in Tokens, u \in Users : Issue(k, u)
  \/ \E o \in Objs : Accept(o) \/ Refuse(o)
  \/ \E w \in Workers : Logout(w) \/ \E o \in Objs : Drop(w, o)
  \/ \E t \in Threads :
       \/ Work(t)
       \/ \E o \in Objs : \E c \in 1 .. lastConn[o] :
            \/ \E k \in Tokens : RequestLogin(t, o, c, k)
            \/ \E item \in Items : RequestCostume(t, o, c, item)
  \/ \E u \in Users : Expire(u)
  \/ Crash

Spec == Init /\ [][Next]_vars

----------------------------------------------------------------------------
(* Properties *)

\* HGET and DEL of a token are two commands, so that one token may be accepted more
\* than once; but never more often than there are threads to be between the two, over
\* any number of attempts (VerifyUserToken).
TokenReuse == \A k \in Tokens : uses[k] <= Cardinality(Threads)

\* Where the map has an entry for a user, what is for that user goes to a connection
\* that has presented a token of the user (GetObjNumByPk), over every order of logins,
\* requests that outlive their connection, logouts, second and late logouts, and reuse
\* of objects.  (Where it has none, it goes to object 0: see Party.)  The users of
\* tainted are excepted, to each of whom one of these has happened since they were last
\* put in the map: that login was carried out when its connection was over or while a
\* worker logged out its object, the object was logged in as another user or reset
\* without a logout, or a failing pipeline skipped the removal.
NoMisroute ==
  \A u \in Users \ tainted : objNum[u] \in Objs => u \in proved[objNum[u]]

Present(u) ==
  \/ \E t \in Threads : At(t, "info") /\ job[t].user = u
  \/ \E o \in Objs : pk[o] = u /\ u \in proved[o] /\ ~Ending(o)
  \/ \E w \in Workers : leaving[w].at = "tell" /\ leaving[w].user = u

\* Friends who were told that a user is online are told when that is over: a login is
\* about to set the session, a connection that has proved to be the user's has it, or a
\* logout is about to tell them, over every order of logins, logouts and late logouts.
\* The users of missed are excepted: their last login failed after its announcement, or
\* was carried out when its connection was over or while a worker logged out its object;
\* the object was then logged in as another user or reset without a logout; the friend
\* list could not be read at the logout; or the process ended (UserConnect,
\* NotifyFriendOffline).
FriendsLearn == \A u \in shown : Present(u) \/ u \in missed

\* The costume in Redis is the one in the database, if there is one, as long as no
\* two changes of the same user overlapped and no call failed in between
\* (ProcessCostumeChange).
EquipFollows ==
  \A u \in Users :
    equip[u] # NoItem /\ Changing(u) = {} /\ u \notin stale => equip[u] = wears[u]

\* Nobody stays in the lobby for ever, also when the logout is lost with the process:
\* a key that says lobby has a time to live, or is about to get it.  The users of
\* unlimited are excepted, for whom the process ended between the two commands, until
\* their next login or logout (UserConnect).
LobbyIsLimited ==
  \A u \in Users :
    state[u] = "lobby" => \/ u \in ttl \cup unlimited
                          \/ \E t \in Threads : At(t, "expire") /\ job[t].user = u
=============================================================================
