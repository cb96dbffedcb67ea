------------------------------- MODULE Party -------------------------------
(***************************************************************************)
(* Parties of the lobby servers.  The registry of parties lives in Redis   *)
(* and is shared by every lobby server; each server keeps, per connection  *)
(* object, a session that caches the party of its user, and a map from     *)
(* user to connection object.  Servers tell each other about changes over  *)
(* one publish/subscribe channel per server.                               *)
(*                                                                         *)
(* One action is one whole request handler of RedisManager.cpp, or one     *)
(* message taken by the subscriber thread: this module is about requests   *)
(* that do not overlap.  A request the handler rejects before its first    *)
(* write changes nothing and is a stuttering step.  No handler asks for a  *)
(* login: a connection without one sends its requests as a user with pk 0. *)
(***************************************************************************)
EXTENDS Integers, Sequences, FiniteSets

CONSTANTS
  Users,        \* the users, by pk
  Servers,      \* the lobby servers, all running this program
  Objs,         \* connection objects (ConnUser) of one server
  Obj0,         \* the object with number 0
  NoUser,       \* pk 0: the pk of a connection without a login
  NoLeader,     \* an absent leader key
  NoServer,     \* an absent "server" field
  PartyCap,     \* most members of a party; 4 in the code
  SessMod,      \* 2^16: a session keeps a party id in a uint16_t
  MaxParty,     \* bound: parties ever created
  MaxMsgs,      \* bound: undelivered messages per channel
  KeysExpire,   \* whether the TTL of a user key may run out
  Relogin,      \* whether users and connections may log in a second time
  SelfRequests, \* whether a request may name its own sender
  Strangers     \* whether connections without a login send requests, and go

ASSUME PartyAssumption ==
  /\ Obj0 \in Objs
  /\ NoUser \notin Users
  /\ NoLeader \notin Users \cup {NoUser}
  /\ NoServer \notin Servers
  /\ IsFiniteSet(Users)
  /\ PartyCap \in Nat /\ PartyCap >= 2
  /\ SessMod \in Nat /\ SessMod > 0
  /\ MaxParty \in Nat
  /\ MaxMsgs \in Nat
  /\ {KeysExpire, Relogin, SelfRequests, Strangers} \subseteq BOOLEAN

VARIABLES
  counter,     \* party:counter
  members,     \* party:{id}:members
  leader,      \* party:{id}:leader, NoLeader when the key is absent
  userParty,   \* user:{pk}.partyId, 0 when absent (the code reads both alike)
  userServer,  \* user:{pk}.server; key user:0 never has one, nor a time to live
  ttl,         \* whether key user:{pk} has a time to live
  sess,        \* ConnUser: pk and cached party id of every object
  objNum,      \* pkToObjNum; an absent pk reads as object 0 (operator[])
  chan         \* {server}:events, messages published and not yet handled

vars == <<counter, members, leader, userParty, userServer, ttl, sess, objNum,
          chan>>

PartyIds == 1 .. MaxParty

\* Whom a party may list: requests come from users and from pk 0.
Pks == Users \cup {NoUser}

Kinds == {"invite", "reject", "join", "leave", "kick", "delegate", "status",
          "match"}

Msgs == [kind : Kinds, party : 0 .. MaxParty, user : Pks, newLeader : Pks,
         targets : SUBSET Users]

Free == [pk |-> NoUser, party |-> 0]

----------------------------------------------------------------------------
(* Helpers *)

LoggedIn(s, o) == sess[s][o].pk # NoUser

\* A request comes in on connection o.
Sends(s, o) == LoggedIn(s, o) \/ Strangers

\* One that names user v.
Asks(s, o, v) ==
  /\ Sends(s, o)
  /\ SelfRequests \/ sess[s][o].pk # v

\* FindUserByPk: the object in the map, or object 0.
FindUserByPk(s, u) == IF u = NoUser THEN Obj0 ELSE objNum[s][u]

\* Mutant: the session keeps the id as it is.
SetPartyIdWide(ss, s, O, p) ==
  [ss EXCEPT ![s] =
     [o \in Objs |-> IF o \in O THEN [ss[s][o] EXCEPT !.party = p]
                                ELSE ss[s][o]]]

\* ConnUser::SetPartyId on the objects O of server s; the argument is narrowed
\* to 16 bits.
SetPartyId(ss, s, O, p) ==
  [ss EXCEPT ![s] =
     [o \in Objs |-> IF o \in O THEN [ss[s][o] EXCEPT !.party = p % SessMod]
                                ELSE ss[s][o]]]

\* PublishToUsers: one message per server some target is registered on, which
\* names the targets of that server; a target with no server is skipped.
PublishToUsers(ch, kind, p, u, newLeader, targets) ==
  [s \in Servers |->
     LET here == {t \in targets \cap Users : userServer[t] = s}
     IN IF here = {} THEN ch[s]
        ELSE Append(ch[s], [kind |-> kind, party |-> p, user |-> u,
                            newLeader |-> newLeader, targets |-> here])]

\* The channels become ch, within the bound MaxMsgs.
Sent(ch) ==
  /\ \A s \in Servers : Len(ch[s]) <= MaxMsgs
  /\ chan' = ch

\* Mutant: any member passes for the leader.
IsPartyMember(u, p) == u \in members[p]

\* IsPartyLeader
IsPartyLeader(u, p) == leader[p] = u

----------------------------------------------------------------------------
(* LeavePartyInternal: user u leaves party p, seen from server s.  With    *)
(* nobody left the party's keys are deleted; with one member left that     *)
(* member is dropped too; otherwise a departing leader is replaced by      *)
(* heir, the member the hash set happens to list first.                    *)

Remaining(u, p) == members[p] \ {u}

Survives(u, p) == Cardinality(Remaining(u, p)) >= 2

Dropped(u, p) == IF Survives(u, p) THEN {u} ELSE {u} \cup Remaining(u, p)

\* A departing leader is replaced.
HandsOver(u, p) == Survives(u, p) /\ leader[p] = u

\* Mutant: nobody succeeds a leader.
NoHeir(heir, u, p) == heir = NoUser

\* Who succeeds, which can be pk 0; 0 also stands for nobody (newLeaderPk).
IsHeir(heir, u, p) ==
  IF HandsOver(u, p) THEN heir \in Remaining(u, p) ELSE heir = NoUser

LeaveMembers(u, p) ==
  [members EXCEPT ![p] = IF Survives(u, p) THEN Remaining(u, p) ELSE {}]

\* Mutant: the key goes with its leader, and the successor is not written.
LeaveLeaderDeleted(u, p, heir) ==
  [leader EXCEPT ![p] = IF leader[p] = u \/ ~Survives(u, p) THEN NoLeader ELSE @]

LeaveLeader(u, p, heir) ==
  [leader EXCEPT ![p] = IF ~Survives(u, p) THEN NoLeader
                        ELSE IF HandsOver(u, p) THEN heir ELSE leader[p]]

\* Mutant: the last member's key keeps the dissolved party.
LeaveUserPartyOnly(u, p) == [userParty EXCEPT ![u] = 0]

\* The keys of everybody who is dropped.
LeaveUserParty(u, p) ==
  [v \in Pks |-> IF v \in Dropped(u, p) THEN 0 ELSE userParty[v]]

\* The sessions that this server finds for them.
LeaveSess(s, u, p) ==
  SetPartyId(sess, s, {FindUserByPk(s, v) : v \in Dropped(u, p)}, 0)

\* Mutant: the notice goes out after the keys of a dissolved party are deleted.
NotifyPartyLeaveLate(u, p, heir) ==
  PublishToUsers(chan, "leave", p, u, heir,
                 IF Survives(u, p) THEN Remaining(u, p) ELSE {})

\* NotifyPartyLeave: newLeaderPk is 0 unless a leader was replaced.
NotifyPartyLeave(u, p, heir) ==
  PublishToUsers(chan, "leave", p, u, heir, Remaining(u, p))

----------------------------------------------------------------------------
(* The other notices, each to the members listed at that moment.           *)

\* The remaining members and the kicked user: the members before the kick.
NotifyPartyKick(p, u) == PublishToUsers(chan, "kick", p, u, NoUser, members[p])

NotifyPartyDelegate(p, u) ==
  PublishToUsers(chan, "delegate", p, NoUser, u, members[p])

NotifyMatchStart(p, u) ==
  PublishToUsers(chan, "match", p, NoUser, NoUser, members[p] \ {u})

\* Not sent for a user without a party.
NotifyPartyMemberStatus(p, u) ==
  PublishToUsers(chan, "status", p, u, NoUser,
                 IF p = 0 THEN {} ELSE members[p] \ {u})

\* The newcomer u is not told.
NotifyPartyJoin(ch, p, u, crowd) ==
  PublishToUsers(ch, "join", p, u, NoUser, crowd \ {u})

----------------------------------------------------------------------------
(* Joining: what ProcessPartyFollow and ProcessPartyInviteAccept share.    *)
(* known is the host's partyId as the handler read it; m, l, up, ss and ch *)
(* are the registry, the sessions and the channels at that point.          *)

Seat(known) == IF known = 0 THEN counter + 1 ELSE known

Crowd(host, known, m) ==
  IF known = 0 THEN m[Seat(known)] \cup {host} ELSE m[known]

\* Mutant: SCARD <= 4.
HasSeatPlusOne(host, known, m) ==
  /\ Seat(known) \in PartyIds
  /\ Cardinality(Crowd(host, known, m)) <= PartyCap

\* Room for one more (SCARD < 4); a fresh party is within the bound MaxParty.
HasSeat(host, known, m) ==
  /\ Seat(known) \in PartyIds
  /\ Cardinality(Crowd(host, known, m)) < PartyCap

Admit(s, o, host, known, m, l, up, ss, ch) ==
  LET me    == sess[s][o].pk
      p     == Seat(known)
      crowd == Crowd(host, known, m)
      opens == known = 0
      seats == IF opens THEN {o, FindUserByPk(s, host)} ELSE {o}
  IN /\ HasSeat(host, known, m)
     /\ counter' = IF opens THEN p ELSE counter
     /\ members' = [m EXCEPT ![p] = crowd \cup {me}]
     /\ leader' = IF opens THEN [l EXCEPT ![p] = host] ELSE l
     /\ userParty' = [v \in Pks |->
                        IF v = me \/ (opens /\ v = host) THEN p ELSE up[v]]
     /\ sess' = SetPartyId(ss, s, seats, p)
     /\ Sent(NotifyPartyJoin(ch, p, me, crowd))
     /\ UNCHANGED <<userServer, ttl, objNum>>

----------------------------------------------------------------------------
(* Party requests *)

\* ProcessPartyFollow: join the party of host, which is opened if need be.
Follow(s, o, host) ==
  /\ Asks(s, o, host)
  /\ sess[s][o].party = 0
  /\ Admit(s, o, host, userParty[host], members, leader, userParty, sess, chan)

\* ProcessPartyInvite: registers nothing, the target is only told.
Invite(s, o, target) ==
  LET p == sess[s][o].party
  IN /\ Asks(s, o, target)
     /\ p # 0 => Cardinality(members[p]) < PartyCap
     /\ Sent(PublishToUsers(chan, "invite", p, sess[s][o].pk, NoUser,
                               {target}))
     /\ UNCHANGED <<counter, members, leader, userParty, userServer, ttl, sess,
                    objNum>>

\* ProcessPartyInviteAccept with accept = 1, the value that refuses.
InviteRefuse(s, o, host) ==
  /\ Asks(s, o, host)
  /\ Sent(PublishToUsers(chan, "reject", 0, NoUser, NoUser, {host}))
  /\ UNCHANGED <<counter, members, leader, userParty, userServer, ttl, sess,
                 objNum>>

\* ProcessPartyInviteAccept by a user whose session has no party.  No invitation
\* is looked up: any user can be named as the host.
InviteAccept(s, o, host) ==
  /\ Asks(s, o, host)
  /\ sess[s][o].party = 0
  /\ Admit(s, o, host, userParty[host], members, leader, userParty, sess, chan)

\* ProcessPartyInviteAccept by a user who leaves a party first.  The host's
\* party was read before that.
InviteSwitch(s, o, host) ==
  LET me == sess[s][o].pk
      p  == sess[s][o].party
  IN /\ Asks(s, o, host)
     /\ p # 0
     /\ \E heir \in Pks :
          /\ IsHeir(heir, me, p)
          /\ Admit(s, o, host, userParty[host], LeaveMembers(me, p),
                   LeaveLeader(me, p, heir), LeaveUserParty(me, p),
                   LeaveSess(s, me, p), NotifyPartyLeave(me, p, heir))

\* LeavePartyInternal as the only effect of a request.
LeaveParty(s, o) ==
  LET me == sess[s][o].pk
      p  == sess[s][o].party
  IN /\ Sends(s, o)
     /\ p # 0
     /\ members' = LeaveMembers(me, p)
     /\ userParty' = LeaveUserParty(me, p)
     /\ sess' = LeaveSess(s, me, p)
     /\ \E heir \in Pks :
          /\ IsHeir(heir, me, p)
          /\ leader' = LeaveLeader(me, p, heir)
          /\ Sent(NotifyPartyLeave(me, p, heir))
     /\ UNCHANGED <<counter, userServer, ttl, objNum>>

\* ProcessPartyInviteAccept that leaves the old party and then finds the host's
\* party full: the user ends in no party.
InviteSwitchFull(s, o, host) ==
  LET known == userParty[host]
  IN /\ Asks(s, o, host)
     /\ known # 0
     /\ sess[s][o].party # 0
     /\ ~HasSeat(host, known, LeaveMembers(sess[s][o].pk, sess[s][o].party))
     /\ LeaveParty(s, o)

\* ProcessPartyLeave
Leave(s, o) == LeaveParty(s, o)

\* ProcessPartyKick
Kick(s, o, target) ==
  LET p == sess[s][o].party
  IN /\ Asks(s, o, target)
     /\ p # 0
     /\ IsPartyLeader(sess[s][o].pk, p)
     /\ target \in members[p]
     /\ members' = [members EXCEPT ![p] = @ \ {target}]
     /\ userParty' = [userParty EXCEPT ![target] = 0]
     /\ sess' = SetPartyId(sess, s, {FindUserByPk(s, target)}, 0)
     /\ Sent(NotifyPartyKick(p, target))
     /\ UNCHANGED <<counter, leader, userServer, ttl, objNum>>

\* ProcessPartyDelegate
Delegate(s, o, target) ==
  LET p == sess[s][o].party
  IN /\ Asks(s, o, target)
     /\ p # 0
     /\ IsPartyLeader(sess[s][o].pk, p)
     /\ target \in members[p]
     /\ leader' = [leader EXCEPT ![p] = target]
     /\ Sent(NotifyPartyDelegate(p, target))
     /\ UNCHANGED <<counter, members, userParty, userServer, ttl, sess, objNum>>

\* ProcessMatchStart by the leader of a party; alone it only answers the client.
MatchStart(s, o) ==
  LET me == sess[s][o].pk
      p  == sess[s][o].party
  IN /\ Sends(s, o)
     /\ p # 0
     /\ IsPartyLeader(me, p)
     /\ Sent(NotifyMatchStart(p, me))
     /\ UNCHANGED <<counter, members, leader, userParty, userServer, ttl, sess,
                    objNum>>

----------------------------------------------------------------------------
(* Sessions *)

\* UserConnect, from the point where the token is accepted: the party is taken
\* up again if the registry still lists the user in it.
Connect(s, o, u) ==
  LET kept == IF userParty[u] # 0 /\ u \in members[userParty[u]]
              THEN userParty[u] ELSE 0
  IN /\ Relogin \/ /\ ~LoggedIn(s, o)
                   /\ \A t \in Servers, q \in Objs : sess[t][q].pk # u
     /\ sess' = [sess EXCEPT ![s][o] = [pk |-> u, party |-> kept % SessMod]]
     /\ objNum' = [objNum EXCEPT ![s][u] = o]
     /\ userParty' = [userParty EXCEPT ![u] = kept]
     /\ userServer' = [userServer EXCEPT ![u] = s]
     /\ ttl' = [ttl EXCEPT ![u] = TRUE]
     /\ Sent(NotifyPartyMemberStatus(kept, u))
     /\ UNCHANGED <<counter, members, leader>>

\* UserDisConnect, then ConnUser::Reset.  The "server" field stays until the key
\* expires.
Disconnect(s, o) ==
  LET u == sess[s][o].pk
      p == sess[s][o].party
  IN /\ LoggedIn(s, o)
     /\ Sent(NotifyPartyMemberStatus(p, u))
     /\ ttl' = [ttl EXCEPT ![u] = TRUE]
     /\ objNum' = [objNum EXCEPT ![s][u] = Obj0]
     /\ sess' = [sess EXCEPT ![s][o] = Free]
     /\ UNCHANGED <<counter, members, leader, userParty, userServer>>

\* UserDisConnect does nothing for pk 0; ConnUser::Reset follows all the same.
DisconnectStranger(s, o) ==
  /\ ~LoggedIn(s, o) /\ Sends(s, o)
  /\ sess' = [sess EXCEPT ![s][o] = Free]
  /\ UNCHANGED <<counter, members, leader, userParty, userServer, ttl, objNum, chan>>

\* Redis drops key user:{pk}: 300 s after a login (nothing renews it), 60 s
\* after a disconnect.
Expire(u) ==
  /\ KeysExpire
  /\ ttl[u]
  /\ userParty' = [userParty EXCEPT ![u] = 0]
  /\ userServer' = [userServer EXCEPT ![u] = NoServer]
  /\ ttl' = [ttl EXCEPT ![u] = FALSE]
  /\ UNCHANGED <<counter, members, leader, sess, objNum, chan>>

\* The targets whose session a message resets: everyone who gets a leave notice
\* without a new leader (SendPartyLeaveToUser), and the kicked user
\* (SendPartyKickToUser).  Other messages only go on to the client.
Resets(m) ==
  IF m.kind = "leave" /\ m.newLeader = NoUser THEN m.targets
  ELSE IF m.kind = "kick" THEN m.targets \cap {m.user}
  ELSE {}

\* The subscriber thread of server s handles the next message.
Deliver(s) ==
  /\ chan[s] # <<>>
  /\ sess' = SetPartyId(sess, s, {objNum[s][t] : t \in Resets(Head(chan[s]))}, 0)
  /\ chan' = [chan EXCEPT ![s] = Tail(@)]
  /\ UNCHANGED <<counter, members, leader, userParty, userServer, ttl, objNum>>

----------------------------------------------------------------------------

Init ==
  /\ counter = 0
  /\ members = [p \in PartyIds |-> {}]
  /\ leader = [p \in PartyIds |-> NoLeader]
  /\ userParty = [u \in Pks |-> 0]
  /\ userServer = [u \in Users |-> NoServer]
  /\ ttl = [u \in Users |-> FALSE]
  /\ sess = [s \in Servers |-> [o \in Objs |-> Free]]
  /\ objNum = [s \in Servers |-> [u \in Users |-> Obj0]]
  /\ chan = [s \in Servers |-> <<>>]

Next ==
  \/ \E s \in Servers, o \in Objs :
       \/ Leave(s, o)
       \/ MatchStart(s, o)
       \/ Disconnect(s, o)
       \/ DisconnectStranger(s, o)
       \/ \E u \in Users :
            \/ Follow(s, o, u)
            \/ Invite(s, o, u)
            \/ InviteRefuse(s, o, u)
            \/ InviteAccept(s, o, u)
            \/ InviteSwitch(s, o, u)
            \/ InviteSwitchFull(s, o, u)
            \/ Kick(s, o, u)
            \/ Delegate(s, o, u)
            \/ Connect(s, o, u)
  \/ \E s \in Servers : Deliver(s)
  \/ \E u \in Users : Expire(u)

Spec == Init /\ [][Next]_vars

----------------------------------------------------------------------------
(* Properties *)

\* Every variable has its type; a cached party id fits the 16-bit field
\* (ConnUser::partyId).
TypeOK ==
  /\ counter \in 0 .. MaxParty
  /\ members \in [PartyIds -> SUBSET Pks]
  /\ leader \in [PartyIds -> Pks \cup {NoLeader}]
  /\ userParty \in [Pks -> 0 .. MaxParty]
  /\ userServer \in [Users -> Servers \cup {NoServer}]
  /\ ttl \in [Users -> BOOLEAN]
  /\ sess \in [Servers -> [Objs -> [pk : Pks, party : 0 .. MaxParty]]]
  /\ \A s \in Servers, o \in Objs : sess[s][o].party < SessMod
  /\ objNum \in [Servers -> [Users -> Objs]]
  /\ chan \in [Servers -> Seq(Msgs)]

\* What a user key (that of pk 0 too) names as the user's party is a party whose
\* member set holds the user, over every order of requests, logins and expiries: each handler
\* that takes somebody out of a set (LeavePartyInternal, ProcessPartyKick) also
\* clears the partyId of everybody it takes out.
PartyPointsHome ==
  \A u \in Pks : userParty[u] # 0 => u \in members[userParty[u]]

\* A party never has more than PartyCap members as long as requests do not
\* overlap (the SCARD checks of ProcessPartyFollow and ProcessPartyInviteAccept).
Capacity == \A p \in PartyIds : Cardinality(members[p]) <= PartyCap

\* Somebody who loses the party by another user's request is sent, to the server
\* registered for that user, a message that resets the cached party: the kicked
\* user (NotifyPartyKick) and the last member of a dissolved party
\* (NotifyPartyLeave before the keys are deleted).
DroppedAreTold ==
  [][\A u \in Users, s \in Servers :
       /\ userParty[u] # 0 /\ userParty'[u] = 0
       /\ userServer[u] = s /\ userServer'[u] = s
       => \/ \E t \in Servers, o \in Objs :
               /\ sess[t][o].pk = u
               /\ \/ Leave(t, o)
                  \/ \E h \in Users : \/ InviteSwitch(t, o, h)
                                     \/ InviteSwitchFull(t, o, h)
          \/ \E i \in Len(chan[s]) + 1 .. Len(chan'[s]) :
               u \in Resets(chan'[s][i])]_vars

\* A party's leader stays one of its members, whatever becomes of the party,
\* unless the leader kicks itself: the one request that takes a leader out of
\* the set without naming a successor or deleting the leader key.
LeaderStaysMember ==
  [][\A p \in PartyIds :
       /\ leader[p] = NoLeader \/ leader[p] \in members[p]
       /\ leader'[p] # NoLeader /\ leader'[p] \notin members'[p]
       => \E s \in Servers, o \in Objs :
            sess[s][o].pk = leader[p] /\ Kick(s, o, leader[p])]_vars

\* Leadership passes to another user only by a request of the leader: a
\* delegation, or a leave (also the one inside an invite-accept) that names a
\* successor.  It ends only when at most one other member was left.
LeaderHandsOver ==
  [][\A p \in PartyIds :
       leader[p] # NoLeader /\ leader'[p] # leader[p]
       => \/ leader'[p] = NoLeader /\ Cardinality(members[p]) <= 2
          \/ \E s \in Servers, o \in Objs :
               /\ sess[s][o].pk = leader[p] /\ sess[s][o].party = p
               /\ \/ Leave(s, o)
                  \/ \E u \in Users : \/ InviteSwitch(s, o, u)
                                     \/ InviteSwitchFull(s, o, u)
                                     \/ Delegate(s, o, u)]_vars

\* A party with members has a leader.
Led(p) == members[p] = {} \/ leader[p] # NoLeader

\* A party loses its leader with members left in one way only: a user accepts the
\* invitation of the other member of a party of two.  ProcessPartyInviteAccept
\* reads the host's party before its own leave dissolves that very party, and
\* then joins what it has read.
LedUnlessRejoined ==
  [][\A p \in PartyIds :
       Led(p) => \/ Led(p)'
                 \/ \E s \in Servers, o \in Objs, host \in Users :
                      /\ InviteSwitch(s, o, host)
                      /\ userParty[host] = p
                      /\ sess[s][o].party = p]_vars

----------------------------------------------------------------------------
(* What a comment of the code says and the code does not keep; MCParty_kept *)
(* finds it violated.                                                      *)

\* "three or more: the party is kept" (RedisManager.cpp:1562, RedisManager.h:75):
\* handling the notice of a leave takes the cached party from nobody who is
\* still in the party.  (Leavers on object 0 are left out, since that object also
\* takes what is meant for users who are not on the server.)
KeptPartyKeepsSessions ==
  [][\A s \in Servers :
       /\ Deliver(s)
       /\ Head(chan[s]).kind = "leave"
       /\ FindUserByPk(s, Head(chan[s]).user) # Obj0
       => \A o \in Objs :
            sess[s][o].party = Head(chan[s]).party /\ sess'[s][o].party = 0
            => sess[s][o].pk \notin members[Head(chan[s]).party]]_vars
=============================================================================
