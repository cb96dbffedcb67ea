---------------------------- MODULE Party_proofs ----------------------------
(***************************************************************************)
(* Theorems about Party, for every number of users, servers and objects.   *)
(***************************************************************************)
EXTENDS Party, FiniteSetTheorems, TLAPS

USE DEF Pks

LEMMA PksFinite == IsFiniteSet(Pks)
<1>1. IsFiniteSet({NoUser})
  BY FS_Singleton
<1> QED BY <1>1, FS_Union, PartyAssumption

\* The part of TypeOK about what handlers compute in steps.
RegistryType(m, l, up, ss, ch) ==
  /\ m \in [PartyIds -> SUBSET Pks]
  /\ l \in [PartyIds -> Pks \cup {NoLeader}]
  /\ up \in [Pks -> 0 .. MaxParty]
  /\ ss \in [Servers -> [Objs -> [pk : Pks, party : 0 .. MaxParty]]]
  /\ \A s \in Servers, o \in Objs : ss[s][o].party < SessMod
  /\ ch \in [Servers -> Seq(Msgs)]

\* Narrowing a party id to the 16-bit session field gives a party id or 0.
LEMMA Narrow ==
  ASSUME NEW p \in 0 .. MaxParty
  PROVE  p % SessMod \in 0 .. MaxParty /\ p % SessMod < SessMod
<1>1. p \in Nat /\ SessMod \in Nat \ {0} /\ MaxParty \in Nat
  BY PartyAssumption
<1>2. p % SessMod \in 0 .. SessMod - 1
  BY <1>1
<1>3. CASE p < SessMod
  <2>1. p % SessMod = p
    BY <1>1, <1>3
  <2> QED BY <2>1, <1>1, <1>3
<1>4. CASE p >= SessMod
  BY <1>1, <1>2, <1>4
<1> QED BY <1>1, <1>3, <1>4

\* SetPartyId keeps the type of the sessions (ConnUser::SetPartyId).
LEMMA SetPartyIdType ==
  ASSUME NEW ss \in [Servers -> [Objs -> [pk : Pks, party : 0 .. MaxParty]]],
         \A s \in Servers, o \in Objs : ss[s][o].party < SessMod,
         NEW s \in Servers, NEW O, NEW p \in 0 .. MaxParty
  PROVE  /\ SetPartyId(ss, s, O, p) \in
              [Servers -> [Objs -> [pk : Pks, party : 0 .. MaxParty]]]
         /\ \A t \in Servers, o \in Objs :
              SetPartyId(ss, s, O, p)[t][o].party < SessMod
<1> DEFINE q == p % SessMod
<1>1. q \in 0 .. MaxParty /\ q < SessMod
  BY Narrow
<1> HIDE DEF q
<1> DEFINE new == [o \in Objs |-> IF o \in O THEN [ss[s][o] EXCEPT !.party = q]
                                             ELSE ss[s][o]]
<1>2. \A o \in Objs : /\ new[o] \in [pk : Pks, party : 0 .. MaxParty]
                      /\ new[o].party < SessMod
  BY <1>1
<1>3. new \in [Objs -> [pk : Pks, party : 0 .. MaxParty]]
  BY <1>2
<1>4. SetPartyId(ss, s, O, p) = [ss EXCEPT ![s] = new]
  BY DEF SetPartyId, q
<1> HIDE DEF new
<1> QED BY <1>2, <1>3, <1>4

\* PublishToUsers appends messages and nothing else.
LEMMA PublishType ==
  ASSUME NEW ch \in [Servers -> Seq(Msgs)],
         NEW kind \in Kinds, NEW p \in 0 .. MaxParty,
         NEW u \in Pks, NEW newLeader \in Pks,
         NEW targets \in SUBSET Pks
  PROVE  PublishToUsers(ch, kind, p, u, newLeader, targets) \in
           [Servers -> Seq(Msgs)]
<1> SUFFICES ASSUME NEW s \in Servers
             PROVE  PublishToUsers(ch, kind, p, u, newLeader, targets)[s] \in Seq(Msgs)
  BY DEF PublishToUsers
<1> DEFINE here == {t \in targets \cap Users : userServer[t] = s}
           msg == [kind |-> kind, party |-> p, user |-> u,
                   newLeader |-> newLeader, targets |-> here]
<1>1. msg \in Msgs
  BY DEF Msgs
<1>2. PublishToUsers(ch, kind, p, u, newLeader, targets)[s] =
        IF here = {} THEN ch[s] ELSE Append(ch[s], msg)
  BY DEF PublishToUsers
<1> HIDE DEF msg, here
<1> QED BY <1>1, <1>2

\* LeavePartyInternal keeps the types.
LEMMA LeaveType ==
  ASSUME TypeOK, NEW s \in Servers, NEW u \in Pks, NEW p \in PartyIds,
         NEW heir \in Pks
  PROVE  RegistryType(LeaveMembers(u, p), LeaveLeader(u, p, heir),
                      LeaveUserParty(u, p), LeaveSess(s, u, p),
                      NotifyPartyLeave(u, p, heir))
<1>1. LeaveMembers(u, p) \in [PartyIds -> SUBSET Pks]
  BY DEF TypeOK, LeaveMembers, Remaining
<1>2. LeaveLeader(u, p, heir) \in [PartyIds -> Pks \cup {NoLeader}]
  BY DEF TypeOK, LeaveLeader, HandsOver, IsHeir, Survives, Remaining
<1>3. LeaveUserParty(u, p) \in [Pks -> 0 .. MaxParty]
  BY PartyAssumption DEF TypeOK, LeaveUserParty
<1>4. /\ LeaveSess(s, u, p) \in [Servers -> [Objs -> [pk : Pks, party : 0 .. MaxParty]]]
      /\ \A t \in Servers, o \in Objs : LeaveSess(s, u, p)[t][o].party < SessMod
  <2>1. 0 \in 0 .. MaxParty
    BY PartyAssumption
  <2> QED BY <2>1, SetPartyIdType DEF TypeOK, LeaveSess
<1>5. NotifyPartyLeave(u, p, heir) \in [Servers -> Seq(Msgs)]
  <2>1. "leave" \in Kinds /\ p \in 0 .. MaxParty /\ Remaining(u, p) \in SUBSET Pks
    BY PartyAssumption DEF Kinds, PartyIds, TypeOK, Remaining
  <2> QED BY <2>1, PublishType DEF TypeOK, NotifyPartyLeave
<1> QED BY <1>1, <1>2, <1>3, <1>4, <1>5 DEF RegistryType

\* Joining keeps the types, from whatever the handler computed before.
LEMMA AdmitType ==
  ASSUME TypeOK, NEW s \in Servers, NEW o \in Objs,
         NEW host \in Users, NEW known \in 0 .. MaxParty,
         NEW m, NEW l, NEW up, NEW ss, NEW ch,
         RegistryType(m, l, up, ss, ch),
         Admit(s, o, host, known, m, l, up, ss, ch)
  PROVE  TypeOK'
<1> DEFINE me == sess[s][o].pk
           p == Seat(known)
           crowd == Crowd(host, known, m)
<1>1. me \in Pks
  BY DEF TypeOK
<1>2. p \in PartyIds /\ p \in 0 .. MaxParty
  BY PartyAssumption DEF Admit, HasSeat, PartyIds
<1>3. crowd \in SUBSET Pks
  BY <1>2 DEF Crowd, Seat, RegistryType, PartyIds
<1>4. counter' \in 0 .. MaxParty
  BY <1>2 DEF Admit, TypeOK
<1>5. members' \in [PartyIds -> SUBSET Pks]
  <2>1. members' = [m EXCEPT ![p] = crowd \cup {me}]
    BY DEF Admit
  <2> HIDE DEF p, crowd, me
  <2> QED BY <2>1, <1>1, <1>2, <1>3 DEF RegistryType
<1>6. leader' \in [PartyIds -> Pks \cup {NoLeader}]
  <2>1. leader' = IF known = 0 THEN [l EXCEPT ![p] = host] ELSE l
    BY DEF Admit
  <2> HIDE DEF p
  <2> QED BY <2>1, <1>2 DEF RegistryType
<1>7. userParty' \in [Pks -> 0 .. MaxParty]
  <2>1. userParty' = [v \in Pks |-> IF v = me \/ (known = 0 /\ v = host)
                                      THEN p ELSE up[v]]
    BY DEF Admit
  <2> HIDE DEF p, me
  <2> QED BY <2>1, <1>2 DEF RegistryType
<1>8. /\ sess' \in [Servers -> [Objs -> [pk : Pks, party : 0 .. MaxParty]]]
      /\ \A t \in Servers, q \in Objs : sess'[t][q].party < SessMod
  <2>1. PICK seats : sess' = SetPartyId(ss, s, seats, p)
    BY DEF Admit
  <2> HIDE DEF p
  <2> QED BY <2>1, <1>2, SetPartyIdType DEF RegistryType
<1>9. chan' \in [Servers -> Seq(Msgs)]
  <2>1. chan' = PublishToUsers(ch, "join", p, me, NoUser, crowd \ {me})
    BY DEF Admit, Sent, NotifyPartyJoin
  <2>2. "join" \in Kinds
    BY DEF Kinds
  <2> HIDE DEF p, me, crowd
  <2> QED BY <2>1, <2>2, <1>1, <1>2, <1>3, PublishType DEF RegistryType
<1>10. UNCHANGED <<userServer, ttl, objNum>>
  BY DEF Admit
<1> QED BY <1>4, <1>5, <1>6, <1>7, <1>8, <1>9, <1>10 DEF TypeOK

-----------------------------------------------------------------------------
(* Type correctness *)

LEMMA InitType == Init => TypeOK
<1> SUFFICES ASSUME Init PROVE TypeOK
  OBVIOUS
<1>1. 0 \in 0 .. MaxParty /\ 0 < SessMod
  BY PartyAssumption
<1>2. Free \in [pk : Pks, party : 0 .. MaxParty] /\ Free.party = 0
  BY <1>1 DEF Free
<1>3. Obj0 \in Objs
  BY PartyAssumption
<1> HIDE DEF Free
<1> QED BY <1>1, <1>2, <1>3 DEF Init, TypeOK

\* Each action keeps the types.
LEMMA NextType == TypeOK /\ [Next]_vars => TypeOK'
<1> SUFFICES ASSUME TypeOK, [Next]_vars
             PROVE  TypeOK'
  OBVIOUS
<1>0. 0 \in 0 .. MaxParty
  BY PartyAssumption
<1>now. RegistryType(members, leader, userParty, sess, chan)
  BY DEF TypeOK, RegistryType
<1>1. ASSUME NEW s \in Servers, NEW o \in Objs, NEW host \in Users,
             Follow(s, o, host) \/ InviteAccept(s, o, host)
      PROVE  TypeOK'
  <2>1. userParty[host] \in 0 .. MaxParty
    BY DEF TypeOK
  <2>2. Admit(s, o, host, userParty[host], members, leader, userParty, sess, chan)
    BY <1>1 DEF Follow, InviteAccept
  <2> QED BY <1>now, <2>1, <2>2, AdmitType
<1>2. ASSUME NEW s \in Servers, NEW o \in Objs, NEW host \in Users,
             InviteSwitch(s, o, host)
      PROVE  TypeOK'
  <2> DEFINE me == sess[s][o].pk
             p  == sess[s][o].party
  <2>1. p # 0
    BY <1>2 DEF InviteSwitch, Asks
  <2>2. me \in Pks /\ p \in PartyIds
    BY <2>1 DEF TypeOK, PartyIds
  <2>3. PICK heir \in Pks :
           Admit(s, o, host, userParty[host], LeaveMembers(me, p),
                 LeaveLeader(me, p, heir), LeaveUserParty(me, p),
                 LeaveSess(s, me, p), NotifyPartyLeave(me, p, heir))
    BY <1>2 DEF InviteSwitch
  <2>4. RegistryType(LeaveMembers(me, p), LeaveLeader(me, p, heir),
                     LeaveUserParty(me, p), LeaveSess(s, me, p),
                     NotifyPartyLeave(me, p, heir))
    BY <2>2, LeaveType
  <2>5. userParty[host] \in 0 .. MaxParty
    BY DEF TypeOK
  <2> QED BY <2>1, <2>3, <2>4, <2>5, AdmitType
<1>3. ASSUME NEW s \in Servers, NEW o \in Objs, LeaveParty(s, o)
      PROVE  TypeOK'
  <2> DEFINE me == sess[s][o].pk
             p  == sess[s][o].party
  <2>1. me \in Pks /\ p \in PartyIds
    BY <1>3 DEF LeaveParty, TypeOK, PartyIds
  <2>2. PICK heir \in Pks :
          /\ leader' = LeaveLeader(me, p, heir)
          /\ chan' = NotifyPartyLeave(me, p, heir)
    BY <1>3 DEF LeaveParty, Sent
  <2>3. RegistryType(members', leader', userParty', sess', chan')
    <3>1. RegistryType(LeaveMembers(me, p), LeaveLeader(me, p, heir),
                       LeaveUserParty(me, p), LeaveSess(s, me, p),
                       NotifyPartyLeave(me, p, heir))
      BY <2>1, LeaveType
    <3>2. /\ members' = LeaveMembers(me, p)
          /\ userParty' = LeaveUserParty(me, p)
          /\ sess' = LeaveSess(s, me, p)
      BY <1>3 DEF LeaveParty
    <3> QED BY <3>1, <3>2, <2>2
  <2>4. UNCHANGED <<counter, userServer, ttl, objNum>>
    BY <1>3 DEF LeaveParty
  <2> QED BY <2>3, <2>4 DEF RegistryType, TypeOK
<1>4. ASSUME NEW s \in Servers, NEW o \in Objs, NEW target \in Users,
             Kick(s, o, target)
      PROVE  TypeOK'
  <2> DEFINE p == sess[s][o].party
  <2>1. p \in PartyIds /\ p \in 0 .. MaxParty
    BY <1>4 DEF Kick, TypeOK, PartyIds
  <2>2. members' \in [PartyIds -> SUBSET Pks]
    BY <1>4 DEF Kick, TypeOK
  <2>3. userParty' \in [Pks -> 0 .. MaxParty]
    BY <1>4, <1>0 DEF Kick, TypeOK
  <2>4. sess' = SetPartyId(sess, s, {FindUserByPk(s, target)}, 0)
    BY <1>4 DEF Kick
  <2>5. chan' \in [Servers -> Seq(Msgs)]
    <3>1. chan' = PublishToUsers(chan, "kick", p, target, NoUser, members[p])
      BY <1>4 DEF Kick, Sent, NotifyPartyKick
    <3>2. "kick" \in Kinds /\ members[p] \in SUBSET Pks
      BY <2>1 DEF Kinds, TypeOK
    <3> HIDE DEF p
    <3> QED BY <3>1, <3>2, <2>1, PublishType DEF TypeOK
  <2>6. UNCHANGED <<counter, leader, userServer, ttl, objNum>>
    BY <1>4 DEF Kick
  <2>7. /\ sess' \in [Servers -> [Objs -> [pk : Pks, party : 0 .. MaxParty]]]
        /\ \A t \in Servers, q \in Objs : sess'[t][q].party < SessMod
    BY <2>4, <1>0, SetPartyIdType DEF TypeOK
  <2> QED BY <2>2, <2>3, <2>5, <2>6, <2>7 DEF TypeOK
<1>5. ASSUME NEW s \in Servers, NEW o \in Objs, NEW target \in Users,
             Delegate(s, o, target)
      PROVE  TypeOK'
  <2> DEFINE p == sess[s][o].party
  <2>1. p \in PartyIds /\ p \in 0 .. MaxParty /\ members[p] \in SUBSET Pks
    BY <1>5 DEF Delegate, TypeOK, PartyIds
  <2>2. chan' = PublishToUsers(chan, "delegate", p, NoUser, target, members[p])
    BY <1>5 DEF Delegate, Sent, NotifyPartyDelegate
  <2>3. "delegate" \in Kinds
    BY DEF Kinds
  <2>4. leader' \in [PartyIds -> Pks \cup {NoLeader}]
    BY <1>5 DEF Delegate, TypeOK
  <2>5. UNCHANGED <<counter, members, userParty, userServer, ttl, sess, objNum>>
    BY <1>5 DEF Delegate
  <2> HIDE DEF p
  <2>6. chan' \in [Servers -> Seq(Msgs)]
    BY <2>1, <2>2, <2>3, PublishType DEF TypeOK
  <2> QED BY <2>4, <2>5, <2>6 DEF TypeOK
<1>6. ASSUME NEW s \in Servers, NEW o \in Objs, NEW target \in Users,
             Invite(s, o, target) \/ InviteRefuse(s, o, target)
      PROVE  TypeOK'
  <2> DEFINE me == sess[s][o].pk
             p  == sess[s][o].party
  <2>1. me \in Pks /\ p \in 0 .. MaxParty
    BY DEF TypeOK
  <2>2. {"invite", "reject"} \subseteq Kinds
    BY DEF Kinds
  <2>3. \/ chan' = PublishToUsers(chan, "invite", p, me, NoUser, {target})
        \/ chan' = PublishToUsers(chan, "reject", 0, NoUser, NoUser, {target})
    BY <1>6 DEF Invite, InviteRefuse, Sent
  <2>4. UNCHANGED <<counter, members, leader, userParty, userServer, ttl, sess,
                    objNum>>
    BY <1>6 DEF Invite, InviteRefuse
  <2> HIDE DEF me, p
  <2>5. chan' \in [Servers -> Seq(Msgs)]
    <3>1. chan \in [Servers -> Seq(Msgs)] /\ {target} \in SUBSET Pks
      BY DEF TypeOK
    <3>2. CASE chan' = PublishToUsers(chan, "invite", p, me, NoUser, {target})
      BY <2>1, <2>2, <3>1, <3>2, PublishType
    <3>3. CASE chan' = PublishToUsers(chan, "reject", 0, NoUser, NoUser, {target})
      BY <1>0, <2>2, <3>1, <3>3, PublishType
    <3> QED BY <2>3, <3>2, <3>3
  <2> QED BY <2>4, <2>5 DEF TypeOK
<1>12. ASSUME NEW s \in Servers, NEW o \in Objs, MatchStart(s, o)
       PROVE  TypeOK'
  <2> DEFINE me == sess[s][o].pk
             p  == sess[s][o].party
  <2>1. p \in PartyIds /\ p \in 0 .. MaxParty
    BY <1>12 DEF MatchStart, TypeOK, PartyIds
  <2>2. chan' = PublishToUsers(chan, "match", p, NoUser, NoUser,
                               members[p] \ {me})
    BY <1>12 DEF MatchStart, Sent, NotifyMatchStart
  <2>3. "match" \in Kinds
    BY DEF Kinds
  <2>4. UNCHANGED <<counter, members, leader, userParty, userServer, ttl, sess,
                    objNum>>
    BY <1>12 DEF MatchStart
  <2> HIDE DEF me, p
  <2>5. members[p] \ {me} \in SUBSET Pks
    BY <2>1 DEF TypeOK
  <2>6. chan' \in [Servers -> Seq(Msgs)]
    BY <2>1, <2>2, <2>3, <2>5, PublishType DEF TypeOK
  <2> QED BY <2>4, <2>6 DEF TypeOK
<1>7. ASSUME NEW s \in Servers, NEW o \in Objs, NEW u \in Users, Connect(s, o, u)
      PROVE  TypeOK'
  <2> DEFINE kept == IF userParty[u] # 0 /\ u \in members[userParty[u]]
                     THEN userParty[u] ELSE 0
  <2>1. kept \in 0 .. MaxParty
    BY <1>0 DEF TypeOK
  <2>2. /\ sess' = [sess EXCEPT ![s][o] = [pk |-> u, party |-> kept % SessMod]]
        /\ objNum' = [objNum EXCEPT ![s][u] = o]
        /\ userParty' = [userParty EXCEPT ![u] = kept]
        /\ userServer' = [userServer EXCEPT ![u] = s]
        /\ ttl' = [ttl EXCEPT ![u] = TRUE]
        /\ chan' = PublishToUsers(chan, "status", kept, u, NoUser,
                      IF kept = 0 THEN {} ELSE members[kept] \ {u})
        /\ UNCHANGED <<counter, members, leader>>
    BY <1>7 DEF Connect, Sent, NotifyPartyMemberStatus
  <2> HIDE DEF kept
  <2>3. (IF kept = 0 THEN {} ELSE members[kept] \ {u}) \in SUBSET Pks
    <3>1. CASE kept = 0
      BY <3>1
    <3>2. CASE kept # 0
      <4>1. kept \in PartyIds
        BY <2>1, <3>2, PartyAssumption DEF PartyIds
      <4>2. members[kept] \in SUBSET Pks
        BY <4>1 DEF TypeOK
      <4> QED BY <3>2, <4>2
    <3> QED BY <3>1, <3>2
  <2>4. "status" \in Kinds
    BY DEF Kinds
  <2>5. chan' \in [Servers -> Seq(Msgs)]
    BY <2>1, <2>2, <2>3, <2>4, PublishType DEF TypeOK
  <2>6. kept % SessMod \in 0 .. MaxParty /\ kept % SessMod < SessMod
    BY <2>1, Narrow
  <2> DEFINE k == kept % SessMod
  <2> HIDE DEF k
  <2>7. /\ sess' \in [Servers -> [Objs -> [pk : Pks, party : 0 .. MaxParty]]]
        /\ \A t \in Servers, q \in Objs : sess'[t][q].party < SessMod
    <3>1. sess' = [sess EXCEPT ![s][o] = [pk |-> u, party |-> k]]
      BY <2>2 DEF k
    <3>2. k \in 0 .. MaxParty /\ k < SessMod
      BY <2>6 DEF k
    <3> QED BY <3>1, <3>2 DEF TypeOK
  <2>8. /\ objNum' \in [Servers -> [Users -> Objs]]
        /\ userParty' \in [Pks -> 0 .. MaxParty]
        /\ userServer' \in [Users -> Servers \cup {NoServer}]
        /\ ttl' \in [Users -> BOOLEAN]
    BY <2>1, <2>2 DEF TypeOK
  <2> QED BY <2>2, <2>5, <2>7, <2>8 DEF TypeOK
<1>8. ASSUME NEW s \in Servers, NEW o \in Objs, Disconnect(s, o)
      PROVE  TypeOK'
  <2> DEFINE u == sess[s][o].pk
             p == sess[s][o].party
  <2>1. u \in Users /\ p \in 0 .. MaxParty
    BY <1>8 DEF Disconnect, LoggedIn, TypeOK
  <2>2. (IF p = 0 THEN {} ELSE members[p] \ {u}) \in SUBSET Pks
    BY <2>1 DEF TypeOK, PartyIds
  <2>3. /\ chan' = PublishToUsers(chan, "status", p, u, NoUser,
                      IF p = 0 THEN {} ELSE members[p] \ {u})
        /\ ttl' = [ttl EXCEPT ![u] = TRUE]
        /\ objNum' = [objNum EXCEPT ![s][u] = Obj0]
        /\ sess' = [sess EXCEPT ![s][o] = Free]
        /\ UNCHANGED <<counter, members, leader, userParty, userServer>>
    BY <1>8 DEF Disconnect, Sent, NotifyPartyMemberStatus
  <2> HIDE DEF u, p
  <2>4. "status" \in Kinds
    BY DEF Kinds
  <2>5. chan' \in [Servers -> Seq(Msgs)]
    BY <2>1, <2>2, <2>3, <2>4, PublishType DEF TypeOK
  <2>6. /\ sess' \in [Servers -> [Objs -> [pk : Pks, party : 0 .. MaxParty]]]
        /\ \A t \in Servers, q \in Objs : sess'[t][q].party < SessMod
    <3>1. /\ Free \in [pk : Pks, party : 0 .. MaxParty]
          /\ Free.party < SessMod
      BY <1>0, PartyAssumption DEF Free
    <3> HIDE DEF Free
    <3> QED BY <2>3, <3>1 DEF TypeOK
  <2>7. ttl' \in [Users -> BOOLEAN] /\ objNum' \in [Servers -> [Users -> Objs]]
    BY <2>1, <2>3, PartyAssumption DEF TypeOK
  <2> QED BY <2>3, <2>5, <2>6, <2>7 DEF TypeOK
<1>13. ASSUME NEW s \in Servers, NEW o \in Objs, DisconnectStranger(s, o)
       PROVE  TypeOK'
  <2>1. /\ Free \in [pk : Pks, party : 0 .. MaxParty]
        /\ Free.party < SessMod
    BY <1>0, PartyAssumption DEF Free
  <2> HIDE DEF Free
  <2> QED BY <1>13, <2>1 DEF DisconnectStranger, TypeOK
<1>9. ASSUME NEW s \in Servers, Deliver(s)
      PROVE  TypeOK'
  <2>1. /\ sess' \in [Servers -> [Objs -> [pk : Pks, party : 0 .. MaxParty]]]
        /\ \A t \in Servers, q \in Objs : sess'[t][q].party < SessMod
    BY <1>0, <1>9, SetPartyIdType DEF Deliver, TypeOK
  <2>2. chan' \in [Servers -> Seq(Msgs)]
    <3>1. Tail(chan[s]) \in Seq(Msgs)
      BY <1>9 DEF Deliver, TypeOK
    <3> QED BY <1>9, <3>1 DEF Deliver, TypeOK
  <2>3. UNCHANGED <<counter, members, leader, userParty, userServer, ttl, objNum>>
    BY <1>9 DEF Deliver
  <2> QED BY <2>1, <2>2, <2>3 DEF TypeOK
<1>10. ASSUME NEW u \in Users, Expire(u)
       PROVE  TypeOK'
  BY <1>0, <1>10 DEF Expire, TypeOK
<1>11. CASE UNCHANGED vars
  BY <1>11 DEF vars, TypeOK
<1> QED BY <1>1, <1>2, <1>3, <1>4, <1>5, <1>6, <1>7, <1>8, <1>9, <1>10, <1>11,
           <1>12, <1>13 DEF Next, Leave, InviteSwitchFull

\* TypeOK holds in every reachable state: the registry, the sessions, the maps and
\* the channels stay well formed for any users, servers and objects, and a cached
\* party id never exceeds the 16 bits of ConnUser::partyId.
THEOREM TypeCorrect == Spec => []TypeOK
<1> QED BY InitType, NextType, PTL DEF Spec

-----------------------------------------------------------------------------
(* The registry invariants.  Both are inductive together with TypeOK; Home  *)
(* and Fits are their bodies for a registry a handler has half computed.   *)

Home(m, up) == \A u \in Pks : up[u] # 0 => u \in m[up[u]]

Fits(m) == \A p \in PartyIds : Cardinality(m[p]) <= PartyCap

\* LeavePartyInternal clears the partyId of everybody it takes out of the set,
\* and makes no set larger.
LEMMA LeaveKeeps ==
  ASSUME TypeOK, NEW u \in Pks, NEW p \in PartyIds
  PROVE  /\ Home(members, userParty) => Home(LeaveMembers(u, p), LeaveUserParty(u, p))
         /\ Fits(members) => Fits(LeaveMembers(u, p))
<1>1. ASSUME Home(members, userParty), NEW v \in Pks, LeaveUserParty(u, p)[v] # 0
      PROVE  v \in LeaveMembers(u, p)[LeaveUserParty(u, p)[v]]
  <2>1. v \notin Dropped(u, p) /\ LeaveUserParty(u, p)[v] = userParty[v]
    BY <1>1 DEF LeaveUserParty
  <2>2. v \in members[userParty[v]] /\ userParty[v] \in PartyIds
    BY <1>1, <2>1 DEF Home, TypeOK, PartyIds
  <2>3. CASE userParty[v] # p
    BY <2>1, <2>2, <2>3 DEF LeaveMembers, TypeOK
  <2>4. CASE userParty[v] = p
    <3>1. v \in Remaining(u, p) /\ Survives(u, p)
      BY <2>1, <2>2, <2>4 DEF Dropped, Remaining
    <3> QED BY <2>1, <2>4, <3>1 DEF LeaveMembers, TypeOK
  <2> QED BY <2>3, <2>4
<1>2. ASSUME Fits(members), NEW q \in PartyIds
      PROVE  Cardinality(LeaveMembers(u, p)[q]) <= PartyCap
  <2>1. LeaveMembers(u, p)[q] \subseteq members[q] /\ members[q] \subseteq Pks
    BY DEF LeaveMembers, Remaining, TypeOK
  <2>2. IsFiniteSet(members[q])
    BY <2>1, FS_Subset, PksFinite
  <2>3. Cardinality(LeaveMembers(u, p)[q]) <= Cardinality(members[q])
    BY <2>1, <2>2, FS_Subset
  <2>4. /\ Cardinality(members[q]) \in Nat
        /\ Cardinality(LeaveMembers(u, p)[q]) \in Nat
    BY <2>1, <2>2, FS_Subset, FS_CardinalityType
  <2> QED BY <1>2, <2>3, <2>4, PartyAssumption DEF Fits
<1> QED BY <1>1, <1>2 DEF Home, Fits

\* Joining keeps both: the newcomer is added after the size was checked, and its
\* partyId names the set it was added to.
LEMMA AdmitKeeps ==
  ASSUME TypeOK, NEW s \in Servers, NEW o \in Objs,
         NEW host \in Users, NEW known \in 0 .. MaxParty,
         NEW m, NEW l, NEW up, NEW ss, NEW ch,
         RegistryType(m, l, up, ss, ch),
         Admit(s, o, host, known, m, l, up, ss, ch)
  PROVE  /\ Home(m, up) => Home(members', userParty')
         /\ Fits(m) => Fits(members')
<1> DEFINE me == sess[s][o].pk
           p == Seat(known)
           crowd == Crowd(host, known, m)
<1>1. me \in Pks
  BY DEF TypeOK
<1>2. p \in PartyIds /\ Cardinality(crowd) < PartyCap
  BY DEF Admit, HasSeat
<1>3. /\ m[p] \subseteq crowd
      /\ crowd \subseteq Pks
      /\ known = 0 => host \in crowd
  BY <1>2 DEF Crowd, Seat, RegistryType
<1>4. /\ members' = [m EXCEPT ![p] = crowd \cup {me}]
      /\ userParty' = [v \in Pks |-> IF v = me \/ (known = 0 /\ v = host)
                                       THEN p ELSE up[v]]
  BY DEF Admit
<1> HIDE DEF me, p, crowd
<1>5. ASSUME Home(m, up), NEW v \in Pks, userParty'[v] # 0
      PROVE  v \in members'[userParty'[v]]
  <2>1. CASE v = me \/ (known = 0 /\ v = host)
    BY <1>2, <1>3, <1>4, <2>1 DEF RegistryType
  <2>2. CASE ~(v = me \/ (known = 0 /\ v = host))
    <3>1. userParty'[v] = up[v] /\ up[v] \in PartyIds /\ v \in m[up[v]]
      BY <1>4, <1>5, <2>2 DEF Home, RegistryType, PartyIds
    <3> QED BY <1>3, <1>4, <3>1 DEF RegistryType
  <2> QED BY <2>1, <2>2
<1>6. ASSUME Fits(m), NEW q \in PartyIds
      PROVE  Cardinality(members'[q]) <= PartyCap
  <2>1. CASE q # p
    BY <1>2, <1>4, <1>6, <2>1 DEF Fits, RegistryType
  <2>2. CASE q = p
    <3>1. members'[q] = crowd \cup {me}
      BY <1>2, <1>4, <2>2 DEF RegistryType
    <3>2. IsFiniteSet(crowd)
      BY <1>3, FS_Subset, PksFinite
    <3>3. Cardinality(crowd) \in Nat
      BY <3>2, FS_CardinalityType
    <3>4. Cardinality(crowd \cup {me}) =
            IF me \in crowd THEN Cardinality(crowd) ELSE Cardinality(crowd) + 1
      BY <3>2, FS_AddElement
    <3> QED BY <1>2, <3>1, <3>3, <3>4, PartyAssumption
  <2> QED BY <2>1, <2>2
<1> QED BY <1>5, <1>6 DEF Home, Fits

LEMMA RegistryInit == Init => PartyPointsHome /\ Capacity
<1> SUFFICES ASSUME Init PROVE PartyPointsHome /\ Capacity
  OBVIOUS
<1>1. \A p \in PartyIds : Cardinality(members[p]) = 0
  BY FS_EmptySet DEF Init
<1> QED BY <1>1, PartyAssumption DEF Init, PartyPointsHome, Capacity

LEMMA RegistryNext ==
  TypeOK /\ PartyPointsHome /\ Capacity /\ [Next]_vars
    => PartyPointsHome' /\ Capacity'
<1> SUFFICES ASSUME TypeOK, PartyPointsHome, Capacity, [Next]_vars
             PROVE  PartyPointsHome' /\ Capacity'
  OBVIOUS
<1> USE DEF PartyPointsHome, Capacity
<1>now. /\ RegistryType(members, leader, userParty, sess, chan)
        /\ Home(members, userParty) /\ Fits(members)
  BY DEF TypeOK, RegistryType, Home, Fits
<1>1. ASSUME NEW s \in Servers, NEW o \in Objs, NEW host \in Users,
             Follow(s, o, host) \/ InviteAccept(s, o, host)
      PROVE  Home(members', userParty') /\ Fits(members')
  <2>1. userParty[host] \in 0 .. MaxParty
    BY <1>1 DEF TypeOK, Follow, InviteAccept, Asks
  <2>2. Admit(s, o, host, userParty[host], members, leader, userParty, sess, chan)
    BY <1>1 DEF Follow, InviteAccept
  <2> QED BY <1>now, <2>1, <2>2, AdmitKeeps
<1>2. ASSUME NEW s \in Servers, NEW o \in Objs, NEW host \in Users,
             InviteSwitch(s, o, host)
      PROVE  Home(members', userParty') /\ Fits(members')
  <2> DEFINE me == sess[s][o].pk
             p  == sess[s][o].party
  <2>1. p # 0
    BY <1>2 DEF InviteSwitch, Asks
  <2>2. me \in Pks /\ p \in PartyIds /\ userParty[host] \in 0 .. MaxParty
    BY <2>1 DEF TypeOK, PartyIds
  <2>3. PICK heir \in Pks :
           Admit(s, o, host, userParty[host], LeaveMembers(me, p),
                 LeaveLeader(me, p, heir), LeaveUserParty(me, p),
                 LeaveSess(s, me, p), NotifyPartyLeave(me, p, heir))
    BY <1>2 DEF InviteSwitch
  <2>4. RegistryType(LeaveMembers(me, p), LeaveLeader(me, p, heir),
                     LeaveUserParty(me, p), LeaveSess(s, me, p),
                     NotifyPartyLeave(me, p, heir))
    BY <2>2, LeaveType
  <2>5. Home(LeaveMembers(me, p), LeaveUserParty(me, p)) /\ Fits(LeaveMembers(me, p))
    BY <1>now, <2>2, LeaveKeeps
  <2> QED BY <2>1, <2>2, <2>3, <2>4, <2>5, AdmitKeeps
<1>3. ASSUME NEW s \in Servers, NEW o \in Objs, LeaveParty(s, o)
      PROVE  Home(members', userParty') /\ Fits(members')
  <2> DEFINE me == sess[s][o].pk
             p  == sess[s][o].party
  <2>1. me \in Pks /\ p \in PartyIds
    BY <1>3 DEF LeaveParty, TypeOK, PartyIds
  <2>2. members' = LeaveMembers(me, p) /\ userParty' = LeaveUserParty(me, p)
    BY <1>3 DEF LeaveParty
  <2> QED BY <1>now, <2>1, <2>2, LeaveKeeps
<1>4. ASSUME NEW s \in Servers, NEW o \in Objs, NEW target \in Users,
             Kick(s, o, target)
      PROVE  Home(members', userParty') /\ Fits(members')
  <2> DEFINE p == sess[s][o].party
  <2>1. p \in PartyIds
    BY <1>4 DEF Kick, TypeOK, PartyIds
  <2>2. /\ members' = [members EXCEPT ![p] = @ \ {target}]
        /\ userParty' = [userParty EXCEPT ![target] = 0]
    BY <1>4 DEF Kick
  <2> HIDE DEF p
  <2>3. Home(members', userParty')
    BY <1>now, <2>1, <2>2 DEF Home, TypeOK, PartyIds
  <2>4. ASSUME NEW q \in PartyIds
        PROVE  Cardinality(members'[q]) <= PartyCap
    <3>1. members'[q] \subseteq members[q] /\ members[q] \subseteq Pks
      BY <2>2 DEF TypeOK
    <3>2. IsFiniteSet(members[q])
      BY <3>1, FS_Subset, PksFinite
    <3>3. Cardinality(members'[q]) <= Cardinality(members[q])
      BY <3>1, <3>2, FS_Subset
    <3>4. Cardinality(members[q]) \in Nat /\ Cardinality(members'[q]) \in Nat
      BY <3>1, <3>2, FS_Subset, FS_CardinalityType
    <3> QED BY <3>3, <3>4, PartyAssumption
  <2> QED BY <2>3, <2>4 DEF Fits
<1>5. ASSUME NEW s \in Servers, NEW o \in Objs, NEW u \in Users, Connect(s, o, u)
      PROVE  Home(members', userParty') /\ Fits(members')
  <2>1. /\ members' = members
        /\ userParty' = [userParty EXCEPT ![u] =
                           IF userParty[u] # 0 /\ u \in members[userParty[u]]
                           THEN userParty[u] ELSE 0]
    BY <1>5 DEF Connect
  <2> QED BY <1>now, <2>1 DEF Home, TypeOK
<1>6. ASSUME NEW u \in Users, Expire(u)
      PROVE  Home(members', userParty') /\ Fits(members')
  BY <1>now, <1>6 DEF Expire, Home, TypeOK
<1>7. ASSUME UNCHANGED <<members, userParty>>
      PROVE  Home(members', userParty') /\ Fits(members')
  BY <1>now, <1>7 DEF Home, Fits
<1>8. ASSUME NEW s \in Servers, NEW o \in Objs, NEW u \in Users,
             Invite(s, o, u) \/ InviteRefuse(s, o, u) \/ Delegate(s, o, u)
      PROVE  Home(members', userParty') /\ Fits(members')
  BY <1>7, <1>8 DEF Invite, InviteRefuse, Delegate
<1>9. ASSUME NEW s \in Servers, NEW o \in Objs, \/ MatchStart(s, o)
             \/ Disconnect(s, o) \/ DisconnectStranger(s, o)
      PROVE  Home(members', userParty') /\ Fits(members')
  BY <1>7, <1>9 DEF MatchStart, Disconnect, DisconnectStranger
<1>10. ASSUME NEW s \in Servers, Deliver(s)
       PROVE  Home(members', userParty') /\ Fits(members')
  BY <1>7, <1>10 DEF Deliver
<1>11. ASSUME UNCHANGED vars
       PROVE  Home(members', userParty') /\ Fits(members')
  BY <1>7, <1>11 DEF vars
<1>12. Home(members', userParty') /\ Fits(members')
  BY <1>1, <1>2, <1>3, <1>4, <1>5, <1>6, <1>8, <1>9, <1>10, <1>11
     DEF Next, Leave, InviteSwitchFull
<1> QED BY <1>12 DEF Home, Fits

\* The party a user key names always lists the user, for any number of users and
\* servers, through every order of requests, logins and expiries that do not
\* overlap: no handler takes a member out without clearing its partyId.
THEOREM PointsHome == Spec => []PartyPointsHome
<1>1. Init => TypeOK /\ PartyPointsHome /\ Capacity
  BY InitType, RegistryInit
<1>2. TypeOK /\ PartyPointsHome /\ Capacity /\ [Next]_vars
        => (TypeOK /\ PartyPointsHome /\ Capacity)'
  BY NextType, RegistryNext
<1> QED BY <1>1, <1>2, PTL DEF Spec

\* No party ever has more members than PartyCap, whatever PartyCap is: the SCARD
\* check in front of each SADD is enough while requests do not overlap.
THEOREM NeverOverfull == Spec => []Capacity
<1>1. Init => TypeOK /\ PartyPointsHome /\ Capacity
  BY InitType, RegistryInit
<1>2. TypeOK /\ PartyPointsHome /\ Capacity /\ [Next]_vars
        => (TypeOK /\ PartyPointsHome /\ Capacity)'
  BY NextType, RegistryNext
<1> QED BY <1>1, <1>2, PTL DEF Spec

-----------------------------------------------------------------------------
(* Leadership, and what dropped users are told *)

\* An id that was not given out has no leader.
Unopened == \A p \in PartyIds : p > counter => leader[p] = NoLeader

Inv == TypeOK /\ PartyPointsHome /\ Capacity /\ Unopened

\* What LeavePartyInternal makes of the party: it lives on under its leader or a
\* remaining member, or it is gone with both its keys.
LEMMA LeaveOutcome ==
  ASSUME TypeOK, NEW u \in Pks, NEW p \in PartyIds, NEW heir \in Pks,
         IsHeir(heir, u, p)
  PROVE  /\ \A q \in PartyIds \ {p} : /\ LeaveMembers(u, p)[q] = members[q]
                                      /\ LeaveLeader(u, p, heir)[q] = leader[q]
         /\ Survives(u, p) =>
              /\ LeaveMembers(u, p)[p] = members[p] \ {u}
              /\ leader[p] = u => LeaveLeader(u, p, heir)[p] \in members[p] \ {u}
              /\ leader[p] # u => LeaveLeader(u, p, heir)[p] = leader[p]
         /\ ~Survives(u, p) =>
              /\ LeaveMembers(u, p)[p] = {} /\ LeaveLeader(u, p, heir)[p] = NoLeader
              /\ heir = NoUser /\ Cardinality(members[p]) <= 2
<1>1. /\ members \in [PartyIds -> SUBSET Pks] /\ NoLeader \notin Pks
      /\ leader \in [PartyIds -> Pks \cup {NoLeader}]
  BY PartyAssumption DEF TypeOK
<1>2. \A q \in PartyIds \ {p} : /\ LeaveMembers(u, p)[q] = members[q]
                                /\ LeaveLeader(u, p, heir)[q] = leader[q]
  BY <1>1 DEF LeaveMembers, LeaveLeader
<1>3. ASSUME Survives(u, p)
      PROVE  /\ LeaveMembers(u, p)[p] = members[p] \ {u}
             /\ leader[p] = u => LeaveLeader(u, p, heir)[p] \in members[p] \ {u}
             /\ leader[p] # u => LeaveLeader(u, p, heir)[p] = leader[p]
  BY <1>1, <1>3 DEF IsHeir, HandsOver, LeaveMembers, LeaveLeader, Remaining
<1>4. ASSUME ~Survives(u, p)
      PROVE  /\ LeaveMembers(u, p)[p] = {} /\ LeaveLeader(u, p, heir)[p] = NoLeader
             /\ heir = NoUser /\ Cardinality(members[p]) <= 2
  <2>1. LeaveMembers(u, p)[p] = {} /\ LeaveLeader(u, p, heir)[p] = NoLeader /\ heir = NoUser
    BY <1>1, <1>4 DEF IsHeir, HandsOver, LeaveMembers, LeaveLeader
  <2>2. IsFiniteSet(members[p])
    BY <1>1, FS_Subset, PksFinite
  <2>3. /\ Cardinality(members[p]) \in Nat
        /\ Cardinality(members[p] \ {u}) \in Nat
        /\ Cardinality(members[p] \ {u}) =
             IF u \in members[p] THEN Cardinality(members[p]) - 1
                                 ELSE Cardinality(members[p])
    BY <2>2, FS_RemoveElement, FS_CardinalityType
  <2>4. ~(Cardinality(members[p] \ {u}) >= 2)
    BY <1>4 DEF Survives, Remaining
  <2> QED BY <2>1, <2>3, <2>4
<1> QED BY <1>2, <1>3, <1>4

\* What joining makes of the registry m, l, up that the handler has computed.
LEMMA AdmitOutcome ==
  ASSUME TypeOK, NEW s \in Servers, NEW o \in Objs,
         NEW host \in Users, NEW known \in 0 .. MaxParty,
         NEW m, NEW l, NEW up, NEW ss, NEW ch,
         RegistryType(m, l, up, ss, ch),
         Admit(s, o, host, known, m, l, up, ss, ch)
  PROVE  /\ Seat(known) \in PartyIds /\ sess[s][o].pk \in Pks
         /\ \A q \in PartyIds \ {Seat(known)} : members'[q] = m[q] /\ leader'[q] = l[q]
         /\ m[Seat(known)] \subseteq members'[Seat(known)]
         /\ known = 0 => /\ Seat(known) = counter + 1 /\ counter' = counter + 1
                         /\ leader'[Seat(known)] = host /\ host \in members'[Seat(known)]
         /\ known # 0 => Seat(known) = known /\ counter' = counter /\ leader' = l
         /\ \A v \in Pks : userParty'[v] # 0 \/ userParty'[v] = up[v]
<1> DEFINE me == sess[s][o].pk
           p == Seat(known)
           crowd == Crowd(host, known, m)
<1>1. me \in Pks
  BY DEF TypeOK
<1>2. p \in PartyIds /\ p # 0
  BY DEF Admit, HasSeat, PartyIds
<1>3. /\ counter' = IF known = 0 THEN p ELSE counter
      /\ members' = [m EXCEPT ![p] = crowd \cup {me}]
      /\ leader' = IF known = 0 THEN [l EXCEPT ![p] = host] ELSE l
      /\ userParty' = [v \in Pks |->
                         IF v = me \/ (known = 0 /\ v = host) THEN p ELSE up[v]]
  BY DEF Admit
<1>4. m[p] \subseteq crowd /\ (known = 0 => host \in crowd)
  BY DEF Crowd, Seat
<1>5. /\ m \in [PartyIds -> SUBSET Pks]
      /\ l \in [PartyIds -> Pks \cup {NoLeader}]
  BY DEF RegistryType
<1>6. (known = 0 => p = counter + 1) /\ (known # 0 => p = known)
  BY DEF Seat
<1> HIDE DEF me, p, crowd
<1>7. /\ \A q \in PartyIds \ {p} : members'[q] = m[q] /\ leader'[q] = l[q]
      /\ members'[p] = crowd \cup {me}
      /\ known = 0 => leader'[p] = host
  BY <1>2, <1>3, <1>5
<1>8. \A v \in Pks : userParty'[v] # 0 \/ userParty'[v] = up[v]
  BY <1>2, <1>3
<1>9. known = 0 => counter' = counter + 1
  BY <1>3, <1>6
<1> QED BY <1>1, <1>2, <1>3, <1>4, <1>6, <1>7, <1>8, <1>9 DEF me, p

\* The last of a channel with one more message.
LEMMA LastSent ==
  ASSUME NEW q \in Seq(Msgs), NEW msg \in Msgs
  PROVE  /\ Len(q) \in Nat /\ Len(Append(q, msg)) = Len(q) + 1
         /\ Append(q, msg)[Len(q) + 1] = msg
OBVIOUS

\* The steps, by what they do to the registry.
LEMMA StepCases ==
  ASSUME [Next]_vars
  PROVE  \/ \E s \in Servers, o \in Objs, host \in Users :
              Follow(s, o, host) \/ InviteAccept(s, o, host)
         \/ \E s \in Servers, o \in Objs, host \in Users : InviteSwitch(s, o, host)
         \/ \E s \in Servers, o \in Objs :
              /\ LeaveParty(s, o)
              /\ Leave(s, o) \/ \E host \in Users : InviteSwitchFull(s, o, host)
         \/ \E s \in Servers, o \in Objs, u \in Users : Kick(s, o, u)
         \/ \E s \in Servers, o \in Objs, u \in Users : Delegate(s, o, u)
         \/ /\ UNCHANGED <<counter, members, leader>>
            /\ \/ UNCHANGED userParty
               \/ \E s \in Servers, o \in Objs, u \in Users : Connect(s, o, u)
               \/ \E u \in Users : Expire(u)
<1>1. ASSUME UNCHANGED vars
      PROVE  UNCHANGED <<counter, members, leader>> /\ UNCHANGED userParty
  BY <1>1 DEF vars
<1>2. ASSUME NEW s \in Servers, NEW o \in Objs, \/ MatchStart(s, o)
             \/ Disconnect(s, o) \/ DisconnectStranger(s, o)
      PROVE  UNCHANGED <<counter, members, leader>> /\ UNCHANGED userParty
  BY <1>2 DEF MatchStart, Disconnect, DisconnectStranger
<1>3. ASSUME NEW s \in Servers, NEW o \in Objs, NEW u \in Users,
             Invite(s, o, u) \/ InviteRefuse(s, o, u)
      PROVE  UNCHANGED <<counter, members, leader>> /\ UNCHANGED userParty
  BY <1>3 DEF Invite, InviteRefuse
<1>4. ASSUME NEW s \in Servers, Deliver(s)
      PROVE  UNCHANGED <<counter, members, leader>> /\ UNCHANGED userParty
  BY <1>4 DEF Deliver
<1>5. ASSUME NEW s \in Servers, NEW o \in Objs, NEW u \in Users, Connect(s, o, u)
      PROVE  UNCHANGED <<counter, members, leader>>
  BY <1>5 DEF Connect
<1>6. ASSUME NEW u \in Users, Expire(u)
      PROVE  UNCHANGED <<counter, members, leader>>
  BY <1>6 DEF Expire
<1>7. \A s \in Servers, o \in Objs : Leave(s, o) => LeaveParty(s, o)
  BY DEF Leave
<1>8. \A s \in Servers, o \in Objs, host \in Users :
        InviteSwitchFull(s, o, host) => LeaveParty(s, o)
  BY DEF InviteSwitchFull
<1> QED BY <1>1, <1>2, <1>3, <1>4, <1>5, <1>6, <1>7, <1>8 DEF Next

\* A leave as the only effect of a request, with the successor it names.
LEMMA LeaveSteps ==
  ASSUME TypeOK, NEW s \in Servers, NEW o \in Objs, LeaveParty(s, o)
  PROVE  \E u \in Pks, p \in PartyIds, heir \in Pks :
           /\ u = sess[s][o].pk /\ p = sess[s][o].party /\ IsHeir(heir, u, p)
           /\ members' = LeaveMembers(u, p) /\ leader' = LeaveLeader(u, p, heir)
           /\ userParty' = LeaveUserParty(u, p) /\ counter' = counter
           /\ chan' = NotifyPartyLeave(u, p, heir)
<1> DEFINE me == sess[s][o].pk
           p  == sess[s][o].party
<1>1. me \in Pks /\ p \in PartyIds
  BY DEF LeaveParty, TypeOK, PartyIds
<1>2. PICK heir \in Pks :
        /\ IsHeir(heir, me, p)
        /\ leader' = LeaveLeader(me, p, heir)
        /\ chan' = NotifyPartyLeave(me, p, heir)
  BY DEF LeaveParty, Sent
<1>3. /\ members' = LeaveMembers(me, p) /\ userParty' = LeaveUserParty(me, p)
      /\ counter' = counter
  BY DEF LeaveParty
<1> QED BY <1>1, <1>2, <1>3

\* A leave followed by a join.
LEMMA SwitchSteps ==
  ASSUME TypeOK, NEW s \in Servers, NEW o \in Objs, NEW host \in Users,
         InviteSwitch(s, o, host)
  PROVE  \E u \in Pks, p \in PartyIds, heir \in Pks :
           /\ u = sess[s][o].pk /\ p = sess[s][o].party /\ IsHeir(heir, u, p)
           /\ userParty[host] \in 0 .. MaxParty
           /\ Admit(s, o, host, userParty[host], LeaveMembers(u, p),
                    LeaveLeader(u, p, heir), LeaveUserParty(u, p),
                    LeaveSess(s, u, p), NotifyPartyLeave(u, p, heir))
           /\ RegistryType(LeaveMembers(u, p), LeaveLeader(u, p, heir),
                           LeaveUserParty(u, p), LeaveSess(s, u, p),
                           NotifyPartyLeave(u, p, heir))
<1> DEFINE me == sess[s][o].pk
           p  == sess[s][o].party
<1>1. p # 0
  BY DEF InviteSwitch, Asks
<1>2. me \in Pks /\ p \in PartyIds /\ userParty[host] \in 0 .. MaxParty
  BY <1>1 DEF TypeOK, PartyIds
<1>3. PICK heir \in Pks :
        /\ IsHeir(heir, me, p)
        /\ Admit(s, o, host, userParty[host], LeaveMembers(me, p),
                 LeaveLeader(me, p, heir), LeaveUserParty(me, p),
                 LeaveSess(s, me, p), NotifyPartyLeave(me, p, heir))
  BY DEF InviteSwitch
<1>4. RegistryType(LeaveMembers(me, p), LeaveLeader(me, p, heir),
                   LeaveUserParty(me, p), LeaveSess(s, me, p),
                   NotifyPartyLeave(me, p, heir))
  BY <1>2, LeaveType
<1> QED BY <1>1, <1>2, <1>3, <1>4

\* A join as the only effect of a request.
LEMMA JoinSteps ==
  ASSUME TypeOK, NEW s \in Servers, NEW o \in Objs, NEW host \in Users,
         Follow(s, o, host) \/ InviteAccept(s, o, host)
  PROVE  /\ userParty[host] \in 0 .. MaxParty
         /\ Admit(s, o, host, userParty[host], members, leader, userParty, sess, chan)
         /\ RegistryType(members, leader, userParty, sess, chan)
BY DEF TypeOK, RegistryType, Follow, InviteAccept, Asks

\* An id above the counter has no leader that a request could replace.
LEMMA UnopenedNext == TypeOK /\ Unopened /\ [Next]_vars => Unopened'
<1> SUFFICES ASSUME TypeOK, Unopened, [Next]_vars, NEW p \in PartyIds, p > counter'
             PROVE  leader'[p] = NoLeader
  BY DEF Unopened
<1>0. /\ \A q \in PartyIds : q > counter => leader[q] = NoLeader
      /\ counter \in 0 .. MaxParty /\ PartyIds \subseteq Nat
      /\ leader \in [PartyIds -> Pks \cup {NoLeader}] /\ NoLeader \notin Pks
  BY PartyAssumption DEF Unopened, TypeOK, PartyIds
<1>1. ASSUME NEW s \in Servers, NEW o \in Objs, NEW host \in Users,
             Follow(s, o, host) \/ InviteAccept(s, o, host)
      PROVE  leader'[p] = NoLeader
  <2>1. /\ userParty[host] \in 0 .. MaxParty
        /\ Admit(s, o, host, userParty[host], members, leader, userParty, sess, chan)
        /\ RegistryType(members, leader, userParty, sess, chan)
    BY <1>1, JoinSteps
  <2>2. CASE userParty[host] = 0
    <3>1. /\ counter' = counter + 1 /\ Seat(userParty[host]) = counter + 1
          /\ \A q \in PartyIds \ {Seat(userParty[host])} : leader'[q] = leader[q]
      BY <2>1, <2>2, AdmitOutcome
    <3> QED BY <1>0, <3>1
  <2>3. CASE userParty[host] # 0
    <3>1. counter' = counter /\ leader' = leader
      BY <2>1, <2>3, AdmitOutcome
    <3> QED BY <1>0, <3>1
  <2> QED BY <2>2, <2>3
<1>2. ASSUME NEW u \in Pks, NEW q \in PartyIds, NEW heir \in Pks,
             IsHeir(heir, u, q), p > counter
      PROVE  LeaveLeader(u, q, heir)[p] = NoLeader
  <2>1. leader[p] = NoLeader /\ leader[p] # u
    BY <1>0, <1>2
  <2>2. CASE p # q
    BY <1>2, <2>1, <2>2, LeaveOutcome
  <2>3. CASE p = q
    BY <1>2, <2>1, <2>3, LeaveOutcome
  <2> QED BY <2>2, <2>3
<1>3. ASSUME NEW s \in Servers, NEW o \in Objs, NEW host \in Users,
             InviteSwitch(s, o, host)
      PROVE  leader'[p] = NoLeader
  <2>1. PICK u \in Pks, q \in PartyIds, heir \in Pks :
           /\ u = sess[s][o].pk /\ q = sess[s][o].party /\ IsHeir(heir, u, q)
           /\ userParty[host] \in 0 .. MaxParty
           /\ Admit(s, o, host, userParty[host], LeaveMembers(u, q),
                    LeaveLeader(u, q, heir), LeaveUserParty(u, q),
                    LeaveSess(s, u, q), NotifyPartyLeave(u, q, heir))
           /\ RegistryType(LeaveMembers(u, q), LeaveLeader(u, q, heir),
                           LeaveUserParty(u, q), LeaveSess(s, u, q),
                           NotifyPartyLeave(u, q, heir))
    BY <1>3, SwitchSteps
  <2>2. CASE userParty[host] = 0
    <3>1. /\ counter' = counter + 1 /\ Seat(userParty[host]) = counter + 1
          /\ \A r \in PartyIds \ {Seat(userParty[host])} :
               leader'[r] = LeaveLeader(u, q, heir)[r]
      BY <2>1, <2>2, AdmitOutcome
    <3>2. p > counter /\ p # counter + 1
      BY <1>0, <3>1
    <3> QED BY <1>2, <2>1, <3>1, <3>2
  <2>3. CASE userParty[host] # 0
    <3>1. counter' = counter /\ leader' = LeaveLeader(u, q, heir)
      BY <2>1, <2>3, AdmitOutcome
    <3> QED BY <1>2, <2>1, <3>1
  <2> QED BY <2>2, <2>3
<1>4. ASSUME NEW s \in Servers, NEW o \in Objs, LeaveParty(s, o)
      PROVE  leader'[p] = NoLeader
  BY <1>2, <1>4, LeaveSteps
<1>5. ASSUME NEW s \in Servers, NEW o \in Objs, NEW u \in Users, Delegate(s, o, u)
      PROVE  leader'[p] = NoLeader
  <2>1. /\ leader[sess[s][o].party] = sess[s][o].pk
        /\ leader' = [leader EXCEPT ![sess[s][o].party] = u] /\ counter' = counter
    BY <1>5 DEF Delegate, IsPartyLeader
  <2>2. sess[s][o].pk \in Pks
    BY DEF TypeOK
  <2> QED BY <1>0, <2>1, <2>2
<1>6. ASSUME NEW s \in Servers, NEW o \in Objs, NEW u \in Users, Kick(s, o, u)
      PROVE  leader'[p] = NoLeader
  BY <1>0, <1>6 DEF Kick
<1>7. ASSUME UNCHANGED <<counter, members, leader>>
      PROVE  leader'[p] = NoLeader
  BY <1>0, <1>7
<1> QED BY <1>1, <1>3, <1>4, <1>5, <1>6, <1>7, StepCases

LEMMA Invariance == Spec => []Inv
<1>1. Init => Inv
  <2>1. Init => Unopened
    BY DEF Init, Unopened
  <2> QED BY <2>1, InitType, RegistryInit DEF Inv
<1>2. Inv /\ [Next]_vars => Inv'
  BY NextType, RegistryNext, UnopenedNext DEF Inv
<1> QED BY <1>1, <1>2, PTL DEF Spec

\* A leave hands a party over only when its leader leaves, and ends its leadership only
\* when at most one other member was left.
LEMMA LeaveHands ==
  ASSUME TypeOK, NEW u \in Pks, NEW p \in PartyIds, NEW heir \in Pks,
         IsHeir(heir, u, p), NEW q \in PartyIds, leader[q] # NoLeader,
         LeaveLeader(u, p, heir)[q] # leader[q]
  PROVE  \/ LeaveLeader(u, p, heir)[q] = NoLeader /\ Cardinality(members[q]) <= 2
         \/ q = p /\ leader[q] = u
<1>1. q = p
  BY LeaveOutcome
<1>2. CASE Survives(u, p)
  BY <1>1, <1>2, LeaveOutcome
<1>3. CASE ~Survives(u, p)
  BY <1>1, <1>3, LeaveOutcome
<1> QED BY <1>2, <1>3

\* Leadership passes to another user only by a request of the leader, for any number of
\* users, servers and sessions, also stale ones; it ends only with at most one other
\* member left (LeavePartyInternal, ProcessPartyDelegate).
THEOREM LeadersHandOver == Spec => LeaderHandsOver
<1>1. ASSUME Inv, [Next]_vars, NEW p \in PartyIds,
             leader[p] # NoLeader, leader'[p] # leader[p]
      PROVE  \/ leader'[p] = NoLeader /\ Cardinality(members[p]) <= 2
             \/ \E s \in Servers, o \in Objs :
                  /\ sess[s][o].pk = leader[p] /\ sess[s][o].party = p
                  /\ \/ Leave(s, o)
                     \/ \E u \in Users : \/ InviteSwitch(s, o, u)
                                        \/ InviteSwitchFull(s, o, u)
                                        \/ Delegate(s, o, u)
  <2>0. TypeOK /\ counter \in Nat /\ p <= counter
    BY <1>1 DEF Inv, Unopened, TypeOK, PartyIds
  <2>1. ASSUME NEW s \in Servers, NEW o \in Objs, NEW host \in Users,
               Follow(s, o, host) \/ InviteAccept(s, o, host)
        PROVE  leader'[p] = leader[p]
    <3>1. /\ userParty[host] \in 0 .. MaxParty
          /\ Admit(s, o, host, userParty[host], members, leader, userParty, sess, chan)
          /\ RegistryType(members, leader, userParty, sess, chan)
      BY <2>0, <2>1, JoinSteps
    <3>2. CASE userParty[host] = 0
      <4>1. /\ Seat(userParty[host]) = counter + 1
            /\ \A q \in PartyIds \ {Seat(userParty[host])} : leader'[q] = leader[q]
        BY <2>0, <3>1, <3>2, AdmitOutcome
      <4>2. p # counter + 1
        BY <2>0
      <4> QED BY <4>1, <4>2
    <3>3. CASE userParty[host] # 0
      BY <2>0, <3>1, <3>3, AdmitOutcome
    <3> QED BY <3>2, <3>3
  <2>2. ASSUME NEW s \in Servers, NEW o \in Objs, NEW host \in Users,
               InviteSwitch(s, o, host)
        PROVE  \/ leader'[p] = NoLeader /\ Cardinality(members[p]) <= 2
               \/ sess[s][o].pk = leader[p] /\ sess[s][o].party = p
    <3>1. PICK u \in Pks, q \in PartyIds, heir \in Pks :
             /\ u = sess[s][o].pk /\ q = sess[s][o].party /\ IsHeir(heir, u, q)
             /\ userParty[host] \in 0 .. MaxParty
             /\ Admit(s, o, host, userParty[host], LeaveMembers(u, q),
                      LeaveLeader(u, q, heir), LeaveUserParty(u, q),
                      LeaveSess(s, u, q), NotifyPartyLeave(u, q, heir))
             /\ RegistryType(LeaveMembers(u, q), LeaveLeader(u, q, heir),
                             LeaveUserParty(u, q), LeaveSess(s, u, q),
                             NotifyPartyLeave(u, q, heir))
      BY <2>0, <2>2, SwitchSteps
    <3>2. leader'[p] = LeaveLeader(u, q, heir)[p]
      <4>1. CASE userParty[host] = 0
        <5>1. /\ Seat(userParty[host]) = counter + 1
              /\ \A r \in PartyIds \ {Seat(userParty[host])} :
                   leader'[r] = LeaveLeader(u, q, heir)[r]
          BY <2>0, <3>1, <4>1, AdmitOutcome
        <5>2. p # counter + 1
          BY <2>0
        <5> QED BY <5>1, <5>2
      <4>2. CASE userParty[host] # 0
        BY <2>0, <3>1, <4>2, AdmitOutcome
      <4> QED BY <4>1, <4>2
    <3> QED BY <1>1, <2>0, <3>1, <3>2, LeaveHands
  <2>3. ASSUME NEW s \in Servers, NEW o \in Objs, LeaveParty(s, o)
        PROVE  \/ leader'[p] = NoLeader /\ Cardinality(members[p]) <= 2
               \/ sess[s][o].pk = leader[p] /\ sess[s][o].party = p
    <3>1. PICK u \in Pks, q \in PartyIds, heir \in Pks :
             /\ u = sess[s][o].pk /\ q = sess[s][o].party /\ IsHeir(heir, u, q)
             /\ leader' = LeaveLeader(u, q, heir)
      BY <2>0, <2>3, LeaveSteps
    <3> QED BY <1>1, <2>0, <3>1, LeaveHands
  <2>4. ASSUME NEW s \in Servers, NEW o \in Objs, NEW u \in Users, Kick(s, o, u)
        PROVE  leader' = leader
    BY <2>4 DEF Kick
  <2>5. ASSUME NEW s \in Servers, NEW o \in Objs, NEW u \in Users, Delegate(s, o, u)
        PROVE  sess[s][o].pk = leader[p] /\ sess[s][o].party = p
    <3>1. /\ leader[sess[s][o].party] = sess[s][o].pk
          /\ leader' = [leader EXCEPT ![sess[s][o].party] = u]
      BY <2>5 DEF Delegate, IsPartyLeader
    <3> QED BY <1>1, <2>0, <3>1 DEF TypeOK
  <2> QED BY <1>1, <2>1, <2>2, <2>3, <2>4, <2>5, StepCases
<1>2. Inv /\ [Next]_vars =>
        [\A p \in PartyIds :
           leader[p] # NoLeader /\ leader'[p] # leader[p]
           => \/ leader'[p] = NoLeader /\ Cardinality(members[p]) <= 2
              \/ \E s \in Servers, o \in Objs :
                   /\ sess[s][o].pk = leader[p] /\ sess[s][o].party = p
                   /\ \/ Leave(s, o)
                      \/ \E u \in Users : \/ InviteSwitch(s, o, u)
                                         \/ InviteSwitchFull(s, o, u)
                                         \/ Delegate(s, o, u)]_vars
  BY <1>1
<1> QED BY <1>2, Invariance, PTL DEF Spec, LeaderHandsOver

\* A leader who stays leader stays a member, unless it kicks itself (ProcessPartyKick
\* does not compare the target with the sender).
THEOREM LeadersStay == Spec => LeaderStaysMember
<1>1. ASSUME Inv, [Next]_vars, NEW p \in PartyIds,
             leader[p] = NoLeader \/ leader[p] \in members[p],
             leader'[p] # NoLeader, leader'[p] \notin members'[p]
      PROVE  \E s \in Servers, o \in Objs :
               sess[s][o].pk = leader[p] /\ Kick(s, o, leader[p])
  <2>0. /\ TypeOK /\ NoLeader \notin Pks
        /\ members \in [PartyIds -> SUBSET Pks]
        /\ leader \in [PartyIds -> Pks \cup {NoLeader}]
    BY <1>1, PartyAssumption DEF Inv, TypeOK
  <2>1. ASSUME NEW s \in Servers, NEW o \in Objs, NEW host \in Users,
               Follow(s, o, host) \/ InviteAccept(s, o, host)
        PROVE  FALSE
    <3>1. /\ userParty[host] \in 0 .. MaxParty
          /\ Admit(s, o, host, userParty[host], members, leader, userParty, sess, chan)
          /\ RegistryType(members, leader, userParty, sess, chan)
      BY <2>0, <2>1, JoinSteps
    <3>2. members[p] \subseteq members'[p]
          /\ (leader'[p] = leader[p] \/ leader'[p] \in members'[p])
      BY <2>0, <3>1, AdmitOutcome
    <3> QED BY <1>1, <2>0, <3>2
  <2>2. ASSUME NEW u \in Pks, NEW q \in PartyIds, NEW heir \in Pks,
               IsHeir(heir, u, q)
        PROVE  \/ LeaveLeader(u, q, heir)[p] = NoLeader
               \/ LeaveLeader(u, q, heir)[p] \in LeaveMembers(u, q)[p]
    <3>1. CASE p # q
      <4>1. /\ LeaveMembers(u, q)[p] = members[p]
            /\ LeaveLeader(u, q, heir)[p] = leader[p]
        BY <2>0, <2>2, <3>1, LeaveOutcome
      <4> QED BY <1>1, <4>1
    <3>2. CASE p = q /\ Survives(u, q)
      BY <1>1, <2>0, <2>2, <3>2, LeaveOutcome
    <3>3. CASE p = q /\ ~Survives(u, q)
      BY <2>0, <2>2, <3>3, LeaveOutcome
    <3> QED BY <3>1, <3>2, <3>3
  <2>3. ASSUME NEW s \in Servers, NEW o \in Objs, NEW host \in Users,
               InviteSwitch(s, o, host)
        PROVE  FALSE
    <3>1. PICK u \in Pks, q \in PartyIds, heir \in Pks :
             /\ u = sess[s][o].pk /\ q = sess[s][o].party /\ IsHeir(heir, u, q)
             /\ userParty[host] \in 0 .. MaxParty
             /\ Admit(s, o, host, userParty[host], LeaveMembers(u, q),
                      LeaveLeader(u, q, heir), LeaveUserParty(u, q),
                      LeaveSess(s, u, q), NotifyPartyLeave(u, q, heir))
             /\ RegistryType(LeaveMembers(u, q), LeaveLeader(u, q, heir),
                             LeaveUserParty(u, q), LeaveSess(s, u, q),
                             NotifyPartyLeave(u, q, heir))
      BY <2>0, <2>3, SwitchSteps
    <3>2. /\ LeaveMembers(u, q)[p] \subseteq members'[p]
          /\ \/ leader'[p] = LeaveLeader(u, q, heir)[p]
             \/ leader'[p] \in members'[p]
      BY <2>0, <3>1, AdmitOutcome
    <3> QED BY <1>1, <2>2, <3>1, <3>2
  <2>4. ASSUME NEW s \in Servers, NEW o \in Objs, LeaveParty(s, o)
        PROVE  FALSE
    <3>1. PICK u \in Pks, q \in PartyIds, heir \in Pks :
             /\ IsHeir(heir, u, q)
             /\ members' = LeaveMembers(u, q) /\ leader' = LeaveLeader(u, q, heir)
      BY <2>0, <2>4, LeaveSteps
    <3> QED BY <1>1, <2>2, <3>1
  <2>5. ASSUME NEW s \in Servers, NEW o \in Objs, NEW u \in Users, Kick(s, o, u)
        PROVE  sess[s][o].pk = leader[p] /\ Kick(s, o, leader[p])
    <3>1. /\ leader[sess[s][o].party] = sess[s][o].pk /\ leader' = leader
          /\ members' = [members EXCEPT ![sess[s][o].party] = @ \ {u}]
      BY <2>5 DEF Kick, IsPartyLeader
    <3>2. p = sess[s][o].party /\ u = leader[p]
      BY <1>1, <2>0, <3>1
    <3> QED BY <2>5, <3>1, <3>2
  <2>6. ASSUME NEW s \in Servers, NEW o \in Objs, NEW u \in Users, Delegate(s, o, u)
        PROVE  FALSE
    <3>1. /\ u \in members[sess[s][o].party] /\ members' = members
          /\ leader' = [leader EXCEPT ![sess[s][o].party] = u]
      BY <2>6 DEF Delegate
    <3> QED BY <1>1, <2>0, <3>1
  <2> QED BY <1>1, <2>1, <2>3, <2>4, <2>5, <2>6, StepCases
<1>2. Inv /\ [Next]_vars =>
        [\A p \in PartyIds :
           /\ leader[p] = NoLeader \/ leader[p] \in members[p]
           /\ leader'[p] # NoLeader /\ leader'[p] \notin members'[p]
           => \E s \in Servers, o \in Objs :
                sess[s][o].pk = leader[p] /\ Kick(s, o, leader[p])]_vars
  BY <1>1
<1> QED BY <1>2, Invariance, PTL DEF Spec, LeaderStaysMember

\* A party with members keeps a leader, except when somebody leaves it and joins what
\* is left of it in one request (ProcessPartyInviteAccept).
THEOREM PartiesStayLed == Spec => LedUnlessRejoined
<1>1. ASSUME Inv, [Next]_vars, NEW p \in PartyIds, Led(p)
      PROVE  \/ Led(p)'
             \/ \E s \in Servers, o \in Objs, host \in Users :
                  InviteSwitch(s, o, host) /\ userParty[host] = p /\ sess[s][o].party = p
  <2>0. /\ TypeOK /\ NoLeader \notin Pks
        /\ members \in [PartyIds -> SUBSET Pks]
        /\ leader \in [PartyIds -> Pks \cup {NoLeader}]
        /\ userParty \in [Pks -> 0 .. MaxParty]
        /\ \A u \in Pks : userParty[u] # 0 => u \in members[userParty[u]]
        /\ members[p] = {} \/ leader[p] # NoLeader
    BY <1>1, PartyAssumption DEF Inv, TypeOK, PartyPointsHome, Led
  <2>1. SUFFICES \/ members'[p] = {} \/ leader'[p] # NoLeader
                 \/ \E s \in Servers, o \in Objs, host \in Users :
                      /\ InviteSwitch(s, o, host)
                      /\ userParty[host] = p /\ sess[s][o].party = p
    BY DEF Led
  <2>2. ASSUME NEW s \in Servers, NEW o \in Objs, NEW host \in Users,
               Follow(s, o, host) \/ InviteAccept(s, o, host)
        PROVE  members'[p] = {} \/ leader'[p] # NoLeader
    <3>1. /\ userParty[host] \in 0 .. MaxParty
          /\ Admit(s, o, host, userParty[host], members, leader, userParty, sess, chan)
          /\ RegistryType(members, leader, userParty, sess, chan)
      BY <2>0, <2>2, JoinSteps
    <3>2. CASE userParty[host] = 0
      <4>1. /\ leader'[Seat(userParty[host])] = host
            /\ \A q \in PartyIds \ {Seat(userParty[host])} :
                 members'[q] = members[q] /\ leader'[q] = leader[q]
        BY <2>0, <3>1, <3>2, AdmitOutcome
      <4> QED BY <2>0, <4>1
    <3>3. CASE userParty[host] # 0
      <4>1. /\ leader' = leader
            /\ \A q \in PartyIds \ {userParty[host]} : members'[q] = members[q]
        BY <2>0, <3>1, <3>3, AdmitOutcome
      <4>2. CASE p = userParty[host]
        BY <2>0, <3>3, <4>1, <4>2
      <4>3. CASE p # userParty[host]
        BY <2>0, <4>1, <4>3
      <4> QED BY <4>2, <4>3
    <3> QED BY <3>2, <3>3
  <2>3. ASSUME NEW u \in Pks, NEW q \in PartyIds, NEW heir \in Pks,
               IsHeir(heir, u, q)
        PROVE  LeaveMembers(u, q)[p] = {} \/ LeaveLeader(u, q, heir)[p] # NoLeader
    <3>1. CASE p # q
      <4>1. /\ LeaveMembers(u, q)[p] = members[p]
            /\ LeaveLeader(u, q, heir)[p] = leader[p]
        BY <2>0, <2>3, <3>1, LeaveOutcome
      <4> QED BY <2>0, <4>1
    <3>2. CASE p = q /\ Survives(u, q)
      <4>1. /\ LeaveMembers(u, q)[p] = members[p] \ {u}
            /\ leader[p] = u => LeaveLeader(u, q, heir)[p] \in members[p] \ {u}
            /\ leader[p] # u => LeaveLeader(u, q, heir)[p] = leader[p]
        BY <2>0, <2>3, <3>2, LeaveOutcome
      <4> QED BY <2>0, <4>1
    <3>3. CASE p = q /\ ~Survives(u, q)
      BY <2>0, <2>3, <3>3, LeaveOutcome
    <3> QED BY <3>1, <3>2, <3>3
  <2>4. ASSUME NEW s \in Servers, NEW o \in Objs, NEW host \in Users,
               InviteSwitch(s, o, host)
        PROVE  \/ members'[p] = {} \/ leader'[p] # NoLeader
               \/ userParty[host] = p /\ sess[s][o].party = p
    <3>1. PICK u \in Pks, q \in PartyIds, heir \in Pks :
             /\ u = sess[s][o].pk /\ q = sess[s][o].party /\ IsHeir(heir, u, q)
             /\ userParty[host] \in 0 .. MaxParty
             /\ Admit(s, o, host, userParty[host], LeaveMembers(u, q),
                      LeaveLeader(u, q, heir), LeaveUserParty(u, q),
                      LeaveSess(s, u, q), NotifyPartyLeave(u, q, heir))
             /\ RegistryType(LeaveMembers(u, q), LeaveLeader(u, q, heir),
                             LeaveUserParty(u, q), LeaveSess(s, u, q),
                             NotifyPartyLeave(u, q, heir))
      BY <2>0, <2>4, SwitchSteps
    <3>2. LeaveMembers(u, q)[p] = {} \/ LeaveLeader(u, q, heir)[p] # NoLeader
      BY <2>3, <3>1
    <3>3. CASE userParty[host] = 0
      <4>1. /\ leader'[Seat(userParty[host])] = host
            /\ \A r \in PartyIds \ {Seat(userParty[host])} :
                 /\ members'[r] = LeaveMembers(u, q)[r]
                 /\ leader'[r] = LeaveLeader(u, q, heir)[r]
        BY <2>0, <3>1, <3>3, AdmitOutcome
      <4> QED BY <2>0, <3>2, <4>1
    <3>4. CASE userParty[host] # 0
      <4>1. /\ leader' = LeaveLeader(u, q, heir)
            /\ \A r \in PartyIds \ {userParty[host]} :
                 members'[r] = LeaveMembers(u, q)[r]
        BY <2>0, <3>1, <3>4, AdmitOutcome
      <4>2. CASE p # userParty[host]
        BY <3>2, <4>1, <4>2
      <4>3. CASE p = userParty[host] /\ p # q
        <5>1. LeaveLeader(u, q, heir)[p] = leader[p]
          <6> HIDE DEF Pks
          <6> QED BY <2>0, <3>1, <4>3, LeaveOutcome
        <5>2. host \in members[p]
          BY <2>0, <3>4, <4>3
        <5> QED BY <2>0, <4>1, <5>1, <5>2
      <4>4. CASE p = userParty[host] /\ p = q
        BY <3>1, <4>4
      <4> QED BY <4>2, <4>3, <4>4
    <3> QED BY <3>3, <3>4
  <2>5. ASSUME NEW s \in Servers, NEW o \in Objs, LeaveParty(s, o)
        PROVE  members'[p] = {} \/ leader'[p] # NoLeader
    <3>1. PICK u \in Pks, q \in PartyIds, heir \in Pks :
             /\ IsHeir(heir, u, q)
             /\ members' = LeaveMembers(u, q) /\ leader' = LeaveLeader(u, q, heir)
      BY <2>0, <2>5, LeaveSteps
    <3> QED BY <2>3, <3>1
  <2>6. ASSUME NEW s \in Servers, NEW o \in Objs, NEW u \in Users, Kick(s, o, u)
        PROVE  members'[p] = {} \/ leader'[p] # NoLeader
    <3>1. /\ leader' = leader
          /\ members' = [members EXCEPT ![sess[s][o].party] = @ \ {u}]
      BY <2>6 DEF Kick
    <3> QED BY <2>0, <3>1
  <2>7. ASSUME NEW s \in Servers, NEW o \in Objs, NEW u \in Users, Delegate(s, o, u)
        PROVE  members'[p] = {} \/ leader'[p] # NoLeader
    <3>1. /\ members' = members
          /\ leader' = [leader EXCEPT ![sess[s][o].party] = u]
      BY <2>7 DEF Delegate
    <3> QED BY <2>0, <3>1
  <2> QED BY <1>1, <2>0, <2>2, <2>4, <2>5, <2>6, <2>7, StepCases
<1>2. Inv /\ [Next]_vars =>
        [\A p \in PartyIds :
           Led(p) => \/ Led(p)'
                     \/ \E s \in Servers, o \in Objs, host \in Users :
                          /\ InviteSwitch(s, o, host)
                          /\ userParty[host] = p
                          /\ sess[s][o].party = p]_vars
  BY <1>1
<1> QED BY <1>2, Invariance, PTL DEF Spec, LedUnlessRejoined

\* The notice of a leave that dissolves the party resets the session of everybody
\* else who is dropped (NotifyPartyLeave, SendPartyLeaveToUser).
LEMMA LeaveTells ==
  ASSUME TypeOK, NEW u \in Pks, NEW p \in PartyIds, NEW heir \in Pks,
         IsHeir(heir, u, p), NEW v \in Users, v # u, userParty[v] # 0,
         LeaveUserParty(u, p)[v] = 0, userServer[v] \in Servers
  PROVE  \E msg \in Msgs :
           /\ NotifyPartyLeave(u, p, heir)[userServer[v]] = Append(chan[userServer[v]], msg)
           /\ v \in Resets(msg)
<1>1. v \in Remaining(u, p) /\ ~Survives(u, p)
  BY DEF LeaveUserParty, Dropped
<1>2. heir = NoUser
  BY <1>1, LeaveOutcome
<1> DEFINE here == {t \in Remaining(u, p) \cap Users : userServer[t] = userServer[v]}
           msg == [kind |-> "leave", party |-> p, user |-> u, newLeader |-> heir,
                   targets |-> here]
<1>3. msg \in Msgs
  BY PartyAssumption DEF Kinds, PartyIds, TypeOK, Remaining, Msgs
<1>4. /\ NotifyPartyLeave(u, p, heir)[userServer[v]]
           = IF here = {} THEN chan[userServer[v]] ELSE Append(chan[userServer[v]], msg)
      /\ v \in here
  BY <1>1 DEF NotifyPartyLeave, PublishToUsers
<1>5. v \in Resets(msg)
  BY <1>2, <1>4 DEF Resets
<1> HIDE DEF here, msg
<1> QED BY <1>3, <1>4, <1>5

\* A channel with one more message has one that resets whom that message resets.
LEMMA Heard ==
  ASSUME NEW q \in Seq(Msgs), NEW msg \in Msgs, NEW r, r = Append(q, msg),
         NEW u \in Resets(msg)
  PROVE  \E i \in Len(q) + 1 .. Len(r) : u \in Resets(r[i])
<1>1. Len(q) + 1 \in Len(q) + 1 .. Len(r) /\ r[Len(q) + 1] = msg
  BY LastSent
<1> QED BY <1>1

\* Whoever loses the party by another user's request is sent a message that resets
\* the session, on the server registered for that user (NotifyPartyLeave,
\* NotifyPartyKick), for any number of servers and whatever messages wait.
THEOREM DroppedUsersAreTold == Spec => DroppedAreTold
<1>1. ASSUME Inv, [Next]_vars, NEW u \in Users, NEW s \in Servers,
             userParty[u] # 0, userParty'[u] = 0,
             userServer[u] = s, userServer'[u] = s
      PROVE  \/ \E t \in Servers, o \in Objs :
                  /\ sess[t][o].pk = u
                  /\ \/ Leave(t, o)
                     \/ \E h \in Users : \/ InviteSwitch(t, o, h)
                                        \/ InviteSwitchFull(t, o, h)
             \/ \E i \in Len(chan[s]) + 1 .. Len(chan'[s]) : u \in Resets(chan'[s][i])
  <2>0. /\ TypeOK /\ NoServer \notin Servers
        /\ userParty \in [Pks -> 0 .. MaxParty]
        /\ chan \in [Servers -> Seq(Msgs)] /\ Len(chan[s]) \in Nat
        /\ \A v \in Pks : userParty[v] # 0 => v \in members[userParty[v]]
    BY <1>1, PartyAssumption DEF Inv, TypeOK, PartyPointsHome
  <2>1. ASSUME NEW t \in Servers, NEW o \in Objs, NEW host \in Users,
               Follow(t, o, host) \/ InviteAccept(t, o, host)
        PROVE  FALSE
    <3>1. /\ userParty[host] \in 0 .. MaxParty
          /\ Admit(t, o, host, userParty[host], members, leader, userParty, sess, chan)
          /\ RegistryType(members, leader, userParty, sess, chan)
      BY <2>0, <2>1, JoinSteps
    <3>2. userParty'[u] # 0 \/ userParty'[u] = userParty[u]
      BY <2>0, <3>1, AdmitOutcome
    <3> QED BY <1>1, <3>2
  <2>2. ASSUME NEW t \in Servers, NEW o \in Objs, LeaveParty(t, o), sess[t][o].pk # u
        PROVE  \E i \in Len(chan[s]) + 1 .. Len(chan'[s]) : u \in Resets(chan'[s][i])
    <3> HIDE DEF Pks
    <3>1. PICK me \in Pks, p \in PartyIds, heir \in Pks :
             /\ me = sess[t][o].pk /\ IsHeir(heir, me, p)
             /\ userParty' = LeaveUserParty(me, p)
             /\ chan' = NotifyPartyLeave(me, p, heir)
      BY <2>0, <2>2, LeaveSteps
    <3>2. /\ u # me /\ LeaveUserParty(me, p)[u] = 0
          /\ IsHeir(heir, me, p)
      BY <1>1, <2>2, <3>1
    <3>3. PICK msg \in Msgs :
            chan'[s] = Append(chan[s], msg) /\ u \in Resets(msg)
      <4>1. TypeOK /\ userParty[u] # 0 /\ userServer[u] = s
        BY <1>1, <2>0
      <4>2. chan'[s] = NotifyPartyLeave(me, p, heir)[s]
        BY <3>1
      <4> QED BY <3>2, <4>1, <4>2, LeaveTells
    <3> QED BY <2>0, <3>3, LastSent, Heard
  <2>3. ASSUME NEW t \in Servers, NEW o \in Objs, NEW host \in Users,
               InviteSwitch(t, o, host), sess[t][o].pk # u
        PROVE  \E i \in Len(chan[s]) + 1 .. Len(chan'[s]) : u \in Resets(chan'[s][i])
    <3>1. PICK me \in Pks, p \in PartyIds, heir \in Pks :
             /\ me = sess[t][o].pk /\ p = sess[t][o].party /\ IsHeir(heir, me, p)
             /\ userParty[host] \in 0 .. MaxParty
             /\ Admit(t, o, host, userParty[host], LeaveMembers(me, p),
                      LeaveLeader(me, p, heir), LeaveUserParty(me, p),
                      LeaveSess(t, me, p), NotifyPartyLeave(me, p, heir))
             /\ RegistryType(LeaveMembers(me, p), LeaveLeader(me, p, heir),
                             LeaveUserParty(me, p), LeaveSess(t, me, p),
                             NotifyPartyLeave(me, p, heir))
      BY <2>0, <2>3, SwitchSteps
    <3>2. IsHeir(heir, me, p) /\ u # me /\ LeaveUserParty(me, p)[u] = 0
      <4>1. userParty'[u] # 0 \/ userParty'[u] = LeaveUserParty(me, p)[u]
        BY <2>0, <3>1, AdmitOutcome
      <4> QED BY <1>1, <2>3, <3>1, <4>1
    <3> DEFINE ch == NotifyPartyLeave(me, p, heir)
    <3>3. PICK msg \in Msgs : ch[s] = Append(chan[s], msg) /\ u \in Resets(msg)
      <4>1. TypeOK /\ userParty[u] # 0 /\ userServer[u] = s
        BY <1>1, <2>0
      <4> QED BY <3>2, <4>1, LeaveTells
    <3>4. ch[s][Len(chan[s]) + 1] = msg /\ Len(chan[s]) + 1 \in 1 .. Len(ch[s])
      BY <2>0, <3>3, LastSent
    <3>5. /\ Len(chan'[s]) \in Nat /\ Len(chan'[s]) >= Len(ch[s])
          /\ chan'[s][Len(chan[s]) + 1] = ch[s][Len(chan[s]) + 1]
      <4> DEFINE q == Seat(userParty[host])
                 crowd == Crowd(host, userParty[host], LeaveMembers(me, p))
                 here == {v \in (crowd \ {me}) \cap Users : userServer[v] = s}
                 join == [kind |-> "join", party |-> q, user |-> me,
                          newLeader |-> NoUser, targets |-> here]
      <4>1. chan'[s] = IF here = {} THEN ch[s] ELSE Append(ch[s], join)
        BY <3>1 DEF Admit, Sent, NotifyPartyJoin, PublishToUsers
      <4>2. join \in Msgs
        <5>1. q \in PartyIds /\ q \in 0 .. MaxParty
          BY <2>0, <3>1, AdmitOutcome, PartyAssumption DEF PartyIds
        <5>2. crowd \in SUBSET Pks
          BY <2>0, <3>1, <5>1 DEF Crowd, Seat, RegistryType, PartyIds
        <5> HIDE DEF q, crowd
        <5> QED BY <5>1, <5>2 DEF Msgs, Kinds
      <4>3. ch[s] \in Seq(Msgs)
        BY <3>1 DEF RegistryType
      <4> HIDE DEF ch, here, join
      <4> QED BY <3>4, <4>1, <4>2, <4>3
    <3> HIDE DEF ch
    <3>6. Len(chan[s]) + 1 \in Len(chan[s]) + 1 .. Len(chan'[s])
      BY <2>0, <3>3, <3>5, LastSent
    <3> QED BY <3>3, <3>4, <3>5, <3>6
  <2>4. ASSUME NEW t \in Servers, NEW o \in Objs, NEW target \in Users,
               Kick(t, o, target)
        PROVE  \E i \in Len(chan[s]) + 1 .. Len(chan'[s]) : u \in Resets(chan'[s][i])
    <3>p. PICK p \in PartyIds : p = sess[t][o].party
      BY <2>0, <2>4 DEF Kick, TypeOK, PartyIds
    <3>1. p \in 0 .. MaxParty /\ members[p] \in SUBSET Pks /\ "kick" \in Kinds
      BY <2>0, PartyAssumption DEF TypeOK, PartyIds, Kinds
    <3>2. /\ target \in members[p]
          /\ userParty' = [userParty EXCEPT ![target] = 0]
          /\ chan' = PublishToUsers(chan, "kick", p, target, NoUser, members[p])
      BY <2>4, <3>p DEF Kick, Sent, NotifyPartyKick
    <3>3. u = target
      BY <1>1, <2>0, <3>2
    <3> DEFINE here == {v \in members[p] \cap Users : userServer[v] = s}
               msg == [kind |-> "kick", party |-> p, user |-> u, newLeader |-> NoUser,
                       targets |-> here]
    <3>4. /\ chan'[s] = IF here = {} THEN chan[s] ELSE Append(chan[s], msg)
          /\ u \in here
      BY <1>1, <3>2, <3>3 DEF PublishToUsers
    <3>5. msg \in Msgs
      BY <3>1 DEF Msgs
    <3>6. u \in Resets(msg)
      BY <3>4 DEF Resets
    <3> HIDE DEF here, msg
    <3> QED BY <2>0, <3>4, <3>5, <3>6, LastSent, Heard
  <2>5. ASSUME NEW t \in Servers, NEW o \in Objs, NEW v \in Users, Connect(t, o, v)
        PROVE  FALSE
    <3>1. userParty' = [userParty EXCEPT ![v] =
                          IF userParty[v] # 0 /\ v \in members[userParty[v]]
                          THEN userParty[v] ELSE 0]
      BY <2>5 DEF Connect
    <3> QED BY <1>1, <2>0, <3>1
  <2>6. ASSUME NEW v \in Users, Expire(v)
        PROVE  FALSE
    <3>1. /\ userParty' = [userParty EXCEPT ![v] = 0]
          /\ userServer' = [userServer EXCEPT ![v] = NoServer]
          /\ userServer \in [Users -> Servers \cup {NoServer}]
      BY <2>0, <2>6 DEF Expire, TypeOK
    <3> QED BY <1>1, <2>0, <3>1
  <2>7. ASSUME NEW t \in Servers, NEW o \in Objs, NEW v \in Users, Delegate(t, o, v)
        PROVE  FALSE
    BY <1>1, <2>7 DEF Delegate
  <2> QED BY <1>1, <2>1, <2>2, <2>3, <2>4, <2>5, <2>6, <2>7, StepCases
<1>2. Inv /\ [Next]_vars =>
        [\A u \in Users, s \in Servers :
           /\ userParty[u] # 0 /\ userParty'[u] = 0
           /\ userServer[u] = s /\ userServer'[u] = s
           => \/ \E t \in Servers, o \in Objs :
                   /\ sess[t][o].pk = u
                   /\ \/ Leave(t, o)
                      \/ \E h \in Users : \/ InviteSwitch(t, o, h)
                                         \/ InviteSwitchFull(t, o, h)
              \/ \E i \in Len(chan[s]) + 1 .. Len(chan'[s]) :
                   u \in Resets(chan'[s][i])]_vars
  BY <1>1
<1> QED BY <1>2, Invariance, PTL DEF Spec, DroppedAreTold

=============================================================================
