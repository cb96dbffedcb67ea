------------------------- MODULE PartyThreads_proofs -------------------------
(***************************************************************************)
(* Proofs about PartyThreads: how far a party can be overbooked, when the  *)
(* code runs into undefined behaviour, and what an undisturbed login and   *)
(* an undisturbed opening of a party leave behind.                         *)
(***************************************************************************)
EXTENDS PartyThreads, FiniteSetTheorems, TLAPS

Works == [at : Places, req : Requests, me : Users \cup {NoUser},
          holder : Users \cup {NoUser}, other : Users \cup {NoUser},
          p : 0 .. MaxParty, known : 0 .. MaxParty, heir : Users \cup {NoUser}, calm : BOOLEAN]

\* Where a request is about to open a party for its host.
Opening == {"incr", "saddHost", "setHost", "hsetHost"}

\* Where it is past the host's party.
Joins == Opening \cup {"scard", "sadd", "hset"}

\* Where the user it names is the target of a leader.
Targeting == {"isLeader", "sismember", "sremTarget", "hsetTarget", "setTarget", "tellKick"}

\* Where it works on no party.
Partyless == {"idle", "hget", "incr", "hgetParty", "forget", "state"}

\* A request in hand names what its next commands use.
Duty(x) ==
  /\ x.at = "idle" => x = Idle
  /\ x.at # "idle" => x.me \in Users
  /\ x.at \in {"hget"} \cup Opening \cup Targeting \/ x.req = "accept"
       => x.other \in Users
  /\ x.at \in Joins => x.req \notin {"accept", "connect"}
  /\ x.at \in {"hgetParty", "forget"} => x.p = 0
  /\ x.at \notin Partyless => x.p \in PartyIds

Working ==
  \A w \in Workers :
    /\ Duty(worker[w])
    /\ worker[w].holder \in online \cup {NoUser}

\* What a request finds that nothing came in between.
Undisturbed(x) ==
  /\ x.at \in {"tellLast", "smembersLast", "getLeader", "smembersHeir"}
       => members[x.p] # {}
  /\ x.at = "undefined" => Cardinality(members[x.p]) > PartyCap
  /\ x.at \in Opening \/ (x.req = "accept" /\ x.at # "hget" /\ x.known = 0)
       => userParty[x.other] = 0
  /\ x.at = "state" \/ (x.at = "info" /\ x.req = "connect")
       => /\ x.holder = x.me => cached[x.me] = x.p
          /\ x.p # 0 => x.me \in members[x.p]

\* A request that is calm is the only one.
Alone ==
  \A w \in Workers :
    worker[w].at # "idle" /\ worker[w].calm =>
      /\ Undisturbed(worker[w])
      /\ \A v \in Workers \ {w} : worker[v].at = "idle"

\* Nothing but requests in hand, the one of thread w excepted, names party p.
Unnamed(p, w) ==
  /\ \A u \in Users : userParty[u] # p /\ cached[u] # p
  /\ \A v \in Workers : worker[v].known # p /\ (v # w => worker[v].p # p)

\* A party that has an id, but no member yet, is known to the thread that opens it only.
Private ==
  \A w \in Workers :
    worker[w].at = "saddHost" =>
      /\ worker[w].p <= counter
      /\ members[worker[w].p] = {} /\ Unnamed(worker[w].p, w)

\* An id not given out is not known at all.
Fresh ==
  \A p \in PartyIds :
    p > counter => members[p] = {} /\ \A w \in Workers : worker[w].p # p /\ Unnamed(p, w)

\* Threads between SCARD and SADD.
Seating(p) == {w \in Workers : worker[w].at = "sadd" /\ worker[w].p = p}

Booked ==
  \A p \in PartyIds :
    Cardinality(members[p]) + Cardinality(Seating(p))
      <= PartyCap + Cardinality(Workers) - 1

----------------------------------------------------------------------------
(* What a command does to the thread that runs it, and to the rest *)

\* The types, without those of the threads.
RegTypes ==
  /\ counter \in 0 .. MaxParty
  /\ members \in [PartyIds -> SUBSET Users]
  /\ leader \in [PartyIds -> Users \cup {NoUser}]
  /\ userParty \in [Users -> 0 .. MaxParty]
  /\ online \subseteq Users
  /\ cached \in [Users -> 0 .. MaxParty]
  /\ notices \in Seq(SUBSET Users)
  /\ taken \in 0 .. MaxRequests /\ errors \in 0 .. MaxErrors

LEMMA Types == TypeOK <=> RegTypes /\ worker \in [Workers -> Works]
<1> QED BY DEF TypeOK, RegTypes, Works

LEMMA IdleWorks == Idle \in Works /\ Idle.at = "idle" /\ Duty(Idle)
<1>1. 0 \in 0 .. MaxParty /\ "idle" \in Places /\ "none" \in Requests
  BY PartyThreadsAssumption DEF Places, Requests
<1>2. Idle \in Works
  BY <1>1 DEF Idle, Works
<1> QED BY <1>2 DEF Idle, Duty, Opening, Joins, Targeting, Partyless

\* The parties thread w can learn of.
Names(w) ==
  {0, worker[w].p, worker[w].known} \cup {userParty[u] : u \in Users}
  \cup {cached[u] : u \in Users}

\* The thread goes on with its request, or ends it.
Moved(w) ==
  /\ worker[w].at # "idle"
  /\ worker' \in [Workers -> Works]
  /\ \A v \in Workers \ {w} : worker'[v] = worker[v]
  /\ Duty(worker'[w]) /\ worker'[w].at # "saddHost"
  /\ worker'[w].at # "idle" =>
       worker'[w].me = worker[w].me /\ (worker'[w].calm => worker[w].calm)
  /\ worker'[w].holder \in {NoUser, worker[w].holder}
  /\ worker'[w].p \in Names(w) /\ worker'[w].known \in Names(w)

\* Keys and sessions lose their party or get the thread's, and only the thread's
\* party changes.
Wrote(w) ==
  /\ counter' = counter /\ online' = online
  /\ \A u \in Users : /\ userParty'[u] \in {0, userParty[u], worker[w].p}
                      /\ cached'[u] \in {0, cached[u], worker[w].p}
  /\ \A p \in PartyIds \ {worker[w].p} : members'[p] = members[p]

\* All that a command needs to be known of the thread.
LEMMA AtWork ==
  ASSUME TypeOK, Working, NEW w \in Workers, worker[w].at # "idle"
  PROVE  /\ worker[w] \in Works /\ Duty(worker[w])
         /\ worker[w].me \in Users /\ worker[w].holder \in online \cup {NoUser}
         /\ worker[w].p \in 0 .. MaxParty /\ worker[w].known \in 0 .. MaxParty
         /\ worker[w].heir \in Users \cup {NoUser}
         /\ worker[w].at \notin Partyless => worker[w].p \in PartyIds
         /\ worker[w].at \in {"hget"} \cup Opening \cup Targeting
              \/ worker[w].req = "accept" => worker[w].other \in Users
         /\ worker[w].at \in Joins => worker[w].req \notin {"accept", "connect"}
         /\ worker[w].at \in {"hgetParty", "forget"} => worker[w].p = 0
<1>1. worker[w] \in Works
  BY Types
<1> QED BY <1>1 DEF Working, Duty, Works

LEMMA SetPartyIdKeeps ==
  ASSUME RegTypes, NEW U, NEW p \in 0 .. MaxParty, SetPartyId(U, p)
  PROVE  /\ cached' \in [Users -> 0 .. MaxParty]
         /\ \A u \in Users : cached'[u] \in {cached[u], p}
         /\ \A u \in Users \cap online : u \in U => cached'[u] = p
<1> QED BY DEF SetPartyId, RegTypes

LEMMA BecomesFields ==
  ASSUME TypeOK, NEW w \in Workers, NEW y \in Works, Becomes(w, y)
  PROVE  /\ worker' \in [Workers -> Works] /\ worker'[w] = y
         /\ \A v \in Workers \ {w} : worker'[v] = worker[v]
<1> QED BY Types DEF Becomes

LEMMA GoesFields ==
  ASSUME TypeOK, NEW w \in Workers, NEW at \in Places, Goes(w, at)
  PROVE  /\ worker' \in [Workers -> Works]
         /\ \A v \in Workers \ {w} : worker'[v] = worker[v]
         /\ worker'[w].at = at /\ worker'[w].req = worker[w].req
         /\ worker'[w].me = worker[w].me /\ worker'[w].holder = worker[w].holder
         /\ worker'[w].other = worker[w].other
         /\ worker'[w].p = worker[w].p /\ worker'[w].known = worker[w].known
         /\ worker'[w].heir = worker[w].heir /\ worker'[w].calm = worker[w].calm
<1> DEFINE y == [worker[w] EXCEPT !.at = at]
<1>1. worker[w] \in Works
  BY Types
<1>2. /\ y \in Works
      /\ y.at = at /\ y.req = worker[w].req /\ y.me = worker[w].me
      /\ y.holder = worker[w].holder /\ y.other = worker[w].other /\ y.p = worker[w].p /\ y.known = worker[w].known
      /\ y.heir = worker[w].heir /\ y.calm = worker[w].calm
  BY <1>1 DEF Works
<1>3. Becomes(w, y)
  BY DEF Goes
<1> HIDE DEF y
<1> QED BY <1>2, <1>3, BecomesFields

LEMMA MovedGoes ==
  ASSUME TypeOK, Working, NEW w \in Workers, NEW at \in Places, Goes(w, at),
         worker[w].at # "idle", at \notin {"idle", "saddHost"},
         at \in {"hget"} \cup Opening \cup Targeting
           => worker[w].at \in {"hget"} \cup Opening \cup Targeting,
         at \in Joins => worker[w].at \in Joins, at \notin {"hgetParty", "forget"},
         at \in Partyless \/ worker[w].at \notin Partyless
  PROVE  Moved(w)
<1>1. /\ worker[w].me \in Users
      /\ at \notin Partyless => worker[w].p \in PartyIds
      /\ at \in {"hget"} \cup Opening \cup Targeting \/ worker[w].req = "accept"
           => worker[w].other \in Users
      /\ at \in Joins => worker[w].req \notin {"accept", "connect"}
  BY AtWork
<1>2. Duty(worker'[w])
  BY <1>1, GoesFields DEF Duty
<1>3. worker'[w].p \in Names(w) /\ worker'[w].known \in Names(w)
  BY GoesFields DEF Names
<1> QED BY <1>2, <1>3, GoesFields DEF Moved

LEMMA MovedIdle ==
  ASSUME TypeOK, NEW w \in Workers, worker[w].at # "idle", Becomes(w, Idle)
  PROVE  Moved(w) /\ worker'[w] = Idle
<1>1. /\ worker' \in [Workers -> Works] /\ worker'[w] = Idle
      /\ \A v \in Workers \ {w} : worker'[v] = worker[v]
  BY IdleWorks, BecomesFields
<1>2. Idle.p = 0 /\ Idle.known = 0 /\ Idle.holder = NoUser
  BY DEF Idle
<1> QED BY <1>1, <1>2, IdleWorks DEF Moved, Names

\* A join begins with the host's party, or with a new one.
LEMMA JoiningWorks ==
  ASSUME NEW x \in Works, x.me \in Users, x.other \in Users
  PROVE  /\ Joining(x) \in Works /\ Duty(Joining(x))
         /\ Joining(x).me = x.me /\ Joining(x).calm = x.calm
         /\ Joining(x).holder = x.holder
         /\ Joining(x).req = "join"
         /\ x.known = 0 => /\ Joining(x).at = "incr" /\ Joining(x).other = x.other
                           /\ Joining(x).p = 0 /\ Joining(x).known = 0
         /\ x.known # 0 => /\ Joining(x).at = "scard"
                           /\ Joining(x).p = x.known /\ Joining(x).known = 0
<1>1. CASE x.known = 0
  <2> DEFINE y == [x EXCEPT !.req = "join", !.at = "incr", !.p = 0, !.heir = NoUser]
  <2>1. Joining(x) = y
    BY <1>1 DEF Joining
  <2>2. /\ y \in Works /\ y.me = x.me /\ y.calm = x.calm /\ y.req = "join"
        /\ y.at = "incr" /\ y.holder = x.holder /\ y.other = x.other /\ y.p = 0 /\ y.known = 0
    BY <1>1, PartyThreadsAssumption DEF Works, Places, Requests
  <2> HIDE DEF y
  <2>3. Duty(y)
    BY <2>2 DEF Duty, Partyless
  <2> QED BY <1>1, <2>1, <2>2, <2>3
<1>2. CASE x.known # 0
  <2> DEFINE y == [x EXCEPT !.req = "join", !.at = "scard", !.p = x.known, !.known = 0,
                            !.heir = NoUser, !.other = NoUser]
  <2>1. Joining(x) = y
    BY <1>2 DEF Joining
  <2>5. /\ y.me = x.me /\ y.calm = x.calm /\ y.req = "join" /\ y.holder = x.holder
        /\ y.at = "scard" /\ y.p = x.known /\ y.known = 0
    BY DEF Works
  <2>6. 0 \in 0 .. MaxParty /\ "scard" \in Places /\ "join" \in Requests
    BY PartyThreadsAssumption DEF Places, Requests
  <2>7. y \in Works
    BY <2>6 DEF Works
  <2>2. /\ y \in Works /\ y.me = x.me /\ y.calm = x.calm /\ y.req = "join"
        /\ y.holder = x.holder /\ y.at = "scard" /\ y.p = x.known /\ y.known = 0
    BY <2>5, <2>7
  <2> HIDE DEF y
  <2>3. y.p \in PartyIds
    BY <1>2, <2>2 DEF Works, PartyIds
  <2>4. Duty(y)
    BY <2>2, <2>3 DEF Duty, Partyless, Opening, Joins, Targeting
  <2> QED BY <1>2, <2>1, <2>2, <2>4
<1> QED BY <1>1, <1>2

\* After LeavePartyInternal a request ends, or goes on to join.
LEMMA MovedLeft ==
  ASSUME TypeOK, Working, NEW w \in Workers, worker[w].at # "idle",
         Becomes(w, Left(worker[w]))
  PROVE  /\ Moved(w)
         /\ worker'[w].at # "idle" =>
              /\ worker[w].req = "accept" /\ worker'[w].req = "join"
              /\ \/ worker'[w].at = "scard"
                 \/ /\ worker'[w].at = "incr" /\ worker[w].known = 0
                    /\ worker'[w].other = worker[w].other
<1> PICK x : x = worker[w]
  OBVIOUS
<1>1. CASE x.req # "accept"
  BY <1>1, MovedIdle, IdleWorks DEF Left
<1>2. CASE x.req = "accept"
  <2>1. x \in Works /\ x.me \in Users /\ x.other \in Users
    BY <1>2, AtWork
  <2>2. Left(x) = Joining(x)
    BY <1>2 DEF Left
  <2>3. /\ worker' \in [Workers -> Works] /\ worker'[w] = Joining(x)
        /\ \A v \in Workers \ {w} : worker'[v] = worker[v]
    BY <2>1, <2>2, JoiningWorks, BecomesFields
  <2>4. Joining(x).p \in Names(w) /\ Joining(x).known \in Names(w)
    BY <2>1, JoiningWorks DEF Names
  <2>5. Joining(x).at \in {"scard", "incr"}
    BY <2>1, JoiningWorks
  <2>6. Moved(w)
    BY <2>1, <2>3, <2>4, <2>5, JoiningWorks DEF Moved
  <2> QED BY <1>2, <2>1, <2>3, <2>6, JoiningWorks
<1> QED BY <1>1, <1>2

\* The first member is found, or there is none.
LEMMA MovedFirst ==
  ASSUME TypeOK, Working, NEW w \in Workers, NEW at \in Places, NEW next \in Places,
         FirstMember(w, at, next), at \notin Partyless,
         next \notin {"idle", "saddHost", "hgetParty", "forget"} \cup Joins \cup Targeting \cup {"hget"}
  PROVE  Moved(w) /\ worker'[w].heir \in Users \cup {NoUser}
<1>1. /\ worker[w].at = at /\ worker[w].at # "idle" /\ worker[w].p \in PartyIds
      /\ worker[w] \in Works /\ worker[w].me \in Users
      /\ worker[w].req = "accept" => worker[w].other \in Users
  BY AtWork DEF FirstMember, Command, Partyless
<1>2. ASSUME NEW u \in members[worker[w].p],
             Becomes(w, [worker[w] EXCEPT !.at = next, !.heir = u])
      PROVE  Moved(w) /\ worker'[w].heir \in Users \cup {NoUser}
  <2> DEFINE y == [worker[w] EXCEPT !.at = next, !.heir = u]
  <2>1. u \in Users
    BY <1>1, Types DEF RegTypes
  <2>2. /\ y \in Works /\ y.at = next /\ y.p = worker[w].p /\ y.me = worker[w].me
        /\ y.known = worker[w].known /\ y.calm = worker[w].calm /\ y.heir = u
        /\ y.holder = worker[w].holder
        /\ y.req = worker[w].req /\ y.other = worker[w].other
    BY <1>1, <2>1 DEF Works
  <2> HIDE DEF y
  <2>3. Duty(y)
    BY <1>1, <2>2 DEF Duty, Joins
  <2>4. Becomes(w, y)
    BY <1>2 DEF y
  <2> QED BY <1>1, <2>1, <2>2, <2>3, <2>4, BecomesFields DEF Moved, Names
<1>3. ASSUME Goes(w, "undefined")
      PROVE  Moved(w) /\ worker'[w].heir \in Users \cup {NoUser}
  <2>1. Moved(w)
    BY <1>1, <1>3, MovedGoes DEF Places, Opening, Joins, Targeting, Partyless
  <2> QED BY <1>1, <1>3, <2>1, GoesFields DEF Places, Works
<1> QED BY <1>2, <1>3 DEF FirstMember

\* Nothing but the thread has changed.
LEMMA Quiet ==
  ASSUME RegTypes, NEW w \in Workers,
         UNCHANGED <<registry, session, notices, taken, errors>>
  PROVE  Wrote(w) /\ RegTypes'
<1> QED BY DEF registry, session, RegTypes, Wrote

LEMMA CommandStep ==
  ASSUME TypeOK, Working, NEW w \in Workers,
         Join(w) \/ LeavePartyInternal(w) \/ Lead(w) \/ LogIn(w) \/ CommandFails(w),
         ~OpenParty(w)
  PROVE  Moved(w) /\ Wrote(w) /\ RegTypes'
<1> USE DEF Command
<1>r. RegTypes /\ 0 \in 0 .. MaxParty
  BY Types, PartyThreadsAssumption
<1>1. ASSUME CountSeats(w) PROVE Moved(w) /\ Wrote(w) /\ RegTypes'
  <2>1. Moved(w)
    BY <1>1, MovedGoes, MovedIdle DEF CountSeats, Places, Tells, Lookups, Opening, Joins, Targeting, Partyless
  <2> QED BY <1>r, <1>1, <2>1, Quiet DEF CountSeats, registry, session
<1>2. ASSUME CountRest(w) PROVE Moved(w) /\ Wrote(w) /\ RegTypes'
  <2>1. Moved(w)
    BY <1>2, MovedGoes DEF CountRest, Places, Tells, Lookups, Opening, Joins, Targeting, Partyless
  <2> QED BY <1>r, <1>2, <2>1, Quiet DEF CountRest, registry, session
<1>3. ASSUME CheckSuccession(w) PROVE Moved(w) /\ Wrote(w) /\ RegTypes'
  <2>1. Moved(w)
    BY <1>3, MovedGoes DEF CheckSuccession, Places, Tells, Lookups, Opening, Joins, Targeting, Partyless
  <2> QED BY <1>r, <1>3, <2>1, Quiet DEF CheckSuccession, registry, session
<1>4. ASSUME IsPartyLeader(w) PROVE Moved(w) /\ Wrote(w) /\ RegTypes'
  <2>1. Moved(w)
    BY <1>4, MovedGoes, MovedIdle DEF IsPartyLeader, Places, Tells, Lookups, Opening, Joins, Targeting, Partyless
  <2> QED BY <1>r, <1>4, <2>1, Quiet DEF IsPartyLeader, registry, session
<1>5. ASSUME IsMember(w) PROVE Moved(w) /\ Wrote(w) /\ RegTypes'
  <2>1. Moved(w)
    BY <1>5, MovedGoes, MovedIdle DEF IsMember, Places, Tells, Lookups, Opening, Joins, Targeting, Partyless
  <2> QED BY <1>r, <1>5, <2>1, Quiet DEF IsMember, registry, session
<1>6. ASSUME OpenMembers(w) PROVE Moved(w) /\ Wrote(w) /\ RegTypes'
  <2>1. Moved(w)
    BY <1>6, MovedGoes DEF OpenMembers, Places, Tells, Lookups, Opening, Joins, Targeting, Partyless
  <2>2. worker[w].other \in Users /\ worker[w].p \in PartyIds
    BY <1>r, <1>6, AtWork DEF OpenMembers, Partyless, Opening, Joins, Targeting
  <2>3. Wrote(w) /\ RegTypes'
    BY <1>r, <1>6, <2>2 DEF OpenMembers, RegTypes, Wrote
  <2> QED BY <2>1, <2>3
<1>7. ASSUME OpenLeader(w) PROVE Moved(w) /\ Wrote(w) /\ RegTypes'
  <2>1. Moved(w)
    BY <1>7, MovedGoes DEF OpenLeader, Places, Tells, Lookups, Opening, Joins, Targeting, Partyless
  <2>2. worker[w].other \in Users /\ worker[w].p \in PartyIds
    BY <1>r, <1>7, AtWork DEF OpenLeader, Partyless, Opening, Joins, Targeting
  <2>3. Wrote(w) /\ RegTypes'
    BY <1>r, <1>7, <2>2 DEF OpenLeader, RegTypes, Wrote
  <2> QED BY <2>1, <2>3
<1>8. ASSUME TakeSeat(w) PROVE Moved(w) /\ Wrote(w) /\ RegTypes'
  <2>1. Moved(w)
    BY <1>8, MovedGoes DEF TakeSeat, Places, Tells, Lookups, Opening, Joins, Targeting, Partyless
  <2>2. worker[w].me \in Users /\ worker[w].p \in PartyIds
    BY <1>r, <1>8, AtWork DEF TakeSeat, Partyless, Opening, Joins, Targeting
  <2>3. Wrote(w) /\ RegTypes'
    BY <1>r, <1>8, <2>2 DEF TakeSeat, RegTypes, Wrote
  <2> QED BY <2>1, <2>3
<1>9. ASSUME JoinKey(w) PROVE Moved(w) /\ Wrote(w) /\ RegTypes'
  <2> DEFINE y == [worker[w] EXCEPT !.at = "info", !.holder = NoUser]
  <2>1. /\ worker[w].at = "hset" /\ worker[w] \in Works
        /\ worker[w].req \notin {"accept", "connect"}
        /\ worker[w].me \in Users /\ worker[w].p \in PartyIds
        /\ worker[w].p \in 0 .. MaxParty
    BY <1>9, AtWork DEF JoinKey, Joins, Partyless
  <2>2. "info" \in Places
    BY DEF Places, Tells
  <2>3. /\ y \in Works /\ y.at = "info" /\ y.me = worker[w].me /\ y.p = worker[w].p
        /\ y.known = worker[w].known /\ y.calm = worker[w].calm
        /\ y.req = worker[w].req /\ y.holder = NoUser
    BY <2>1, <2>2 DEF Works
  <2>4. Becomes(w, y)
    BY <1>9 DEF JoinKey
  <2> HIDE DEF y
  <2>5. Duty(y)
    BY <2>1, <2>3 DEF Duty, Opening, Joins, Targeting, Partyless
  <2>6. y.p \in Names(w) /\ y.known \in Names(w)
    BY <2>3 DEF Names
  <2>7. Moved(w)
    BY <2>1, <2>3, <2>4, <2>5, <2>6, BecomesFields DEF Moved
  <2>8. Wrote(w) /\ RegTypes'
    BY <1>r, <1>9, <2>1, SetPartyIdKeeps DEF JoinKey, RegTypes, Wrote
  <2> QED BY <2>7, <2>8
<1>10. ASSUME LeaveMembers(w) PROVE Moved(w) /\ Wrote(w) /\ RegTypes'
  <2>1. Moved(w)
    BY <1>10, MovedGoes DEF LeaveMembers, Places, Tells, Lookups, Opening, Joins, Targeting, Partyless
  <2>2. 0 \in 0 .. MaxParty /\ worker[w].p \in PartyIds
    BY <1>r, <1>10, AtWork DEF LeaveMembers, Partyless, Opening, Joins, Targeting
  <2>3. Wrote(w) /\ RegTypes'
    BY <1>r, <1>10, <2>2, SetPartyIdKeeps DEF LeaveMembers, RegTypes, Wrote
  <2> QED BY <2>1, <2>3
<1>11. ASSUME LeaveKey(w) PROVE Moved(w) /\ Wrote(w) /\ RegTypes'
  <2>1. Moved(w)
    BY <1>11, MovedGoes DEF LeaveKey, Places, Tells, Lookups, Opening, Joins, Targeting, Partyless
  <2>2. 0 \in 0 .. MaxParty /\ worker[w].me \in Users
    BY <1>r, <1>11, AtWork DEF LeaveKey, Partyless, Opening, Joins, Targeting
  <2>3. Wrote(w) /\ RegTypes'
    BY <1>r, <1>11, <2>2 DEF LeaveKey, RegTypes, Wrote
  <2> QED BY <2>1, <2>3
<1>12. ASSUME LastKey(w) PROVE Moved(w) /\ Wrote(w) /\ RegTypes'
  <2>1. Moved(w)
    BY <1>12, MovedGoes DEF LastKey, Places, Tells, Lookups, Opening, Joins, Targeting, Partyless
  <2>2. 0 \in 0 .. MaxParty /\ worker[w].heir \in Users \cup {NoUser}
    BY <1>r, <1>12, AtWork DEF LastKey, Partyless, Opening, Joins, Targeting
  <2>3. Wrote(w) /\ RegTypes'
    BY <1>r, <1>12, <2>2 DEF LastKey, RegTypes, Wrote
  <2> QED BY <2>1, <2>3
<1>13. ASSUME DissolveMembers(w) PROVE Moved(w) /\ Wrote(w) /\ RegTypes'
  <2>1. Moved(w)
    BY <1>13, MovedGoes DEF DissolveMembers, Places, Tells, Lookups, Opening, Joins, Targeting, Partyless
  <2>2. worker[w].p \in PartyIds
    BY <1>r, <1>13, AtWork DEF DissolveMembers, Partyless, Opening, Joins, Targeting
  <2>3. Wrote(w) /\ RegTypes'
    BY <1>r, <1>13, <2>2 DEF DissolveMembers, RegTypes, Wrote
  <2> QED BY <2>1, <2>3
<1>14. ASSUME Succeed(w) PROVE Moved(w) /\ Wrote(w) /\ RegTypes'
  <2>1. Moved(w)
    BY <1>14, MovedGoes DEF Succeed, Places, Tells, Lookups, Opening, Joins, Targeting, Partyless
  <2>2. worker[w].heir \in Users \cup {NoUser} /\ worker[w].p \in PartyIds
    BY <1>r, <1>14, AtWork DEF Succeed, Partyless, Opening, Joins, Targeting
  <2>3. Wrote(w) /\ RegTypes'
    BY <1>r, <1>14, <2>2 DEF Succeed, RegTypes, Wrote
  <2> QED BY <2>1, <2>3
<1>15. ASSUME KickMember(w) PROVE Moved(w) /\ Wrote(w) /\ RegTypes'
  <2>1. Moved(w)
    BY <1>15, MovedGoes DEF KickMember, Places, Tells, Lookups, Opening, Joins, Targeting, Partyless
  <2>2. worker[w].p \in PartyIds
    BY <1>r, <1>15, AtWork DEF KickMember, Partyless, Opening, Joins, Targeting
  <2>3. Wrote(w) /\ RegTypes'
    BY <1>r, <1>15, <2>2 DEF KickMember, RegTypes, Wrote
  <2> QED BY <2>1, <2>3
<1>16. ASSUME KickKey(w) PROVE Moved(w) /\ Wrote(w) /\ RegTypes'
  <2>1. Moved(w)
    BY <1>16, MovedGoes DEF KickKey, Places, Tells, Lookups, Opening, Joins, Targeting, Partyless
  <2>2. 0 \in 0 .. MaxParty /\ worker[w].other \in Users
    BY <1>r, <1>16, AtWork DEF KickKey, Partyless, Opening, Joins, Targeting
  <2>3. Wrote(w) /\ RegTypes'
    BY <1>r, <1>16, <2>2, SetPartyIdKeeps DEF KickKey, RegTypes, Wrote
  <2> QED BY <2>1, <2>3
<1>17. ASSUME ReadHost(w) PROVE Moved(w) /\ Wrote(w) /\ RegTypes'
  <2> PICK x : x = [worker[w] EXCEPT !.known = userParty[worker[w].other]]
    OBVIOUS
  <2> PICK c : c = CachedParty(x)
    OBVIOUS
  <2>1. /\ worker[w].at = "hget" /\ worker[w] \in Works
        /\ worker[w].me \in Users /\ worker[w].other \in Users
        /\ worker[w].holder \in Users \cup {NoUser}
    BY <1>17, AtWork DEF ReadHost, Works
  <2>2. userParty[worker[w].other] \in 0 .. MaxParty
    BY <1>r, <2>1 DEF RegTypes
  <2>3. /\ x \in Works /\ x.at = "hget" /\ x.me = worker[w].me /\ x.req = worker[w].req
        /\ x.other = worker[w].other /\ x.known = userParty[worker[w].other]
        /\ x.calm = worker[w].calm /\ x.holder = worker[w].holder
    BY <2>1, <2>2 DEF Works
  <2>7. c \in 0 .. MaxParty /\ c \in Names(w)
    BY <1>r, <2>1, <2>3 DEF CachedParty, RegTypes, Names
  <2>4. Becomes(w, IF x.req = "accept" /\ c # 0
                   THEN [x EXCEPT !.at = "srem", !.p = c] ELSE Joining(x))
    BY <1>17 DEF ReadHost
  <2>5. ASSUME x.req = "accept", c # 0 PROVE Moved(w)
    <3> DEFINE y == [x EXCEPT !.at = "srem", !.p = c]
    <3>1. "srem" \in Places
      BY DEF Places
    <3>2. /\ y \in Works /\ y.at = "srem" /\ y.me = worker[w].me /\ y.p = c
          /\ y.holder = worker[w].holder
          /\ y.known = userParty[worker[w].other] /\ y.calm = worker[w].calm
          /\ y.other = worker[w].other
      BY <2>2, <2>3, <2>7, <3>1 DEF Works
    <3> HIDE DEF y
    <3>3. y.p \in PartyIds
      BY <2>5, <2>7, <3>2 DEF PartyIds
    <3>4. Duty(y)
      BY <2>1, <3>2, <3>3 DEF Duty, Opening, Joins, Targeting
    <3>5. Becomes(w, y)
      BY <2>4, <2>5 DEF y
    <3>6. y.p \in Names(w) /\ y.known \in Names(w)
      BY <2>1, <2>7, <3>2 DEF Names
    <3> QED BY <2>1, <3>2, <3>4, <3>5, <3>6, BecomesFields DEF Moved
  <2>6. ASSUME ~(x.req = "accept" /\ c # 0) PROVE Moved(w)
    <3>1. Becomes(w, Joining(x))
      BY <2>4, <2>6
    <3>2. /\ Joining(x) \in Works /\ Duty(Joining(x)) /\ Joining(x).me = worker[w].me
          /\ Joining(x).calm = worker[w].calm /\ Joining(x).holder = worker[w].holder
          /\ Joining(x).at \in {"incr", "scard"}
          /\ Joining(x).p \in {0, x.known} /\ Joining(x).known = 0
      BY <2>1, <2>3, JoiningWorks
    <3>3. Joining(x).p \in Names(w) /\ Joining(x).known \in Names(w)
      BY <2>1, <2>3, <3>2 DEF Names
    <3> QED BY <2>1, <3>1, <3>2, <3>3, BecomesFields DEF Moved
  <2> QED BY <1>r, <1>17, <2>5, <2>6, Quiet DEF ReadHost, registry, session
<1>18. ASSUME OpenKey(w) PROVE Moved(w) /\ Wrote(w) /\ RegTypes'
  <2> DEFINE y == [worker[w] EXCEPT !.at = "scard", !.other = NoUser]
  <2>1. /\ worker[w].at = "hsetHost" /\ worker[w] \in Works
        /\ worker[w].req \notin {"accept", "connect"}
        /\ worker[w].me \in Users /\ worker[w].other \in Users /\ worker[w].p \in PartyIds
    BY <1>18, AtWork DEF OpenKey, Opening, Joins, Partyless
  <2>2. "scard" \in Places
    BY DEF Places
  <2>3. /\ y \in Works /\ y.at = "scard" /\ y.me = worker[w].me /\ y.p = worker[w].p
        /\ y.known = worker[w].known /\ y.calm = worker[w].calm
        /\ y.req = worker[w].req /\ y.holder = worker[w].holder
    BY <2>1, <2>2 DEF Works
  <2>4. Becomes(w, y)
    BY <1>18 DEF OpenKey
  <2> HIDE DEF y
  <2>5. Duty(y)
    BY <2>1, <2>3 DEF Duty, Opening, Joins, Targeting
  <2>6. y.p \in Names(w) /\ y.known \in Names(w)
    BY <2>3 DEF Names
  <2>7. Moved(w)
    BY <2>1, <2>3, <2>4, <2>5, <2>6, BecomesFields DEF Moved
  <2>8. worker[w].p \in 0 .. MaxParty
    BY <2>1, AtWork
  <2>9. Wrote(w) /\ RegTypes'
    BY <1>r, <1>18, <2>1, <2>8, SetPartyIdKeeps DEF OpenKey, RegTypes, Wrote
  <2> QED BY <2>7, <2>9
<1>19. ASSUME SendPartyInfo(w) PROVE Moved(w) /\ Wrote(w) /\ RegTypes'
  <2>1. \/ Goes(w, "state") \/ Becomes(w, Idle) \/ Goes(w, "undefined")
    BY <1>19 DEF SendPartyInfo, Goes
  <2>2. worker[w].at = "info" /\ UNCHANGED <<registry, session, notices, taken, errors>>
    BY <1>19 DEF SendPartyInfo, session
  <2>3. Moved(w)
    BY <2>1, <2>2, MovedGoes, MovedIdle DEF Places, Opening, Joins, Targeting, Partyless
  <2> QED BY <1>r, <2>2, <2>3, Quiet
<1>20. ASSUME NotifyPartyLeave(w) PROVE Moved(w) /\ Wrote(w) /\ RegTypes'
  <2> PICK told : told = IF worker[w].heir = NoUser THEN members[worker[w].p] ELSE {}
    OBVIOUS
  <2>1. /\ \/ worker[w].at = "tellLast" /\ Goes(w, "smembersLast")
           \/ worker[w].at = "tellRest" /\ Becomes(w, Left(worker[w]))
        /\ notices' = IF told = {} THEN notices ELSE Append(notices, told)
        /\ UNCHANGED <<registry, session, taken, errors>>
    BY <1>20 DEF NotifyPartyLeave, session
  <2>2. worker[w].p \in PartyIds
    BY <2>1, AtWork DEF Partyless
  <2>3. Moved(w)
    BY <2>1, MovedGoes, MovedLeft DEF Places, Tells, Opening, Joins, Targeting, Partyless
  <2>4. told \in SUBSET Users
    BY <1>r, <2>2 DEF RegTypes
  <2>5. Wrote(w) /\ RegTypes'
    BY <1>r, <2>1, <2>4 DEF registry, session, RegTypes, Wrote
  <2> QED BY <2>3, <2>5
<1>21. ASSUME LastMember(w) PROVE Moved(w) /\ Wrote(w) /\ RegTypes'
  <2>1. /\ FirstMember(w, "smembersLast", "hsetLast")
        /\ SetPartyId({worker'[w].heir}, 0) /\ UNCHANGED <<registry, notices>>
    BY <1>21 DEF LastMember
  <2>2. Moved(w)
    BY <2>1, MovedFirst DEF Places, Opening, Joins, Targeting, Partyless
  <2> PICK h : h = worker'[w].heir
    OBVIOUS
  <2>3. SetPartyId({h}, 0)
    BY <2>1
  <2>4. /\ cached' \in [Users -> 0 .. MaxParty]
        /\ \A u \in Users : cached'[u] \in {cached[u], 0}
    BY <1>r, <2>3, SetPartyIdKeeps
  <2>5. UNCHANGED <<registry, notices, online, taken, errors>>
    BY <2>1 DEF FirstMember
  <2>6. Wrote(w) /\ RegTypes'
    BY <1>r, <2>4, <2>5 DEF registry, RegTypes, Wrote
  <2> QED BY <2>2, <2>6
<1>22. ASSUME ChooseHeir(w) PROVE Moved(w) /\ Wrote(w) /\ RegTypes'
  <2>1. Moved(w)
    BY <1>22, MovedFirst DEF ChooseHeir, Places, Opening, Joins, Targeting, Partyless
  <2> QED BY <1>r, <1>22, <2>1, Quiet DEF ChooseHeir, FirstMember, session
<1>23. ASSUME DissolveLeader(w) PROVE Moved(w) /\ Wrote(w) /\ RegTypes'
  <2>1. Moved(w)
    BY <1>23, MovedLeft DEF DissolveLeader
  <2>2. Wrote(w) /\ RegTypes'
    BY <1>r, <1>23 DEF DissolveLeader, RegTypes, Wrote
  <2> QED BY <2>1, <2>2
<1>24. ASSUME NotifyPartyKick(w) PROVE Moved(w) /\ Wrote(w) /\ RegTypes'
  <2>1. worker[w].at = "tellKick" /\ worker[w].other \in Users
    BY <1>24, AtWork DEF NotifyPartyKick, Targeting
  <2>2. Moved(w)
    BY <1>24, <2>1, MovedIdle DEF NotifyPartyKick
  <2>3. {worker[w].other} \in SUBSET Users
    BY <2>1
  <2>4. Wrote(w) /\ RegTypes'
    BY <1>r, <1>24, <2>3 DEF NotifyPartyKick, registry, RegTypes, Wrote
  <2> QED BY <2>2, <2>4
<1>25. ASSUME HandOver(w) PROVE Moved(w) /\ Wrote(w) /\ RegTypes'
  <2>1. worker[w].at = "setTarget" /\ worker[w].other \in Users
    BY <1>25, AtWork DEF HandOver, Targeting
  <2>2. Moved(w)
    BY <1>25, <2>1, MovedIdle DEF HandOver
  <2>3. Wrote(w) /\ RegTypes'
    BY <1>r, <1>25, <2>1 DEF HandOver, RegTypes, Wrote
  <2> QED BY <2>2, <2>3
<1>26. ASSUME ReadParty(w) PROVE Moved(w) /\ Wrote(w) /\ RegTypes'
  <2> PICK p : p = userParty[worker[w].me]
    OBVIOUS
  <2>1. worker[w].at = "hgetParty" /\ worker[w].me \in Users /\ worker[w] \in Works
    BY <1>26, AtWork DEF ReadParty
  <2>2. /\ \/ p = 0 /\ Goes(w, "state") /\ SetPartyId({worker[w].holder}, 0)
           \/ /\ p # 0 /\ UNCHANGED cached
              /\ Becomes(w, [worker[w] EXCEPT !.at = "stillMember", !.p = p])
        /\ UNCHANGED <<registry, notices, online, taken, errors>>
    BY <1>26 DEF ReadParty
  <2>3. p \in 0 .. MaxParty
    BY <1>r, <2>1 DEF RegTypes
  <2>4. ASSUME Goes(w, "state") PROVE Moved(w)
    BY <2>1, <2>4, MovedGoes DEF Places, Opening, Joins, Targeting, Partyless
  <2>5. ASSUME p # 0, Becomes(w, [worker[w] EXCEPT !.at = "stillMember", !.p = p])
        PROVE  Moved(w)
    <3> DEFINE y == [worker[w] EXCEPT !.at = "stillMember", !.p = p]
    <3>1. "stillMember" \in Places
      BY DEF Places, Lookups
    <3>2. /\ y \in Works /\ y.at = "stillMember" /\ y.me = worker[w].me /\ y.p = p
          /\ y.known = worker[w].known /\ y.calm = worker[w].calm
          /\ y.req = worker[w].req /\ y.other = worker[w].other
          /\ y.holder = worker[w].holder
      BY <2>1, <2>3, <3>1 DEF Works
    <3>3. Becomes(w, y)
      BY <2>5
    <3> HIDE DEF y
    <3>4. y.p \in PartyIds
      BY <2>3, <2>5, <3>2 DEF PartyIds
    <3>5. Duty(y)
      BY <2>1, <3>2, <3>4, AtWork DEF Duty, Opening, Joins, Targeting
    <3>6. y.p \in Names(w) /\ y.known \in Names(w)
      BY <2>1, <3>2 DEF Names
    <3> QED BY <2>1, <3>2, <3>3, <3>5, <3>6, BecomesFields DEF Moved
  <2>6. Wrote(w) /\ RegTypes'
    BY <1>r, <2>2, SetPartyIdKeeps DEF registry, RegTypes, Wrote
  <2> QED BY <2>2, <2>4, <2>5, <2>6
<1>27. ASSUME NEW y \in Works, Becomes(w, y), Duty(y), y.at \notin {"idle", "saddHost"},
              worker[w].at # "idle", y.me = worker[w].me, y.calm = worker[w].calm,
              y.p \in Names(w), y.known = worker[w].known, y.holder = worker[w].holder
       PROVE  Moved(w)
  <2>1. y.known \in Names(w)
    BY <1>27 DEF Names
  <2> QED BY <1>27, <2>1, BecomesFields DEF Moved
<1>28. ASSUME worker[w].at \in Lookups, NEW at \in {"forget", "state"},
              Becomes(w, [worker[w] EXCEPT !.at = at, !.p = 0])
       PROVE  Moved(w)
  <2> DEFINE y == [worker[w] EXCEPT !.at = at, !.p = 0]
  <2>1. at \in Places /\ worker[w] \in Works /\ worker[w].at # "idle"
    BY <1>28, Types DEF Places, Lookups
  <2>2. /\ y \in Works /\ y.at = at /\ y.me = worker[w].me /\ y.p = 0
        /\ y.known = worker[w].known /\ y.calm = worker[w].calm
        /\ y.req = worker[w].req /\ y.other = worker[w].other
        /\ y.holder = worker[w].holder
    BY <1>r, <2>1 DEF Works
  <2>3. Becomes(w, y)
    BY <1>28
  <2> HIDE DEF y
  <2>4. Duty(y)
    BY <1>28, <2>1, <2>2, AtWork DEF Duty, Opening, Joins, Targeting, Partyless
  <2>5. y.p \in Names(w)
    BY <2>2 DEF Names
  <2> QED BY <1>27, <1>28, <2>1, <2>2, <2>3, <2>4, <2>5
<1>29. ASSUME StillMember(w) PROVE Moved(w) /\ Wrote(w) /\ RegTypes'
  <2>1. worker[w].at = "stillMember" /\ worker[w].p \in 0 .. MaxParty
    BY <1>29, AtWork DEF StillMember
  <2>2. /\ \/ Goes(w, "info") /\ SetPartyId({worker[w].holder}, worker[w].p)
           \/ Becomes(w, [worker[w] EXCEPT !.at = "forget", !.p = 0]) /\ UNCHANGED cached
        /\ UNCHANGED <<registry, notices, online, taken, errors>>
    BY <1>29 DEF StillMember
  <2>3. Moved(w)
    BY <1>28, <2>1, <2>2, MovedGoes DEF Places, Tells, Lookups, Opening, Joins, Targeting, Partyless
  <2>4. Wrote(w) /\ RegTypes'
    BY <1>r, <2>1, <2>2, SetPartyIdKeeps DEF registry, RegTypes, Wrote
  <2> QED BY <2>3, <2>4
<1>30. ASSUME ForgetParty(w) PROVE Moved(w) /\ Wrote(w) /\ RegTypes'
  <2>1. Moved(w)
    BY <1>30, MovedGoes DEF ForgetParty, Places, Opening, Joins, Targeting, Partyless
  <2>2. /\ cached' \in [Users -> 0 .. MaxParty]
        /\ \A u \in Users : cached'[u] \in {cached[u], 0}
    BY <1>r, <1>30, SetPartyIdKeeps DEF ForgetParty
  <2>3. Wrote(w) /\ RegTypes'
    BY <1>r, <1>30, <2>2 DEF ForgetParty, RegTypes, Wrote
  <2> QED BY <2>1, <2>3
<1>31. ASSUME StoreState(w) PROVE Moved(w) /\ Wrote(w) /\ RegTypes'
  <2>1. worker[w].at = "state" /\ worker[w].p \in 0 .. MaxParty
    BY <1>31, AtWork DEF StoreState
  <2>2. Moved(w)
    BY <1>31, <2>1, MovedIdle DEF StoreState
  <2>3. Wrote(w) /\ RegTypes'
    BY <1>r, <1>31, <2>1 DEF StoreState, RegTypes, Wrote
  <2> QED BY <2>2, <2>3
<1>32. ASSUME CommandFails(w) PROVE Moved(w) /\ Wrote(w) /\ RegTypes'
  <2>1. /\ worker[w].at \notin {"idle", "undefined"}
        /\ errors < MaxErrors /\ errors' = errors + 1
        /\ UNCHANGED <<registry, online, notices, taken>>
        /\ \/ /\ worker[w].at \in Lookups
              /\ Becomes(w, [worker[w] EXCEPT !.at = "state", !.p = 0])
              /\ SetPartyId({worker[w].holder}, 0)
           \/ worker[w].at \in Tells /\ Becomes(w, Resumed(worker[w])) /\ UNCHANGED cached
           \/ Becomes(w, Idle) /\ UNCHANGED cached
    BY <1>32 DEF CommandFails, Error
  <2>2. ASSUME worker[w].at \in Tells, Becomes(w, Resumed(worker[w])) PROVE Moved(w)
    <3>1. CASE worker[w].at = "tellLast"
      <4>1. Goes(w, "smembersLast")
        BY <2>2, <3>1 DEF Resumed, Goes
      <4> QED BY <3>1, <4>1, MovedGoes DEF Places, Opening, Joins, Targeting, Partyless
    <3>2. CASE worker[w].at = "tellRest"
      BY <2>2, <3>2, MovedLeft DEF Resumed
    <3>3. CASE worker[w].at \notin {"tellLast", "tellRest"}
      <4>1. worker[w].at \in {"info", "tellKick"}
        BY <2>2, <3>3 DEF Tells
      <4>2. Becomes(w, Idle) \/ Goes(w, "state")
        BY <2>2, <3>3, <4>1 DEF Resumed, Goes
      <4> QED BY <4>1, <4>2, MovedGoes, MovedIdle DEF Places, Opening, Joins, Targeting, Partyless
    <3> QED BY <3>1, <3>2, <3>3
  <2>3. Moved(w)
    BY <1>28, <2>1, <2>2, MovedIdle
  <2>4. errors' \in 0 .. MaxErrors
    BY <1>r, <2>1, PartyThreadsAssumption DEF RegTypes
  <2>5. Wrote(w) /\ RegTypes'
    BY <1>r, <2>1, <2>4, SetPartyIdKeeps DEF registry, RegTypes, Wrote
  <2> QED BY <2>3, <2>5
<1>33. ASSUME CountInvite(w) PROVE Moved(w) /\ Wrote(w) /\ RegTypes'
  <2>1. /\ worker[w].at = "scardInvite"
        /\ UNCHANGED worker \/ Becomes(w, Idle)
        /\ UNCHANGED <<registry, session, notices, taken, errors>>
    BY <1>33 DEF CountInvite, session
  <2>2. ASSUME UNCHANGED worker PROVE Moved(w)
    <3>1. worker[w].p \in Names(w) /\ worker[w].known \in Names(w)
      BY DEF Names
    <3>2. worker[w] \in Works /\ Duty(worker[w])
      BY <2>1, AtWork
    <3>3. worker \in [Workers -> Works]
      BY Types
    <3> QED BY <2>1, <2>2, <3>1, <3>2, <3>3 DEF Moved
  <2>3. Moved(w)
    BY <2>1, <2>2, MovedIdle
  <2> QED BY <1>r, <2>1, <2>3, Quiet
<1> QED
  BY <1>1, <1>2, <1>3, <1>4, <1>5, <1>6, <1>7, <1>8, <1>9, <1>10, <1>11, <1>12, <1>13,
     <1>14, <1>15, <1>16, <1>17, <1>18, <1>19, <1>20, <1>21, <1>22, <1>23, <1>24, <1>25,
     <1>26, <1>29, <1>30, <1>31, <1>32, <1>33
  DEF Join, LeavePartyInternal, Lead, LogIn

\* Names spread from thread to thread only through keys and sessions.
LEMMA UnnamedKept ==
  ASSUME NEW w \in Workers, Moved(w), Wrote(w), NEW p \in PartyIds, NEW v,
         Unnamed(p, v), worker[w].p # p
  PROVE  Unnamed(p, v)' /\ worker'[w].p # p /\ members'[p] = members[p]
<1>1. p # 0
  BY DEF PartyIds
<1>2. p \notin Names(w)
  BY <1>1 DEF Names, Unnamed
<1>3. worker'[w].p # p /\ worker'[w].known # p
  BY <1>2 DEF Moved
<1>4. \A u \in Users : userParty'[u] # p /\ cached'[u] # p
  BY <1>1 DEF Wrote, Unnamed
<1>5. \A x \in Workers : worker'[x].known # p /\ (x # v => worker'[x].p # p)
  BY <1>3 DEF Moved, Unnamed
<1> QED BY <1>3, <1>4, <1>5 DEF Wrote, Unnamed

LEMMA CommandKeeps ==
  ASSUME TypeOK, Working, Private, Fresh, NEW w \in Workers, Moved(w), Wrote(w), RegTypes'
  PROVE  TypeOK' /\ Working' /\ Private' /\ Fresh'
<1>1. TypeOK'
  BY DEF TypeOK, RegTypes, Works, Moved
<1>2. Working'
  BY DEF Working, Moved, Wrote
<1>3. Private'
  <2> SUFFICES ASSUME NEW v \in Workers, worker'[v].at = "saddHost"
               PROVE  /\ worker'[v].p <= counter'
                      /\ members'[worker'[v].p] = {} /\ Unnamed(worker[v].p, v)'
    BY DEF Private
  <2>1. v # w /\ worker'[v] = worker[v]
    BY DEF Moved
  <2> PICK p : p = worker[v].p
    OBVIOUS
  <2>2. /\ p <= counter /\ members[p] = {} /\ Unnamed(p, v) /\ p \in PartyIds
    BY <2>1 DEF Private, Working, Duty, Partyless
  <2>3. worker[w].p # p
    BY <2>1, <2>2 DEF Unnamed
  <2>4. Unnamed(p, v)' /\ members'[p] = members[p]
    BY <2>2, <2>3, UnnamedKept
  <2>5. worker'[v].p = p
    BY <2>1
  <2> QED BY <2>2, <2>4, <2>5 DEF Wrote, Unnamed
<1>4. Fresh'
  <2> SUFFICES ASSUME NEW p \in PartyIds, p > counter, NEW v \in Workers
               PROVE  members'[p] = {} /\ worker'[v].p # p /\ Unnamed(p, v)'
    BY DEF Fresh, Wrote
  <2>1. members[p] = {} /\ \A x \in Workers : worker[x].p # p /\ Unnamed(p, x)
    BY DEF Fresh
  <2>2. Unnamed(p, v)' /\ worker'[w].p # p /\ members'[p] = members[p]
    BY <2>1, UnnamedKept
  <2> QED BY <2>1, <2>2 DEF Moved
<1> QED BY <1>1, <1>2, <1>3, <1>4

----------------------------------------------------------------------------
(* Seats *)

LEMMA Seats ==
  ASSUME TypeOK
  PROVE  /\ Cardinality(Workers) \in Nat
         /\ \A p \in PartyIds :
              /\ IsFiniteSet(members[p]) /\ Cardinality(members[p]) \in Nat
              /\ IsFiniteSet(Seating(p)) /\ Cardinality(Seating(p)) \in Nat
              /\ Cardinality(Seating(p)) <= Cardinality(Workers)
<1>1. IsFiniteSet(Users) /\ IsFiniteSet(Workers)
  BY PartyThreadsAssumption
<1>2. \A p \in PartyIds : members[p] \in SUBSET Users /\ Seating(p) \in SUBSET Workers
  BY DEF TypeOK, Seating
<1> QED BY <1>1, <1>2, FS_Subset, FS_CardinalityType

\* Neither members nor threads about to become members are added.
LEMMA BookedKept ==
  ASSUME TypeOK, TypeOK', Booked,
         \A p \in PartyIds : members'[p] \subseteq members[p]
                             /\ Seating(p)' \subseteq Seating(p)
  PROVE  Booked'
<1>1. /\ Cardinality(Workers) \in Nat
      /\ \A p \in PartyIds :
           /\ IsFiniteSet(members[p]) /\ Cardinality(members[p]) \in Nat
           /\ IsFiniteSet(Seating(p)) /\ Cardinality(Seating(p)) \in Nat
  BY Seats
<1>2. \A p \in PartyIds : /\ Cardinality(members'[p]) \in Nat
                          /\ Cardinality(Seating(p)') \in Nat
                          /\ Cardinality(members'[p]) <= Cardinality(members[p])
                          /\ Cardinality(Seating(p)') <= Cardinality(Seating(p))
  BY <1>1, FS_Subset, FS_CardinalityType
<1>3. PartyCap \in Nat
  BY PartyThreadsAssumption
<1> QED BY <1>1, <1>2, <1>3 DEF Booked

\* The step of a thread that is about to become nobody's member.
LEMMA BookedMoved ==
  ASSUME TypeOK, TypeOK', Booked, NEW w \in Workers, Moved(w),
         \A p \in PartyIds : members'[p] \subseteq members[p],
         worker'[w].at # "sadd"
  PROVE  Booked'
<1>1. \A p \in PartyIds : Seating(p)' \subseteq Seating(p)
  BY DEF Seating, Moved
<1> QED BY <1>1, BookedKept

LEMMA AddOne ==
  ASSUME NEW S, IsFiniteSet(S), NEW x
  PROVE  /\ Cardinality(S \cup {x}) \in Nat
         /\ Cardinality(S \cup {x}) <= Cardinality(S) + 1
<1>1. /\ IsFiniteSet(S \cup {x})
      /\ Cardinality(S \cup {x}) = IF x \in S THEN Cardinality(S) ELSE Cardinality(S) + 1
  BY FS_AddElement
<1>2. Cardinality(S) \in Nat /\ Cardinality(S \cup {x}) \in Nat
  BY <1>1, FS_CardinalityType
<1> QED BY <1>1, <1>2

LEMMA CommandBooked ==
  ASSUME TypeOK, TypeOK', Working, Booked, Private, NEW w \in Workers, Moved(w),
         Join(w) \/ LeavePartyInternal(w) \/ Lead(w) \/ LogIn(w) \/ CommandFails(w),
         ~OpenParty(w)
  PROVE  Booked'
<1> USE DEF Command
<1>t. /\ members \in [PartyIds -> SUBSET Users] /\ members' \in [PartyIds -> SUBSET Users]
  BY DEF TypeOK
<1>n. /\ Cardinality(Workers) \in Nat /\ PartyCap \in Nat \ {0}
      /\ \A p \in PartyIds :
           /\ IsFiniteSet(members[p]) /\ Cardinality(members[p]) \in Nat
           /\ IsFiniteSet(Seating(p)) /\ Cardinality(Seating(p)) \in Nat
           /\ Cardinality(Seating(p)) <= Cardinality(Workers)
  BY Seats, PartyThreadsAssumption
<1>s. /\ IsFiniteSet(Workers)
      /\ \A p \in PartyIds : Seating(p)' \in SUBSET Workers
  BY PartyThreadsAssumption DEF Seating
<1>m. \A p \in PartyIds : /\ Cardinality(Seating(p)') \in Nat
                          /\ Cardinality(Seating(p)') <= Cardinality(Workers)
  BY <1>s, FS_Subset, FS_CardinalityType
<1>1. ASSUME OpenMembers(w) PROVE Booked'
  <2> PICK p : p = worker[w].p
    OBVIOUS
  <2>1. /\ worker[w].at = "saddHost" /\ Goes(w, "setHost")
        /\ members' = [members EXCEPT ![p] = @ \cup {worker[w].other}]
    BY <1>1 DEF OpenMembers
  <2>2. p \in PartyIds /\ members[p] = {} /\ worker'[w].at = "setHost"
        /\ \A v \in Workers \ {w} : worker[v].p # p
    BY <2>1, AtWork, GoesFields DEF Partyless, Private, Unnamed, Places
  <2>3. Seating(p)' = {}
    BY <2>2 DEF Seating, Moved
  <2>4. members'[p] = {worker[w].other} /\ \A q \in PartyIds \ {p} : members'[q] = members[q]
    BY <1>t, <2>1, <2>2
  <2>5. \A q \in PartyIds : Seating(q)' \subseteq Seating(q)
    BY <2>2 DEF Seating, Moved
  <2>6. Cardinality(members'[p]) = 1 /\ Cardinality(Seating(p)') = 0
    BY <2>3, <2>4, FS_Singleton, FS_EmptySet
  <2>7. Cardinality(Workers) >= 1
    BY <1>s, <1>n, FS_EmptySet
  <2>8. \A q \in PartyIds \ {p} : Cardinality(Seating(q)') <= Cardinality(Seating(q))
    BY <1>n, <2>5, FS_Subset
  <2> SUFFICES ASSUME NEW q \in PartyIds
               PROVE  Cardinality(members'[q]) + Cardinality(Seating(q)')
                        <= PartyCap + Cardinality(Workers) - 1
    BY DEF Booked
  <2>9. CASE q = p
    BY <1>n, <2>6, <2>7, <2>9
  <2>10. CASE q # p
    <3>1. Cardinality(members[q]) + Cardinality(Seating(q))
            <= PartyCap + Cardinality(Workers) - 1
      BY DEF Booked
    <3>2. members'[q] = members[q] /\ Cardinality(Seating(q)') <= Cardinality(Seating(q))
      BY <2>4, <2>8, <2>10
    <3> QED BY <1>n, <1>m, <3>1, <3>2
  <2> QED BY <2>9, <2>10
<1>2. ASSUME CountSeats(w) PROVE Booked'
  <2>1. CASE worker'[w].at # "sadd"
    BY <1>2, <2>1, BookedMoved DEF CountSeats, registry
  <2>2. CASE worker'[w].at = "sadd"
    <3> PICK p : p = worker[w].p
      OBVIOUS
    <3>1. /\ worker[w].at = "scard" /\ members' = members
          /\ Cardinality(members[p]) < PartyCap /\ Goes(w, "sadd")
      BY <1>2, <2>2, MovedIdle, IdleWorks DEF CountSeats, HasSeat, registry
    <3>2. p \in PartyIds /\ worker'[w].p = p
      BY <3>1, AtWork, GoesFields DEF Partyless, Places
    <3>3. \A q \in PartyIds \ {p} : Seating(q)' \subseteq Seating(q)
      BY <3>2 DEF Seating, Moved
    <3>4. \A q \in PartyIds \ {p} : Cardinality(Seating(q)') <= Cardinality(Seating(q))
      BY <1>n, <3>3, FS_Subset
    <3> SUFFICES ASSUME NEW q \in PartyIds
                 PROVE  Cardinality(members'[q]) + Cardinality(Seating(q)')
                          <= PartyCap + Cardinality(Workers) - 1
      BY DEF Booked
    <3>5. CASE q = p
      BY <1>n, <1>m, <3>1, <3>5
    <3>6. CASE q # p
      <4>1. Cardinality(members[q]) + Cardinality(Seating(q))
              <= PartyCap + Cardinality(Workers) - 1
        BY DEF Booked
      <4> QED BY <1>n, <1>m, <3>1, <3>4, <3>6, <4>1
    <3> QED BY <3>5, <3>6
  <2> QED BY <2>1, <2>2
<1>3. ASSUME TakeSeat(w) PROVE Booked'
  <2> PICK p : p = worker[w].p
    OBVIOUS
  <2>1. /\ worker[w].at = "sadd" /\ Goes(w, "hset")
        /\ members' = [members EXCEPT ![p] = @ \cup {worker[w].me}]
    BY <1>3 DEF TakeSeat
  <2>2. p \in PartyIds /\ worker'[w].at = "hset"
    BY <2>1, AtWork, GoesFields DEF Partyless, Places
  <2>3. Seating(p)' = Seating(p) \ {w} /\ w \in Seating(p)
    BY <2>1, <2>2 DEF Seating, Moved
  <2>4. Cardinality(Seating(p)') = Cardinality(Seating(p)) - 1
    BY <1>n, <2>2, <2>3, FS_RemoveElement
  <2>5. members'[p] = members[p] \cup {worker[w].me}
        /\ \A q \in PartyIds \ {p} : members'[q] = members[q]
    BY <1>t, <2>1, <2>2
  <2>6. Cardinality(members'[p]) <= Cardinality(members[p]) + 1
        /\ Cardinality(members'[p]) \in Nat
    BY <1>n, <2>2, <2>5, AddOne
  <2>7. \A q \in PartyIds \ {p} : Seating(q)' \subseteq Seating(q)
    BY <2>2 DEF Seating, Moved
  <2>8. \A q \in PartyIds \ {p} : Cardinality(Seating(q)') <= Cardinality(Seating(q))
    BY <1>n, <2>7, FS_Subset
  <2> SUFFICES ASSUME NEW q \in PartyIds
               PROVE  Cardinality(members'[q]) + Cardinality(Seating(q)')
                        <= PartyCap + Cardinality(Workers) - 1
    BY DEF Booked
  <2>9. Cardinality(members[q]) + Cardinality(Seating(q))
          <= PartyCap + Cardinality(Workers) - 1
    BY DEF Booked
  <2>10. CASE q = p
    BY <1>n, <2>2, <2>4, <2>6, <2>9, <2>10
  <2>11. CASE q # p
    BY <1>n, <1>m, <2>5, <2>8, <2>9, <2>11
  <2> QED BY <2>10, <2>11
<1>4. ASSUME ~OpenMembers(w), ~CountSeats(w), ~TakeSeat(w) PROVE Booked'
  <2>1. \A p \in PartyIds : members'[p] \subseteq members[p]
    BY <1>t, <1>4
    DEF Join, LeavePartyInternal, Lead, LogIn, CommandFails, Error, registry, ReadHost, CountInvite,
        OpenLeader, OpenKey, JoinKey, SendPartyInfo, LeaveMembers, LeaveKey, CountRest,
        NotifyPartyLeave, LastMember, LastKey, DissolveMembers, DissolveLeader,
        CheckSuccession, ChooseHeir, Succeed, IsPartyLeader, IsMember, KickMember, KickKey,
        NotifyPartyKick, HandOver, ReadParty, StillMember, ForgetParty, StoreState
  <2>2. worker'[w].at # "sadd"
    <3>1. ASSUME NEW at \in Places \ {"sadd"}, Goes(w, at) PROVE worker'[w].at # "sadd"
      BY <3>1, GoesFields
    <3>2. ASSUME Becomes(w, Idle) PROVE worker'[w].at # "sadd"
      BY <3>2, IdleWorks, BecomesFields
    <3>3. ASSUME Becomes(w, Left(worker[w])), worker[w].at # "idle"
          PROVE  worker'[w].at # "sadd"
      BY <3>3, MovedLeft
    <3>4. ASSUME NEW y, Becomes(w, y), y.at # "sadd" PROVE worker'[w].at # "sadd"
      BY <3>4 DEF Becomes, Moved, TypeOK
    <3>5. worker \in [Workers -> Works]
      BY Types
    <3>6. CASE OpenLeader(w) \/ LeaveMembers(w) \/ LeaveKey(w) \/ LastKey(w)
               \/ DissolveMembers(w) \/ Succeed(w) \/ KickMember(w) \/ KickKey(w)
               \/ ForgetParty(w)
      BY <3>1, <3>6
      DEF OpenLeader, LeaveMembers, LeaveKey, LastKey, DissolveMembers, Succeed,
          KickMember, KickKey, ForgetParty, Places, Tells
    <3>7. CASE CountRest(w) \/ CheckSuccession(w) \/ IsPartyLeader(w) \/ IsMember(w)
      BY <3>1, <3>2, <3>7 DEF CountRest, CheckSuccession, IsPartyLeader, IsMember, Places, Tells
    <3>8. CASE NotifyPartyKick(w) \/ HandOver(w) \/ StoreState(w) \/ DissolveLeader(w)
               \/ NotifyPartyLeave(w)
      BY <3>1, <3>2, <3>3, <3>8
      DEF NotifyPartyKick, HandOver, StoreState, DissolveLeader, NotifyPartyLeave, Places
    <3>9. CASE LastMember(w) \/ ChooseHeir(w)
      <4>1. ASSUME NEW u, NEW at \in {"hsetLast", "setHeir"},
                   Becomes(w, [worker[w] EXCEPT !.at = at, !.heir = u])
            PROVE  worker'[w].at # "sadd"
        BY <3>4, <3>5, <4>1 DEF Works
      <4> QED BY <3>1, <3>9, <4>1 DEF LastMember, ChooseHeir, FirstMember, Places
    <3>10. CASE SendPartyInfo(w)
      BY <3>1, <3>2, <3>10 DEF SendPartyInfo, Goes, Places
    <3>11. CASE ReadParty(w) \/ StillMember(w)
      <4>1. ASSUME NEW p, NEW at \in {"stillMember", "forget"},
                   Becomes(w, [worker[w] EXCEPT !.at = at, !.p = p])
            PROVE  worker'[w].at # "sadd"
        BY <3>4, <3>5, <4>1 DEF Works
      <4> QED BY <3>1, <3>11, <4>1 DEF ReadParty, StillMember, Places, Tells
    <3>12. CASE OpenKey(w) \/ JoinKey(w)
      <4>1. \/ Becomes(w, [worker[w] EXCEPT !.at = "scard", !.other = NoUser])
            \/ Becomes(w, [worker[w] EXCEPT !.at = "info", !.holder = NoUser])
        BY <3>12 DEF OpenKey, JoinKey
      <4> QED BY <3>4, <3>5, <4>1 DEF Works
    <3>15. CASE CountInvite(w)
      BY <3>2, <3>15 DEF CountInvite
    <3>13. CASE ReadHost(w)
      <4> PICK x : x = [worker[w] EXCEPT !.known = userParty[worker[w].other]]
        OBVIOUS
      <4>1. Becomes(w, IF x.req = "accept" /\ CachedParty(x) # 0
                       THEN [x EXCEPT !.at = "srem", !.p = CachedParty(x)] ELSE Joining(x))
        BY <3>13 DEF ReadHost
      <4>2. [x EXCEPT !.at = "srem", !.p = CachedParty(x)].at # "sadd"
        BY <3>5 DEF Works
      <4>3. Joining(x).at # "sadd"
        BY <3>5 DEF Joining, Works
      <4> QED BY <3>4, <4>1, <4>2, <4>3
    <3>14. CASE CommandFails(w)
      <4>1. ASSUME Becomes(w, [worker[w] EXCEPT !.at = "state", !.p = 0])
            PROVE  worker'[w].at # "sadd"
        BY <3>4, <3>5, <4>1 DEF Works
      <4>2. ASSUME worker[w].at \in Tells, Becomes(w, Resumed(worker[w]))
            PROVE  worker'[w].at # "sadd"
        <5>1. \/ Goes(w, "smembersLast") \/ Becomes(w, Left(worker[w]))
              \/ Goes(w, "state") \/ Becomes(w, Idle)
          BY <4>2 DEF Resumed, Goes
        <5> QED BY <3>1, <3>2, <3>3, <4>2, <5>1 DEF Tells, Places
      <4> QED BY <3>2, <3>14, <4>1, <4>2 DEF CommandFails
    <3> QED
      BY <1>4, <3>6, <3>7, <3>8, <3>9, <3>10, <3>11, <3>12, <3>13, <3>14,
         <3>15
      DEF Join, LeavePartyInternal, Lead, LogIn
  <2> QED BY <2>1, <2>2, BookedMoved
<1> QED BY <1>1, <1>2, <1>3, <1>4

----------------------------------------------------------------------------
(* Requests that nothing came in between *)

\* Where Undisturbed says more than that a host found without a party has none.
Special ==
  {"tellLast", "smembersLast", "getLeader", "smembersHeir", "undefined", "state", "info"}
  \cup Opening

LEMMA AloneMoved ==
  ASSUME Alone, NEW w \in Workers, Moved(w),
         worker'[w].at # "idle" /\ worker[w].calm /\ Undisturbed(worker[w])
           => Undisturbed(worker[w])'
  PROVE  Alone'
<1> SUFFICES ASSUME NEW v \in Workers, worker'[v].at # "idle", worker'[v].calm
             PROVE  /\ Undisturbed(worker[v])'
                    /\ \A u \in Workers \ {v} : worker'[u].at = "idle"
  BY DEF Alone
<1>1. v = w
  BY DEF Alone, Moved
<1>2. worker[w].calm /\ Undisturbed(worker[w])
      /\ \A u \in Workers \ {w} : worker[u].at = "idle"
  BY <1>1 DEF Alone, Moved
<1>3. Undisturbed(worker[w])'
  BY <1>1, <1>2
<1>4. \A u \in Workers \ {w} : worker'[u].at = "idle"
  BY <1>2 DEF Moved
<1> QED BY <1>1, <1>3, <1>4

LEMMA GoesPlain ==
  ASSUME TypeOK, Working, NEW w \in Workers, NEW at \in Places \ Special, Goes(w, at),
         Undisturbed(worker[w]), worker[w].at \notin {"idle", "hget"},
         \A u \in Users : userParty'[u] \in {0, userParty[u]}
  PROVE  Undisturbed(worker[w])'
<1>1. worker[w].req = "accept" => worker[w].other \in Users
  BY AtWork
<1>2. /\ worker'[w].at = at /\ worker'[w].req = worker[w].req
      /\ worker'[w].other = worker[w].other /\ worker'[w].known = worker[w].known
  BY GoesFields
<1> QED BY <1>1, <1>2 DEF Undisturbed, Special

LEMMA GoesOpening ==
  ASSUME TypeOK, NEW w \in Workers, NEW at \in {"setHost", "hsetHost"}, Goes(w, at),
         Undisturbed(worker[w]), worker[w].at \in Opening, userParty' = userParty
  PROVE  Undisturbed(worker[w])'
<1>1. /\ worker'[w].at = at /\ worker'[w].req = worker[w].req
      /\ worker'[w].other = worker[w].other /\ worker'[w].known = worker[w].known
  BY GoesFields DEF Places
<1> QED BY <1>1 DEF Undisturbed, Opening

LEMMA LeftUndisturbed ==
  ASSUME TypeOK, Working, NEW w \in Workers, Becomes(w, Left(worker[w])),
         Undisturbed(worker[w]), worker[w].at \notin {"idle", "hget"},
         userParty' = userParty, worker'[w].at # "idle"
  PROVE  Undisturbed(worker[w])'
<1>1. /\ worker[w].req = "accept" /\ worker'[w].req = "join"
      /\ \/ worker'[w].at = "scard"
         \/ /\ worker'[w].at = "incr" /\ worker[w].known = 0
            /\ worker'[w].other = worker[w].other
  BY MovedLeft
<1> QED BY <1>1 DEF Undisturbed, Opening

LEMMA CommandAlone ==
  ASSUME TypeOK, TypeOK', Working, Alone, NEW w \in Workers, Moved(w),
         Join(w) \/ LeavePartyInternal(w) \/ Lead(w) \/ LogIn(w) \/ CommandFails(w),
         ~OpenParty(w)
  PROVE  Alone'
<1> USE DEF Command
<1> SUFFICES ASSUME worker'[w].at # "idle", Undisturbed(worker[w])
             PROVE  Undisturbed(worker[w])'
  BY AloneMoved
<1>t. RegTypes /\ worker[w] \in Works /\ worker[w].at # "idle"
      /\ worker[w].me \in Users /\ worker[w].holder \in online \cup {NoUser}
      /\ (worker[w].at \notin Partyless => worker[w].p \in PartyIds)
      /\ (worker[w].req = "accept" => worker[w].other \in Users)
      /\ (worker[w].at \in Joins => worker[w].req \notin {"accept", "connect"})
      /\ (worker[w].at \in {"hgetParty", "forget"} => worker[w].p = 0)
  BY Types, AtWork DEF Moved
<1>i. ASSUME Becomes(w, Idle) PROVE FALSE
  BY <1>i, MovedIdle, IdleWorks, <1>t
<1>g. ASSUME NEW at \in Places, Goes(w, at)
      PROVE  /\ worker'[w].at = at /\ worker'[w].req = worker[w].req
             /\ worker'[w].me = worker[w].me /\ worker'[w].other = worker[w].other
             /\ worker'[w].p = worker[w].p /\ worker'[w].known = worker[w].known
             /\ worker'[w].holder = worker[w].holder
  BY <1>g, GoesFields
<1>1. CASE LeaveMembers(w) \/ LeaveKey(w) \/ LastKey(w) \/ DissolveMembers(w) \/ Succeed(w)
           \/ KickMember(w) \/ KickKey(w) \/ TakeSeat(w)
  <2>1. worker[w].at # "hget"
    BY <1>1 DEF LeaveMembers, LeaveKey, LastKey, DissolveMembers, Succeed, KickMember,
                KickKey, TakeSeat
  <2>2. PICK at \in {"hsetLeaver", "scardRest", "delMembers", "delLeader", "tellRest",
                     "hsetTarget", "tellKick", "hset"} : Goes(w, at)
    BY <1>1 DEF LeaveMembers, LeaveKey, LastKey, DissolveMembers, Succeed, KickMember,
                KickKey, TakeSeat
  <2>3. at \in Places \ Special
    BY <2>2 DEF Places, Tells, Special, Opening
  <2>4. \A u \in Users : userParty'[u] \in {0, userParty[u]}
    BY <1>t, <1>1 DEF LeaveMembers, LeaveKey, LastKey, DissolveMembers, Succeed, KickMember,
                KickKey, TakeSeat, RegTypes
  <2> QED BY <1>t, <2>1, <2>2, <2>3, <2>4, GoesPlain
<1>2. CASE CountSeats(w) \/ IsPartyLeader(w) \/ IsMember(w)
  <2>1. worker[w].at # "hget" /\ userParty' = userParty
    BY <1>2 DEF CountSeats, IsPartyLeader, IsMember, registry
  <2>2. PICK at \in {"sadd", "sismember", "sremTarget", "setTarget"} : Goes(w, at)
    BY <1>2, <1>i DEF CountSeats, IsPartyLeader, IsMember
  <2>3. at \in Places \ Special
    BY <2>2 DEF Places, Special, Opening
  <2> QED BY <1>t, <2>1, <2>2, <2>3, GoesPlain
<1>3. CASE OpenMembers(w) \/ OpenLeader(w)
  BY <1>3, GoesOpening DEF OpenMembers, OpenLeader, Opening
<1>4. CASE JoinKey(w)
  <2> DEFINE y == [worker[w] EXCEPT !.at = "info", !.holder = NoUser]
  <2>1. /\ y.at = "info" /\ y.req = worker[w].req
        /\ worker[w].req \notin {"accept", "connect"}
    BY <1>4, <1>t DEF JoinKey, Joins, Works
  <2>2. Becomes(w, y)
    BY <1>4 DEF JoinKey
  <2> HIDE DEF y
  <2>3. worker'[w] = y
    BY <2>2 DEF Becomes, TypeOK
  <2> QED BY <2>1, <2>3 DEF Undisturbed, Opening
<1>5. CASE OpenKey(w)
  <2> DEFINE y == [worker[w] EXCEPT !.at = "scard", !.other = NoUser]
  <2>1. y.at = "scard" /\ y.req = worker[w].req /\ worker[w].req # "accept"
    BY <1>5, <1>t DEF OpenKey, Joins, Opening, Works
  <2>2. Becomes(w, y)
    BY <1>5 DEF OpenKey
  <2> HIDE DEF y
  <2>3. worker'[w] = y
    BY <2>2 DEF Becomes, TypeOK
  <2> QED BY <2>1, <2>3 DEF Undisturbed, Opening
<1>6. CASE CountRest(w)
  <2> PICK p : p = worker[w].p
    OBVIOUS
  <2>1. /\ worker[w].at = "scardRest" /\ members' = members /\ userParty' = userParty
        /\ \/ Goes(w, "delMembers")
           \/ /\ Cardinality(members[p]) # 0
              /\ Goes(w, "tellLast") \/ Goes(w, "getLeader")
    BY <1>6 DEF CountRest, registry
  <2>2. CASE Goes(w, "delMembers")
    BY <1>t, <2>1, <2>2, GoesPlain DEF Places, Special, Opening
  <2>3. ASSUME Cardinality(members[p]) # 0, NEW at \in {"tellLast", "getLeader"},
               Goes(w, at)
        PROVE  Undisturbed(worker[w])'
    <3>1. members[p] # {}
      BY <2>3, FS_EmptySet
    <3>2. at \in Places
      BY DEF Places, Tells
    <3> QED BY <1>t, <2>1, <2>3, <3>1, <3>2, <1>g DEF Undisturbed, Opening
  <2> QED BY <2>1, <2>2, <2>3
<1>7. CASE CheckSuccession(w)
  <2>1. /\ worker[w].at = "getLeader" /\ members' = members /\ userParty' = userParty
        /\ Goes(w, "smembersHeir") \/ Goes(w, "tellRest")
    BY <1>7 DEF CheckSuccession, registry
  <2>2. CASE Goes(w, "smembersHeir")
    BY <1>t, <2>1, <2>2, <1>g DEF Undisturbed, Places, Opening
  <2>3. CASE Goes(w, "tellRest")
    BY <1>t, <2>1, <2>3, GoesPlain DEF Places, Tells, Special, Opening
  <2> QED BY <2>1, <2>2, <2>3
<1>8. ASSUME worker[w].at = "tellLast", Goes(w, "smembersLast"),
             members' = members, userParty' = userParty
      PROVE  Undisturbed(worker[w])'
  BY <1>t, <1>8, <1>g DEF Undisturbed, Places, Opening
<1>9. CASE NotifyPartyLeave(w) \/ DissolveLeader(w)
  BY <1>t, <1>8, <1>9, LeftUndisturbed DEF NotifyPartyLeave, DissolveLeader, registry
<1>10. ASSUME NEW at \in {"smembersLast", "smembersHeir"},
              NEW next \in {"hsetLast", "setHeir"}, FirstMember(w, at, next),
              userParty' = userParty
       PROVE  Undisturbed(worker[w])'
  <2>1. worker[w].at = at /\ members[worker[w].p] # {}
    BY <1>10 DEF FirstMember, Undisturbed
  <2>2. PICK u : Becomes(w, [worker[w] EXCEPT !.at = next, !.heir = u])
    BY <1>10, <2>1 DEF FirstMember
  <2> DEFINE y == [worker[w] EXCEPT !.at = next, !.heir = u]
  <2>3. /\ y.at = next /\ y.req = worker[w].req /\ y.other = worker[w].other
        /\ y.known = worker[w].known
    BY <1>t DEF Works
  <2>4. Becomes(w, y)
    BY <2>2
  <2> HIDE DEF y
  <2>5. worker'[w] = y
    BY <2>4 DEF Becomes, TypeOK
  <2> QED BY <1>10, <2>1, <2>3, <2>5 DEF Undisturbed, Opening
<1>11. CASE LastMember(w) \/ ChooseHeir(w)
  BY <1>10, <1>11 DEF LastMember, ChooseHeir, registry
<1>12. ASSUME worker[w].at = "info", worker[w].req = "connect", Goes(w, "state"),
              UNCHANGED <<registry, cached>>
       PROVE  Undisturbed(worker[w])'
  BY <1>t, <1>12, <1>g DEF Undisturbed, Places, Opening, registry
<1>13. CASE SendPartyInfo(w)
  <2>1. /\ worker[w].at = "info" /\ UNCHANGED <<registry, cached>>
        /\ \/ worker[w].req = "connect" /\ Goes(w, "state")
           \/ Cardinality(members[worker[w].p]) > PartyCap /\ Goes(w, "undefined")
    BY <1>i, <1>13 DEF SendPartyInfo, Goes
  <2>2. CASE Cardinality(members[worker[w].p]) > PartyCap /\ Goes(w, "undefined")
    BY <1>t, <2>1, <2>2, <1>g DEF Undisturbed, Places, Opening, registry
  <2> QED BY <1>12, <2>1, <2>2
<1>14. CASE ReadHost(w)
  <2> PICK x : x = [worker[w] EXCEPT !.known = userParty[worker[w].other]]
    OBVIOUS
  <2>1. /\ worker[w].at = "hget" /\ worker[w].other \in Users /\ userParty' = userParty
        /\ Becomes(w, IF x.req = "accept" /\ CachedParty(x) # 0
                      THEN [x EXCEPT !.at = "srem", !.p = CachedParty(x)] ELSE Joining(x))
    BY <1>14, AtWork DEF ReadHost, registry
  <2>2. userParty[worker[w].other] \in 0 .. MaxParty
    BY <1>t, <2>1 DEF RegTypes
  <2>3. /\ x \in Works /\ x.me = worker[w].me /\ x.req = worker[w].req
        /\ x.other = worker[w].other /\ x.known = userParty[worker[w].other]
    BY <1>t, <2>2 DEF Works
  <2>4. ASSUME Becomes(w, [x EXCEPT !.at = "srem", !.p = CachedParty(x)])
        PROVE  Undisturbed(worker[w])'
    <3> DEFINE y == [x EXCEPT !.at = "srem", !.p = CachedParty(x)]
    <3>1. y.at = "srem" /\ y.known = x.known /\ y.other = x.other
      BY <2>3 DEF Works
    <3>2. Becomes(w, y)
      BY <2>4
    <3> HIDE DEF y
    <3>3. worker'[w] = y
      BY <3>2 DEF Becomes, TypeOK
    <3> QED BY <2>1, <2>3, <3>1, <3>3 DEF Undisturbed, Opening
  <2>5. ASSUME Becomes(w, Joining(x)) PROVE Undisturbed(worker[w])'
    <3>1. /\ Joining(x).req = "join"
          /\ x.known = 0 => Joining(x).at = "incr" /\ Joining(x).other = x.other
          /\ x.known # 0 => Joining(x).at = "scard"
      BY <1>t, <2>1, <2>3, JoiningWorks
    <3>2. worker'[w] = Joining(x)
      BY <2>5 DEF Becomes, TypeOK
    <3> QED BY <2>1, <2>3, <3>1, <3>2 DEF Undisturbed, Opening
  <2> QED BY <2>1, <2>4, <2>5
<1>15. ASSUME Goes(w, "state"), worker[w].at \in {"hgetParty", "forget"},
              worker[w].holder = worker[w].me => cached'[worker[w].me] = 0,
              \A u \in Users : userParty'[u] \in {0, userParty[u]}
       PROVE  Undisturbed(worker[w])'
  BY <1>t, <1>15, <1>g DEF Undisturbed, Places, Opening
<1>16. ASSUME NEW p, NEW at \in {"stillMember", "forget"}, worker[w].at # "hget",
              Becomes(w, [worker[w] EXCEPT !.at = at, !.p = p]),
              userParty' = userParty
       PROVE  Undisturbed(worker[w])'
  <2> DEFINE y == [worker[w] EXCEPT !.at = at, !.p = p]
  <2>1. /\ y.at = at /\ y.req = worker[w].req /\ y.other = worker[w].other
        /\ y.known = worker[w].known
    BY <1>t DEF Works
  <2>2. Becomes(w, y)
    BY <1>16
  <2> HIDE DEF y
  <2>3. worker'[w] = y
    BY <2>2 DEF Becomes, TypeOK
  <2> QED BY <1>16, <2>1, <2>3 DEF Undisturbed, Opening
<1>17. ASSUME NEW p, SetPartyId({worker[w].holder}, p)
       PROVE  worker[w].holder = worker[w].me => cached'[worker[w].me] = p
  BY <1>t, <1>17, PartyThreadsAssumption DEF SetPartyId
<1>18. CASE ReadParty(w)
  <2>1. /\ worker[w].at = "hgetParty" /\ userParty' = userParty
        /\ \/ Goes(w, "state") /\ SetPartyId({worker[w].holder}, 0)
           \/ Becomes(w, [worker[w] EXCEPT !.at = "stillMember",
                                           !.p = userParty[worker[w].me]])
    BY <1>18 DEF ReadParty, registry
  <2> QED BY <1>15, <1>16, <1>17, <2>1
<1>19. CASE StillMember(w)
  <2>1. /\ worker[w].at = "stillMember" /\ userParty' = userParty /\ members' = members
        /\ \/ /\ worker[w].me \in members[worker[w].p] /\ Goes(w, "info")
              /\ SetPartyId({worker[w].holder}, worker[w].p)
           \/ Becomes(w, [worker[w] EXCEPT !.at = "forget", !.p = 0])
    BY <1>19 DEF StillMember, registry
  <2>2. ASSUME worker[w].me \in members[worker[w].p], Goes(w, "info"),
               SetPartyId({worker[w].holder}, worker[w].p)
        PROVE  Undisturbed(worker[w])'
    <3>1. worker[w].holder = worker[w].me => cached'[worker[w].me] = worker[w].p
      BY <1>17, <2>2
    <3> QED BY <1>t, <2>1, <2>2, <3>1, <1>g DEF Undisturbed, Places, Tells, Opening
  <2> QED BY <1>16, <2>1, <2>2
<1>20. CASE ForgetParty(w)
  <2>1. /\ worker[w].at = "forget" /\ Goes(w, "state") /\ SetPartyId({worker[w].holder}, 0)
        /\ userParty' = [userParty EXCEPT ![worker[w].me] = 0]
    BY <1>20 DEF ForgetParty
  <2>2. \A u \in Users : userParty'[u] \in {0, userParty[u]}
    BY <1>t, <2>1 DEF RegTypes
  <2> QED BY <1>15, <1>17, <2>1, <2>2
<1>21. CASE CommandFails(w)
  <2>1. /\ UNCHANGED registry
        /\ \/ /\ worker[w].at \in Lookups
              /\ Becomes(w, [worker[w] EXCEPT !.at = "state", !.p = 0])
              /\ SetPartyId({worker[w].holder}, 0)
           \/ worker[w].at \in Tells /\ Becomes(w, Resumed(worker[w])) /\ UNCHANGED cached
    BY <1>21, <1>i DEF CommandFails, Error
  <2>2. ASSUME worker[w].at \in Lookups, SetPartyId({worker[w].holder}, 0),
               Becomes(w, [worker[w] EXCEPT !.at = "state", !.p = 0])
        PROVE  Undisturbed(worker[w])'
    <3> DEFINE y == [worker[w] EXCEPT !.at = "state", !.p = 0]
    <3>1. /\ y.at = "state" /\ y.req = worker[w].req /\ y.other = worker[w].other
          /\ y.known = worker[w].known /\ y.p = 0 /\ y.me = worker[w].me
          /\ y.holder = worker[w].holder
      BY <1>t DEF Works
    <3>2. Becomes(w, y)
      BY <2>2
    <3> HIDE DEF y
    <3>3. worker'[w] = y /\ userParty' = userParty /\ worker[w].at # "hget"
      BY <2>1, <2>2, <3>2 DEF Becomes, TypeOK, registry, Lookups
    <3> QED BY <1>17, <2>2, <3>1, <3>3 DEF Undisturbed, Opening
  <2>3. ASSUME worker[w].at \in Tells, Becomes(w, Resumed(worker[w])), UNCHANGED cached
        PROVE  Undisturbed(worker[w])'
    <3>1. \/ worker[w].at = "tellLast" /\ Goes(w, "smembersLast")
          \/ worker[w].at = "tellRest" /\ Becomes(w, Left(worker[w]))
          \/ worker[w].at = "info" /\ worker[w].req = "connect" /\ Goes(w, "state")
      BY <1>i, <2>3 DEF Resumed, Goes, Tells
    <3> QED BY <1>t, <1>8, <1>12, <2>1, <2>3, <3>1, LeftUndisturbed DEF registry
  <2> QED BY <2>1, <2>2, <2>3
<1>22. CASE NotifyPartyKick(w) \/ HandOver(w) \/ StoreState(w)
  BY <1>i, <1>22 DEF NotifyPartyKick, HandOver, StoreState
<1>23. CASE CountInvite(w)
  <2>1. UNCHANGED <<worker, registry, cached>>
    BY <1>i, <1>23 DEF CountInvite
  <2> QED BY <2>1 DEF Undisturbed, registry
<1> QED
  BY <1>1, <1>2, <1>3, <1>4, <1>5, <1>6, <1>7, <1>9, <1>11, <1>13, <1>14, <1>18, <1>19,
     <1>20, <1>21, <1>22, <1>23
  DEF Join, LeavePartyInternal, Lead, LogIn

----------------------------------------------------------------------------
(* The other steps *)

Inv == TypeOK /\ Working /\ Alone /\ Private /\ Fresh /\ Booked

LEMMA OpenStep == ASSUME Inv, NEW w \in Workers, OpenParty(w) PROVE Inv'
<1> USE DEF Command
<1> DEFINE y == [worker[w] EXCEPT !.at = "saddHost", !.p = counter']
<1> PICK p : p = counter + 1
  OBVIOUS
<1>1. /\ TypeOK /\ Working /\ Alone /\ Private /\ Fresh /\ Booked /\ RegTypes
  BY Types DEF Inv
<1>2. /\ worker[w].at = "incr" /\ counter < MaxParty /\ counter' = p
      /\ UNCHANGED <<members, leader, userParty, cached, notices, online, taken, errors>>
      /\ Becomes(w, y)
  BY <1>1 DEF OpenParty
<1>3. counter \in 0 .. MaxParty /\ MaxParty \in Nat
  BY <1>1, PartyThreadsAssumption DEF RegTypes
<1>4. /\ p \in PartyIds /\ p \in 0 .. MaxParty /\ p > counter
  BY <1>2, <1>3 DEF PartyIds
<1>5. /\ worker[w] \in Works /\ worker[w].me \in Users
      /\ worker[w].holder \in online \cup {NoUser}
      /\ worker[w].other \in Users /\ worker[w].req \notin {"accept", "connect"}
  BY <1>1, <1>2, AtWork DEF Opening, Joins
<1>6. "saddHost" \in Places
  BY DEF Places
<1>7. /\ y \in Works /\ y.at = "saddHost" /\ y.p = p /\ y.me = worker[w].me
      /\ y.other = worker[w].other /\ y.req = worker[w].req
      /\ y.known = worker[w].known /\ y.calm = worker[w].calm
      /\ y.holder = worker[w].holder
  BY <1>2, <1>4, <1>5, <1>6 DEF Works
<1> HIDE DEF y
<1>8. /\ worker' \in [Workers -> Works] /\ worker'[w] = y
      /\ \A v \in Workers \ {w} : worker'[v] = worker[v]
  BY <1>1, <1>2, <1>7, BecomesFields
<1>9. TypeOK'
  BY <1>1, <1>2, <1>4, <1>8 DEF TypeOK, RegTypes, Works
<1>10. Working'
  <2>1. Duty(y)
    BY <1>4, <1>5, <1>7 DEF Duty
  <2> QED BY <1>1, <1>2, <1>5, <1>7, <1>8, <2>1 DEF Working
<1>11. Alone'
  <2> SUFFICES ASSUME NEW v \in Workers, worker'[v].at # "idle", worker'[v].calm
               PROVE  /\ Undisturbed(worker[v])'
                      /\ \A u \in Workers \ {v} : worker'[u].at = "idle"
    BY DEF Alone
  <2>1. v = w
    BY <1>1, <1>2, <1>8 DEF Alone
  <2>2. Undisturbed(worker[w]) /\ \A u \in Workers \ {w} : worker[u].at = "idle"
    BY <1>1, <1>2, <1>7, <1>8, <2>1 DEF Alone
  <2>3. userParty[worker[w].other] = 0
    BY <1>2, <2>2 DEF Undisturbed, Opening
  <2> QED BY <1>2, <1>5, <1>7, <1>8, <2>1, <2>2, <2>3 DEF Undisturbed
<1>12. members[p] = {} /\ \A v \in Workers : worker[v].p # p /\ Unnamed(p, v)
  BY <1>1, <1>4 DEF Fresh
<1>13. \A v \in Workers : worker'[v].known = worker[v].known
  BY <1>7, <1>8
<1>14. Private'
  <2> SUFFICES ASSUME NEW v \in Workers, worker'[v].at = "saddHost"
               PROVE  /\ worker'[v].p <= counter'
                      /\ members'[worker'[v].p] = {} /\ Unnamed(worker[v].p, v)'
    BY DEF Private
  <2>1. CASE v = w
    <3>1. worker'[v].p = p
      BY <1>7, <1>8, <2>1
    <3> QED BY <1>2, <1>3, <1>4, <1>8, <1>12, <1>13, <2>1, <3>1 DEF Unnamed
  <2>2. CASE v # w
    <3> PICK q : q = worker[v].p
      OBVIOUS
    <3>1. /\ worker'[v] = worker[v] /\ q <= counter /\ members[q] = {} /\ Unnamed(q, v)
          /\ q \in PartyIds
      BY <1>1, <1>8, <2>2 DEF Private, Working, Duty, Partyless
    <3>2. q # p /\ worker'[v].p = q
      BY <1>3, <1>4, <3>1 DEF PartyIds
    <3>3. \A x \in Workers : x # v => worker'[x].p # q
      BY <1>7, <1>8, <3>1, <3>2 DEF Unnamed
    <3> QED BY <1>2, <1>3, <1>4, <1>13, <3>1, <3>2, <3>3 DEF Unnamed, PartyIds
  <2> QED BY <2>1, <2>2
<1>15. Fresh'
  <2> SUFFICES ASSUME NEW q \in PartyIds, q > p, NEW v \in Workers
               PROVE  members'[q] = {} /\ worker'[v].p # q /\ Unnamed(q, v)'
    BY <1>2 DEF Fresh
  <2>1. q > counter /\ q # p
    BY <1>3, <1>4 DEF PartyIds
  <2>2. members[q] = {} /\ \A x \in Workers : worker[x].p # q /\ Unnamed(q, x)
    BY <1>1, <2>1 DEF Fresh
  <2>3. \A x \in Workers : worker'[x].p # q
    BY <1>7, <1>8, <2>1, <2>2
  <2> QED BY <1>2, <1>13, <2>2, <2>3 DEF Unnamed
<1>16. Booked'
  <2>1. \A q \in PartyIds : Seating(q)' \subseteq Seating(q)
    BY <1>7, <1>8 DEF Seating
  <2> QED BY <1>1, <1>2, <1>9, <2>1, BookedKept
<1> QED BY <1>9, <1>10, <1>11, <1>14, <1>15, <1>16 DEF Inv

\* Whatever a thread takes up works on no party, or on the one of its session.  The
\* object of a new session may be one that requests in hand come back to.
LEMMA TakeStep ==
  ASSUME Inv, NEW w \in Workers, NEW req \in Requests, NEW me \in Users, NEW ws,
         NEW other \in Users \cup {NoUser},
         NEW at \in {"hget", "srem", "isLeader", "hgetParty", "scardInvite"},
         NEW p \in 0 .. MaxParty,
         BeginBeside(ws, w, req, me, other, at, p),
         \A v \in Workers :
           \/ ws[v] = worker[v]
           \/ worker[v] # Idle /\ ws[v] = [worker[v] EXCEPT !.holder = me],
         UNCHANGED <<registry, notices, errors>>,
         \/ me \in online /\ UNCHANGED session
         \/ online' = online \cup {me} /\ cached' = [cached EXCEPT ![me] = 0],
         at \in {"hget", "isLeader"} => other \in Users,
         req = "accept" => at = "hget",
         at \in {"srem", "isLeader", "scardInvite"} => p # 0 /\ p = cached[me],
         at \notin {"srem", "isLeader", "scardInvite"} => p = 0
  PROVE  Inv'
<1> DEFINE holder == IF req \in Returning THEN me ELSE NoUser
           y == [Idle EXCEPT !.at = at, !.req = req, !.me = me, !.holder = holder,
                             !.other = other, !.p = p,
                             !.calm = \A u \in Workers : worker[u] = Idle]
           z(v) == [ws[v] EXCEPT !.calm = ws[v] = Idle]
<1>1. /\ TypeOK /\ Working /\ Alone /\ Private /\ Fresh /\ Booked /\ RegTypes
  BY Types DEF Inv
<1>2. /\ worker[w] = Idle /\ taken < MaxRequests /\ taken' = taken + 1
      /\ worker' = [v \in Workers |-> IF v = w THEN y ELSE z(v)]
  BY DEF BeginBeside
<1>3. at \in Places /\ "none" \in Requests /\ 0 \in 0 .. MaxParty
  BY PartyThreadsAssumption DEF Places, Lookups, Requests
<1>4. /\ y \in Works /\ y.at = at /\ y.req = req /\ y.me = me /\ y.other = other /\ y.p = p
      /\ y.known = 0 /\ (y.calm => \A u \in Workers : worker[u] = Idle)
      /\ y.holder \in {me, NoUser}
  BY <1>3 DEF Works, Idle
<1>5. ASSUME NEW v \in Workers
      PROVE  /\ z(v) \in Works /\ z(v).at = worker[v].at /\ z(v).req = worker[v].req
             /\ z(v).me = worker[v].me /\ z(v).other = worker[v].other
             /\ z(v).p = worker[v].p /\ z(v).known = worker[v].known
             /\ (z(v).calm => worker[v] = Idle) /\ (worker[v] = Idle => z(v) = Idle)
             /\ z(v).holder \in {worker[v].holder, me}
  <2>1. worker[v] \in Works
    BY <1>1, Types
  <2>2. ASSUME worker[v] = Idle PROVE z(v) = Idle
    <3>0. ws[v] = Idle
      BY <2>2
    <3>1. (ws[v] = Idle) = TRUE
      BY <3>0
    <3>2. z(v) = [Idle EXCEPT !.calm = TRUE]
      BY <3>0, <3>1
    <3> HIDE DEF z
    <3> QED BY <3>2 DEF Idle
  <2>3. /\ ws[v] \in Works /\ ws[v].at = worker[v].at /\ ws[v].req = worker[v].req
        /\ ws[v].me = worker[v].me /\ ws[v].other = worker[v].other
        /\ ws[v].p = worker[v].p /\ ws[v].known = worker[v].known
        /\ ws[v].holder \in {worker[v].holder, me}
    BY <2>1 DEF Works
  <2>4. ws[v] = Idle => worker[v] = Idle
    <3>1. ASSUME ws[v] = [worker[v] EXCEPT !.holder = me] PROVE ws[v].holder = me
      BY <2>1, <3>1 DEF Works
    <3>2. Idle.holder = NoUser
      BY DEF Idle
    <3> QED BY <3>1, <3>2, PartyThreadsAssumption
  <2> QED BY <2>2, <2>3, <2>4 DEF Works
<1>6. worker'[w] = y /\ \A v \in Workers \ {w} : worker'[v] = z(v)
  BY <1>2
<1> HIDE DEF y, z
<1>7. worker' \in [Workers -> Works]
  BY <1>2, <1>4, <1>5
<1>8. /\ cached' \in [Users -> 0 .. MaxParty] /\ online' \subseteq Users
      /\ online \subseteq online' /\ me \in online'
      /\ \A u \in Users : cached'[u] \in {0, cached[u]}
  BY <1>1, <1>3 DEF RegTypes, session
<1>9. taken' \in 0 .. MaxRequests
  BY <1>1, <1>2, PartyThreadsAssumption DEF RegTypes
<1>10. TypeOK'
  BY <1>1, <1>7, <1>8, <1>9 DEF TypeOK, RegTypes, Works, registry
<1>11. Working'
  <2>1. Duty(y)
    <3>1. p # 0 => p \in PartyIds
      BY DEF PartyIds
    <3> QED BY <1>4, <3>1 DEF Duty, Opening, Joins, Targeting, Partyless
  <2>2. ASSUME NEW v \in Workers \ {w} PROVE Duty(z(v))
    <3>1. Duty(worker[v])
      BY <1>1 DEF Working
    <3>2. worker[v].at = "idle" => z(v) = Idle
      BY <1>5, <3>1 DEF Duty
    <3> QED BY <1>5, <3>1, <3>2 DEF Duty
  <2>3. \A v \in Workers : worker[v].holder \in online' \cup {NoUser}
    BY <1>1, <1>8 DEF Working
  <2> QED BY <1>4, <1>5, <1>6, <1>8, <2>1, <2>2, <2>3 DEF Working
<1>12. Alone'
  <2> SUFFICES ASSUME NEW v \in Workers, worker'[v].at # "idle", worker'[v].calm
               PROVE  /\ Undisturbed(worker[v])'
                      /\ \A u \in Workers \ {v} : worker'[u].at = "idle"
    BY DEF Alone
  <2>1. v = w
    <3>1. Idle.at = "idle"
      BY IdleWorks
    <3> QED BY <1>5, <1>6, <3>1
  <2>2. \A u \in Workers \ {w} : worker'[u] = Idle
    BY <1>4, <1>5, <1>6, <2>1
  <2> QED BY <1>4, <1>6, <2>1, <2>2, IdleWorks DEF Undisturbed, Opening
<1>13. /\ UNCHANGED <<counter, members, userParty>>
  BY DEF registry
<1>14. ASSUME NEW q \in PartyIds, NEW v, Unnamed(q, v)
       PROVE  Unnamed(q, v)' /\ worker'[w].p # q
  <2>1. q # 0
    BY DEF PartyIds
  <2>2. p # q
    BY <1>14, <2>1 DEF Unnamed
  <2>3. \A u \in Users : userParty'[u] # q /\ cached'[u] # q
    BY <1>8, <1>13, <1>14, <2>1 DEF Unnamed
  <2>4. \A x \in Workers : worker'[x].known # q /\ (x # v => worker'[x].p # q)
    BY <1>4, <1>5, <1>6, <1>14, <2>1, <2>2 DEF Unnamed
  <2> QED BY <1>4, <1>6, <2>2, <2>3, <2>4 DEF Unnamed
<1>15. Private'
  <2> SUFFICES ASSUME NEW v \in Workers, worker'[v].at = "saddHost"
               PROVE  /\ worker'[v].p <= counter'
                      /\ members'[worker'[v].p] = {} /\ Unnamed(worker[v].p, v)'
    BY DEF Private
  <2> PICK q : q = worker[v].p
    OBVIOUS
  <2>1. v # w /\ worker[v].at = "saddHost" /\ worker'[v].p = q
    BY <1>4, <1>5, <1>6
  <2>2. q <= counter /\ members[q] = {} /\ Unnamed(q, v) /\ q \in PartyIds
    BY <1>1, <2>1 DEF Private, Working, Duty, Partyless
  <2>3. Unnamed(q, v)'
    BY <1>14, <2>2
  <2> QED BY <1>13, <2>1, <2>2, <2>3 DEF Unnamed
<1>16. Fresh'
  <2> SUFFICES ASSUME NEW q \in PartyIds, q > counter, NEW v \in Workers
               PROVE  members'[q] = {} /\ worker'[v].p # q /\ Unnamed(q, v)'
    BY <1>13 DEF Fresh
  <2>1. members[q] = {} /\ worker[v].p # q /\ Unnamed(q, v)
    BY <1>1 DEF Fresh
  <2> QED BY <1>5, <1>6, <1>13, <1>14, <2>1
<1>17. Booked'
  <2>1. \A q \in PartyIds : Seating(q)' \subseteq Seating(q)
    BY <1>4, <1>5, <1>6 DEF Seating
  <2> QED BY <1>1, <1>10, <1>13, <2>1, BookedKept
<1> QED BY <1>10, <1>11, <1>12, <1>15, <1>16, <1>17 DEF Inv

LEMMA DisconnectStep == ASSUME Inv, NEW u \in Users, Disconnect(u) PROVE Inv'
<1> DEFINE z(w) == IF worker[w].holder = u THEN [worker[w] EXCEPT !.holder = NoUser]
                                           ELSE worker[w]
<1>1. /\ TypeOK /\ Working /\ Alone /\ Private /\ Fresh /\ Booked /\ RegTypes
  BY Types DEF Inv
<1>2. /\ online' = online \ {u} /\ cached' = [cached EXCEPT ![u] = 0]
      /\ worker' = [w \in Workers |-> z(w)]
      /\ UNCHANGED <<counter, members, leader, userParty, notices, taken, errors>>
  BY DEF Disconnect, registry
<1>3. ASSUME NEW w \in Workers
      PROVE  /\ z(w) \in Works /\ z(w).at = worker[w].at /\ z(w).req = worker[w].req
             /\ z(w).me = worker[w].me /\ z(w).other = worker[w].other
             /\ z(w).p = worker[w].p /\ z(w).known = worker[w].known
             /\ z(w).calm = worker[w].calm
             /\ z(w).holder = IF worker[w].holder = u THEN NoUser ELSE worker[w].holder
             /\ (worker[w].holder # u => z(w) = worker[w])
  <2>1. worker[w] \in Works
    BY <1>1, Types
  <2> QED BY <2>1 DEF Works
<1>4. \A w \in Workers : worker'[w] = z(w)
  BY <1>2
<1>5. worker' \in [Workers -> Works]
  BY <1>2, <1>3
<1> HIDE DEF z
<1>6. /\ cached' \in [Users -> 0 .. MaxParty]
      /\ \A v \in Users : cached'[v] \in {cached[v], 0}
      /\ \A v \in Users \ {u} : cached'[v] = cached[v]
  BY <1>1, <1>2, PartyThreadsAssumption DEF RegTypes
<1>8. TypeOK'
  BY <1>1, <1>2, <1>5, <1>6 DEF TypeOK, RegTypes, Works
<1>9. Working'
  <2> SUFFICES ASSUME NEW w \in Workers
               PROVE  Duty(z(w)) /\ z(w).holder \in online' \cup {NoUser}
    BY <1>4 DEF Working
  <2>1. Duty(worker[w]) /\ worker[w].holder \in online \cup {NoUser}
    BY <1>1 DEF Working
  <2>2. worker[w].at = "idle" => z(w) = worker[w]
    BY <1>3, <2>1, PartyThreadsAssumption DEF Duty, Idle
  <2> QED BY <1>2, <1>3, <2>1, <2>2 DEF Duty
<1>10. Alone'
  <2> SUFFICES ASSUME NEW w \in Workers, worker'[w].at # "idle", worker'[w].calm
               PROVE  Undisturbed(worker[w])' /\ \A v \in Workers \ {w} : worker'[v].at = "idle"
    BY DEF Alone
  <2>1. worker[w].at # "idle" /\ worker[w].calm /\ worker[w].me \in Users
    BY <1>1, <1>3, <1>4, AtWork
  <2>2. Undisturbed(worker[w]) /\ \A v \in Workers \ {w} : worker[v].at = "idle"
    BY <1>1, <2>1 DEF Alone
  <2>3. worker'[w].holder = worker'[w].me =>
          /\ worker[w].holder = worker[w].me
          /\ cached'[worker[w].me] = cached[worker[w].me]
    BY <1>3, <1>4, <1>6, <2>1, PartyThreadsAssumption
  <2>4. Undisturbed(worker[w])'
    BY <1>2, <1>3, <1>4, <2>2, <2>3 DEF Undisturbed
  <2> QED BY <1>3, <1>4, <2>2, <2>4
<1>11. \A q \in PartyIds, v \in Workers :
         Unnamed(q, v) => Unnamed(q, v)'
  BY <1>2, <1>3, <1>4, <1>6 DEF Unnamed, PartyIds
<1>12. Private'
  <2> SUFFICES ASSUME NEW v \in Workers, worker'[v].at = "saddHost"
               PROVE  /\ worker'[v].p <= counter'
                      /\ members'[worker'[v].p] = {} /\ Unnamed(worker[v].p, v)'
    BY DEF Private
  <2> PICK q : q = worker[v].p
    OBVIOUS
  <2>1. worker[v].at = "saddHost" /\ worker'[v].p = q
    BY <1>3, <1>4
  <2>2. q <= counter /\ members[q] = {} /\ Unnamed(q, v) /\ q \in PartyIds
    BY <1>1, <2>1 DEF Private, Working, Duty, Partyless
  <2>3. Unnamed(q, v)'
    BY <1>11, <2>2
  <2> QED BY <1>2, <2>1, <2>2, <2>3 DEF Unnamed
<1>13. Fresh'
  BY <1>1, <1>2, <1>3, <1>4, <1>11 DEF Fresh
<1>14. Booked'
  <2>1. \A q \in PartyIds : Seating(q)' \subseteq Seating(q)
    BY <1>3, <1>4 DEF Seating
  <2> QED BY <1>1, <1>2, <1>8, <2>1, BookedKept
<1> QED BY <1>8, <1>9, <1>10, <1>12, <1>13, <1>14 DEF Inv

LEMMA DeliverStep == ASSUME Inv, Deliver PROVE Inv'
<1> DEFINE z(w) == IF worker[w].me \in Head(notices) THEN [worker[w] EXCEPT !.calm = FALSE]
                                                     ELSE worker[w]
<1>1. /\ TypeOK /\ Working /\ Alone /\ Private /\ Fresh /\ Booked /\ RegTypes
  BY Types DEF Inv
<1>2. /\ notices # <<>> /\ notices' = Tail(notices) /\ SetPartyId(Head(notices), 0)
      /\ worker' = [w \in Workers |-> z(w)]
      /\ UNCHANGED <<counter, members, leader, userParty, online, taken, errors>>
  BY DEF Deliver, registry
<1>3. ASSUME NEW w \in Workers
      PROVE  /\ z(w) \in Works /\ z(w).at = worker[w].at /\ z(w).req = worker[w].req
             /\ z(w).me = worker[w].me /\ z(w).other = worker[w].other
             /\ z(w).p = worker[w].p /\ z(w).known = worker[w].known
             /\ z(w).holder = worker[w].holder
             /\ (z(w).calm => worker[w].me \notin Head(notices) /\ worker[w].calm)
             /\ (worker[w].me \notin Head(notices) => z(w) = worker[w])
  <2>1. worker[w] \in Works
    BY <1>1, Types
  <2> QED BY <2>1 DEF Works
<1>4. \A w \in Workers : worker'[w] = z(w)
  BY <1>2
<1>5. worker' \in [Workers -> Works]
  BY <1>2, <1>3
<1> HIDE DEF z
<1>6. /\ cached' \in [Users -> 0 .. MaxParty]
      /\ \A u \in Users : cached'[u] \in {cached[u], 0}
      /\ \A u \in Users : u \notin Head(notices) => cached'[u] = cached[u]
  BY <1>1, <1>2, PartyThreadsAssumption DEF SetPartyId, RegTypes
<1>7. notices' \in Seq(SUBSET Users) /\ Head(notices) \in SUBSET Users
  BY <1>1, <1>2 DEF RegTypes
<1>8. TypeOK'
  BY <1>1, <1>2, <1>5, <1>6, <1>7 DEF TypeOK, RegTypes, Works
<1>9. Working'
  <2> SUFFICES ASSUME NEW w \in Workers
               PROVE  Duty(z(w)) /\ z(w).holder \in online' \cup {NoUser}
    BY <1>4 DEF Working
  <2>1. Duty(worker[w]) /\ worker[w].holder \in online' \cup {NoUser}
    BY <1>1, <1>2 DEF Working
  <2>2. worker[w].at = "idle" => z(w) = worker[w]
    <3>1. ASSUME worker[w].at = "idle" PROVE worker[w].me \notin Head(notices)
      BY <1>7, <2>1, <3>1, PartyThreadsAssumption DEF Duty, Idle
    <3> QED BY <1>3, <3>1
  <2> QED BY <1>3, <2>1, <2>2 DEF Duty
<1>10. Alone'
  <2> SUFFICES ASSUME NEW w \in Workers, worker'[w].at # "idle", worker'[w].calm
               PROVE  Undisturbed(worker[w])' /\ \A v \in Workers \ {w} : worker'[v].at = "idle"
    BY DEF Alone
  <2>1. worker[w].at # "idle" /\ worker[w].calm /\ worker[w].me \notin Head(notices)
        /\ worker'[w] = worker[w]
    BY <1>3, <1>4
  <2>2. Undisturbed(worker[w]) /\ \A v \in Workers \ {w} : worker[v].at = "idle"
    BY <1>1, <2>1 DEF Alone
  <2>3. cached'[worker[w].me] = cached[worker[w].me]
    BY <1>1, <1>6, <2>1, AtWork
  <2>4. Undisturbed(worker[w])'
    BY <1>2, <2>1, <2>2, <2>3 DEF Undisturbed
  <2> QED BY <1>3, <1>4, <2>2, <2>4
<1>11. \A q \in PartyIds, v \in Workers :
         Unnamed(q, v) => Unnamed(q, v)'
  BY <1>2, <1>3, <1>4, <1>6 DEF Unnamed, PartyIds
<1>12. Private'
  <2> SUFFICES ASSUME NEW v \in Workers, worker'[v].at = "saddHost"
               PROVE  /\ worker'[v].p <= counter'
                      /\ members'[worker'[v].p] = {} /\ Unnamed(worker[v].p, v)'
    BY DEF Private
  <2> PICK q : q = worker[v].p
    OBVIOUS
  <2>1. worker[v].at = "saddHost" /\ worker'[v].p = q
    BY <1>3, <1>4
  <2>2. q <= counter /\ members[q] = {} /\ Unnamed(q, v) /\ q \in PartyIds
    BY <1>1, <2>1 DEF Private, Working, Duty, Partyless
  <2>3. Unnamed(q, v)'
    BY <1>11, <2>2
  <2> QED BY <1>2, <2>1, <2>2, <2>3 DEF Unnamed
<1>13. Fresh'
  BY <1>1, <1>2, <1>3, <1>4, <1>11 DEF Fresh
<1>14. Booked'
  <2>1. \A q \in PartyIds : Seating(q)' \subseteq Seating(q)
    BY <1>3, <1>4 DEF Seating
  <2> QED BY <1>1, <1>2, <1>8, <2>1, BookedKept
<1> QED BY <1>8, <1>9, <1>10, <1>12, <1>13, <1>14 DEF Inv

LEMMA CrashStep == ASSUME Inv, Crash PROVE Inv'
<1>1. /\ TypeOK /\ Working /\ Alone /\ Private /\ Fresh /\ Booked /\ RegTypes
  BY Types DEF Inv
<1>2. /\ online' = {} /\ cached' = [u \in Users |-> 0] /\ notices' = <<>>
      /\ worker' = [w \in Workers |-> Idle]
      /\ UNCHANGED <<counter, members, leader, userParty, taken>>
      /\ errors' \in 0 .. MaxErrors
  BY <1>1, PartyThreadsAssumption DEF Crash, registry, RegTypes
<1>3. Idle \in Works /\ Idle.at = "idle" /\ Duty(Idle) /\ Idle.p = 0 /\ Idle.known = 0
      /\ Idle.holder = NoUser
  BY IdleWorks DEF Idle
<1>4. TypeOK'
  BY <1>1, <1>2, <1>3, PartyThreadsAssumption DEF TypeOK, RegTypes, Works
<1>5. Working' /\ Alone' /\ Private'
  BY <1>2, <1>3 DEF Working, Alone, Private
<1>6. Fresh'
  BY <1>1, <1>2, <1>3 DEF Fresh, Unnamed, PartyIds
<1>7. Booked'
  <2>1. \A p \in PartyIds : Seating(p)' \subseteq Seating(p)
    BY <1>2, <1>3 DEF Seating
  <2> QED BY <1>1, <1>2, <1>4, <2>1, BookedKept
<1> QED BY <1>4, <1>5, <1>6, <1>7 DEF Inv

LEMMA InvInit == Init => Inv
<1> SUFFICES ASSUME Init PROVE Inv
  OBVIOUS
<1>1. Idle \in Works /\ Idle.at = "idle" /\ Duty(Idle) /\ Idle.p = 0 /\ Idle.known = 0
      /\ Idle.holder = NoUser
  BY IdleWorks DEF Idle
<1>2. TypeOK
  BY <1>1, PartyThreadsAssumption DEF Init, TypeOK, Works
<1>3. Working /\ Alone /\ Private /\ Fresh
  BY <1>1 DEF Init, Working, Alone, Private, Fresh, Unnamed, PartyIds
<1>4. Booked
  <2>1. \A p \in PartyIds : members[p] = {} /\ Seating(p) = {}
    BY <1>1 DEF Init, Seating
  <2>2. Cardinality({}) = 0 /\ Cardinality(Workers) \in Nat /\ PartyCap \in Nat \ {0}
    BY FS_EmptySet, FS_CardinalityType, PartyThreadsAssumption
  <2>3. ASSUME NEW p \in PartyIds
        PROVE  Cardinality(members[p]) + Cardinality(Seating(p))
                 <= PartyCap + Cardinality(Workers) - 1
    <3>1. Cardinality(members[p]) = 0 /\ Cardinality(Seating(p)) = 0
      BY <2>1, <2>2
    <3> QED BY <2>2, <3>1
  <2> QED BY <2>3 DEF Booked
<1> QED BY <1>2, <1>3, <1>4 DEF Inv

LEMMA InvStep == Inv /\ [Next]_vars => Inv'
<1> SUFFICES ASSUME Inv, [Next]_vars PROVE Inv'
  OBVIOUS
<1>1. /\ TypeOK /\ Working /\ Alone /\ Private /\ Fresh /\ Booked /\ RegTypes
  BY Types DEF Inv
<1>2. ASSUME NEW w \in Workers, ~OpenParty(w),
             Join(w) \/ LeavePartyInternal(w) \/ Lead(w) \/ LogIn(w) \/ CommandFails(w)
      PROVE  Inv'
  <2>1. Moved(w) /\ Wrote(w) /\ RegTypes'
    BY <1>1, <1>2, CommandStep
  <2>2. TypeOK' /\ Working' /\ Private' /\ Fresh'
    BY <1>1, <2>1, CommandKeeps
  <2>3. Booked'
    BY <1>1, <1>2, <2>1, <2>2, CommandBooked
  <2>4. Alone'
    BY <1>1, <1>2, <2>1, <2>2, CommandAlone
  <2> QED BY <2>2, <2>3, <2>4 DEF Inv
<1>3. ASSUME NEW w \in Workers, Take(w) PROVE Inv'
  <2>1. /\ {"leave", "invite", "connect", "join", "accept", "kick", "delegate"}
             \subseteq Requests
        /\ 0 \in 0 .. MaxParty /\ \A u \in Users : cached[u] \in 0 .. MaxParty
    BY <1>1, PartyThreadsAssumption DEF Requests, RegTypes
  <2>2. PICK me \in Users :
          \/ Leave(w, me) \/ Invite(w, me)
          \/ Connect(w, me)
          \/ \E other \in Users : \/ Follow(w, me, other) \/ InviteAccept(w, me, other)
                                  \/ Kick(w, me, other) \/ Delegate(w, me, other)
    BY <1>3 DEF Take
  <2> PICK p : p = cached[me]
    OBVIOUS
  <2>3. CASE Leave(w, me) \/ Invite(w, me)
    BY <2>1, <2>3, TakeStep DEF Leave, Invite, Begin
  <2>4. CASE Connect(w, me)
    <3>1. PICK before :
            BeginBeside(Reused(before, me), w, "connect", me, NoUser, "hgetParty", 0)
      BY <2>4 DEF Connect
    <3> PICK ws : ws = Reused(before, me)
      OBVIOUS
    <3>2. Idle.req = "none"
      BY DEF Idle
    <3>3. \A v \in Workers :
            \/ ws[v] = worker[v]
            \/ worker[v] # Idle /\ ws[v] = [worker[v] EXCEPT !.holder = me]
      BY <3>2 DEF Reused, Returning
    <3>4. /\ BeginBeside(ws, w, "connect", me, NoUser, "hgetParty", 0)
          /\ UNCHANGED <<registry, notices, errors>>
          /\ online' = online \cup {me} /\ cached' = [cached EXCEPT ![me] = 0]
      BY <2>4, <3>1 DEF Connect
    <3>5. /\ "connect" \in Requests /\ 0 \in 0 .. MaxParty /\ NoUser \in Users \cup {NoUser}
          /\ "hgetParty" \in {"hget", "srem", "isLeader", "hgetParty", "scardInvite"}
      BY <2>1
    <3>6. /\ "hgetParty" \in {"hget", "isLeader"} => NoUser \in Users
          /\ "connect" = "accept" => "hgetParty" = "hget"
          /\ "hgetParty" \in {"srem", "isLeader", "scardInvite"} => 0 # 0 /\ 0 = cached[me]
          /\ "hgetParty" \notin {"srem", "isLeader", "scardInvite"} => 0 = 0
      OBVIOUS
    <3> QED BY <1>1, <3>3, <3>4, <3>5, <3>6, TakeStep, Zenon
  <2>5. ASSUME NEW other \in Users, Follow(w, me, other) PROVE Inv'
    BY <2>1, <2>5, TakeStep DEF Follow, Begin
  <2>6. ASSUME NEW other \in Users, InviteAccept(w, me, other) PROVE Inv'
    BY <2>1, <2>6, TakeStep DEF InviteAccept, Begin
  <2>7. ASSUME NEW other \in Users, Kick(w, me, other) PROVE Inv'
    BY <2>1, <2>7, TakeStep DEF Kick, Begin
  <2>8. ASSUME NEW other \in Users, Delegate(w, me, other) PROVE Inv'
    BY <2>1, <2>8, TakeStep DEF Delegate, Begin
  <2> QED BY <2>2, <2>3, <2>4, <2>5, <2>6, <2>7, <2>8
<1>4. CASE UNCHANGED vars
  <2>1. UNCHANGED <<counter, members, leader, userParty, online, cached, notices, worker,
                    taken, errors>>
    BY <1>4 DEF vars, registry, session
  <2>2. TypeOK' /\ Working' /\ Private' /\ Fresh'
    BY <1>1, <2>1 DEF TypeOK, Working, Private, Fresh, Unnamed
  <2>3. Alone' /\ Booked'
    BY <1>1, <2>1 DEF Alone, Undisturbed, Booked, Seating
  <2> QED BY <2>2, <2>3 DEF Inv
<1> QED
  BY <1>2, <1>3, <1>4, OpenStep, DisconnectStep, DeliverStep, CrashStep DEF Next

LEMMA Invariance == Spec => []Inv
<1> QED BY InvInit, InvStep, PTL DEF Spec

----------------------------------------------------------------------------
(* Theorems *)

\* Every variable has its type.
THEOREM PartyThreadsTypes == Spec => []TypeOK
<1>1. Inv => TypeOK
  BY DEF Inv
<1> QED BY <1>1, Invariance, PTL

\* A party exceeds its capacity by fewer members than there are threads (SCARD and SADD
\* of ProcessPartyFollow and ProcessPartyInviteAccept), whatever the number of users,
\* requests and failures.
THEOREM OverbookingIsBounded == Spec => []Overbooked
<1>1. Inv => Overbooked
  <2> SUFFICES ASSUME Inv, NEW p \in PartyIds
               PROVE  Cardinality(members[p]) <= PartyCap + Cardinality(Workers) - 1
    BY DEF Overbooked
  <2>1. Cardinality(members[p]) + Cardinality(Seating(p))
          <= PartyCap + Cardinality(Workers) - 1
    BY DEF Inv, Booked
  <2>2. /\ Cardinality(members[p]) \in Nat /\ Cardinality(Seating(p)) \in Nat
        /\ Cardinality(Workers) \in Nat /\ PartyCap \in Nat
    BY Seats, PartyThreadsAssumption DEF Inv
  <2> QED BY <2>1, <2>2
<1> QED BY <1>1, Invariance, PTL

\* Undefined behaviour needs requests that overlap (LeavePartyInternal, SendPartyInfo).
THEOREM UndefinedOnlyByOverlap == Spec => []UndefinedNeedsOverlap
<1>1. Inv => UndefinedNeedsOverlap
  BY DEF Inv, Alone, Undisturbed, UndefinedNeedsOverlap
<1> QED BY <1>1, Invariance, PTL

\* A login that nothing comes in between leaves key, session (if its user is still there)
\* and member set in agreement (UserConnect), whatever failed before.
THEOREM CalmLoginRepairs == Spec => LoginRepairs
<1>1. ASSUME Inv, NEW w \in Workers, StoreState(w), worker[w].calm,
             worker[w].holder = worker[w].me
      PROVE  LET u == worker[w].me
             IN /\ cached'[u] = userParty'[u]
                /\ userParty'[u] # 0 => u \in members'[userParty'[u]]
  <2>1. /\ worker[w].at = "state" /\ UNCHANGED <<members, cached>>
        /\ userParty' = [userParty EXCEPT ![worker[w].me] = worker[w].p]
    BY <1>1 DEF StoreState, Command
  <2>2. /\ cached[worker[w].me] = worker[w].p
        /\ worker[w].p # 0 => worker[w].me \in members[worker[w].p]
    BY <1>1, <2>1 DEF Inv, Alone, Undisturbed
  <2>3. userParty'[worker[w].me] = worker[w].p
    BY <1>1, <2>1, Types, AtWork DEF Inv, RegTypes
  <2> QED BY <2>1, <2>2, <2>3
<1>2. Inv /\ [Next]_vars =>
        [\A w \in Workers :
           StoreState(w) /\ worker[w].calm /\ worker[w].holder = worker[w].me =>
             LET u == worker[w].me
             IN /\ cached'[u] = userParty'[u]
                /\ userParty'[u] # 0 => u \in members'[userParty'[u]]]_vars
  BY <1>1
<1> QED BY <1>2, Invariance, PTL DEF Spec, LoginRepairs

\* A party is opened only for a host without one, unless requests overlap
\* (ProcessPartyFollow, ProcessPartyInviteAccept).
THEOREM CalmOpeningIsIdle == Spec => OpensForIdleHost
<1>1. ASSUME Inv, NEW w \in Workers, OpenKey(w), worker[w].calm
      PROVE  userParty[worker[w].other] = 0
  BY <1>1 DEF OpenKey, Command, Inv, Alone, Undisturbed, Opening
<1>2. Inv /\ [Next]_vars =>
        [\A w \in Workers :
           OpenKey(w) /\ worker[w].calm => userParty[worker[w].other] = 0]_vars
  BY <1>1
<1> QED BY <1>2, Invariance, PTL DEF Spec, OpensForIdleHost

=============================================================================
