--------------------------- MODULE Session_proofs ---------------------------
(***************************************************************************)
(* Proofs about Session: token reuse, the map from users to objects, what  *)
(* friends were told, the costume in Redis, and the life of the user key.  *)
(***************************************************************************)
EXTENDS Session, FiniteSetTheorems, TLAPS

Places ==
  {"idle", "hget", "del", "friends", "info", "map", "hset", "expire", "update", "equip"}

Stages == {"no", "tell", "pipeline", "unmap", "reset"}

Jobs == [at : Places, obj : Objs \cup {NoObj}, user : Users \cup {NoUser},
         token : Tokens \cup {NoToken}, item : Items \cup {NoItem}, conn : Nat]

Logouts == [at : Stages, obj : Objs \cup {NoObj}, user : Users \cup {NoUser}]

\* Every variable has its type.
TypeOK ==
  /\ owner \in [Tokens -> Users \cup {NoUser}] /\ live \in SUBSET Tokens
  /\ conn \in [Objs -> Nat] /\ lastConn \in [Objs -> Nat]
  /\ leaving \in [Workers -> Logouts]
  /\ pk \in [Objs -> Users \cup {NoUser, Unset}] /\ objNum \in [Users -> Objs \cup {NoObj}]
  /\ state \in [Users -> {"none", "lobby", "offline"}] /\ ttl \in SUBSET Users
  /\ wears \in [Users -> Items \cup {NoItem}] /\ equip \in [Users -> Items \cup {NoItem}]
  /\ shown \in SUBSET Users
  /\ job \in [Threads -> Jobs]
  /\ taken \in Nat /\ faults \in Nat
  /\ uses \in [Tokens -> Nat] /\ proved \in [Objs -> SUBSET Users]
  /\ tainted \in SUBSET Users
  /\ missed \in SUBSET Users /\ stale \in SUBSET Users /\ unlimited \in SUBSET Users

\* A request in hand names what its next commands use.
Duty(x) ==
  x # Idle =>
    /\ x.at # "idle"
    /\ x.obj \in Objs /\ x.user \in Users
    /\ x.conn \in 1 .. lastConn[x.obj]
    /\ x.at \in {"hget", "del"} => x.token \in Tokens
    /\ x.at \in {"update", "equip"} => x.item \in Items

Jobbing == job \in [Threads -> Jobs] /\ \A t \in Threads : Duty(job[t])

\* So does a logout under way.
Leaving ==
  \A w \in Workers :
    /\ leaving[w].at = "no" => leaving[w] = Stays
    /\ leaving[w].at # "no" => leaving[w].obj \in Objs
    /\ leaving[w].at \in {"tell", "pipeline", "unmap"} => leaving[w].user \in Users

Numbered == \A o \in Objs : conn[o] <= lastConn[o]

Shape == TypeOK /\ Jobbing /\ Leaving /\ Numbered

\* Threads between HGET and DEL of a token.
Using(k) == {t \in Threads : job[t].at = "del" /\ job[t].token = k}

\* A token that is still there has not been used.  Once it is gone no thread gets
\* between HGET and DEL any more, so that uses and threads in between have a budget.
TokenInv ==
  /\ \A t \in Threads : job[t].token \in Tokens => owner[job[t].token] = job[t].user
  /\ \A k \in live : uses[k] = 0
  /\ \A k \in Tokens : owner[k] = NoUser => uses[k] = 0 /\ k \notin live
  /\ \A k \in Tokens : uses[k] + Cardinality(Using(k)) <= Cardinality(Threads)

\* A login past its token is one the object's connection has proved, unless that
\* connection is over.
Proven ==
  \A t \in Threads :
    job[t].at \in {"friends", "info", "map"} /\ conn[job[t].obj] = job[t].conn
      => job[t].user \in proved[job[t].obj]

\* An entry of the map is the user of its object's session, and every logout under way
\* there is this user's and has not passed the removal of the entry.
Mapped ==
  \A u \in Users \ tainted :
    LET o == objNum[u]
    IN o \in Objs =>
         /\ pk[o] = u /\ u \in proved[o]
         /\ \A w \in Workers :
              leaving[w].at # "no" /\ leaving[w].obj = o
              => leaving[w].user = u /\ leaving[w].at # "reset"

\* Without overlap at most one thread has a costume to copy, and it is the one in
\* the database.
EquipInv ==
  \A u \in Users \ stale :
    /\ \A t \in Changing(u) : job[t].item = wears[u]
    /\ \A t, r \in Changing(u) : t = r
    /\ Changing(u) # {} \/ equip[u] \in {NoItem, wears[u]}

----------------------------------------------------------------------------
(* Every step keeps the types. *)

LEMMA ShapeInit == Init => Shape
<1> QED BY DEF Init, Shape, TypeOK, Jobbing, Leaving, Numbered, Duty, Jobs, Places,
               Stages, Logouts, Idle, Stays

\* A thread goes on with a request, or takes one, or ends it.
LEMMA JobSet ==
  ASSUME Jobbing, NEW t \in Threads, NEW x \in Jobs, Duty(x),
         job' = [job EXCEPT ![t] = x], lastConn' = lastConn
  PROVE  Jobbing'
<1> QED BY DEF Jobbing, Duty

LEMMA JobEnds ==
  ASSUME Jobbing, NEW t \in Threads, Ends(t), lastConn' = lastConn
  PROVE  Jobbing'
<1>1. Idle \in Jobs /\ Duty(Idle)
  BY DEF Idle, Jobs, Places, Duty
<1> QED BY <1>1, JobSet DEF Ends

LEMMA JobGoes ==
  ASSUME Jobbing, NEW t \in Threads, job[t].at # "idle", NEW at \in Places,
         at # "idle", Goes(t, at), lastConn' = lastConn,
         at \in {"hget", "del"} => job[t].at \in {"hget", "del"},
         at \in {"update", "equip"} => job[t].at \in {"update", "equip"}
  PROVE  Jobbing'
<1> DEFINE x == [job[t] EXCEPT !.at = at]
<1>1. job[t] \in Jobs /\ Duty(job[t]) /\ job[t] # Idle
  BY DEF Jobbing, Idle
<1>2. x \in Jobs
  BY <1>1 DEF Jobs
<1>3. /\ x.at = at /\ x.obj = job[t].obj /\ x.user = job[t].user
      /\ x.conn = job[t].conn /\ x.token = job[t].token /\ x.item = job[t].item
  BY <1>1 DEF Jobs
<1>4. Duty(x)
  BY <1>1, <1>3 DEF Duty
<1>5. job' = [job EXCEPT ![t] = x]
  BY DEF Goes
<1> HIDE DEF x
<1> QED BY <1>2, <1>4, <1>5, JobSet

\* A logout goes on.
LEMMA LogoutGoes ==
  ASSUME Shape, NEW w \in Workers, NEW at \in Stages, Leaves(w, at),
         leaving[w].at \in {"tell", "pipeline", "unmap"}, at # "no"
  PROVE  Leaving' /\ leaving' \in [Workers -> Logouts]
<1>1. leaving \in [Workers -> Logouts]
  BY DEF Shape, TypeOK
<1>2. leaving' \in [Workers -> Logouts]
  BY <1>1 DEF Leaves, Logouts
<1>3. /\ leaving'[w].at = at /\ leaving'[w].user = leaving[w].user
      /\ leaving'[w].obj = leaving[w].obj
      /\ \A x \in Workers \ {w} : leaving'[x] = leaving[x]
  BY <1>1 DEF Leaves, Logouts
<1> QED BY <1>2, <1>3 DEF Shape, Leaving

LEMMA ShapeStep == ASSUME Shape, [Next]_vars PROVE Shape'
<1> USE DEF Shape, redis, session, ghosts, marks, Calm, At, LeaveCalm, CallError, Fault, Counts
<1>t. Jobbing /\ TypeOK /\ Leaving /\ Numbered
  OBVIOUS
<1>j. \A t \in Threads : job[t].at # "idle" =>
        /\ job[t].obj \in Objs /\ job[t].user \in Users
        /\ job[t].at \in {"hget", "del"} => job[t].token \in Tokens
        /\ job[t].at \in {"update", "equip"} => job[t].item \in Items
  BY DEF Jobbing, Duty, Idle
<1>1. ASSUME NEW k \in Tokens, NEW u \in Users, Issue(k, u) PROVE Shape'
  <2>1. Jobbing'
    BY <1>t, <1>1 DEF Issue, Jobbing, Duty
  <2>2. TypeOK'
    BY <1>t, <1>j, <1>1, <2>1 DEF Issue, TypeOK, Jobbing
  <2>3. Leaving' /\ Numbered'
    BY <1>t, <1>1 DEF Issue, Leaving, Numbered
  <2> QED BY <2>1, <2>2, <2>3
<1>2. ASSUME NEW o \in Objs, Accept(o) PROVE Shape'
  <2>1. \A p \in Objs : lastConn[p] \in Nat /\ lastConn'[p] \in Nat /\ lastConn[p] <= lastConn'[p]
    BY <1>t, <1>2 DEF Accept, TypeOK
  <2>2. Jobbing'
    BY <1>t, <1>2, <2>1 DEF Accept, Jobbing, Duty
  <2>3. TypeOK'
    BY <1>t, <1>j, <1>2, <2>2 DEF Accept, TypeOK, Jobbing
  <2>4. Leaving' /\ Numbered'
    BY <1>t, <1>2 DEF Accept, Leaving, Numbered, TypeOK
  <2> QED BY <2>2, <2>3, <2>4
<1>3. ASSUME NEW t \in Threads, NEW o \in Objs, NEW c \in 1 .. lastConn[o], NEW x \in Jobs,
             x.at \in {"hget", "update"}, x.user \in Users,
             x.at = "hget" => x.token \in Tokens, x.at = "update" => x.item \in Items,
             Take(t, o, c, x), taken' \in Nat, faults' \in Nat
      PROVE  Shape'
  <2> DEFINE y == [x EXCEPT !.obj = o, !.conn = c]
  <2>1. Jobbing'
    <3>0. c \in Nat
      BY <1>t, <1>3 DEF TypeOK
    <3>1. /\ y \in Jobs /\ y.at = x.at /\ y.obj = o /\ y.user = x.user /\ y.conn = c
          /\ y.token = x.token /\ y.item = x.item
      BY <1>3, <3>0 DEF Jobs
    <3>2. Duty(y)
      BY <1>3, <3>1 DEF Duty
    <3>3. job' = [job EXCEPT ![t] = y] /\ lastConn' = lastConn
      BY <1>3 DEF Take
    <3> HIDE DEF y
    <3> QED BY <1>t, <3>1, <3>2, <3>3, JobSet
  <2>2. TypeOK'
    BY <1>t, <1>3, <2>1 DEF Take, TypeOK, Jobbing
  <2>3. Leaving' /\ Numbered'
    BY <1>t, <1>3 DEF Take, Leaving, Numbered
  <2> QED BY <2>1, <2>2, <2>3
<1>4. ASSUME NEW t \in Threads, NEW o \in Objs, NEW c \in 1 .. lastConn[o],
             (\E k \in Tokens : RequestLogin(t, o, c, k))
             \/ (\E item \in Items : RequestCostume(t, o, c, item))
      PROVE  Shape'
  <2>1. ASSUME NEW k \in Tokens, RequestLogin(t, o, c, k) PROVE Shape'
    <3> DEFINE x == [Idle EXCEPT !.at = "hget", !.user = owner[k], !.token = k]
    <3>1. owner[k] \in Users /\ Take(t, o, c, x) /\ taken' \in Nat /\ faults' \in Nat
      BY <1>t, <2>1 DEF RequestLogin, TypeOK
    <3>2. /\ x \in Jobs /\ x.at = "hget" /\ x.user = owner[k] /\ x.token = k
      BY <3>1 DEF Idle, Jobs, Places
    <3> HIDE DEF x
    <3> QED BY <1>3, <3>1, <3>2
  <2>2. ASSUME NEW item \in Items, RequestCostume(t, o, c, item) PROVE Shape'
    <3>1. PICK u \in Users :
            Take(t, o, c, [Idle EXCEPT !.at = "update", !.user = u, !.item = item])
      BY <2>2 DEF RequestCostume
    <3> DEFINE x == [Idle EXCEPT !.at = "update", !.user = u, !.item = item]
    <3>2. Take(t, o, c, x) /\ taken' \in Nat /\ faults' \in Nat
      BY <1>t, <2>2, <3>1 DEF RequestCostume, TypeOK
    <3>3. /\ x \in Jobs /\ x.at = "update" /\ x.user = u /\ x.item = item
      BY <3>1 DEF Idle, Jobs, Places
    <3> HIDE DEF x
    <3> QED BY <1>3, <3>2, <3>3
  <2> QED BY <1>4, <2>1, <2>2
<1>5. ASSUME NEW t \in Threads, CheckToken(t) PROVE Shape'
  <2>1. Jobbing'
    BY <1>t, <1>5, JobGoes, JobEnds DEF CheckToken, Places
  <2>2. TypeOK'
    BY <1>t, <1>j, <1>5, <2>1 DEF CheckToken, Goes, Ends, TypeOK, Jobbing
  <2>3. Leaving' /\ Numbered'
    BY <1>t, <1>5 DEF CheckToken, Goes, Ends, Leaving, Numbered
  <2> QED BY <2>1, <2>2, <2>3
<1>6. ASSUME NEW t \in Threads, UseToken(t) PROVE Shape'
  <2>1. Jobbing'
    BY <1>t, <1>6, JobGoes DEF UseToken, Places
  <2>2. TypeOK'
    BY <1>t, <1>j, <1>6, <2>1 DEF UseToken, TypeOK, Jobbing
  <2>3. Leaving' /\ Numbered'
    BY <1>t, <1>6 DEF UseToken, Leaving, Numbered
  <2> QED BY <2>1, <2>2, <2>3
<1>7. ASSUME NEW t \in Threads, TellOnline(t) PROVE Shape'
  <2>1. Jobbing'
    BY <1>t, <1>7, JobGoes DEF TellOnline, Places
  <2>2. TypeOK'
    BY <1>t, <1>j, <1>7, <2>1 DEF TellOnline, TypeOK, Jobbing
  <2>3. Leaving' /\ Numbered'
    BY <1>t, <1>7 DEF TellOnline, Leaving, Numbered
  <2> QED BY <2>1, <2>2, <2>3
<1>8. ASSUME NEW t \in Threads, SetSession(t) PROVE Shape'
  <2>1. Jobbing'
    BY <1>t, <1>8, JobGoes DEF SetSession, Places
  <2>2. TypeOK'
    BY <1>t, <1>j, <1>8, <2>1 DEF SetSession, TypeOK, Jobbing
  <2>3. Leaving' /\ Numbered'
    BY <1>t, <1>8 DEF SetSession, Leaving, Numbered
  <2> QED BY <2>1, <2>2, <2>3
<1>23. ASSUME NEW t \in Threads, SetPkToObjNum(t) PROVE Shape'
  <2>1. Jobbing'
    BY <1>t, <1>23, JobGoes DEF SetPkToObjNum, Places
  <2>2. TypeOK'
    BY <1>t, <1>j, <1>23, <2>1 DEF SetPkToObjNum, TypeOK, Jobbing
  <2>3. Leaving' /\ Numbered'
    BY <1>t, <1>23 DEF SetPkToObjNum, Leaving, Numbered
  <2> QED BY <2>1, <2>2, <2>3
<1>9. ASSUME NEW t \in Threads, StoreState(t) PROVE Shape'
  <2>1. Jobbing'
    BY <1>t, <1>9, JobGoes DEF StoreState, Places
  <2>2. TypeOK'
    BY <1>t, <1>j, <1>9, <2>1 DEF StoreState, TypeOK, Jobbing
  <2>3. Leaving' /\ Numbered'
    BY <1>t, <1>9 DEF StoreState, Leaving, Numbered
  <2> QED BY <2>1, <2>2, <2>3
<1>10. ASSUME NEW t \in Threads, LimitState(t) PROVE Shape'
  <2>1. Jobbing'
    BY <1>t, <1>10, JobEnds DEF LimitState
  <2>2. TypeOK'
    BY <1>t, <1>j, <1>10, <2>1 DEF LimitState, TypeOK, Jobbing
  <2>3. Leaving' /\ Numbered'
    BY <1>t, <1>10 DEF LimitState, Leaving, Numbered
  <2> QED BY <2>1, <2>2, <2>3
<1>11. ASSUME NEW t \in Threads, UpdateEquipSlot(t) PROVE Shape'
  <2>1. Jobbing'
    BY <1>t, <1>11, JobGoes DEF UpdateEquipSlot, Places
  <2>2. TypeOK'
    BY <1>t, <1>j, <1>11, <2>1 DEF UpdateEquipSlot, TypeOK, Jobbing
  <2>3. Leaving' /\ Numbered'
    BY <1>t, <1>11 DEF UpdateEquipSlot, Leaving, Numbered
  <2> QED BY <2>1, <2>2, <2>3
<1>12. ASSUME NEW t \in Threads, CacheEquip(t) PROVE Shape'
  <2>1. Jobbing'
    BY <1>t, <1>12, JobEnds DEF CacheEquip
  <2>2. TypeOK'
    BY <1>t, <1>j, <1>12, <2>1 DEF CacheEquip, TypeOK, Jobbing
  <2>3. Leaving' /\ Numbered'
    BY <1>t, <1>12 DEF CacheEquip, Leaving, Numbered
  <2> QED BY <2>1, <2>2, <2>3
<1>13. ASSUME NEW t \in Threads, CallFails(t) PROVE Shape'
  <2>1. Jobbing'
    BY <1>t, <1>13, JobEnds DEF CallFails
  <2>2. TypeOK'
    BY <1>t, <1>j, <1>13, <2>1 DEF CallFails, TypeOK, Jobbing
  <2>3. Leaving' /\ Numbered'
    BY <1>t, <1>13 DEF CallFails, Leaving, Numbered
  <2> QED BY <2>1, <2>2, <2>3
<1>14. ASSUME NEW w \in Workers, NEW o \in Objs, Drop(w, o) PROVE Shape'
  <2>1. PICK u \in PkRead(o) :
          leaving' = [leaving EXCEPT ![w] =
                        [at |-> IF u = NoUser THEN "reset" ELSE "tell", obj |-> o,
                         user |-> u]]
    BY <1>14 DEF Drop
  <2>2. u \in Users \cup {NoUser}
    BY <1>t, <2>1 DEF PkRead, TypeOK
  <2>3. Jobbing'
    BY <1>t, <1>14 DEF Drop, Jobbing, Duty
  <2>4. TypeOK'
    BY <1>t, <1>j, <1>14, <2>1, <2>2, <2>3 DEF Drop, Stages, Logouts, TypeOK, Jobbing
  <2>5. Leaving'
    <3>1. /\ leaving'[w].at = IF u = NoUser THEN "reset" ELSE "tell"
          /\ leaving'[w].obj = o /\ leaving'[w].user = u
          /\ \A x \in Workers \ {w} : leaving'[x] = leaving[x]
      BY <1>t, <2>1 DEF TypeOK
    <3> QED BY <1>t, <2>2, <3>1 DEF Leaving
  <2>6. Numbered'
    BY <1>t, <1>14 DEF Drop, Numbered
  <2> QED BY <2>3, <2>4, <2>5, <2>6
<1>15. ASSUME NEW w \in Workers, TellOffline(w) PROVE Shape'
  <2>1. Jobbing'
    BY <1>t, <1>15 DEF TellOffline, Jobbing, Duty
  <2>2. Leaving' /\ leaving' \in [Workers -> Logouts]
    BY <1>15, LogoutGoes DEF TellOffline, Stages
  <2>3. leaving[w].user \in Users
    BY <1>t, <1>15 DEF TellOffline, Leaving
  <2>4. TypeOK'
    BY <1>t, <1>15, <2>2, <2>3 DEF TellOffline, TypeOK
  <2>5. Numbered'
    BY <1>t, <1>15 DEF TellOffline, Numbered
  <2> QED BY <2>1, <2>2, <2>4, <2>5
<1>16. ASSUME NEW w \in Workers, StoreOffline(w) PROVE Shape'
  <2>1. Jobbing'
    BY <1>t, <1>16 DEF StoreOffline, Jobbing, Duty
  <2>2. Leaving' /\ leaving' \in [Workers -> Logouts]
    BY <1>16, LogoutGoes DEF StoreOffline, Stages
  <2>3. leaving[w].user \in Users
    BY <1>t, <1>16 DEF StoreOffline, Leaving
  <2>4. TypeOK'
    BY <1>t, <1>16, <2>2, <2>3 DEF StoreOffline, TypeOK
  <2>5. Numbered'
    BY <1>t, <1>16 DEF StoreOffline, Numbered
  <2> QED BY <2>1, <2>2, <2>4, <2>5
<1>17. ASSUME NEW w \in Workers, DelPkToObjNum(w) PROVE Shape'
  <2>1. Jobbing'
    BY <1>t, <1>17 DEF DelPkToObjNum, Jobbing, Duty
  <2>2. Leaving' /\ leaving' \in [Workers -> Logouts]
    BY <1>17, LogoutGoes DEF DelPkToObjNum, Stages
  <2>3. leaving[w].user \in Users
    BY <1>t, <1>17 DEF DelPkToObjNum, Leaving
  <2>4. TypeOK'
    BY <1>t, <1>17, <2>2, <2>3 DEF DelPkToObjNum, TypeOK
  <2>5. Numbered'
    BY <1>t, <1>17 DEF DelPkToObjNum, Numbered
  <2> QED BY <2>1, <2>2, <2>4, <2>5
<1>18. ASSUME NEW o \in Objs, Clears(o), tainted' \in SUBSET Users,
              missed' \in SUBSET Users, faults' \in Nat, leaving' \in [Workers -> Logouts],
              Leaving'
       PROVE  Shape'
  <2>1. Jobbing'
    BY <1>t, <1>18 DEF Clears, Jobbing, Duty
  <2>2. TypeOK'
    BY <1>t, <1>18, <2>1 DEF Clears, TypeOK, Jobbing
  <2>3. Numbered'
    BY <1>t, <1>18 DEF Clears, Numbered, TypeOK
  <2> QED BY <1>18, <2>1, <2>2, <2>3
<1>24. ASSUME NEW w \in Workers, Reset(w) PROVE Shape'
  <2>1. leaving[w].obj \in Objs /\ Clears(leaving[w].obj)
    BY <1>t, <1>24 DEF Reset, Leaving
  <2>2. /\ leaving' = [leaving EXCEPT ![w] = Stays]
        /\ UNCHANGED <<tainted, missed, faults>>
    BY <1>24 DEF Reset
  <2>3. leaving' \in [Workers -> Logouts] /\ Leaving'
    BY <1>t, <2>2 DEF Leaving, TypeOK, Logouts, Stages, Stays
  <2> QED BY <1>t, <1>18, <2>1, <2>2, <2>3 DEF TypeOK
<1>25. ASSUME NEW o \in Objs, Refuse(o) PROVE Shape'
  <2>1. leaving' \in [Workers -> Logouts] /\ Leaving'
    BY <1>t, <1>25 DEF Refuse, Leaving, TypeOK
  <2> QED BY <1>t, <1>18, <1>25, <2>1 DEF Refuse, TypeOK
<1>19. ASSUME NEW w \in Workers, LogoutCallFails(w) PROVE Shape'
  <2>1. Jobbing'
    BY <1>t, <1>19 DEF LogoutCallFails, Jobbing, Duty
  <2>2. Leaving' /\ leaving' \in [Workers -> Logouts]
    BY <1>19, LogoutGoes DEF LogoutCallFails, Stages
  <2>3. leaving[w].user \in Users
    BY <1>t, <1>19 DEF LogoutCallFails, Leaving
  <2>4. TypeOK'
    BY <1>t, <1>19, <2>2, <2>3 DEF LogoutCallFails, TypeOK
  <2>5. Numbered'
    BY <1>t, <1>19 DEF LogoutCallFails, Numbered
  <2> QED BY <2>1, <2>2, <2>4, <2>5
<1>20. ASSUME NEW u \in Users, Expire(u) PROVE Shape'
  <2>1. Jobbing'
    BY <1>t, <1>20 DEF Expire, Jobbing, Duty
  <2>2. TypeOK'
    BY <1>t, <1>j, <1>20, <2>1 DEF Expire, TypeOK, Jobbing
  <2>3. Leaving' /\ Numbered'
    BY <1>t, <1>20 DEF Expire, Leaving, Numbered
  <2> QED BY <2>1, <2>2, <2>3
<1>21. CASE Crash
  <2>1. Jobbing'
    BY <1>t, <1>21 DEF Crash, Jobbing, Duty, Idle, Jobs, Places
  <2>2. {job[t].user : t \in {r \in Threads : job[r].at = "expire"}} \subseteq Users
    BY <1>j
  <2>3. TypeOK'
    BY <1>t, <1>21, <2>1, <2>2 DEF Crash, TypeOK, Jobbing, Logouts, Stages, Stays
  <2>4. Leaving' /\ Numbered'
    BY <1>t, <1>21 DEF Crash, Leaving, Numbered, Stays, TypeOK
  <2> QED BY <2>1, <2>3, <2>4
<1>22. CASE UNCHANGED vars
  BY <1>t, <1>22 DEF vars, TypeOK, Jobbing, Duty, Leaving, Numbered
<1> QED
  BY <1>1, <1>2, <1>4, <1>5, <1>6, <1>7, <1>8, <1>9, <1>10, <1>11, <1>12, <1>13, <1>14,
     <1>15, <1>16, <1>17, <1>19, <1>20, <1>21, <1>22, <1>23, <1>24, <1>25
  DEF Next, Work, Logout

----------------------------------------------------------------------------
(* Tokens *)

LEMMA UsingFinite ==
  \A k \in Tokens : /\ IsFiniteSet(Using(k))
                    /\ Cardinality(Using(k)) \in 0 .. Cardinality(Threads)
<1> TAKE k \in Tokens
<1>1. Using(k) \in SUBSET Threads
  BY DEF Using
<1>2. IsFiniteSet(Threads)
  BY SessionAssumption
<1>3. IsFiniteSet(Using(k)) /\ Cardinality(Using(k)) <= Cardinality(Threads)
  BY <1>1, <1>2, FS_Subset
<1> QED BY <1>2, <1>3, FS_CardinalityType

\* Whatever else happens, fewer threads between HGET and DEL keep the budget.
LEMMA TokenKept ==
  ASSUME TokenInv, Shape', UNCHANGED <<owner, live, uses>>,
         \A t \in Threads : \/ job'[t].token = job[t].token /\ job'[t].user = job[t].user
                            \/ job'[t].token \in Tokens => owner[job'[t].token] = job'[t].user,
         \A k \in Tokens : Using(k)' \subseteq Using(k)
  PROVE  TokenInv'
<1>1. \A k \in Tokens : /\ Cardinality(Using(k)') \in Nat
                        /\ Cardinality(Using(k)) \in Nat
                        /\ Cardinality(Using(k)') <= Cardinality(Using(k))
  BY UsingFinite, FS_Subset, FS_CardinalityType
<1>2. Cardinality(Threads) \in Nat /\ uses \in [Tokens -> Nat]
  BY SessionAssumption, FS_CardinalityType DEF Shape, TypeOK
<1>3. \A k \in Tokens : uses[k] + Cardinality(Using(k)') <= Cardinality(Threads)
  BY <1>1, <1>2 DEF TokenInv
<1> QED BY <1>3 DEF TokenInv

LEMMA TokenInit == Init => TokenInv
<1> SUFFICES ASSUME Init PROVE TokenInv
  OBVIOUS
<1>1. \A k \in Tokens : Cardinality(Using(k)) \in 0 .. Cardinality(Threads)
  BY UsingFinite
<1> QED BY <1>1, SessionAssumption DEF Init, TokenInv, Idle

LEMMA TokenStep == ASSUME Shape, Shape', TokenInv, [Next]_vars PROVE TokenInv'
<1> USE DEF redis, session, ghosts, marks, Calm, At, LeaveCalm, CallError, Fault, Counts
<1>t. /\ job \in [Threads -> Jobs] /\ uses \in [Tokens -> Nat] /\ live \in SUBSET Tokens
      /\ owner \in [Tokens -> Users \cup {NoUser}]
  BY DEF Shape, TypeOK
<1>n. Cardinality(Threads) \in Nat
  BY SessionAssumption, FS_CardinalityType
<1>1. ASSUME NEW k \in Tokens, NEW u \in Users, Issue(k, u) PROVE TokenInv'
  <2>1. \A t \in Threads : job[t].token # k
    <3>1. \A t \in Threads : job[t].token \in Tokens => job[t].user \in Users
      BY SessionAssumption DEF Shape, Jobbing, Duty, Idle
    <3> QED BY <1>1, <3>1, SessionAssumption DEF Issue, TokenInv
  <2>2. \A j \in Tokens : Using(j)' = Using(j)
    BY <1>1 DEF Issue, Using
  <2>3. \A j \in Tokens : uses[j] + Cardinality(Using(j)') <= Cardinality(Threads)
    BY <2>2 DEF TokenInv
  <2>4. /\ uses' = uses /\ job' = job /\ live' = live \cup {k} /\ owner[k] = NoUser
        /\ owner' = [owner EXCEPT ![k] = u] /\ u # NoUser
    BY <1>1, SessionAssumption DEF Issue
  <2> QED BY <1>t, <2>1, <2>3, <2>4 DEF TokenInv
<1>2. ASSUME NEW t \in Threads, NEW x, owner' = owner, live' = live, uses' = uses,
             job' = [job EXCEPT ![t] = x], x.at # "del",
             x.token \in Tokens => owner[x.token] = x.user
      PROVE  TokenInv'
  <2>1. \A k \in Tokens : Using(k)' \subseteq Using(k)
    BY <1>t, <1>2 DEF Using
  <2>2. \A r \in Threads : job'[r] = IF r = t THEN x ELSE job[r]
    BY <1>t, <1>2
  <2> QED BY <1>2, <2>1, <2>2, TokenKept
<1>3. ASSUME NEW t \in Threads, NEW at \in Places \ {"del"}, Goes(t, at),
             owner' = owner, live' = live, uses' = uses
      PROVE  TokenInv'
  <2> DEFINE x == [job[t] EXCEPT !.at = at]
  <2>1. x.at # "del" /\ x.token = job[t].token /\ x.user = job[t].user
    BY <1>t DEF Jobs
  <2>2. job' = [job EXCEPT ![t] = x]
    BY <1>3 DEF Goes
  <2> HIDE DEF x
  <2> QED BY <1>2, <1>3, <2>1, <2>2 DEF TokenInv
<1>4. ASSUME NEW t \in Threads, Ends(t), owner' = owner, live' = live, uses' = uses
      PROVE  TokenInv'
  <2>1. Idle.at # "del" /\ Idle.token \notin Tokens
    BY SessionAssumption DEF Idle
  <2> QED BY <1>2, <1>4, <2>1 DEF Ends
<1>5. ASSUME job' = job, owner' = owner, live' = live, uses' = uses PROVE TokenInv'
  BY <1>5, TokenKept DEF Using
<1>6. ASSUME NEW t \in Threads, CheckToken(t), Goes(t, "del") PROVE TokenInv'
  <2> PICK k : k = job[t].token
    OBVIOUS
  <2>1. /\ k \in live /\ uses[k] = 0 /\ job[t].at = "hget" /\ k \in Tokens
        /\ UNCHANGED <<owner, live, uses>>
    BY <1>t, <1>6 DEF CheckToken, Goes, Ends, TokenInv, Idle
  <2>2. \A r \in Threads : job'[r].token = job[r].token /\ job'[r].user = job[r].user
    BY <1>t, <1>6 DEF Goes, Jobs
  <2>3. \A j \in Tokens \ {k} : Using(j)' = Using(j)
    BY <1>t, <1>6, <2>1, <2>2 DEF Using, Goes, Jobs
  <2>4. Using(k)' \in SUBSET Threads
    BY DEF Using
  <2>5. Cardinality(Using(k)') \in Nat /\ Cardinality(Using(k)') <= Cardinality(Threads)
    BY <2>4, SessionAssumption, FS_Subset, FS_CardinalityType
  <2>6. \A j \in Tokens : uses[j] + Cardinality(Using(j)') <= Cardinality(Threads)
    <3> TAKE j \in Tokens
    <3>1. CASE j = k
      BY <1>n, <2>1, <2>5, <3>1
    <3>2. CASE j # k
      BY <2>3, <3>2 DEF TokenInv
    <3> QED BY <3>1, <3>2
  <2> QED BY <2>1, <2>2, <2>6 DEF TokenInv
<1>7. ASSUME NEW t \in Threads, UseToken(t) PROVE TokenInv'
  <2> PICK k : k = job[t].token
    OBVIOUS
  <2>1. /\ job[t].at = "del" /\ job[t] # Idle /\ k \in Tokens
        /\ owner[k] = job[t].user /\ job[t].user \in Users
    <3>1. job[t].at = "del" /\ job[t] # Idle
      BY <1>7 DEF UseToken, Idle
    <3>2. k \in Tokens /\ job[t].user \in Users
      BY <3>1 DEF Shape, Jobbing, Duty
    <3> QED BY <3>1, <3>2 DEF TokenInv
  <2>2. /\ Goes(t, "friends") /\ owner' = owner
        /\ live' = {j \in live : owner[j] # job[t].user}
        /\ uses' = [uses EXCEPT ![k] = @ + 1]
    BY <1>7 DEF UseToken
  <2>3. \A r \in Threads : job'[r].token = job[r].token /\ job'[r].user = job[r].user
    BY <1>t, <2>2 DEF Goes, Jobs
  <2>4. Using(k)' = Using(k) \ {t} /\ t \in Using(k)
    BY <1>t, <2>1, <2>2, <2>3 DEF Using, Goes, Jobs
  <2>5. \A j \in Tokens \ {k} : Using(j)' = Using(j)
    BY <1>t, <2>1, <2>2, <2>3 DEF Using, Goes, Jobs
  <2>6. Cardinality(Using(k)') = Cardinality(Using(k)) - 1
    BY <2>1, <2>4, UsingFinite, FS_RemoveElement
  <2>7. \A j \in Tokens : uses'[j] + Cardinality(Using(j)') <= Cardinality(Threads)
    <3>1. \A j \in Tokens : Cardinality(Using(j)) \in Nat
      BY UsingFinite
    <3>2. \A j \in Tokens : uses[j] + Cardinality(Using(j)) <= Cardinality(Threads)
      BY DEF TokenInv
    <3>3. uses'[k] = uses[k] + 1 /\ \A j \in Tokens \ {k} : uses'[j] = uses[j]
      BY <1>t, <2>1, <2>2
    <3>4. uses'[k] + Cardinality(Using(k)') <= Cardinality(Threads)
      BY <1>t, <1>n, <2>1, <2>6, <3>1, <3>2, <3>3
    <3> TAKE j \in Tokens
    <3>5. CASE j = k
      BY <3>4, <3>5
    <3>6. CASE j # k
      BY <2>5, <3>2, <3>3, <3>6
    <3> QED BY <3>5, <3>6
  <2>8. \A j \in live' : uses'[j] = 0
    BY <1>t, <2>1, <2>2 DEF TokenInv
  <2>9. \A j \in Tokens : owner[j] = NoUser => uses'[j] = 0 /\ j \notin live'
    BY <1>t, <2>1, <2>2, SessionAssumption DEF TokenInv
  <2> QED BY <2>2, <2>3, <2>7, <2>8, <2>9 DEF TokenInv
<1>8. ASSUME NEW t \in Threads, NEW o \in Objs, NEW c, NEW k \in Tokens,
             RequestLogin(t, o, c, k)
      PROVE  TokenInv'
  <2> DEFINE x == [Idle EXCEPT !.at = "hget", !.user = owner[k], !.token = k, !.obj = o,
                               !.conn = c]
  <2>1. x.at = "hget" /\ x.token = k /\ x.user = owner[k]
    BY DEF Idle
  <2>2. job' = [job EXCEPT ![t] = x] /\ UNCHANGED <<owner, live, uses>>
    BY <1>8 DEF RequestLogin, Take
  <2> HIDE DEF x
  <2> QED BY <1>2, <2>1, <2>2
<1>9. ASSUME NEW t \in Threads, NEW o \in Objs, NEW c, NEW item \in Items,
             RequestCostume(t, o, c, item)
      PROVE  TokenInv'
  <2>1. PICK u : Take(t, o, c, [Idle EXCEPT !.at = "update", !.user = u, !.item = item])
    BY <1>9 DEF RequestCostume
  <2> DEFINE x == [Idle EXCEPT !.at = "update", !.user = u, !.item = item, !.obj = o,
                               !.conn = c]
  <2>2. x.at = "update" /\ x.token = NoToken
    BY DEF Idle
  <2>3. job' = [job EXCEPT ![t] = x] /\ UNCHANGED <<owner, live, uses>>
    BY <2>1 DEF Take
  <2> HIDE DEF x
  <2> QED BY <1>2, <2>2, <2>3, SessionAssumption
<1>10. ASSUME NEW t \in Threads, Work(t) PROVE TokenInv'
  <2>1. CASE CheckToken(t)
    BY <1>4, <1>6, <2>1 DEF CheckToken
  <2>2. CASE UseToken(t)
    BY <1>7, <2>2
  <2>3. CASE TellOnline(t)
    BY <1>3, <2>3 DEF TellOnline, Places
  <2>4. CASE SetSession(t)
    BY <1>3, <2>4 DEF SetSession, Places
  <2>5. CASE StoreState(t)
    BY <1>3, <2>5 DEF StoreState, Places
  <2>6. CASE LimitState(t)
    BY <1>4, <2>6 DEF LimitState
  <2>7. CASE UpdateEquipSlot(t)
    BY <1>3, <2>7 DEF UpdateEquipSlot, Places
  <2>8. CASE CacheEquip(t)
    BY <1>4, <2>8 DEF CacheEquip
  <2>9. CASE CallFails(t)
    BY <1>4, <2>9 DEF CallFails
  <2>10. CASE SetPkToObjNum(t)
    BY <1>3, <2>10 DEF SetPkToObjNum, Places
  <2> QED BY <1>10, <2>1, <2>2, <2>3, <2>4, <2>5, <2>6, <2>7, <2>8, <2>9, <2>10 DEF Work
<1>11. ASSUME NEW o \in Objs, NEW w \in Workers,
              Accept(o) \/ Refuse(o) \/ Drop(w, o) \/ Logout(w)
       PROVE  TokenInv'
  BY <1>5, <1>11
  DEF Accept, Refuse, Drop, Logout, TellOffline, StoreOffline, DelPkToObjNum, Reset,
      Clears, LogoutCallFails
<1>12. ASSUME NEW u \in Users, Expire(u) PROVE TokenInv'
  BY <1>5, <1>12 DEF Expire
<1>13. CASE Crash
  <2>1. /\ job' = [t \in Threads |-> Idle] /\ UNCHANGED <<owner, live, uses>>
    BY <1>13 DEF Crash
  <2>2. \A k \in Tokens : Using(k)' \subseteq Using(k)
    BY <2>1 DEF Using, Idle
  <2>3. \A t \in Threads : job'[t].token \notin Tokens
    BY <2>1, SessionAssumption DEF Idle
  <2> QED BY <2>1, <2>2, <2>3, TokenKept
<1>14. CASE UNCHANGED vars
  BY <1>5, <1>14 DEF vars
<1> QED
  <2>1. ASSUME NEW w \in Workers, Logout(w) PROVE TokenInv'
    BY <1>5, <2>1
    DEF Logout, TellOffline, StoreOffline, DelPkToObjNum, Reset, Clears, LogoutCallFails
  <2>2. ASSUME NEW o \in Objs, Accept(o) \/ Refuse(o) PROVE TokenInv'
    BY <1>5, <2>2 DEF Accept, Refuse, Clears
  <2> QED BY <1>1, <1>8, <1>9, <1>10, <1>11, <1>12, <1>13, <1>14, <2>1, <2>2 DEF Next

----------------------------------------------------------------------------
(* The map from users to objects *)

\* What a step of a request does to the request.
LEMMA GoesFields ==
  ASSUME job \in [Threads -> Jobs], NEW t \in Threads, NEW at, Goes(t, at)
  PROVE  /\ \A r \in Threads \ {t} : job'[r] = job[r]
         /\ job'[t].at = at /\ job'[t].obj = job[t].obj /\ job'[t].user = job[t].user
         /\ job'[t].item = job[t].item /\ job'[t].conn = job[t].conn
<1> QED BY DEF Goes, Jobs

LEMMA EndsFields ==
  ASSUME job \in [Threads -> Jobs], NEW t \in Threads, Ends(t)
  PROVE  /\ \A r \in Threads \ {t} : job'[r] = job[r]
         /\ job'[t] = Idle /\ Idle.at = "idle"
<1> QED BY DEF Ends, Idle

\* So does taking one.
LEMMA TakeFields ==
  ASSUME job \in [Threads -> Jobs], NEW t \in Threads, NEW o \in Objs, NEW c,
         (\E k \in Tokens : RequestLogin(t, o, c, k))
         \/ (\E item \in Items : RequestCostume(t, o, c, item))
  PROVE  /\ \A r \in Threads \ {t} : job'[r] = job[r]
         /\ job'[t].at \in {"hget", "update"} /\ job[t].at = "idle"
         /\ UNCHANGED <<redis, session, ghosts, owner, leaving, wears, shown>>
<1>1. PICK x : Take(t, o, c, x) /\ [x EXCEPT !.obj = o, !.conn = c].at \in {"hget", "update"}
  <2>1. ASSUME NEW k \in Tokens, RequestLogin(t, o, c, k)
        PROVE  \E x : /\ Take(t, o, c, x)
                      /\ [x EXCEPT !.obj = o, !.conn = c].at \in {"hget", "update"}
    <3> DEFINE y == [Idle EXCEPT !.at = "hget", !.user = owner[k], !.token = k]
    <3>1. Take(t, o, c, y) /\ [y EXCEPT !.obj = o, !.conn = c].at = "hget"
      BY <2>1 DEF RequestLogin, Idle
    <3> HIDE DEF y
    <3> QED BY <3>1
  <2>2. ASSUME NEW item \in Items, RequestCostume(t, o, c, item)
        PROVE  \E x : /\ Take(t, o, c, x)
                      /\ [x EXCEPT !.obj = o, !.conn = c].at \in {"hget", "update"}
    <3>1. PICK u : Take(t, o, c, [Idle EXCEPT !.at = "update", !.user = u, !.item = item])
      BY <2>2 DEF RequestCostume
    <3> DEFINE y == [Idle EXCEPT !.at = "update", !.user = u, !.item = item]
    <3>2. Take(t, o, c, y) /\ [y EXCEPT !.obj = o, !.conn = c].at = "update"
      BY <3>1 DEF Idle
    <3> HIDE DEF y
    <3> QED BY <3>2
  <2> QED BY <2>1, <2>2
<1>2. job[t].at = "idle"
  BY <1>1 DEF Take, Idle
<1> QED BY <1>1, <1>2 DEF Take

\* The steps of a request, told apart by where it is.
LEMMA Busy ==
  ASSUME Shape, NEW t \in Threads, job[t].at # "idle"
  PROVE  /\ job[t].obj \in Objs /\ job[t].user \in Users
         /\ job[t].conn \in 1 .. lastConn[job[t].obj]
         /\ job[t].at \in {"update", "equip"} => job[t].item \in Items
<1> QED BY DEF Shape, Jobbing, Duty, Idle

\* Past its token a login is as proved as it was, as long as a number is not given to
\* a second connection.
LEMMA ProvenKept ==
  ASSUME Shape, Proven,
         \A r \in Threads :
           job'[r].at \in {"friends", "info", "map"} =>
             /\ job[r].at \in {"friends", "info", "map"}
             /\ job'[r].obj = job[r].obj /\ job'[r].user = job[r].user
             /\ job'[r].conn = job[r].conn,
         \A o \in Objs : \A n \in 1 .. lastConn[o] :
           conn'[o] = n => conn[o] = n /\ proved[o] \subseteq proved'[o]
  PROVE  Proven'
<1> SUFFICES ASSUME NEW t \in Threads, job'[t].at \in {"friends", "info", "map"},
                    conn'[job'[t].obj] = job'[t].conn
             PROVE  job'[t].user \in proved'[job'[t].obj]
  BY DEF Proven
<1>1. /\ job[t].at \in {"friends", "info", "map"}
      /\ job'[t].obj = job[t].obj /\ job'[t].user = job[t].user
      /\ job'[t].conn = job[t].conn
  OBVIOUS
<1>2. job[t].obj \in Objs /\ job[t].conn \in 1 .. lastConn[job[t].obj]
  BY <1>1, Busy
<1>3. conn[job[t].obj] = job[t].conn /\ proved[job[t].obj] \subseteq proved'[job[t].obj]
  BY <1>1, <1>2
<1> QED BY <1>1, <1>3 DEF Proven

LEMMA ProvenStep == ASSUME Shape, Proven, [Next]_vars PROVE Proven'
<1> USE DEF redis, session, ghosts, marks, Calm, At, LeaveCalm, CallError, Fault, Counts
<1>t. /\ job \in [Threads -> Jobs] /\ conn \in [Objs -> Nat]
      /\ lastConn \in [Objs -> Nat] /\ proved \in [Objs -> SUBSET Users]
  BY DEF Shape, TypeOK
<1>1. ASSUME UNCHANGED <<conn, proved>>,
             \A r \in Threads :
               job'[r].at \in {"friends", "info", "map"} =>
                 /\ job[r].at \in {"friends", "info", "map"}
                 /\ job'[r].obj = job[r].obj /\ job'[r].user = job[r].user
                 /\ job'[r].conn = job[r].conn
      PROVE  Proven'
  BY <1>1, ProvenKept
<1>2. ASSUME NEW t \in Threads, NEW at, Goes(t, at), UNCHANGED <<conn, proved>>,
             at \in {"friends", "info", "map"} => job[t].at \in {"friends", "info", "map"}
      PROVE  Proven'
  <2>1. \A r \in Threads :
          job'[r].at \in {"friends", "info", "map"} =>
            /\ job[r].at \in {"friends", "info", "map"}
            /\ job'[r].obj = job[r].obj /\ job'[r].user = job[r].user
            /\ job'[r].conn = job[r].conn
    BY <1>t, <1>2, GoesFields
  <2> QED BY <1>1, <1>2, <2>1
<1>3. ASSUME NEW t \in Threads, Ends(t), UNCHANGED <<conn, proved>> PROVE Proven'
  <2>1. \A r \in Threads : job'[r].at \in {"friends", "info", "map"} => job'[r] = job[r]
    BY <1>t, <1>3, EndsFields
  <2> QED BY <1>1, <1>3, <2>1
<1>4. ASSUME NEW t \in Threads, NEW o \in Objs, NEW c,
             (\E k \in Tokens : RequestLogin(t, o, c, k))
             \/ (\E item \in Items : RequestCostume(t, o, c, item))
      PROVE  Proven'
  <2>1. \A r \in Threads : job'[r].at \in {"friends", "info", "map"} => job'[r] = job[r]
    BY <1>t, <1>4, TakeFields
  <2>2. UNCHANGED <<conn, proved>>
    BY <1>t, <1>4, TakeFields
  <2> QED BY <1>1, <2>1, <2>2
<1>7. ASSUME NEW t \in Threads, UseToken(t) PROVE Proven'
  <2>1. /\ Goes(t, "friends") /\ job[t].at = "del" /\ conn' = conn
        /\ proved' = [proved EXCEPT ![job[t].obj] =
                        IF conn[job[t].obj] = job[t].conn THEN @ \cup {job[t].user} ELSE @]
    BY <1>7 DEF UseToken
  <2>2. job[t].obj \in Objs
    BY <2>1, Busy
  <2>3. \A o \in Objs : proved[o] \subseteq proved'[o]
    BY <1>t, <2>1, <2>2
  <2>4. conn[job[t].obj] = job[t].conn => job[t].user \in proved'[job[t].obj]
    BY <1>t, <2>1, <2>2
  <2>5. /\ \A r \in Threads \ {t} : job'[r] = job[r]
        /\ job'[t].obj = job[t].obj /\ job'[t].user = job[t].user
        /\ job'[t].conn = job[t].conn
    BY <1>t, <2>1, GoesFields
  <2> SUFFICES ASSUME NEW r \in Threads, job'[r].at \in {"friends", "info", "map"},
                      conn'[job'[r].obj] = job'[r].conn
               PROVE  job'[r].user \in proved'[job'[r].obj]
    BY DEF Proven
  <2>6. CASE r = t
    BY <2>1, <2>4, <2>5, <2>6
  <2>7. CASE r # t
    <3>1. job'[r] = job[r]
      BY <2>5, <2>7
    <3>2. job[r].obj \in Objs
      BY <3>1, Busy
    <3> QED BY <2>1, <2>3, <3>1, <3>2 DEF Proven
  <2> QED BY <2>6, <2>7
<1>8. ASSUME NEW t \in Threads, Work(t) PROVE Proven'
  <2>1. CASE CheckToken(t)
    BY <1>2, <1>3, <2>1 DEF CheckToken
  <2>2. CASE UseToken(t)
    BY <1>7, <2>2
  <2>3. CASE TellOnline(t)
    BY <1>2, <2>3 DEF TellOnline
  <2>4. CASE SetSession(t)
    BY <1>2, <2>4 DEF SetSession
  <2>5. CASE StoreState(t)
    BY <1>2, <2>5 DEF StoreState
  <2>6. CASE LimitState(t)
    BY <1>3, <2>6 DEF LimitState
  <2>7. CASE UpdateEquipSlot(t)
    BY <1>2, <2>7 DEF UpdateEquipSlot
  <2>8. CASE CacheEquip(t)
    BY <1>3, <2>8 DEF CacheEquip
  <2>9. CASE CallFails(t)
    BY <1>3, <2>9 DEF CallFails
  <2>10. CASE SetPkToObjNum(t)
    BY <1>2, <2>10 DEF SetPkToObjNum
  <2> QED BY <1>8, <2>1, <2>2, <2>3, <2>4, <2>5, <2>6, <2>7, <2>8, <2>9, <2>10 DEF Work
<1>9. ASSUME NEW o \in Objs, Accept(o) PROVE Proven'
  <2>1. job' = job /\ proved' = proved /\ conn' = [conn EXCEPT ![o] = lastConn[o] + 1]
    BY <1>9 DEF Accept
  <2>2. \A p \in Objs : \A n \in 1 .. lastConn[p] :
          conn'[p] = n => conn[p] = n /\ proved[p] \subseteq proved'[p]
    BY <1>t, <2>1
  <2> QED BY <2>1, <2>2, ProvenKept
<1>10. ASSUME NEW o \in Objs, Clears(o) PROVE Proven'
  <2>1. /\ job' = job /\ proved' = [proved EXCEPT ![o] = {}]
        /\ conn' = [conn EXCEPT ![o] = 0]
    BY <1>10 DEF Clears
  <2>2. \A p \in Objs : \A n \in 1 .. lastConn[p] :
          conn'[p] = n => conn[p] = n /\ proved[p] \subseteq proved'[p]
    BY <1>t, <2>1
  <2> QED BY <2>1, <2>2, ProvenKept
<1>11. CASE Crash
  <2>1. \A r \in Threads : job'[r].at = "idle"
    BY <1>11 DEF Crash, Idle
  <2> QED BY <2>1 DEF Proven
<1>12. ASSUME job' = job, UNCHANGED <<conn, proved>> PROVE Proven'
  BY <1>1, <1>12
<1>13. ASSUME NEW w \in Workers, Logout(w) PROVE Proven'
  <2>1. CASE Reset(w)
    BY <1>10, <2>1 DEF Reset, Shape, Leaving
  <2>2. CASE ~Reset(w)
    BY <1>12, <1>13, <2>2
    DEF Logout, TellOffline, StoreOffline, DelPkToObjNum, LogoutCallFails
  <2> QED BY <2>1, <2>2
<1>17. ASSUME NEW o \in Objs, Refuse(o) \/ \E w \in Workers : Drop(w, o) PROVE Proven'
  BY <1>10, <1>12, <1>17 DEF Refuse, Drop
<1>14. ASSUME NEW k \in Tokens, NEW u \in Users, Issue(k, u) PROVE Proven'
  BY <1>12, <1>14 DEF Issue
<1>15. ASSUME NEW u \in Users, Expire(u) PROVE Proven'
  BY <1>12, <1>15 DEF Expire
<1>16. CASE UNCHANGED vars
  BY <1>12, <1>16 DEF vars
<1> QED
  BY <1>4, <1>8, <1>9, <1>11, <1>13, <1>14, <1>15, <1>16, <1>17 DEF Next

LEMMA MappedStep == ASSUME Shape, Proven, Mapped, [Next]_vars PROVE Mapped'
<1> USE DEF redis, session, ghosts, marks, Calm, At, LeaveCalm, CallError, Fault, Counts
<1>t. /\ conn \in [Objs -> Nat] /\ proved \in [Objs -> SUBSET Users]
      /\ leaving \in [Workers -> Logouts]
      /\ pk \in [Objs -> Users \cup {NoUser, Unset}]
      /\ objNum \in [Users -> Objs \cup {NoObj}] /\ tainted \in SUBSET Users
  BY DEF Shape, TypeOK
<1>1. ASSUME UNCHANGED <<objNum, tainted, pk, leaving>>,
             \A o \in Objs : proved[o] \subseteq proved'[o]
      PROVE  Mapped'
  BY <1>1 DEF Mapped
<1>2. ASSUME UNCHANGED <<objNum, tainted, pk, leaving, proved>> PROVE Mapped'
  BY <1>1, <1>2
<1>3. ASSUME NEW t \in Threads, UseToken(t) PROVE Mapped'
  <2>1. job[t].obj \in Objs
    BY <1>3, Busy DEF UseToken
  <2>2. \A o \in Objs : proved[o] \subseteq proved'[o]
    BY <1>t, <1>3, <2>1 DEF UseToken
  <2> QED BY <1>1, <1>3, <2>2 DEF UseToken
<1>4. ASSUME NEW t \in Threads, SetSession(t) PROVE Mapped'
  <2> PICK o, v : o = job[t].obj /\ v = job[t].user
    OBVIOUS
  <2>1. o \in Objs /\ v \in Users
    BY <1>4, Busy DEF SetSession
  <2>2. /\ pk' = [pk EXCEPT ![o] = v] /\ UNCHANGED <<objNum, leaving, proved>>
        /\ tainted' = tainted \cup {u \in Users \ {v} : objNum[u] = o}
    BY <1>4 DEF SetSession
  <2> SUFFICES ASSUME NEW u \in Users \ tainted', objNum'[u] \in Objs
               PROVE  /\ pk'[objNum'[u]] = u /\ u \in proved'[objNum'[u]]
                      /\ \A w \in Workers :
                           leaving'[w].at # "no" /\ leaving'[w].obj = objNum'[u]
                           => leaving'[w].user = u /\ leaving'[w].at # "reset"
    BY DEF Mapped
  <2>3. u \in Users \ tainted /\ (objNum[u] = o => u = v)
    BY <2>2
  <2>4. CASE objNum[u] = o
    <3>1. u = v /\ pk'[o] = v
      BY <1>t, <2>1, <2>2, <2>3, <2>4
    <3> QED BY <2>2, <2>3, <2>4, <3>1 DEF Mapped
  <2>5. CASE objNum[u] # o
    <3>1. pk'[objNum[u]] = pk[objNum[u]]
      BY <1>t, <2>1, <2>2, <2>5
    <3> QED BY <2>2, <2>3, <3>1 DEF Mapped
  <2> QED BY <2>4, <2>5
<1>5. ASSUME NEW t \in Threads, SetPkToObjNum(t) PROVE Mapped'
  <2> PICK o, v : o = job[t].obj /\ v = job[t].user
    OBVIOUS
  <2>1. o \in Objs /\ v \in Users /\ job[t].at = "map"
    BY <1>5, Busy DEF SetPkToObjNum
  <2>2. /\ objNum' = [objNum EXCEPT ![v] = o] /\ UNCHANGED <<pk, leaving, proved>>
        /\ tainted' = IF Late(job[t]) \/ pk[o] # v THEN tainted \cup {v} ELSE tainted \ {v}
    BY <1>5 DEF SetPkToObjNum
  <2> SUFFICES ASSUME NEW u \in Users \ tainted', objNum'[u] \in Objs
               PROVE  /\ pk'[objNum'[u]] = u /\ u \in proved'[objNum'[u]]
                      /\ \A w \in Workers :
                           leaving'[w].at # "no" /\ leaving'[w].obj = objNum'[u]
                           => leaving'[w].user = u /\ leaving'[w].at # "reset"
    BY DEF Mapped
  <2>3. CASE u = v
    <3>1. objNum'[u] = o /\ ~Late(job[t]) /\ pk[o] = v
      BY <1>t, <2>1, <2>2, <2>3
    <3>2. u \in proved[o]
      BY <2>1, <2>3, <3>1 DEF Proven, Late
    <3>3. \A w \in Workers : ~(leaving[w].at # "no" /\ leaving[w].obj = o)
      BY <3>1 DEF Late, Ending
    <3> QED BY <2>2, <2>3, <3>1, <3>2, <3>3
  <2>4. CASE u # v
    <3>1. objNum'[u] = objNum[u] /\ u \in Users \ tainted
      BY <1>t, <2>1, <2>2, <2>4
    <3> QED BY <2>2, <3>1 DEF Mapped
  <2> QED BY <2>3, <2>4
<1>6. ASSUME NEW t \in Threads, Work(t) PROVE Mapped'
  BY <1>2, <1>3, <1>4, <1>5, <1>6
  DEF Work, CheckToken, TellOnline, StoreState, LimitState, UpdateEquipSlot, CacheEquip,
      CallFails
<1>7. ASSUME NEW w \in Workers, NEW o \in Objs, Drop(w, o) PROVE Mapped'
  <2>1. PICK u \in PkRead(o) :
          leaving' = [leaving EXCEPT ![w] =
                        [at |-> IF u = NoUser THEN "reset" ELSE "tell", obj |-> o,
                         user |-> u]]
    BY <1>7 DEF Drop
  <2>2. /\ leaving'[w].user = u /\ leaving'[w].obj = o
        /\ u # NoUser => leaving'[w].at = "tell"
        /\ \A x \in Workers \ {w} : leaving'[x] = leaving[x]
    BY <1>t, <2>1
  <2>3. pk[o] \in Users => u = pk[o] /\ u # NoUser
    BY <2>1, SessionAssumption DEF PkRead
  <2>4. UNCHANGED <<objNum, tainted, pk, proved>>
    BY <1>7 DEF Drop
  <2> QED BY <2>2, <2>3, <2>4 DEF Mapped
<1>8. ASSUME NEW w \in Workers, NEW at, at \notin {"reset", "no"}, Leaves(w, at),
             leaving[w].at # "no", UNCHANGED <<objNum, tainted, pk, proved>>
      PROVE  Mapped'
  <2>1. /\ leaving'[w].at = at /\ leaving'[w].user = leaving[w].user
        /\ leaving'[w].obj = leaving[w].obj
        /\ \A x \in Workers \ {w} : leaving'[x] = leaving[x]
    BY <1>t, <1>8 DEF Leaves, Logouts
  <2> QED BY <1>8, <2>1 DEF Mapped
\* A logout past the removal, or the failure that skips it.
<1>9. ASSUME NEW w \in Workers, Leaves(w, "reset"), leaving[w].at # "no",
             UNCHANGED <<pk, proved>>, tainted \subseteq tainted',
             \A u \in Users \ tainted' :
               objNum'[u] \in Objs => objNum'[u] = objNum[u] /\ u # leaving[w].user
      PROVE  Mapped'
  <2>1. \A x \in Workers \ {w} : leaving'[x] = leaving[x]
    BY <1>t, <1>9 DEF Leaves
  <2>2. leaving'[w].obj = leaving[w].obj
    BY <1>t, <1>9 DEF Leaves, Logouts
  <2> SUFFICES ASSUME NEW u \in Users \ tainted', objNum'[u] \in Objs
               PROVE  /\ pk'[objNum'[u]] = u /\ u \in proved'[objNum'[u]]
                      /\ \A x \in Workers :
                           leaving'[x].at # "no" /\ leaving'[x].obj = objNum'[u]
                           => leaving'[x].user = u /\ leaving'[x].at # "reset"
    BY DEF Mapped
  <2>3. objNum'[u] = objNum[u] /\ u # leaving[w].user /\ u \in Users \ tainted
    BY <1>9
  <2>4. leaving[w].obj # objNum[u]
    BY <1>9, <2>3 DEF Mapped
  <2> QED BY <1>9, <2>1, <2>2, <2>3, <2>4 DEF Mapped
<1>10. ASSUME NEW w \in Workers, DelPkToObjNum(w) PROVE Mapped'
  <2>1. /\ UNCHANGED <<tainted, pk, proved>> /\ leaving[w].at = "unmap"
        /\ objNum' = [objNum EXCEPT ![leaving[w].user] = NoObj] /\ Leaves(w, "reset")
    BY <1>10 DEF DelPkToObjNum
  <2>2. leaving[w].user \in Users
    BY <2>1 DEF Shape, Leaving
  <2>3. \A u \in Users :
          objNum'[u] \in Objs => objNum'[u] = objNum[u] /\ u # leaving[w].user
    BY <1>t, <2>1, <2>2, SessionAssumption
  <2> QED BY <1>9, <2>1, <2>3
<1>11. ASSUME NEW w \in Workers, Reset(w) PROVE Mapped'
  <2> PICK o : o = leaving[w].obj
    OBVIOUS
  <2>1. /\ UNCHANGED <<objNum, tainted>> /\ leaving[w].at = "reset"
        /\ leaving' = [leaving EXCEPT ![w] = Stays]
        /\ pk' = [pk EXCEPT ![o] = NoUser] /\ proved' = [proved EXCEPT ![o] = {}]
    BY <1>11 DEF Reset, Clears
  <2>2. \A u \in Users \ tainted : objNum[u] \in Objs => objNum[u] # o
    BY <2>1 DEF Mapped
  <2>3. /\ leaving'[w].at = "no" /\ \A x \in Workers \ {w} : leaving'[x] = leaving[x]
        /\ \A p \in Objs \ {o} : pk'[p] = pk[p] /\ proved'[p] = proved[p]
    BY <1>t, <2>1 DEF Stays
  <2> QED BY <2>1, <2>2, <2>3 DEF Mapped
<1>12. ASSUME NEW o \in Objs, Refuse(o) PROVE Mapped'
  <2>1. /\ UNCHANGED <<objNum, leaving>> /\ tainted' = tainted \cup {u \in Users : objNum[u] = o}
        /\ pk' = [pk EXCEPT ![o] = NoUser] /\ proved' = [proved EXCEPT ![o] = {}]
    BY <1>12 DEF Refuse, Clears
  <2>2. \A p \in Objs \ {o} : pk'[p] = pk[p] /\ proved'[p] = proved[p]
    BY <1>t, <2>1
  <2> QED BY <2>1, <2>2 DEF Mapped
<1>13. ASSUME NEW w \in Workers, LogoutCallFails(w) PROVE Mapped'
  <2>1. CASE leaving[w].at = "tell" /\ Leaves(w, "pipeline") /\ UNCHANGED tainted
    BY <1>8, <1>13, <2>1 DEF LogoutCallFails
  <2>2. CASE /\ leaving[w].at = "pipeline" /\ Leaves(w, "reset")
             /\ tainted' = tainted \cup {leaving[w].user}
    BY <1>9, <1>13, <2>2 DEF LogoutCallFails
  <2> QED BY <1>13, <2>1, <2>2 DEF LogoutCallFails
<1>14. ASSUME NEW w \in Workers, Logout(w) PROVE Mapped'
  <2>1. CASE TellOffline(w)
    BY <1>8, <2>1 DEF TellOffline
  <2>2. CASE StoreOffline(w)
    BY <1>8, <2>2 DEF StoreOffline
  <2> QED BY <1>10, <1>11, <1>13, <1>14, <2>1, <2>2 DEF Logout
<1>15. CASE Crash
  BY <1>15, SessionAssumption DEF Crash, Mapped
<1>16. ASSUME NEW t \in Threads, NEW o \in Objs, NEW c,
              (\E k \in Tokens : RequestLogin(t, o, c, k))
              \/ (\E item \in Items : RequestCostume(t, o, c, item))
       PROVE  Mapped'
  BY <1>2, <1>16 DEF RequestLogin, RequestCostume, Take
<1>17. ASSUME NEW o \in Objs, Accept(o) PROVE Mapped'
  BY <1>2, <1>17 DEF Accept
<1>18. ASSUME NEW k \in Tokens, NEW u \in Users, Issue(k, u) PROVE Mapped'
  BY <1>2, <1>18 DEF Issue
<1>19. ASSUME NEW u \in Users, Expire(u) PROVE Mapped'
  BY <1>2, <1>19 DEF Expire
<1>20. CASE UNCHANGED vars
  BY <1>2, <1>20 DEF vars
<1> QED
  BY <1>6, <1>7, <1>12, <1>14, <1>15, <1>16, <1>17, <1>18, <1>19, <1>20 DEF Next

----------------------------------------------------------------------------
(* What friends are told *)

\* A step that adds nobody to shown and takes nobody out of missed keeps the property,
\* if every user who is present and shown is still present, or missed.
LEMMA ShownKept ==
  ASSUME FriendsLearn, shown' \subseteq shown, missed \subseteq missed',
         \A u \in shown' : Present(u) => Present(u)' \/ u \in missed'
  PROVE  FriendsLearn'
<1> QED BY DEF FriendsLearn

\* A request that is no login about to set its session leaves the present users present.
LEMMA PresentByJobs ==
  ASSUME NEW t \in Threads, \A r \in Threads \ {t} : job'[r] = job[r],
         job[t].at # "info", UNCHANGED <<pk, leaving>>,
         \A o \in Objs : proved[o] \subseteq proved'[o],
         NEW u, Present(u)
  PROVE  Present(u)'
<1> QED BY DEF Present, Ending, At

LEMMA ShownStep == ASSUME Shape, Proven, FriendsLearn, [Next]_vars PROVE FriendsLearn'
<1> USE DEF redis, session, ghosts, marks, Calm, At, LeaveCalm, CallError, Fault, Counts
<1>t. /\ job \in [Threads -> Jobs] /\ proved \in [Objs -> SUBSET Users]
      /\ leaving \in [Workers -> Logouts]
      /\ pk \in [Objs -> Users \cup {NoUser, Unset}] /\ shown \in SUBSET Users
  BY DEF Shape, TypeOK
<1>1. ASSUME UNCHANGED <<job, pk, proved, leaving, shown, missed>> PROVE FriendsLearn'
  BY <1>1 DEF FriendsLearn, Present, Ending
<1>2. ASSUME NEW t \in Threads, \A r \in Threads \ {t} : job'[r] = job[r],
             job[t].at # "info", UNCHANGED <<pk, leaving, shown, missed>>,
             \A o \in Objs : proved[o] \subseteq proved'[o]
      PROVE  FriendsLearn'
  BY <1>2, PresentByJobs, ShownKept
<1>3. ASSUME NEW t \in Threads, TellOnline(t) PROVE FriendsLearn'
  <2>1. /\ Goes(t, "info") /\ job[t].at = "friends" /\ shown' = shown \cup {job[t].user}
        /\ UNCHANGED <<pk, proved, leaving, missed>>
    BY <1>3 DEF TellOnline
  <2>2. /\ \A r \in Threads \ {t} : job'[r] = job[r]
        /\ job'[t].at = "info" /\ job'[t].user = job[t].user
    BY <1>t, <2>1, GoesFields
  <2> SUFFICES ASSUME NEW u \in shown' PROVE Present(u)' \/ u \in missed'
    BY DEF FriendsLearn
  <2>3. CASE u = job[t].user
    BY <2>2, <2>3 DEF Present
  <2>4. CASE u # job[t].user
    <3>1. Present(u) \/ u \in missed
      BY <2>1, <2>4 DEF FriendsLearn
    <3> QED BY <2>1, <2>2, <3>1, PresentByJobs
  <2> QED BY <2>3, <2>4
<1>4. ASSUME NEW t \in Threads, SetSession(t) PROVE FriendsLearn'
  <2> PICK o, v : o = job[t].obj /\ v = job[t].user
    OBVIOUS
  <2>1. /\ Goes(t, "map") /\ job[t].at = "info" /\ pk' = [pk EXCEPT ![o] = v]
        /\ UNCHANGED <<leaving, proved, shown>>
        /\ missed' = (IF Late(job[t]) THEN missed \cup {v} ELSE missed \ {v})
                     \cup (({pk[o]} \cap Users) \ {v})
    BY <1>4 DEF SetSession
  <2>2. o \in Objs /\ v \in Users
    BY <2>1, Busy
  <2>3. (\A r \in Threads \ {t} : job'[r] = job[r]) /\ job'[t].at = "map"
    BY <1>t, <2>1, GoesFields
  <2>4. pk'[o] = v /\ \A p \in Objs \ {o} : pk'[p] = pk[p]
    BY <1>t, <2>1, <2>2
  <2> SUFFICES ASSUME NEW u \in shown, u \notin missed' PROVE Present(u)'
    BY <2>1 DEF FriendsLearn
  <2>5. CASE u = v
    <3>1. ~Late(job[t])
      BY <2>1, <2>5
    <3>2. v \in proved[o] /\ ~Ending(o)
      BY <2>1, <3>1 DEF Late, Proven
    <3>3. ~Ending(o)'
      BY <2>1, <3>2 DEF Ending
    <3> QED BY <2>1, <2>2, <2>4, <2>5, <3>2, <3>3 DEF Present
  <2>6. CASE u # v
    <3>1. Present(u)
      BY <2>1, <2>6 DEF FriendsLearn
    <3>2. pk[o] # u
      BY <1>t, <2>1, <2>6
    <3>3. CASE \E r \in Threads : job[r].at = "info" /\ job[r].user = u
      BY <2>3, <2>6, <3>3 DEF Present
    <3>4. CASE \E p \in Objs : pk[p] = u /\ u \in proved[p] /\ ~Ending(p)
      <4>1. PICK p \in Objs : pk[p] = u /\ u \in proved[p] /\ ~Ending(p)
        BY <3>4
      <4>2. pk'[p] = u /\ u \in proved'[p] /\ ~Ending(p)'
        BY <2>1, <2>4, <3>2, <4>1 DEF Ending
      <4> QED BY <4>2 DEF Present
    <3>5. CASE \E w \in Workers : leaving[w].at = "tell" /\ leaving[w].user = u
      BY <2>1, <3>5 DEF Present
    <3> QED BY <3>1, <3>3, <3>4, <3>5 DEF Present
  <2> QED BY <2>5, <2>6
<1>5. ASSUME NEW t \in Threads, CallFails(t) PROVE FriendsLearn'
  <2>1. /\ Ends(t) /\ UNCHANGED <<pk, proved, leaving, shown>> /\ missed \subseteq missed'
        /\ job[t].at = "info" => job[t].user \in missed'
    BY <1>5 DEF CallFails
  <2>2. \A r \in Threads \ {t} : job'[r] = job[r]
    BY <1>t, <2>1, EndsFields
  <2>3. ASSUME NEW u, Present(u) PROVE Present(u)' \/ u \in missed'
    BY <2>1, <2>2, <2>3 DEF Present, Ending
  <2> QED BY <2>1, <2>3, ShownKept
<1>6. ASSUME NEW t \in Threads, NEW o \in Objs, NEW c,
             (\E k \in Tokens : RequestLogin(t, o, c, k))
             \/ (\E item \in Items : RequestCostume(t, o, c, item))
      PROVE  FriendsLearn'
  <2>1. /\ \A r \in Threads \ {t} : job'[r] = job[r]
        /\ job[t].at = "idle"
        /\ UNCHANGED <<pk, proved, leaving, shown, missed>>
    BY <1>t, <1>6, TakeFields
  <2> QED BY <1>2, <2>1
<1>7. ASSUME NEW t \in Threads, Work(t) PROVE FriendsLearn'
  <2>1. ASSUME Ends(t) \/ \E at : Goes(t, at), job[t].at # "info",
               UNCHANGED <<pk, leaving, shown, missed>>,
               \A o \in Objs : proved[o] \subseteq proved'[o]
        PROVE  FriendsLearn'
    <3>1. \A r \in Threads \ {t} : job'[r] = job[r]
      BY <1>t, <2>1, GoesFields, EndsFields
    <3> QED BY <1>2, <2>1, <3>1
  <2>2. CASE CheckToken(t)
    BY <2>1, <2>2 DEF CheckToken
  <2>3. CASE UseToken(t)
    <3>1. job[t].obj \in Objs
      BY <2>3, Busy DEF UseToken
    <3>2. \A o \in Objs : proved[o] \subseteq proved'[o]
      BY <1>t, <2>3, <3>1 DEF UseToken
    <3> QED BY <2>1, <2>3, <3>2 DEF UseToken
  <2>4. CASE SetPkToObjNum(t)
    BY <2>1, <2>4 DEF SetPkToObjNum
  <2>5. CASE StoreState(t)
    BY <2>1, <2>5 DEF StoreState
  <2>6. CASE LimitState(t)
    BY <2>1, <2>6 DEF LimitState
  <2>7. CASE UpdateEquipSlot(t)
    BY <2>1, <2>7 DEF UpdateEquipSlot
  <2>8. CASE CacheEquip(t)
    BY <2>1, <2>8 DEF CacheEquip
  <2> QED
    BY <1>3, <1>4, <1>5, <1>7, <2>2, <2>3, <2>4, <2>5, <2>6, <2>7, <2>8 DEF Work
<1>8. ASSUME NEW w \in Workers, NEW o \in Objs, Drop(w, o) PROVE FriendsLearn'
  <2>1. PICK v \in PkRead(o) :
          leaving' = [leaving EXCEPT ![w] =
                        [at |-> IF v = NoUser THEN "reset" ELSE "tell", obj |-> o,
                         user |-> v]]
    BY <1>8 DEF Drop
  <2>2. /\ leaving'[w].user = v /\ leaving'[w].obj = o
        /\ v # NoUser => leaving'[w].at = "tell"
        /\ \A x \in Workers \ {w} : leaving'[x] = leaving[x]
    BY <1>t, <2>1
  <2>3. UNCHANGED <<job, pk, proved, shown, missed>> /\ leaving[w].at = "no"
    BY <1>8 DEF Drop, Stays
  <2> SUFFICES ASSUME NEW u \in shown, Present(u) PROVE Present(u)'
    BY <2>3, ShownKept
  <2>4. CASE \E r \in Threads : job[r].at = "info" /\ job[r].user = u
    BY <2>3, <2>4 DEF Present
  <2>5. CASE \E x \in Workers : leaving[x].at = "tell" /\ leaving[x].user = u
    BY <2>2, <2>3, <2>5 DEF Present
  <2>6. ASSUME NEW p \in Objs, pk[p] = u, u \in proved[p], ~Ending(p) PROVE Present(u)'
    <3>1. CASE p = o
      <4>1. v = u /\ v # NoUser
        BY <1>t, <2>1, <2>6, <3>1, SessionAssumption DEF PkRead
      <4> QED BY <2>2, <4>1 DEF Present
    <3>2. CASE p # o
      <4>1. ~Ending(p)'
        BY <2>2, <2>6, <3>2 DEF Ending
      <4> QED BY <2>3, <2>6, <4>1 DEF Present
    <3> QED BY <3>1, <3>2
  <2> QED BY <2>4, <2>5, <2>6 DEF Present
\* A worker that goes on with a logout, or ends it.
<1>9. ASSUME NEW w \in Workers, leaving[w].at # "no",
             \A x \in Workers \ {w} : leaving'[x] = leaving[x],
             leaving'[w] = Stays \/ leaving'[w].obj = leaving[w].obj,
             \A o \in Objs \ {leaving[w].obj} : pk'[o] = pk[o] /\ proved'[o] = proved[o],
             job' = job, shown' \subseteq shown, missed \subseteq missed',
             leaving[w].at = "tell" =>
               leaving[w].user \notin shown' \/ leaving[w].user \in missed'
      PROVE  FriendsLearn'
  <2> SUFFICES ASSUME NEW u \in shown', Present(u) PROVE Present(u)' \/ u \in missed'
    BY <1>9, ShownKept
  <2>1. CASE \E r \in Threads : job[r].at = "info" /\ job[r].user = u
    BY <1>9, <2>1 DEF Present
  <2>2. CASE \E x \in Workers : leaving[x].at = "tell" /\ leaving[x].user = u
    BY <1>9, <2>2 DEF Present
  <2>3. ASSUME NEW p \in Objs, pk[p] = u, u \in proved[p], ~Ending(p) PROVE Present(u)'
    <3>1. p # leaving[w].obj
      BY <1>9, <2>3 DEF Ending
    <3>2. leaving'[w].at = "no" \/ leaving'[w].obj # p
      BY <1>9, <3>1 DEF Stays
    <3>3. ~Ending(p)'
      BY <1>9, <2>3, <3>2 DEF Ending
    <3> QED BY <1>9, <2>3, <3>1, <3>3 DEF Present
  <2> QED BY <2>1, <2>2, <2>3 DEF Present
<1>10. ASSUME NEW w \in Workers, Logout(w) PROVE FriendsLearn'
  <2>1. ASSUME NEW at, Leaves(w, at)
        PROVE  /\ \A x \in Workers \ {w} : leaving'[x] = leaving[x]
               /\ leaving'[w].obj = leaving[w].obj
    BY <1>t, <2>1 DEF Leaves, Logouts
  <2>2. CASE TellOffline(w)
    BY <1>9, <2>1, <2>2 DEF TellOffline
  <2>3. CASE StoreOffline(w)
    BY <1>9, <2>1, <2>3 DEF StoreOffline
  <2>4. CASE DelPkToObjNum(w)
    BY <1>9, <2>1, <2>4 DEF DelPkToObjNum
  <2>5. CASE Reset(w)
    <3> PICK o : o = leaving[w].obj
      OBVIOUS
    <3>1. /\ leaving[w].at = "reset" /\ UNCHANGED <<job, shown, missed>>
          /\ leaving' = [leaving EXCEPT ![w] = Stays] /\ pk' = [pk EXCEPT ![o] = NoUser]
          /\ proved' = [proved EXCEPT ![o] = {}]
      BY <2>5 DEF Reset, Clears
    <3>2. /\ leaving'[w] = Stays /\ \A x \in Workers \ {w} : leaving'[x] = leaving[x]
          /\ \A p \in Objs \ {o} : pk'[p] = pk[p] /\ proved'[p] = proved[p]
      BY <1>t, <3>1
    <3> QED BY <1>9, <3>1, <3>2
  <2>6. CASE LogoutCallFails(w)
    BY <1>9, <2>1, <2>6 DEF LogoutCallFails
  <2> QED BY <1>10, <2>2, <2>3, <2>4, <2>5, <2>6 DEF Logout
<1>11. ASSUME NEW o \in Objs, Refuse(o) PROVE FriendsLearn'
  <2>1. /\ UNCHANGED <<job, leaving, shown>> /\ missed' = missed \cup ({pk[o]} \cap Users)
        /\ pk' = [pk EXCEPT ![o] = NoUser] /\ proved' = [proved EXCEPT ![o] = {}]
    BY <1>11 DEF Refuse, Clears
  <2>2. \A p \in Objs \ {o} : pk'[p] = pk[p] /\ proved'[p] = proved[p]
    BY <1>t, <2>1
  <2>3. ASSUME NEW u \in shown, Present(u) PROVE Present(u)' \/ u \in missed'
    <3>1. CASE pk[o] = u
      BY <1>t, <2>1, <3>1
    <3>2. CASE pk[o] # u
      BY <2>1, <2>2, <2>3, <3>2 DEF Present, Ending
    <3> QED BY <3>1, <3>2
  <2> QED BY <2>1, <2>3, ShownKept
<1>12. CASE Crash
  BY <1>12 DEF Crash, FriendsLearn
<1>13. ASSUME NEW k \in Tokens, NEW u \in Users, Issue(k, u) PROVE FriendsLearn'
  BY <1>1, <1>13 DEF Issue
<1>14. ASSUME NEW u \in Users, Expire(u) PROVE FriendsLearn'
  BY <1>1, <1>14 DEF Expire
<1>15. ASSUME NEW o \in Objs, Accept(o) PROVE FriendsLearn'
  BY <1>1, <1>15 DEF Accept
<1>16. CASE UNCHANGED vars
  BY <1>1, <1>16 DEF vars
<1> QED
  BY <1>6, <1>7, <1>8, <1>10, <1>11, <1>12, <1>13, <1>14, <1>15, <1>16 DEF Next

----------------------------------------------------------------------------
(* The costume in Redis *)

\* A step that changes no costume and adds no thread that has one to copy.
LEMMA EquipKept ==
  ASSUME EquipInv, stale \subseteq stale', wears' = wears, equip' = equip,
         \A u \in Users \ stale' :
           /\ Changing(u)' = Changing(u)
           /\ \A t \in Changing(u) : job'[t].item = job[t].item
  PROVE  EquipInv'
<1> QED BY DEF EquipInv

LEMMA EquipStep == ASSUME Shape, EquipInv, [Next]_vars PROVE EquipInv'
<1> USE DEF redis, session, ghosts, marks, Calm, LeaveCalm, CallError, Fault, Counts
<1>t. /\ job \in [Threads -> Jobs] /\ equip \in [Users -> Items \cup {NoItem}]
      /\ wears \in [Users -> Items \cup {NoItem}]
  BY DEF Shape, TypeOK
<1>1. ASSUME UNCHANGED <<job, wears, equip, stale>> PROVE EquipInv'
  BY <1>1, EquipKept DEF Changing, At
<1>2. ASSUME NEW t \in Threads, \A r \in Threads \ {t} : job'[r] = job[r],
             job[t].at # "equip", job'[t].at # "equip", UNCHANGED <<wears, equip, stale>>
      PROVE  EquipInv'
  <2>1. \A u \in Users : Changing(u)' = Changing(u)
    BY <1>2 DEF Changing, At
  <2>2. \A u \in Users : \A r \in Changing(u) : job'[r].item = job[r].item
    BY <1>2 DEF Changing, At
  <2> QED BY <1>2, <2>1, <2>2, EquipKept
<1>3. ASSUME NEW t \in Threads, UpdateEquipSlot(t) PROVE EquipInv'
  <2> PICK w : w = job[t].user
    OBVIOUS
  <2> PICK i : i = job[t].item
    OBVIOUS
  <2>1. /\ job[t].at = "update" /\ Goes(t, "equip") /\ equip' = equip
        /\ wears' = [wears EXCEPT ![w] = i]
        /\ stale' = IF Changing(w) = {} THEN stale ELSE stale \cup {w}
    BY <1>3 DEF UpdateEquipSlot, At
  <2>2. w \in Users
    BY <2>1, Busy
  <2>3. /\ \A r \in Threads \ {t} : job'[r] = job[r]
        /\ job'[t].at = "equip" /\ job'[t].user = w /\ job'[t].item = i
    BY <1>t, <2>1, GoesFields
  <2> SUFFICES ASSUME NEW u \in Users \ stale'
               PROVE  /\ \A r \in Changing(u)' : job'[r].item = wears'[u]
                      /\ \A r, q \in Changing(u)' : r = q
                      /\ Changing(u)' # {} \/ equip'[u] \in {NoItem, wears'[u]}
    BY DEF EquipInv
  <2>4. CASE u = w
    <3>1. Changing(u) = {}
      BY <2>1, <2>4
    <3>2. Changing(u)' = {t}
      BY <2>3, <2>4, <3>1 DEF Changing, At
    <3>3. wears'[u] = i
      BY <1>t, <2>1, <2>2, <2>4
    <3> QED BY <2>3, <3>2, <3>3
  <2>5. CASE u # w
    <3>1. Changing(u)' = Changing(u) /\ t \notin Changing(u)
      BY <2>1, <2>3, <2>5 DEF Changing, At
    <3>2. \A r \in Changing(u) : job'[r] = job[r]
      BY <2>3, <3>1 DEF Changing
    <3>3. wears'[u] = wears[u] /\ equip'[u] = equip[u] /\ u \in Users \ stale
      BY <1>t, <2>1, <2>5
    <3> QED BY <3>1, <3>2, <3>3 DEF EquipInv
  <2> QED BY <2>4, <2>5
<1>4. ASSUME NEW t \in Threads, CacheEquip(t) PROVE EquipInv'
  <2> PICK w : w = job[t].user
    OBVIOUS
  <2> PICK i : i = job[t].item
    OBVIOUS
  <2>1. /\ job[t].at = "equip" /\ Ends(t) /\ wears' = wears /\ stale' = stale
        /\ equip' = [equip EXCEPT ![w] = i]
    BY <1>4 DEF CacheEquip, At
  <2>2. w \in Users /\ t \in Changing(w)
    BY <2>1, Busy DEF Changing, At
  <2>3. /\ \A r \in Threads \ {t} : job'[r] = job[r]
        /\ job'[t].at = "idle"
    BY <1>t, <2>1, EndsFields
  <2> SUFFICES ASSUME NEW u \in Users \ stale'
               PROVE  /\ \A r \in Changing(u)' : job'[r].item = wears'[u]
                      /\ \A r, q \in Changing(u)' : r = q
                      /\ Changing(u)' # {} \/ equip'[u] \in {NoItem, wears'[u]}
    BY DEF EquipInv
  <2>4. CASE u = w
    <3>1. i = wears[u] /\ \A r \in Changing(u) : r = t
      BY <2>1, <2>2, <2>4 DEF EquipInv
    <3>2. Changing(u)' = {}
      BY <2>3, <3>1 DEF Changing, At
    <3>3. equip'[u] = i
      BY <1>t, <2>1, <2>2, <2>4
    <3> QED BY <2>1, <3>1, <3>2, <3>3
  <2>5. CASE u # w
    <3>1. Changing(u)' = Changing(u) /\ t \notin Changing(u)
      BY <2>1, <2>3, <2>5 DEF Changing, At
    <3>2. \A r \in Changing(u) : job'[r] = job[r]
      BY <2>3, <3>1 DEF Changing
    <3>3. wears'[u] = wears[u] /\ equip'[u] = equip[u] /\ u \in Users \ stale
      BY <1>t, <2>1, <2>5
    <3> QED BY <3>1, <3>2, <3>3 DEF EquipInv
  <2> QED BY <2>4, <2>5
<1>5. ASSUME NEW t \in Threads, CallFails(t) PROVE EquipInv'
  <2>1. /\ Ends(t) /\ UNCHANGED <<wears, equip>>
        /\ stale' = IF job[t].at = "equip" THEN stale \cup {job[t].user} ELSE stale
    BY <1>5 DEF CallFails
  <2>2. /\ \A r \in Threads \ {t} : job'[r] = job[r]
        /\ job'[t].at = "idle"
    BY <1>t, <2>1, EndsFields
  <2>3. \A u \in Users \ stale' : t \notin Changing(u)
    BY <2>1 DEF Changing, At
  <2>4. \A u \in Users \ stale' : Changing(u)' = Changing(u)
    BY <2>2, <2>3 DEF Changing, At
  <2>5. \A u \in Users \ stale' : \A r \in Changing(u) : job'[r].item = job[r].item
    BY <2>2, <2>3 DEF Changing
  <2> QED BY <2>1, <2>4, <2>5, EquipKept
<1>6. ASSUME NEW t \in Threads, NEW o \in Objs, NEW c,
             (\E k \in Tokens : RequestLogin(t, o, c, k))
             \/ (\E item \in Items : RequestCostume(t, o, c, item))
      PROVE  EquipInv'
  <2>1. /\ \A r \in Threads \ {t} : job'[r] = job[r]
        /\ job[t].at = "idle" /\ job'[t].at \in {"hget", "update"}
        /\ UNCHANGED <<wears, equip, stale>>
    BY <1>t, <1>6, TakeFields
  <2> QED BY <1>2, <2>1
<1>7. ASSUME NEW t \in Threads, Work(t) PROVE EquipInv'
  <2>1. ASSUME NEW at, Ends(t) \/ Goes(t, at), job[t].at # "equip", at # "equip",
               UNCHANGED <<wears, equip, stale>>
        PROVE  EquipInv'
    <3>1. (\A r \in Threads \ {t} : job'[r] = job[r]) /\ job'[t].at # "equip"
      BY <1>t, <2>1, GoesFields, EndsFields
    <3> QED BY <1>2, <2>1, <3>1
  <2>2. CASE CheckToken(t)
    BY <2>1, <2>2 DEF CheckToken, At
  <2>3. CASE UseToken(t)
    BY <2>1, <2>3 DEF UseToken, At
  <2>4. CASE TellOnline(t)
    BY <2>1, <2>4 DEF TellOnline, At
  <2>5. CASE SetSession(t)
    BY <2>1, <2>5 DEF SetSession, At
  <2>6. CASE StoreState(t)
    BY <2>1, <2>6 DEF StoreState, At
  <2>7. CASE LimitState(t)
    BY <2>1, <2>7 DEF LimitState, At
  <2>8. CASE SetPkToObjNum(t)
    BY <2>1, <2>8 DEF SetPkToObjNum, At
  <2> QED
    BY <1>3, <1>4, <1>5, <1>7, <2>2, <2>3, <2>4, <2>5, <2>6, <2>7, <2>8 DEF Work
<1>8. ASSUME NEW w \in Workers, StoreOffline(w) PROVE EquipInv'
  <2>1. /\ UNCHANGED <<job, wears, stale>>
        /\ equip' = [equip EXCEPT ![leaving[w].user] = NoItem]
    BY <1>8 DEF StoreOffline
  <2>2. \A u \in Users : equip'[u] \in {NoItem, equip[u]}
    BY <1>t, <2>1
  <2> QED BY <2>1, <2>2 DEF EquipInv, Changing, At
<1>9. ASSUME NEW w \in Workers, Logout(w) PROVE EquipInv'
  BY <1>1, <1>8, <1>9
  DEF Logout, TellOffline, DelPkToObjNum, Reset, Clears, LogoutCallFails
<1>14. ASSUME NEW o \in Objs, Accept(o) \/ Refuse(o) \/ \E w \in Workers : Drop(w, o)
       PROVE  EquipInv'
  BY <1>1, <1>14 DEF Accept, Refuse, Clears, Drop
<1>10. CASE Crash
  <2>1. /\ UNCHANGED <<wears, equip>> /\ job' = [t \in Threads |-> Idle]
        /\ stale' = stale \cup {u \in Users : Changing(u) # {}}
    BY <1>10 DEF Crash
  <2>2. \A u \in Users \ stale' : Changing(u) = {} /\ Changing(u)' = {}
    BY <2>1 DEF Changing, At, Idle
  <2> QED BY <2>1, <2>2, EquipKept
<1>11. ASSUME NEW k \in Tokens, NEW u \in Users, Issue(k, u) PROVE EquipInv'
  BY <1>1, <1>11 DEF Issue
<1>12. ASSUME NEW u \in Users, Expire(u) PROVE EquipInv'
  BY <1>1, <1>12 DEF Expire
<1>13. CASE UNCHANGED vars
  BY <1>1, <1>13 DEF vars
<1> QED
  BY <1>6, <1>7, <1>9, <1>10, <1>11, <1>12, <1>13, <1>14 DEF Next

----------------------------------------------------------------------------
(* The life of the user key *)

LEMMA LimitStep == ASSUME Shape, LobbyIsLimited, [Next]_vars PROVE LobbyIsLimited'
<1> USE DEF redis, session, ghosts, marks, Calm, At, LeaveCalm, CallError, Fault, Counts
<1>t. /\ job \in [Threads -> Jobs] /\ state \in [Users -> {"none", "lobby", "offline"}]
      /\ ttl \in SUBSET Users
  BY DEF Shape, TypeOK
<1>1. ASSUME UNCHANGED <<job, state, unlimited>>, ttl \subseteq ttl'
      PROVE  LobbyIsLimited'
  BY <1>1 DEF LobbyIsLimited
<1>2. ASSUME NEW t \in Threads, \A r \in Threads \ {t} : job'[r] = job[r],
             job[t].at # "expire", UNCHANGED <<state, ttl, unlimited>>
      PROVE  LobbyIsLimited'
  BY <1>2 DEF LobbyIsLimited
<1>3. ASSUME NEW t \in Threads, StoreState(t) PROVE LobbyIsLimited'
  <2>1. /\ Goes(t, "expire") /\ job[t].at = "hset" /\ UNCHANGED <<ttl, unlimited>>
        /\ state' = [state EXCEPT ![job[t].user] = "lobby"]
    BY <1>3 DEF StoreState
  <2>2. /\ \A r \in Threads \ {t} : job'[r] = job[r]
        /\ job'[t].at = "expire" /\ job'[t].user = job[t].user
    BY <1>t, <2>1, GoesFields
  <2>3. \A u \in Users : u # job[t].user => state'[u] = state[u]
    BY <1>t, <2>1
  <2> QED BY <2>1, <2>2, <2>3 DEF LobbyIsLimited
<1>4. ASSUME NEW t \in Threads, LimitState(t) PROVE LobbyIsLimited'
  <2> PICK v : v = job[t].user
    OBVIOUS
  <2>1. /\ Ends(t) /\ state' = state /\ unlimited' = unlimited \ {v}
        /\ ttl' = IF state[v] = "none" THEN ttl ELSE ttl \cup {v}
    BY <1>4 DEF LimitState
  <2>2. \A r \in Threads \ {t} : job'[r] = job[r]
    BY <1>t, <2>1, EndsFields
  <2>3. state'[v] = "lobby" => v \in ttl'
    BY <2>1
  <2> QED BY <2>1, <2>2, <2>3 DEF LobbyIsLimited
<1>5. ASSUME NEW t \in Threads, Work(t) PROVE LobbyIsLimited'
  <2>1. ASSUME NEW at, Ends(t) \/ Goes(t, at), job[t].at # "expire",
               UNCHANGED <<state, ttl, unlimited>>
        PROVE  LobbyIsLimited'
    <3>1. \A r \in Threads \ {t} : job'[r] = job[r]
      BY <1>t, <2>1, GoesFields, EndsFields
    <3> QED BY <1>2, <2>1, <3>1
  <2>2. CASE CheckToken(t)
    BY <2>1, <2>2 DEF CheckToken
  <2>3. CASE UseToken(t)
    BY <2>1, <2>3 DEF UseToken
  <2>4. CASE TellOnline(t)
    BY <2>1, <2>4 DEF TellOnline
  <2>5. CASE SetSession(t)
    BY <2>1, <2>5 DEF SetSession
  <2>6. CASE UpdateEquipSlot(t)
    BY <2>1, <2>6 DEF UpdateEquipSlot
  <2>7. CASE CacheEquip(t)
    BY <2>1, <2>7 DEF CacheEquip
  <2>8. CASE CallFails(t)
    BY <2>1, <2>8 DEF CallFails
  <2>9. CASE SetPkToObjNum(t)
    BY <2>1, <2>9 DEF SetPkToObjNum
  <2> QED BY <1>3, <1>4, <1>5, <2>2, <2>3, <2>4, <2>5, <2>6, <2>7, <2>8, <2>9 DEF Work
<1>6. ASSUME NEW t \in Threads, NEW o \in Objs, NEW c,
             (\E k \in Tokens : RequestLogin(t, o, c, k))
             \/ (\E item \in Items : RequestCostume(t, o, c, item))
      PROVE  LobbyIsLimited'
  <2>1. /\ \A r \in Threads \ {t} : job'[r] = job[r]
        /\ job[t].at = "idle" /\ UNCHANGED <<state, ttl, unlimited>>
    BY <1>t, <1>6, TakeFields
  <2> QED BY <1>2, <2>1
<1>7. ASSUME NEW w \in Workers, StoreOffline(w) PROVE LobbyIsLimited'
  <2> PICK v : v = leaving[w].user
    OBVIOUS
  <2>1. /\ job' = job /\ ttl \subseteq ttl' /\ unlimited' = unlimited \ {v}
        /\ state' = [state EXCEPT ![v] = "offline"]
    BY <1>7 DEF StoreOffline
  <2>2. \A u \in Users : state'[u] = "lobby" => state[u] = "lobby" /\ u # v
    BY <1>t, <2>1
  <2> QED BY <2>1, <2>2 DEF LobbyIsLimited
<1>8. ASSUME NEW w \in Workers, Logout(w) PROVE LobbyIsLimited'
  BY <1>1, <1>7, <1>8
  DEF Logout, TellOffline, DelPkToObjNum, Reset, Clears, LogoutCallFails
<1>13. ASSUME NEW o \in Objs, Accept(o) \/ Refuse(o) \/ \E w \in Workers : Drop(w, o)
       PROVE  LobbyIsLimited'
  BY <1>1, <1>13 DEF Accept, Refuse, Clears, Drop
<1>9. CASE Crash
  BY <1>9 DEF Crash, LobbyIsLimited
<1>10. ASSUME NEW k \in Tokens, NEW u \in Users, Issue(k, u) PROVE LobbyIsLimited'
  BY <1>1, <1>10 DEF Issue
<1>11. ASSUME NEW u \in Users, Expire(u) PROVE LobbyIsLimited'
  <2>1. UNCHANGED <<job, unlimited>> /\ ttl' = ttl \ {u}
        /\ state' = [state EXCEPT ![u] = "none"]
    BY <1>11 DEF Expire
  <2>2. \A w \in Users : state'[w] = "lobby" => state[w] = "lobby" /\ w # u
    BY <1>t, <2>1
  <2> QED BY <2>1, <2>2 DEF LobbyIsLimited
<1>12. CASE UNCHANGED vars
  BY <1>1, <1>12 DEF vars
<1> QED
  BY <1>5, <1>6, <1>8, <1>9, <1>10, <1>11, <1>12, <1>13 DEF Next

----------------------------------------------------------------------------
(* Theorems *)

Inv == Shape /\ TokenInv /\ Proven /\ Mapped /\ FriendsLearn /\ EquipInv /\ LobbyIsLimited

LEMMA InvInit == Init => Inv
<1> SUFFICES ASSUME Init PROVE Inv
  OBVIOUS
<1>1. Shape /\ TokenInv
  BY ShapeInit, TokenInit
<1>2. Proven /\ LobbyIsLimited /\ FriendsLearn
  BY DEF Init, Proven, Idle, LobbyIsLimited, FriendsLearn
<1>3. Mapped
  BY SessionAssumption DEF Init, Mapped
<1>4. EquipInv
  BY DEF Init, EquipInv, Changing, At, Idle
<1> QED BY <1>1, <1>2, <1>3, <1>4 DEF Inv

LEMMA InvStep == Inv /\ [Next]_vars => Inv'
<1> SUFFICES ASSUME Inv, [Next]_vars PROVE Inv'
  OBVIOUS
<1>1. Shape /\ TokenInv /\ Proven /\ Mapped /\ FriendsLearn /\ EquipInv /\ LobbyIsLimited
  BY DEF Inv
<1>2. Shape'
  BY <1>1, ShapeStep
<1>3. TokenInv'
  BY <1>1, <1>2, TokenStep
<1>4. Proven' /\ Mapped'
  BY <1>1, ProvenStep, MappedStep
<1>5. FriendsLearn' /\ EquipInv' /\ LobbyIsLimited'
  BY <1>1, ShownStep, EquipStep, LimitStep
<1> QED BY <1>2, <1>3, <1>4, <1>5 DEF Inv

LEMMA Invariance == Spec => []Inv
<1> QED BY InvInit, InvStep, PTL DEF Spec

\* Every state is of its type, a request past its start names its connection, its user
\* and, where it uses them, its token or costume, and a logout under way its user.
THEOREM SessionTypes == Spec => []Shape
<1>1. Inv => Shape
  BY DEF Inv
<1> QED BY <1>1, Invariance, PTL

\* A token is accepted at most once for each Redis thread, whatever the number of
\* attempts, of connections and of threads (VerifyUserToken).
THEOREM TokenReuseIsBounded == Spec => []TokenReuse
<1>1. Inv => TokenReuse
  <2> SUFFICES ASSUME Inv, NEW k \in Tokens PROVE uses[k] <= Cardinality(Threads)
    BY DEF TokenReuse
  <2>1. /\ uses[k] \in Nat /\ Cardinality(Threads) \in Nat
        /\ uses[k] + Cardinality(Using(k)) <= Cardinality(Threads)
    BY SessionAssumption, FS_CardinalityType DEF Inv, Shape, TypeOK, TokenInv
  <2>2. Cardinality(Using(k)) \in Nat
    BY UsingFinite
  <2> QED BY <2>1, <2>2
<1> QED BY <1>1, Invariance, PTL

\* The map leads to a connection that has proved to be its user's, except for the users
\* of tainted, over any number of workers that log out one object, early or late
\* (GetObjNumByPk).
THEOREM MapLeadsToUser == Spec => []NoMisroute
<1>1. Inv => NoMisroute
  BY DEF Inv, Mapped, NoMisroute
<1> QED BY <1>1, Invariance, PTL

\* Nobody stays online for their friends who is gone, except for the users of missed,
\* over any number of workers that log out one object, early or late
\* (NotifyFriendOnline, NotifyFriendOffline).
THEOREM FriendsAreTold == Spec => []FriendsLearn
<1>1. Inv => FriendsLearn
  BY DEF Inv
<1> QED BY <1>1, Invariance, PTL

\* Redis and the database agree on a costume, except for the users of stale
\* (ProcessCostumeChange).
THEOREM CostumesAgree == Spec => []EquipFollows
<1>1. Inv => EquipFollows
  BY DEF Inv, EquipInv, EquipFollows
<1> QED BY <1>1, Invariance, PTL

\* A key that says lobby ends, except for the users of unlimited (UserConnect).
THEOREM LobbyEnds == Spec => []LobbyIsLimited
<1>1. Inv => LobbyIsLimited
  BY DEF Inv
<1> QED BY <1>1, Invariance, PTL
=============================================================================
