--------------------------- MODULE Friend_proofs ---------------------------
(***************************************************************************)
(* Theorems about Friend, for any users and any number of workers.         *)
(***************************************************************************)
EXTENDS Friend, TLAPS

Rows == [user : Users, friend : Users, status : {Sent, Accepted, Received}]

----------------------------------------------------------------------------
(* Rows *)

\* A row is determined by its fields.
LEMMA RowFields ==
  /\ \A u, v, s : /\ Row(u, v, s).user = u
                  /\ Row(u, v, s).friend = v
                  /\ Row(u, v, s).status = s
  /\ \A r \in Rows : r = Row(r.user, r.friend, r.status)
  /\ \A u, v \in Users, s \in {Sent, Accepted, Received} : Row(u, v, s) \in Rows
BY DEF Row, Rows

\* What accepting does to a row.
LEMMA AcceptedRow ==
  ASSUME NEW r \in Rows
  PROVE  [r EXCEPT !.status = Accepted] = Row(r.user, r.friend, Accepted)
BY DEF Rows, Row

LEMMA MirrorStatus ==
  \A s \in {Sent, Accepted, Received} :
    Mirror(s) \in {Sent, Accepted, Received} /\ Mirror(Mirror(s)) = s
BY DEF Mirror, Sent, Accepted, Received

----------------------------------------------------------------------------
(* The inductive invariant *)

IInv == TypeOK /\ Paired

LEMMA InitIInv == Init => IInv
BY DEF Init, IInv, TypeOK, Paired

\* A new relation: both rows, where there was none.
LEMMA InsertKeeps ==
  ASSUME IInv, NEW w \in Workers, InsertRequest(w)
  PROVE  IInv'
<1> DEFINE u == checked[w].from
           v == checked[w].to
<1> USE DEF IInv
<1>1. u \in Users /\ v \in Users /\ u # v
  BY DEF InsertRequest, TypeOK
<1>2. /\ Between(u, v) = {}
      /\ friend' = friend \cup {Row(u, v, Sent), Row(v, u, Received)}
      /\ checked' = [checked EXCEPT ![w] = NoRequest]
  BY DEF InsertRequest
<1> HIDE DEF u, v
<1>3. \A r \in friend : /\ ~(r.user = u /\ r.friend = v)
                        /\ ~(r.user = v /\ r.friend = u)
  BY <1>2 DEF Between
<1>4. TypeOK'
  BY <1>1, <1>2, RowFields DEF TypeOK, Rows
<1>5. \A r \in friend' : Row(r.friend, r.user, Mirror(r.status)) \in friend'
  <2>1. \A r \in friend : Row(r.friend, r.user, Mirror(r.status)) \in friend'
    BY <1>2 DEF Paired
  <2>2. Mirror(Sent) = Received /\ Mirror(Received) = Sent
    BY DEF Mirror, Sent, Received, Accepted
  <2> QED BY <1>2, <2>1, <2>2, RowFields
<1>6. \A r, q \in friend' : r.user = q.user /\ r.friend = q.friend => r = q
  BY <1>1, <1>2, <1>3, RowFields DEF Paired
<1> QED BY <1>4, <1>5, <1>6 DEF Paired

\* Both rows of a relation become Accepted.
LEMMA AcceptKeeps ==
  ASSUME IInv, NEW w \in Workers, NEW u \in Users, NEW v \in Users,
         AcceptFriend(w, u, v)
  PROVE  IInv'
<1> USE DEF IInv
<1> DEFINE B == Between(u, v)
<1>1. B \subseteq friend /\ friend \subseteq Rows
  BY DEF Between, TypeOK, Rows
<1>2. friend' = (friend \ B) \cup {Row(r.user, r.friend, Accepted) : r \in B}
  <2>1. {[r EXCEPT !.status = Accepted] : r \in B}
          = {Row(r.user, r.friend, Accepted) : r \in B}
    BY <1>1, AcceptedRow
  <2> QED BY <2>1 DEF AcceptFriend
<1>3. UNCHANGED checked
  BY DEF AcceptFriend
<1>4. \A r \in friend : r \in B <=> \/ r.user = u /\ r.friend = v
                                    \/ r.user = v /\ r.friend = u
  BY DEF Between
<1> HIDE DEF B
<1>5. friend' \subseteq Rows /\ \A r \in friend' : r.user # r.friend
  BY <1>1, <1>2, RowFields DEF TypeOK, Rows
<1>6. TypeOK'
  BY <1>3, <1>5 DEF TypeOK, Rows
\* Where a row of friend' comes from.
<1>7. \A r \in friend' :
        \E q \in friend : /\ q.user = r.user /\ q.friend = r.friend
                          /\ r = IF q \in B THEN Row(q.user, q.friend, Accepted) ELSE q
  BY <1>1, <1>2, RowFields
<1>8. ASSUME NEW r \in friend' PROVE Row(r.friend, r.user, Mirror(r.status)) \in friend'
  <2>1. PICK q \in friend :
          /\ q.user = r.user /\ q.friend = r.friend
          /\ r = IF q \in B THEN Row(q.user, q.friend, Accepted) ELSE q
    BY <1>7
  <2> DEFINE m == Row(q.friend, q.user, Mirror(q.status))
  <2>2. m \in friend /\ m.user = q.friend /\ m.friend = q.user
    BY RowFields DEF Paired
  <2>3. m \in B <=> q \in B
    BY <1>4, <2>2
  <2>4. CASE q \in B
    <3>1. Row(m.user, m.friend, Accepted) \in friend'
      BY <1>2, <2>3, <2>4
    <3>2. r.status = Accepted /\ Mirror(Accepted) = Accepted
      BY <2>1, <2>4, RowFields DEF Mirror, Sent, Accepted, Received
    <3> QED BY <2>1, <2>2, <3>1, <3>2
  <2>5. CASE q \notin B
    BY <1>2, <2>1, <2>2, <2>3, <2>5
  <2> QED BY <2>4, <2>5
<1>9. ASSUME NEW r \in friend', NEW q \in friend', r.user = q.user, r.friend = q.friend
      PROVE  r = q
  <2>1. PICK a \in friend :
          /\ a.user = r.user /\ a.friend = r.friend
          /\ r = IF a \in B THEN Row(a.user, a.friend, Accepted) ELSE a
    BY <1>7
  <2>2. PICK b \in friend :
          /\ b.user = q.user /\ b.friend = q.friend
          /\ q = IF b \in B THEN Row(b.user, b.friend, Accepted) ELSE b
    BY <1>7
  <2>3. a = b
    BY <1>9, <2>1, <2>2 DEF Paired
  <2> QED BY <2>1, <2>2, <2>3
<1> QED BY <1>6, <1>8, <1>9 DEF Paired

\* Both rows of a relation go.
LEMMA RemoveKeeps ==
  ASSUME IInv, NEW w \in Workers, NEW u \in Users, NEW v \in Users,
         RemoveFriend(w, u, v)
  PROVE  IInv'
<1> USE DEF IInv
<1>1. friend' = friend \ Between(u, v) /\ UNCHANGED checked
  BY DEF RemoveFriend
<1>2. TypeOK'
  BY <1>1 DEF TypeOK
<1>3. ASSUME NEW r \in friend' PROVE Row(r.friend, r.user, Mirror(r.status)) \in friend'
  <2>1. r \in friend /\ r \notin Between(u, v)
    BY <1>1
  <2> DEFINE m == Row(r.friend, r.user, Mirror(r.status))
  <2>2. m \in friend /\ m.user = r.friend /\ m.friend = r.user
    BY <2>1, RowFields DEF Paired
  <2>3. m \notin Between(u, v)
    BY <2>1, <2>2 DEF Between
  <2> QED BY <1>1, <2>2, <2>3
<1>4. \A r, q \in friend' : r.user = q.user /\ r.friend = q.friend => r = q
  BY <1>1 DEF Paired
<1> QED BY <1>2, <1>3, <1>4 DEF Paired

LEMMA NextIInv == IInv /\ [Next]_vars => IInv'
<1> SUFFICES ASSUME IInv, [Next]_vars PROVE IInv'
  OBVIOUS
<1>1. ASSUME NEW w \in Workers, InsertRequest(w) PROVE IInv'
  BY <1>1, InsertKeeps
<1>2. ASSUME NEW w \in Workers, InsertFails(w) PROVE IInv'
  BY <1>2 DEF InsertFails, IInv, TypeOK, Paired
<1>3. ASSUME NEW w \in Workers, NEW u \in Users, NEW v \in Users, CheckRequest(w, u, v)
      PROVE  IInv'
  <2>1. UNCHANGED friend /\ checked' = [checked EXCEPT ![w] = [from |-> u, to |-> v]]
        /\ u # v
    BY <1>3 DEF CheckRequest
  <2> QED BY <2>1 DEF IInv, TypeOK, Paired
<1>4. ASSUME NEW w \in Workers, NEW u \in Users, NEW v \in Users, AcceptFriend(w, u, v)
      PROVE  IInv'
  BY <1>4, AcceptKeeps
<1>5. ASSUME NEW w \in Workers, NEW u \in Users, NEW v \in Users, RemoveFriend(w, u, v)
      PROVE  IInv'
  BY <1>5, RemoveKeeps
<1>6. CASE UNCHANGED vars
  BY <1>6 DEF vars, IInv, TypeOK, Paired
<1> QED BY <1>1, <1>2, <1>3, <1>4, <1>5, <1>6 DEF Next

\* Rows and pending requests are always about two different users, for any users
\* and workers.
THEOREM FriendTypeCorrect == Spec => []TypeOK
<1>1. IInv => TypeOK
  BY DEF IInv
<1> QED BY InitIInv, NextIInv, <1>1, PTL DEF Spec

\* The two directions of every relation agree, for any users and any number of
\* workers whose requests overlap.
THEOREM RelationsPaired == Spec => []Paired
<1>1. IInv => Paired
  BY DEF IInv
<1> QED BY InitIInv, NextIInv, <1>1, PTL DEF Spec

\* Only a removal by one of the two ends a friendship, however requests overlap.
THEOREM FriendshipLasts == Spec => FriendsStay
<1> DEFINE Stays ==
      \A u, v \in Users :
        Row(u, v, Accepted) \in friend /\ Row(u, v, Accepted) \notin friend'
        => \E w \in Workers : RemoveFriend(w, u, v) \/ RemoveFriend(w, v, u)
<1>1. ASSUME TypeOK, [Next]_vars PROVE [Stays]_vars
  <2> SUFFICES ASSUME NEW u \in Users, NEW v \in Users,
                      Row(u, v, Accepted) \in friend, Row(u, v, Accepted) \notin friend'
               PROVE  \E w \in Workers : RemoveFriend(w, u, v) \/ RemoveFriend(w, v, u)
    OBVIOUS
  <2> DEFINE r == Row(u, v, Accepted)
  <2>r. r.user = u /\ r.friend = v /\ r.status = Accepted /\ r \in Rows
    BY RowFields
  <2>1. ASSUME NEW w \in Workers, InsertRequest(w) PROVE FALSE
    BY <2>1 DEF InsertRequest
  <2>2. ASSUME NEW w \in Workers, InsertFails(w) PROVE FALSE
    BY <2>2 DEF InsertFails
  <2>3. ASSUME NEW w \in Workers, NEW a \in Users, NEW b \in Users,
               CheckRequest(w, a, b) \/ AcceptFriend(w, a, b)
        PROVE  FALSE
    <3>1. CASE CheckRequest(w, a, b)
      BY <3>1 DEF CheckRequest
    <3>2. CASE AcceptFriend(w, a, b)
      <4>1. [r EXCEPT !.status = Accepted] = r
        BY <2>r, AcceptedRow
      <4>2. r \in friend'
        BY <3>2, <4>1 DEF AcceptFriend
      <4> QED BY <4>2
    <3> QED BY <2>3, <3>1, <3>2
  <2>4. ASSUME NEW w \in Workers, NEW a \in Users, NEW b \in Users, RemoveFriend(w, a, b)
        PROVE  RemoveFriend(w, u, v) \/ RemoveFriend(w, v, u)
    <3>1. r \in Between(a, b)
      BY <2>4 DEF RemoveFriend
    <3>2. (u = a /\ v = b) \/ (u = b /\ v = a)
      BY <3>1, <2>r DEF Between
    <3> QED BY <2>4, <3>2
  <2>5. CASE UNCHANGED vars
    BY <2>5 DEF vars
  <2> QED BY <1>1, <2>1, <2>2, <2>3, <2>4, <2>5 DEF Next
<1>2. TypeOK /\ [Next]_vars => [Stays]_vars
  BY <1>1
<1> QED BY FriendTypeCorrect, <1>2, PTL DEF Spec, FriendsStay
============================================================================
