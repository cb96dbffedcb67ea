------------------------------- MODULE Friend -------------------------------
(***************************************************************************)
(* The friend table of the database and the requests that change it.  A    *)
(* relation of two users is two rows, one per direction.  Several Redis    *)
(* threads, of any number of lobby servers, run requests at a time, each   *)
(* in a transaction of its own.                                            *)
(*                                                                         *)
(* UPDATE and DELETE lock the rows they touch until COMMIT, so they are    *)
(* one step with it; the SELECT in SendFriendRequest locks nothing and is  *)
(* a step before the INSERT.  Any statement may fail, which rolls the      *)
(* transaction back and is a stuttering step.  The schema is not in the    *)
(* repository: AcceptFriend, which wants exactly two rows to change,       *)
(* relies on a unique key (user_pk, friend_pk), and so does this module.   *)
(*                                                                         *)
(* The friend cache of a session (friendPks_) is written by these requests *)
(* and read by nothing; it is left out with the messages that only feed it *)
(* and the client.                                                         *)
(***************************************************************************)
EXTENDS Naturals, FiniteSets

CONSTANTS
  Users,
  Workers,   \* the Redis threads of all servers
  NoRequest

Sent == 0
Accepted == 1
Received == 2

ASSUME FriendAssumption == NoRequest \notin [from : Users, to : Users]

VARIABLES
  friend,    \* the rows of table friend
  checked    \* request of each worker between the SELECT and the INSERT

vars == <<friend, checked>>

Row(u, v, s) == [user |-> u, friend |-> v, status |-> s]

\* The rows the two-way WHERE clause of UPDATE and DELETE selects.
Between(u, v) ==
  {r \in friend : \/ r.user = u /\ r.friend = v
                  \/ r.user = v /\ r.friend = u}

----------------------------------------------------------------------------

\* Mutant: a user may ask itself.
CheckRequestAnybody(w, u, v) ==
  /\ checked[w] = NoRequest
  /\ \A r \in friend : ~(r.user = u /\ r.friend = v)
  /\ checked' = [checked EXCEPT ![w] = [from |-> u, to |-> v]]
  /\ UNCHANGED friend

\* ProcessFriendRequest and the first half of SendFriendRequest: u asks v, and no
\* row of u names v.
CheckRequest(w, u, v) ==
  /\ checked[w] = NoRequest
  /\ u # v
  /\ \A r \in friend : ~(r.user = u /\ r.friend = v)
  /\ checked' = [checked EXCEPT ![w] = [from |-> u, to |-> v]]
  /\ UNCHANGED friend

\* Mutant: INSERT ... ON DUPLICATE KEY UPDATE.
InsertOrUpdate(w) ==
  LET u == checked[w].from
      v == checked[w].to
  IN /\ checked[w] # NoRequest
     /\ friend' = (friend \ Between(u, v)) \cup {Row(u, v, Sent), Row(v, u, Received)}
     /\ checked' = [checked EXCEPT ![w] = NoRequest]

\* The second half: both rows or, when the key exists by now, neither.
InsertRequest(w) ==
  LET u == checked[w].from
      v == checked[w].to
  IN /\ checked[w] # NoRequest
     /\ Between(u, v) = {}
     /\ friend' = friend \cup {Row(u, v, Sent), Row(v, u, Received)}
     /\ checked' = [checked EXCEPT ![w] = NoRequest]

\* The INSERT fails: duplicate key, deadlock with another INSERT, lost connection.
InsertFails(w) ==
  /\ checked[w] # NoRequest
  /\ checked' = [checked EXCEPT ![w] = NoRequest]
  /\ UNCHANGED friend

\* ProcessFriendAccept with action 0, by u on v: MySQL counts the rows an UPDATE
\* really changes, and anything but two is rolled back.
AcceptFriend(w, u, v) ==
  /\ checked[w] = NoRequest
  /\ Cardinality({r \in Between(u, v) : r.status # Accepted}) = 2
  /\ friend' = (friend \ Between(u, v))
                 \cup {[r EXCEPT !.status = Accepted] : r \in Between(u, v)}
  /\ UNCHANGED checked

\* Mutant: DELETE in one direction.
RemoveOneWay(w, u, v) ==
  /\ checked[w] = NoRequest
  /\ Between(u, v) # {}
  /\ friend' = {r \in friend : ~(r.user = u /\ r.friend = v)}
  /\ UNCHANGED checked

\* ProcessFriendAccept with any other action, by u on v: refuse, cancel or unfriend.
RemoveFriend(w, u, v) ==
  /\ checked[w] = NoRequest
  /\ Between(u, v) # {}
  /\ friend' = friend \ Between(u, v)
  /\ UNCHANGED checked

----------------------------------------------------------------------------

Init ==
  /\ friend = {}
  /\ checked = [w \in Workers |-> NoRequest]

Next ==
  \E w \in Workers :
    \/ InsertRequest(w)
    \/ InsertFails(w)
    \/ \E u, v \in Users :
         \/ CheckRequest(w, u, v)
         \/ AcceptFriend(w, u, v)
         \/ RemoveFriend(w, u, v)

Spec == Init /\ [][Next]_vars

----------------------------------------------------------------------------
(* Properties *)

\* Rows and requests are about two different users (ProcessFriendRequest refuses
\* the sender's own id).
TypeOK ==
  /\ friend \subseteq [user : Users, friend : Users,
                       status : {Sent, Accepted, Received}]
  /\ \A r \in friend : r.user # r.friend
  /\ checked \in [Workers -> [from : Users, to : Users] \cup {NoRequest}]
  /\ \A w \in Workers : checked[w] # NoRequest => checked[w].from # checked[w].to

Mirror(s) == CASE s = Sent -> Received
               [] s = Received -> Sent
               [] s = Accepted -> Accepted

\* The two rows of a relation always agree: both accepted, or one sent and one
\* received, and never a row without its mirror or two rows for one direction,
\* whatever requests the two users run against each other.
Paired ==
  /\ \A r \in friend : Row(r.friend, r.user, Mirror(r.status)) \in friend
  /\ \A r, q \in friend : r.user = q.user /\ r.friend = q.friend => r = q

\* Friends stay friends until one of them removes the other: a request that was
\* checked before they became friends does not fall back on "requested".
FriendsStay ==
  [][\A u, v \in Users :
       Row(u, v, Accepted) \in friend /\ Row(u, v, Accepted) \notin friend'
       => \E w \in Workers : RemoveFriend(w, u, v) \/ RemoveFriend(w, v, u)]_vars
=============================================================================
