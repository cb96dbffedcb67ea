------------------------------- MODULE ConnIO -------------------------------
(***************************************************************************)
(* One connection object (ConnUser) and the threads that drive it: the     *)
(* accepter takes it from AcceptQueue and posts an AcceptEx, the IOCP      *)
(* workers take completions, receive again, continue the send queue or,    *)
(* when an operation failed, reset the object and queue it for accept;     *)
(* Redis threads and the subscriber push messages to it at any time.       *)
(* Objects share only the queue and the pool of overlapped structures, so  *)
(* one object is enough.                                                   *)
(*                                                                         *)
(* Reset closes the socket and opens a new one; sockets are numbered in    *)
(* that order.  What was pending on a closed socket still completes, and   *)
(* is dispatched by the number of the object alone.                        *)
(***************************************************************************)
EXTENDS Integers, FiniteSets

CONSTANTS
  Workers,   \* the IOCP worker threads (MaxThreadCnt)
  Pushers,   \* the Redis threads and the subscriber thread
  SizeMod,   \* 2^16: sendQueueSize is an atomic<uint16_t>
  MaxSock,   \* bound: sockets ever opened for the object
  MaxMsgs    \* bound: messages ever pushed to it

ASSUME ConnIOAssumption ==
  /\ IsFiniteSet(Workers) /\ IsFiniteSet(Pushers)
  /\ SizeMod \in Nat /\ SizeMod > 1
  /\ MaxSock \in Nat /\ MaxSock > 0
  /\ MaxMsgs \in Nat

VARIABLES
  sock,           \* number of the current socket
  open,           \* whether the current socket is connected
  acc,            \* sockets with an AcceptEx outstanding
  rcv,            \* WSARecv outstanding, per socket
  snd,            \* WSASend outstanding, per socket
  queued,         \* entries of this object in AcceptQueue
  accepter,       \* whether the accepter thread has popped the object
  sendQueue,      \* number of messages in it
  sendQueueSize,
  wpc,            \* where each worker is with a completion of this object
  ppc,            \* where each pusher is in PushSendMsg
  pushed,         \* messages pushed so far
  lost,           \* sends that failed: SendComplete never runs for them
  raced           \* whether two threads ever were in PushSendMsg at once

vars == <<sock, open, acc, rcv, snd, queued, accepter, sendQueue, sendQueueSize,
          wpc, ppc, pushed, lost, raced>>

Socks == 1 .. MaxSock

Sends == <<sendQueue, sendQueueSize, ppc, pushed, lost, raced>>

WorkerAt(L) == {w \in Workers : wpc[w] \in L}

PusherAt(L) == {p \in Pushers : ppc[p] \in L}

GoW(w, from, to) == wpc[w] = from /\ wpc' = [wpc EXCEPT ![w] = to]

GoP(p, from, to) == ppc[p] = from /\ ppc' = [ppc EXCEPT ![p] = to]

----------------------------------------------------------------------------
(* Accepting *)

\* AccepterThread pops the object.
PopAccept ==
  /\ queued > 0
  /\ ~accepter
  /\ queued' = queued - 1
  /\ accepter' = TRUE
  /\ UNCHANGED <<sock, open, acc, rcv, snd, wpc, Sends>>

\* PostAccept: AcceptEx wants a socket that is neither connected nor accepting.
PostAccept ==
  /\ accepter
  /\ ~open /\ sock \notin acc
  /\ acc' = acc \cup {sock}
  /\ accepter' = FALSE
  /\ UNCHANGED <<sock, open, rcv, snd, queued, wpc, Sends>>

\* AcceptEx fails, at the latest for want of such a socket; the object goes back.
AcceptExFails ==
  /\ accepter
  /\ accepter' = FALSE
  /\ queued' = queued + 1
  /\ UNCHANGED <<sock, open, acc, rcv, snd, wpc, Sends>>

----------------------------------------------------------------------------
(* Completions: GetQueuedCompletionStatus hands one to a waiting worker.   *)
(* An operation on a closed socket may have succeeded before the close.    *)

\* A client is connected.
TakeAccept(w, s) ==
  /\ s \in acc
  /\ acc' = acc \ {s}
  /\ open' = (open \/ s = sock)
  /\ GoW(w, "wait", "accepted")
  /\ UNCHANGED <<sock, rcv, snd, queued, accepter, Sends>>

\* Mutant: a failed accept only frees the overlapped structure.
TakeAcceptFailedDropped(w, s) ==
  /\ s \in acc
  /\ acc' = acc \ {s}
  /\ wpc[w] = "wait"
  /\ UNCHANGED <<sock, open, rcv, snd, queued, accepter, wpc, Sends>>

TakeAcceptFailed(w, s) ==
  /\ s \in acc
  /\ acc' = acc \ {s}
  /\ GoW(w, "wait", "reset")
  /\ UNCHANGED <<sock, open, rcv, snd, queued, accepter, Sends>>

\* Data has come.
TakeRecv(w, s) ==
  /\ rcv[s] > 0
  /\ rcv' = [rcv EXCEPT ![s] = @ - 1]
  /\ GoW(w, "wait", "received")
  /\ UNCHANGED <<sock, open, acc, snd, queued, accepter, Sends>>

\* The client has closed the connection or it broke.
TakeRecvFailed(w, s) ==
  /\ rcv[s] > 0
  /\ rcv' = [rcv EXCEPT ![s] = @ - 1]
  /\ GoW(w, "wait", "reset")
  /\ UNCHANGED <<sock, open, acc, snd, queued, accepter, Sends>>

TakeSend(w, s) ==
  /\ snd[s] > 0
  /\ snd' = [snd EXCEPT ![s] = @ - 1]
  /\ GoW(w, "wait", "sent")
  /\ UNCHANGED <<sock, open, acc, rcv, queued, accepter, Sends>>

\* Runs the disconnect path, as every failed operation does, and no SendComplete.
TakeSendFailed(w, s) ==
  /\ snd[s] > 0
  /\ snd' = [snd EXCEPT ![s] = @ - 1]
  /\ lost' = lost + 1
  /\ GoW(w, "wait", "reset")
  /\ UNCHANGED <<sock, open, acc, rcv, queued, accepter, sendQueue, sendQueueSize,
                 ppc, pushed, raced>>

----------------------------------------------------------------------------
(* What a worker does with a completion *)

\* ConnUserRecv on whatever socket the object has by now; it wants a connected one.
Recv(w) ==
  /\ open
  /\ rcv' = [rcv EXCEPT ![sock] = @ + 1]
  /\ \/ GoW(w, "accepted", "wait")
     \/ GoW(w, "received", "wait")
  /\ UNCHANGED <<sock, open, acc, snd, queued, accepter, Sends>>

\* The first WSARecv of a connection fails: the object is reset.
FirstRecvFails(w) ==
  /\ GoW(w, "accepted", "reset")
  /\ UNCHANGED <<sock, open, acc, rcv, snd, queued, accepter, Sends>>

\* A later WSARecv fails: the result of ConnUserRecv is not looked at.
RecvFails(w) ==
  /\ GoW(w, "received", "wait")
  /\ UNCHANGED <<sock, open, acc, rcv, snd, queued, accepter, Sends>>

\* ConnUser::Reset, after UserDisConnect: neither touches the send queue.
Reset(w) ==
  /\ sock < MaxSock
  /\ sock' = sock + 1
  /\ open' = FALSE
  /\ GoW(w, "reset", "requeue")
  /\ UNCHANGED <<acc, rcv, snd, queued, accepter, Sends>>

\* The object goes to AcceptQueue.
Requeue(w) ==
  /\ queued' = queued + 1
  /\ GoW(w, "requeue", "wait")
  /\ UNCHANGED <<sock, open, acc, rcv, snd, accepter, Sends>>

----------------------------------------------------------------------------
(* The send queue *)

\* ProcSend: pop, and WSASend on the current socket.  Its result is not looked at;
\* a failed one has no completion.
ProcSend ==
  \/ /\ sendQueue = 0
     /\ UNCHANGED <<sendQueue, snd, lost>>
  \/ /\ sendQueue > 0
     /\ sendQueue' = sendQueue - 1
     /\ \/ /\ open
           /\ snd' = [snd EXCEPT ![sock] = @ + 1]
           /\ UNCHANGED lost
        \/ /\ lost' = lost + 1
           /\ UNCHANGED snd

\* Mutant: the counter is signed and wide.
CompleteSubSigned(w) ==
  /\ GoW(w, "sent", "more")
  /\ sendQueueSize' = sendQueueSize - 1
  /\ UNCHANGED <<sock, open, acc, rcv, snd, queued, accepter, sendQueue, ppc, pushed,
                 lost, raced>>

\* SendComplete: fetch_sub.
CompleteSub(w) ==
  /\ GoW(w, "sent", "more")
  /\ sendQueueSize' = (sendQueueSize - 1) % SizeMod
  /\ UNCHANGED <<sock, open, acc, rcv, snd, queued, accepter, sendQueue, ppc, pushed,
                 lost, raced>>

\* Mutant: load() > 1.
CompleteLoadTwo(w) ==
  /\ GoW(w, "more", IF sendQueueSize > 1 THEN "send" ELSE "wait")
  /\ UNCHANGED <<sock, open, acc, rcv, snd, queued, accepter, Sends>>

\* SendComplete: load.
CompleteLoad(w) ==
  /\ GoW(w, "more", IF sendQueueSize > 0 THEN "send" ELSE "wait")
  /\ UNCHANGED <<sock, open, acc, rcv, snd, queued, accepter, Sends>>

CompleteSend(w) ==
  /\ GoW(w, "send", "wait")
  /\ ProcSend
  /\ UNCHANGED <<sock, open, acc, rcv, queued, accepter, sendQueueSize, ppc, pushed,
                 raced>>

\* PushSendMsg: the message enters the queue.
Push(p) ==
  /\ pushed < MaxMsgs
  /\ pushed' = pushed + 1
  /\ sendQueue' = sendQueue + 1
  /\ raced' = (raced \/ \E q \in Pushers : ppc[q] # "idle")
  /\ GoP(p, "idle", "pushed")
  /\ UNCHANGED <<sock, open, acc, rcv, snd, queued, accepter, sendQueueSize, wpc, lost>>

\* Mutant: the counter is set from the queue.
PushAddStore(p) ==
  /\ GoP(p, "pushed", "added")
  /\ sendQueueSize' = sendQueue % SizeMod
  /\ UNCHANGED <<sock, open, acc, rcv, snd, queued, accepter, sendQueue, wpc, pushed,
                 lost, raced>>

\* PushSendMsg: fetch_add.
PushAdd(p) ==
  /\ GoP(p, "pushed", "added")
  /\ sendQueueSize' = (sendQueueSize + 1) % SizeMod
  /\ UNCHANGED <<sock, open, acc, rcv, snd, queued, accepter, sendQueue, wpc, pushed,
                 lost, raced>>

\* PushSendMsg: load.
PushLoad(p) ==
  /\ GoP(p, "added", IF sendQueueSize = 1 THEN "send" ELSE "idle")
  /\ UNCHANGED <<sock, open, acc, rcv, snd, queued, accepter, sendQueue,
                 sendQueueSize, wpc, pushed, lost, raced>>

PushSend(p) ==
  /\ GoP(p, "send", "idle")
  /\ ProcSend
  /\ UNCHANGED <<sock, open, acc, rcv, queued, accepter, sendQueueSize, wpc, pushed,
                 raced>>

----------------------------------------------------------------------------

\* StartWork has created the object and pushed it.
Init ==
  /\ sock = 1
  /\ open = FALSE
  /\ acc = {}
  /\ rcv = [s \in Socks |-> 0]
  /\ snd = [s \in Socks |-> 0]
  /\ queued = 1
  /\ accepter = FALSE
  /\ sendQueue = 0
  /\ sendQueueSize = 0
  /\ wpc = [w \in Workers |-> "wait"]
  /\ ppc = [p \in Pushers |-> "idle"]
  /\ pushed = 0
  /\ lost = 0
  /\ raced = FALSE

Accepter == PopAccept \/ PostAccept \/ AcceptExFails

Completion(w) ==
  \E s \in Socks :
    \/ TakeAccept(w, s) \/ TakeAcceptFailed(w, s)
    \/ TakeRecv(w, s) \/ TakeRecvFailed(w, s)
    \/ TakeSend(w, s) \/ TakeSendFailed(w, s)

Work(w) ==
  \/ Recv(w) \/ FirstRecvFails(w) \/ RecvFails(w)
  \/ Reset(w) \/ Requeue(w)
  \/ CompleteSub(w) \/ CompleteLoad(w) \/ CompleteSend(w)

PushStep(p) == PushAdd(p) \/ PushLoad(p) \/ PushSend(p)

Next ==
  \/ Accepter
  \/ \E w \in Workers : Completion(w) \/ Work(w)
  \/ \E p \in Pushers : Push(p) \/ PushStep(p)

\* Every thread goes on, and a send that is under way ends some day.
Fairness ==
  /\ \A w \in Workers : WF_vars(Work(w))
  /\ \A p \in Pushers : WF_vars(PushStep(p))
  /\ WF_vars(\E w \in Workers, s \in Socks : TakeSend(w, s) \/ TakeSendFailed(w, s))

Spec == Init /\ [][Next]_vars

FairSpec == Spec /\ Fairness

----------------------------------------------------------------------------
(* Properties *)

TypeOK ==
  /\ sock \in Socks
  /\ open \in BOOLEAN
  /\ acc \subseteq Socks
  /\ rcv \in [Socks -> Nat]
  /\ snd \in [Socks -> Nat]
  /\ queued \in Nat
  /\ accepter \in BOOLEAN
  /\ sendQueue \in Nat
  /\ sendQueueSize \in 0 .. SizeMod - 1
  /\ wpc \in [Workers -> {"wait", "accepted", "received", "reset", "requeue", "sent",
                          "more", "send"}]
  /\ ppc \in [Pushers -> {"idle", "pushed", "added", "send"}]
  /\ pushed \in 0 .. MaxMsgs
  /\ lost \in Nat
  /\ raced \in BOOLEAN

\* One element for each operation that f counts.
Operations(f) == UNION {{s} \X (1 .. f[s]) : s \in Socks}

\* The counter of the send queue counts, whatever the threads are doing, the
\* messages that are queued or on their way, those whose completion a worker has in
\* hand, and those that failed; a message between push and fetch_add not yet.
Accounted ==
  sendQueueSize = (sendQueue + Cardinality(Operations(snd)) + lost
                   + Cardinality(WorkerAt({"sent"})) - Cardinality(PusherAt({"pushed"})))
                    % SizeMod

\* Everything that can bring the object back to a client: an entry in AcceptQueue or
\* in the accepter's hands, an AcceptEx, a WSARecv, a worker on its way to one.
Lives ==
  queued + (IF accepter THEN 1 ELSE 0) + Cardinality(acc) + Cardinality(Operations(rcv))
    + Cardinality(WorkerAt({"accepted", "received", "reset", "requeue"}))

\* The object has exactly one life, except that a failed send gives it another (the
\* disconnect path runs for it as well as for the receive) and a receive that
\* cannot be posted again takes one.
OneLife ==
  [][Lives' # Lives
     => \E w \in Workers :
          \/ Lives' = Lives + 1 /\ \E s \in Socks : TakeSendFailed(w, s)
          \/ Lives' = Lives - 1 /\ RecvFails(w)]_vars

\* Messages that wait leave in the end, unless a send fails (its completion does
\* not count down) or two threads push at once (each may find a size of 2, and
\* then neither starts the send).
WaitingLeave ==
  sendQueue > 0 ~> sendQueue = 0 \/ lost > 0 \/ raced
=============================================================================
