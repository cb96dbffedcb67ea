------------------------------- MODULE Ingest -------------------------------
(***************************************************************************)
(* The way of a request from the client to its handler, on one connection  *)
(* object: the client's TCP stream, the IOCP worker that writes what one   *)
(* receive brought into the circular buffer and queues its size, and the   *)
(* Redis threads, each of which pops a size, reads as many bytes and       *)
(* handles them as one packet.  A size is popped in one step, the bytes    *)
(* are read in another, and the handler works on readData, of which the    *)
(* connection has only one.                                                *)
(*                                                                         *)
(* A byte is a pair of the packet's number and the byte's place in it.     *)
(***************************************************************************)
EXTENDS CircularBuffer, FiniteSets

CONSTANTS
  Threads,     \* the Redis threads
  Lengths,     \* lengths of requests
  MaxRecv,     \* MAX_RECV_SIZE
  MaxPackets,  \* bound: requests ever sent
  MaxConns     \* bound: clients that use the object one after the other

ASSUME IngestAssumption ==
  /\ IsFiniteSet(Threads)
  /\ Lengths \subseteq 1 .. MaxRecv
  /\ {MaxRecv, MaxPackets, MaxConns} \subseteq Nat \ {0}
  /\ (1 .. MaxPackets) \X (1 .. MaxRecv) \subseteq Bytes

VARIABLES
  stream,        \* bytes the client has sent and no receive has brought
  packets,       \* length of every request sent so far
  conn,          \* number of the client
  worker,        \* where the IOCP worker is with a completed receive
  chunk,         \* what that receive brought
  procSktQueue,  \* sizes queued for the Redis threads
  thread,        \* where each Redis thread is
  refused,       \* bytes the buffer had no room for
  calm,          \* whether nothing has disturbed the pipeline, see HandledAsSent
  due            \* while calm: what was received, from whom, and is not handled yet

ingestVars == <<stream, packets, conn, worker, chunk, procSktQueue, thread, refused,
                calm, due>>

vars == <<bufferVars, ingestVars>>

Idle == [at |-> "idle", size |-> 0, first |-> Junk]

Undefined == [Idle EXCEPT !.at = "undefined"]

Cells(n, len) == [i \in 1 .. len |-> <<n, i>>]

IsPacket(data) ==
  \E n \in 1 .. Len(packets) : data = Cells(n, packets[n])

\* Nothing of the client is on its way to a handler.
Drained ==
  /\ worker = "recv" /\ procSktQueue = <<>> /\ currentSize = 0
  /\ \A t \in Threads : thread[t] = Idle

----------------------------------------------------------------------------
(* The client and the network *)

Send(len) ==
  /\ Len(packets) < MaxPackets
  /\ packets' = Append(packets, len)
  /\ stream' = stream \o Cells(Len(packets) + 1, len)
  /\ UNCHANGED <<bufferVars, conn, worker, chunk, procSktQueue, thread, refused, calm,
                 due>>

\* Something has happened to the pipeline, unless ok.
Disturbed(ok) ==
  /\ calm' = (calm /\ ok)
  /\ due' = IF calm' THEN due ELSE <<>>

\* The client is gone and the object has another one (ConnUser::Reset leaves the
\* buffer, and nobody looks at what is queued).
Reset ==
  /\ conn < MaxConns
  /\ conn' = conn + 1
  /\ stream' = <<>>
  /\ Disturbed(Drained)
  /\ UNCHANGED <<bufferVars, packets, worker, chunk, procSktQueue, thread, refused>>

----------------------------------------------------------------------------
(* The IOCP worker: one WSARecv at a time is outstanding.                  *)

\* A receive completes with some of the bytes, which need not be one packet.
Receive ==
  /\ worker = "recv"
  /\ \E n \in 1 .. Len(stream) :
       /\ n <= MaxRecv
       /\ chunk' = SubSeq(stream, 1, n)
       /\ stream' = SubSeq(stream, n + 1, Len(stream))
  /\ worker' = "write"
  /\ calm' = (calm /\ IsPacket(chunk'))
  /\ due' = IF calm' THEN Append(due, [data |-> chunk', session |-> conn]) ELSE <<>>
  /\ UNCHANGED <<bufferVars, packets, conn, procSktQueue, thread, refused>>

\* PushRedisPacket: WriteRecvData, whose result is not looked at.
WriteRecvData ==
  /\ worker = "write"
  /\ worker' = "push"
  /\ \/ Write(chunk) /\ UNCHANGED refused
     \/ /\ ~HasRoom(Len(chunk))
        /\ refused' = refused + Len(chunk)
        /\ UNCHANGED bufferVars
  /\ Disturbed(HasRoom(Len(chunk)))
  /\ UNCHANGED <<stream, packets, conn, chunk, procSktQueue, thread>>

\* Mutant: the size of the receive's buffer is queued.
PushPacketMax ==
  /\ worker = "push"
  /\ worker' = "recv"
  /\ chunk' = <<>>
  /\ procSktQueue' = Append(procSktQueue, MaxRecv)
  /\ UNCHANGED <<bufferVars, stream, packets, conn, thread, refused, calm, due>>

\* Mutant: the queue has a fixed capacity, and the result of push is not looked at.
PushPacketBounded ==
  /\ worker = "push"
  /\ worker' = "recv"
  /\ chunk' = <<>>
  /\ procSktQueue' = IF procSktQueue = <<>> THEN <<Len(chunk)>> ELSE procSktQueue
  /\ UNCHANGED <<bufferVars, stream, packets, conn, thread, refused, calm, due>>

\* PushRedisPacket: the size is queued, then ConnUserRecv.
PushPacket ==
  /\ worker = "push"
  /\ worker' = "recv"
  /\ chunk' = <<>>
  /\ procSktQueue' = Append(procSktQueue, Len(chunk))
  /\ UNCHANGED <<bufferVars, stream, packets, conn, thread, refused, calm, due>>

----------------------------------------------------------------------------
(* A Redis thread *)

Pop(t) ==
  /\ thread[t] = Idle
  /\ procSktQueue # <<>>
  /\ thread' = [thread EXCEPT ![t] = [Idle EXCEPT !.at = "popped",
                                                  !.size = Head(procSktQueue)]]
  /\ procSktQueue' = Tail(procSktQueue)
  /\ Disturbed(\A u \in Threads : thread[u] = Idle)
  /\ UNCHANGED <<bufferVars, stream, packets, conn, worker, chunk, refused>>

\* ReadRecvData; when the buffer holds less, it returns without a value.
ReadRecvData(t) ==
  /\ thread[t].at = "popped"
  /\ \/ /\ Read(thread[t].size)
        /\ thread' = [thread EXCEPT ![t] = [at |-> "read", size |-> 0,
                                            first |-> Head(readData')]]
     \/ /\ currentSize < thread[t].size
        /\ thread' = [thread EXCEPT ![t] = Undefined]
        /\ UNCHANGED bufferVars
  /\ UNCHANGED <<stream, packets, conn, worker, chunk, procSktQueue, refused, calm,
                 due>>

\* The handler that the header names runs on readData as it is now.  Bytes that
\* do not begin with a header name no handler.
Dispatch(t) ==
  /\ thread[t].at = "read"
  /\ thread' = [thread EXCEPT ![t] = IF thread[t].first[2] = 1 THEN Idle
                                                              ELSE Undefined]
  /\ due' = IF calm THEN Tail(due) ELSE <<>>
  /\ UNCHANGED <<bufferVars, stream, packets, conn, worker, chunk, procSktQueue,
                 refused, calm>>

----------------------------------------------------------------------------

Init ==
  /\ BufferInit
  /\ stream = <<>>
  /\ packets = <<>>
  /\ conn = 1
  /\ worker = "recv"
  /\ chunk = <<>>
  /\ procSktQueue = <<>>
  /\ thread = [t \in Threads |-> Idle]
  /\ refused = 0
  /\ calm = TRUE
  /\ due = <<>>

Work == WriteRecvData \/ PushPacket

RedisThread(t) == Pop(t) \/ ReadRecvData(t) \/ Dispatch(t)

Next ==
  \/ \E len \in Lengths : Send(len)
  \/ Reset
  \/ Receive
  \/ Work
  \/ \E t \in Threads : RedisThread(t)

Spec == Init /\ [][Next]_vars

\* The worker finishes what it has begun and every Redis thread runs.
FairSpec == Spec /\ WF_vars(Work) /\ \A t \in Threads : WF_vars(RedisThread(t))

----------------------------------------------------------------------------
(* Properties *)

TypeOK ==
  /\ buffer \in [Index -> Bytes]
  /\ writePos \in Index /\ readPos \in Index
  /\ currentSize \in 0 .. bufferSize
  /\ readData \in Seq(Bytes) /\ chunk \in Seq(Bytes) /\ stream \in Seq(Bytes)
  /\ packets \in Seq(Lengths)
  /\ conn \in 1 .. MaxConns
  /\ worker \in {"recv", "write", "push"}
  /\ procSktQueue \in Seq(1 .. MaxRecv)
  /\ thread \in [Threads -> [at : {"idle", "popped", "read", "undefined"},
                             size : 0 .. MaxRecv, first : Bytes]]
  /\ refused \in Nat /\ calm \in BOOLEAN
  /\ due \in Seq([data : Seq(Bytes), session : 1 .. MaxConns])

PoppedSize(t) == IF thread[t].at = "popped" THEN thread[t].size ELSE 0

\* The bytes that the queued sizes stand for, and those in the threads' hands.
Queued == UNION {{i} \X (1 .. procSktQueue[i]) : i \in 1 .. Len(procSktQueue)}

Popped == UNION {{t} \X (1 .. PoppedSize(t)) : t \in Threads}

\* As long as no write was refused, the bytes in the buffer are exactly those that
\* the queued sizes and the sizes in the threads' hands stand for (and those
\* about to be queued), so that no read ever finds too little: neither order of
\* threads, nor a segmented stream, nor a change of clients upsets it.
ReadsBacked ==
  refused = 0 =>
    currentSize = Cardinality(Queued) + Cardinality(Popped)
                  + (IF worker = "push" THEN Len(chunk) ELSE 0)

\* Requests are handled whole, once, in the order in which they came and in the
\* session of their sender, as long as it has been calm: every receive brought one
\* packet and found room, no thread took a packet of the connection while another
\* was at one, and no client left with something on its way.  (Each of these
\* conditions is needed: a size is no frame, readData is shared, and Reset empties
\* neither buffer nor queue.)
HandledAsSent ==
  [][\A t \in Threads :
       Dispatch(t) /\ calm
       => due # <<>> /\ Head(due) = [data |-> readData, session |-> conn]]_vars

\* What has arrived is handled in the end, as long as it is calm.
ArrivedIsHandled == due # <<>> ~> due = <<>>
=============================================================================
