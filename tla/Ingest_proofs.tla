----------------------------- MODULE Ingest_proofs -----------------------------
(***************************************************************************)
(* Proofs about CircularBuffer and Ingest: the buffer is a queue of bytes, *)
(* the sizes that are queued account for what is in it, and undisturbed    *)
(* requests are handled as they were sent; for any size of the buffer and  *)
(* of a receive, and any number of threads, requests and clients.          *)
(***************************************************************************)
EXTENDS Ingest, FiniteSetTheorems, SequenceTheorems, TLAPS

BufferTypeOK ==
  /\ buffer \in [Index -> Bytes]
  /\ writePos \in Index
  /\ readPos \in Index
  /\ currentSize \in 0 .. bufferSize
  /\ readData \in Seq(Bytes)

\* The write position is where the bytes not yet read end.
BufferInv ==
  /\ BufferTypeOK
  /\ writePos = (readPos + currentSize) % bufferSize

----------------------------------------------------------------------------
(* Positions *)

\* The place of a position that is at most one round too far.
Wrapped(a) == IF a < bufferSize THEN a ELSE a - bufferSize

LEMMA Wrap ==
  \A a \in 0 .. 2 * bufferSize - 1 : a % bufferSize = Wrapped(a)
<1> SUFFICES ASSUME NEW a \in 0 .. 2 * bufferSize - 1
             PROVE  a % bufferSize = IF a < bufferSize THEN a ELSE a - bufferSize
  BY DEF Wrapped
<1>1. CASE a < bufferSize
  BY <1>1, BufferAssumption
<1>2. CASE a >= bufferSize
  BY <1>2, BufferAssumption
<1> QED
  BY <1>1, <1>2, BufferAssumption

\* How far index k is past the write position, around the end of the array.
Dist(k) == IF k >= writePos THEN k - writePos ELSE k - writePos + bufferSize

\* After a write of data, the Len(data) places from the write position on hold it
\* and the others are as before.
LEMMA WriteBuffer ==
  ASSUME BufferInv, NEW data \in Seq(Bytes), Write(data), NEW k \in Index
  PROVE  buffer'[k] = IF Dist(k) < Len(data) THEN data[Dist(k) + 1] ELSE buffer[k]
<1> DEFINE size == Len(data)
           endSpace == bufferSize - writePos
<1>0. /\ size \in Nat /\ size <= bufferSize
      /\ writePos \in 0 .. bufferSize - 1 /\ k \in 0 .. bufferSize - 1
      /\ bufferSize \in Nat \ {0} /\ currentSize \in Nat
  BY BufferAssumption DEF Write, HasRoom, BufferInv, BufferTypeOK, Index
<1>1. CASE endSpace >= size
  <2>1. buffer' = Copied(buffer, writePos, data)
    BY <1>0, <1>1 DEF Write
  <2> QED
    BY <1>0, <1>1, <2>1 DEF Copied, Dist
<1>2. CASE endSpace < size
  <2> DEFINE head == SubSeq(data, 1, endSpace)
             tail == SubSeq(data, endSpace + 1, size)
  <2>1. buffer' = Copied(Copied(buffer, writePos, head), 0, tail)
    BY <1>0, <1>2 DEF Write
  <2>2. /\ Len(head) = endSpace
        /\ \A i \in 1 .. endSpace : head[i] = data[i]
    BY <1>0, <1>2
  <2>3. /\ Len(tail) = size - endSpace
        /\ \A i \in 1 .. size - endSpace : tail[i] = data[endSpace + i]
    BY <1>0, <1>2
  <2> HIDE DEF head, tail
  <2>4. Copied(buffer, writePos, head)[k] =
          IF k >= writePos THEN data[k - writePos + 1] ELSE buffer[k]
    BY <1>0, <1>2, <2>2 DEF Copied
  <2>5. buffer'[k] = IF k < size - endSpace THEN data[endSpace + k + 1]
                     ELSE Copied(buffer, writePos, head)[k]
    BY <1>0, <1>2, <2>1, <2>3 DEF Copied
  <2> QED
    BY <1>0, <1>2, <2>4, <2>5 DEF Dist
<1> QED
  BY <1>0, <1>1, <1>2

----------------------------------------------------------------------------
(* What is between the two positions *)

ContentsOK ==
  /\ Contents \in Seq(Bytes)
  /\ Len(Contents) = currentSize
  /\ \A i \in 1 .. currentSize :
       Contents[i] = buffer[(readPos + i - 1) % bufferSize]

LEMMA ContentsType == BufferInv => ContentsOK
<1> SUFFICES ASSUME BufferInv PROVE ContentsOK
  OBVIOUS
<1>1. currentSize \in Nat /\ readPos \in Nat
  BY BufferAssumption DEF BufferInv, BufferTypeOK, Index
<1>2. \A i \in 1 .. currentSize : (readPos + i - 1) % bufferSize \in Index
  BY <1>1, BufferAssumption DEF Index
<1>3. \A i \in 1 .. currentSize : buffer[(readPos + i - 1) % bufferSize] \in Bytes
  BY <1>2 DEF BufferInv, BufferTypeOK
<1> QED
  BY <1>1, <1>3 DEF Contents, ContentsOK

LEMMA TypeInit == BufferInit => BufferInv
BY BufferAssumption DEF BufferInit, BufferInv, BufferTypeOK, Index

LEMMA WriteType ==
  ASSUME BufferInv, NEW data \in Seq(Bytes), Write(data)
  PROVE  BufferInv'
<1>1. /\ Len(data) \in Nat /\ currentSize' = currentSize + Len(data)
      /\ currentSize' <= bufferSize
      /\ writePos' = (writePos + Len(data)) % bufferSize
      /\ readPos' = readPos /\ readData' = readData
      /\ bufferSize \in Nat \ {0}
      /\ currentSize \in 0 .. bufferSize
      /\ readPos \in 0 .. bufferSize - 1 /\ writePos \in 0 .. bufferSize - 1
  BY BufferAssumption DEF Write, HasRoom, BufferInv, BufferTypeOK, Index
<1>2. buffer' = [k \in Index |-> buffer'[k]]
  BY <1>1 DEF Write, Copied
<1>3. \A k \in Index : buffer'[k] \in Bytes
  <2> SUFFICES ASSUME NEW k \in Index PROVE buffer'[k] \in Bytes
    OBVIOUS
  <2>1. Dist(k) \in Nat
    BY <1>1 DEF Dist, Index
  <2>2. CASE Dist(k) < Len(data)
    <3>1. Dist(k) + 1 \in 1 .. Len(data)
      BY <2>1, <2>2, <1>1
    <3>2. buffer'[k] = data[Dist(k) + 1]
      BY <2>2, WriteBuffer
    <3> QED
      BY <3>1, <3>2
  <2>3. CASE ~(Dist(k) < Len(data))
    BY <2>3, WriteBuffer DEF BufferInv, BufferTypeOK
  <2> QED
    BY <2>2, <2>3
<1>4. writePos' = (readPos' + currentSize') % bufferSize
  <2>1. /\ readPos + currentSize \in 0 .. 2 * bufferSize - 1
        /\ writePos + Len(data) \in 0 .. 2 * bufferSize - 1
        /\ readPos' + currentSize' \in 0 .. 2 * bufferSize - 1
    BY <1>1
  <2>2. /\ writePos = Wrapped(readPos + currentSize)
        /\ writePos' = Wrapped(writePos + Len(data))
    BY <1>1, <2>1, Wrap DEF BufferInv
  <2>3. (readPos' + currentSize') % bufferSize = Wrapped(readPos' + currentSize')
    BY <2>1, Wrap
  <2>4. Wrapped(writePos + Len(data)) = Wrapped(readPos' + currentSize')
    BY <1>1, <2>2 DEF Wrapped
  <2> QED
    BY <2>2, <2>3, <2>4
<1>5. writePos' \in Index
  BY <1>1, Wrap DEF Index
<1> QED
  BY <1>1, <1>2, <1>3, <1>4, <1>5 DEF BufferInv, BufferTypeOK, Index

\* A write appends its bytes to the contents.
LEMMA WriteAppends ==
  ASSUME BufferInv, NEW data \in Seq(Bytes), Write(data)
  PROVE  /\ Len(Contents') = Len(Contents) + Len(data)
         /\ SubSeq(Contents', 1, Len(Contents)) = Contents
         /\ Len(Contents') <= bufferSize
<1>1. /\ Len(data) \in Nat /\ currentSize' = currentSize + Len(data)
      /\ currentSize' <= bufferSize
      /\ readPos' = readPos
      /\ bufferSize \in Nat \ {0}
      /\ currentSize \in 0 .. bufferSize
      /\ readPos \in 0 .. bufferSize - 1 /\ writePos \in 0 .. bufferSize - 1
  BY BufferAssumption DEF Write, HasRoom, BufferInv, BufferTypeOK, Index
<1>2. BufferInv'
  BY WriteType
<1>3. /\ Contents' \in Seq(Bytes)
      /\ Len(Contents') = currentSize'
      /\ \A i \in 1 .. currentSize' :
           Contents'[i] = buffer'[(readPos + i - 1) % bufferSize]
  <2>1. ContentsOK'
    BY <1>2, ContentsType, PTL
  <2> QED
    BY <1>1, <2>1 DEF ContentsOK
<1>4. ASSUME NEW i \in 1 .. currentSize
      PROVE  Contents'[i] = Contents[i]
  <2> DEFINE k == (readPos + i - 1) % bufferSize
  <2>0. /\ readPos + i - 1 \in 0 .. 2 * bufferSize - 1
        /\ readPos + currentSize \in 0 .. 2 * bufferSize - 1
    BY <1>1
  <2>1. k = Wrapped(readPos + i - 1)
    BY <2>0, Wrap
  <2> HIDE DEF k
  <2>2. writePos = Wrapped(readPos + currentSize)
    BY <2>0, Wrap DEF BufferInv
  <2>3. k \in Index /\ ~(Dist(k) < Len(data))
    BY <1>1, <2>1, <2>2 DEF Index, Dist, Wrapped
  <2>4. buffer'[k] = buffer[k]
    BY <2>3, WriteBuffer
  <2> QED
    BY <1>1, <1>3, <2>4, ContentsType DEF k, ContentsOK
<1>5. Len(Contents) = currentSize /\ Contents \in Seq(Bytes)
  BY ContentsType DEF ContentsOK
<1> HIDE DEF Contents
<1> QED
  BY <1>1, <1>3, <1>4, <1>5

\* What it appends are its bytes.
LEMMA WriteEnds ==
  ASSUME BufferInv, NEW data \in Seq(Bytes), Write(data), NEW i \in 1 .. Len(data)
  PROVE  Contents'[currentSize + i] = data[i]
<1>1. /\ Len(data) \in Nat /\ currentSize' = currentSize + Len(data)
      /\ currentSize' <= bufferSize
      /\ readPos' = readPos
      /\ bufferSize \in Nat \ {0}
      /\ currentSize \in 0 .. bufferSize
      /\ readPos \in 0 .. bufferSize - 1 /\ writePos \in 0 .. bufferSize - 1
  BY BufferAssumption DEF Write, HasRoom, BufferInv, BufferTypeOK, Index
<1>2. \A j \in 1 .. currentSize' :
        Contents'[j] = buffer'[(readPos + j - 1) % bufferSize]
  <2>1. BufferInv'
    BY WriteType
  <2>2. ContentsOK'
    BY <2>1, ContentsType, PTL
  <2> QED
    BY <1>1, <2>2 DEF ContentsOK
<1>3. PICK k : k = (readPos + (currentSize + i) - 1) % bufferSize
  OBVIOUS
<1>4. /\ readPos + (currentSize + i) - 1 \in 0 .. 2 * bufferSize - 1
      /\ readPos + currentSize \in 0 .. 2 * bufferSize - 1
  BY <1>1
<1>5. k = Wrapped(readPos + (currentSize + i) - 1)
  BY <1>3, <1>4, Wrap
<1>6. writePos = Wrapped(readPos + currentSize)
  BY <1>4, Wrap DEF BufferInv
<1>7. k \in Index /\ Dist(k) = i - 1
  BY <1>1, <1>5, <1>6 DEF Index, Dist, Wrapped
<1>8. buffer'[k] = data[i]
  BY <1>1, <1>7, WriteBuffer
<1>9. currentSize + i \in 1 .. currentSize'
  BY <1>1
<1> HIDE DEF Contents
<1>10. Contents'[currentSize + i] = buffer'[k]
  BY <1>1, <1>2, <1>3, <1>9
<1> QED
  BY <1>8, <1>10

\* What Read copies out are the first bytes of the contents.
LEMMA FirstBytesAreFront ==
  ASSUME BufferInv, NEW size \in 1 .. currentSize
  PROVE  FirstBytes(size) = SubSeq(Contents, 1, size)
<1> DEFINE endSpace == bufferSize - readPos
<1>1. /\ bufferSize \in Nat \ {0} /\ currentSize \in 0 .. bufferSize
      /\ readPos \in 0 .. bufferSize - 1 /\ size \in Nat /\ size <= bufferSize
      /\ endSpace \in 1 .. bufferSize
  BY BufferAssumption DEF BufferInv, BufferTypeOK, Index
<1>2. /\ Contents \in Seq(Bytes) /\ Len(Contents) = currentSize
      /\ \A i \in 1 .. currentSize :
           Contents[i] = buffer[(readPos + i - 1) % bufferSize]
  BY ContentsType DEF ContentsOK
<1>3. ASSUME NEW i \in 1 .. size
      PROVE  Contents[i] = IF i <= endSpace THEN buffer[readPos + i - 1]
                           ELSE buffer[i - endSpace - 1]
  <2>1. readPos + i - 1 \in 0 .. 2 * bufferSize - 1
    BY <1>1
  <2>2. (readPos + i - 1) % bufferSize = Wrapped(readPos + i - 1)
    BY <2>1, Wrap
  <2>3. Wrapped(readPos + i - 1) = IF i <= endSpace THEN readPos + i - 1
                                   ELSE i - endSpace - 1
    BY <1>1 DEF Wrapped
  <2>4. i \in 1 .. currentSize
    BY <1>1
  <2>5. Contents[i] = buffer[(readPos + i - 1) % bufferSize]
    BY <1>2, <2>4
  <2> QED
    BY <2>2, <2>3, <2>5
<1> HIDE DEF Contents
<1>4. CASE endSpace >= size
  <2>1. FirstBytes(size) = Slice(readPos, size)
    BY <1>4 DEF FirstBytes
  <2> QED
    BY <1>1, <1>2, <1>3, <1>4, <2>1 DEF Slice
<1>5. CASE endSpace < size
  <2> DEFINE one == Slice(readPos, endSpace)
             two == Slice(0, size - endSpace)
  <2>1. FirstBytes(size) = one \o two
    BY <1>1, <1>5 DEF FirstBytes
  <2>2. /\ one \in Seq(Bytes) /\ two \in Seq(Bytes)
        /\ Len(one) = endSpace /\ Len(two) = size - endSpace
    <3>1. \A k \in Index : buffer[k] \in Bytes
      BY DEF BufferInv, BufferTypeOK
    <3> QED
      BY <1>1, <1>5, <3>1 DEF Slice, Index
  <2>3. /\ \A i \in 1 .. endSpace : one[i] = buffer[readPos + i - 1]
        /\ \A i \in 1 .. size - endSpace : two[i] = buffer[i - 1]
    BY <1>1, <1>5 DEF Slice
  <2> HIDE DEF one, two
  <2>4. /\ one \o two \in Seq(Bytes) /\ Len(one \o two) = size
        /\ \A i \in 1 .. size :
             (one \o two)[i] = IF i <= endSpace THEN one[i] ELSE two[i - endSpace]
    BY <1>1, <1>5, <2>2
  <2>5. \A i \in 1 .. size : (one \o two)[i] = Contents[i]
    <3> SUFFICES ASSUME NEW i \in 1 .. size PROVE (one \o two)[i] = Contents[i]
      OBVIOUS
    <3>1. Contents[i] = IF i <= endSpace THEN buffer[readPos + i - 1]
                        ELSE buffer[i - endSpace - 1]
      BY <1>3
    <3>2. CASE i <= endSpace
      <4>1. i \in 1 .. endSpace
        BY <1>1, <3>2
      <4>2. (one \o two)[i] = one[i]
        BY <2>4, <3>2
      <4> QED
        BY <2>3, <3>1, <3>2, <4>1, <4>2
    <3>3. CASE ~(i <= endSpace)
      <4>1. i - endSpace \in 1 .. size - endSpace
        BY <1>1, <3>3
      <4>2. (one \o two)[i] = two[i - endSpace]
        BY <2>4, <3>3
      <4> QED
        BY <2>3, <3>1, <3>3, <4>1, <4>2
    <3> QED
      BY <3>2, <3>3
  <2>6. /\ SubSeq(Contents, 1, size) \in Seq(Bytes)
        /\ Len(SubSeq(Contents, 1, size)) = size
        /\ \A i \in 1 .. size : SubSeq(Contents, 1, size)[i] = Contents[i]
    BY <1>1, <1>2
  <2>7. one \o two = SubSeq(Contents, 1, size)
    BY <2>4, <2>5, <2>6, <1>1
  <2> QED
    BY <2>1, <2>7
<1> QED
  BY <1>1, <1>4, <1>5

\* A read takes the first bytes of the contents.
LEMMA ReadTakes ==
  ASSUME BufferInv, NEW size \in Nat \ {0}, Read(size)
  PROVE  /\ BufferInv'
         /\ size <= Len(Contents)
         /\ readData' = SubSeq(Contents, 1, size)
         /\ Contents' = SubSeq(Contents, size + 1, Len(Contents))
<1>1. /\ size \in 1 .. currentSize
      /\ currentSize' = currentSize - size
      /\ readPos' = (readPos + size) % bufferSize
      /\ writePos' = writePos /\ buffer' = buffer
      /\ readData' = FirstBytes(size)
      /\ bufferSize \in Nat \ {0} /\ currentSize \in 0 .. bufferSize
      /\ readPos \in 0 .. bufferSize - 1
  BY BufferAssumption DEF Read, BufferInv, BufferTypeOK, Index
<1>2. /\ Contents \in Seq(Bytes) /\ Len(Contents) = currentSize
      /\ \A i \in 1 .. currentSize :
           Contents[i] = buffer[(readPos + i - 1) % bufferSize]
  BY ContentsType DEF ContentsOK
<1>3. readData' = SubSeq(Contents, 1, size)
  BY <1>1, FirstBytesAreFront
<1>4. readData' \in Seq(Bytes)
  <2> HIDE DEF Contents
  <2> QED
    BY <1>1, <1>2, <1>3
<1>5. readPos + size \in 0 .. 2 * bufferSize - 1
  BY <1>1
<1>6. readPos' = Wrapped(readPos + size)
  BY <1>1, <1>5, Wrap
<1>7. readPos' \in 0 .. bufferSize - 1
  BY <1>1, <1>6 DEF Wrapped
<1>8. writePos' = (readPos' + currentSize') % bufferSize
  <2>1. /\ readPos + currentSize \in 0 .. 2 * bufferSize - 1
        /\ readPos' + currentSize' \in 0 .. 2 * bufferSize - 1
    BY <1>1, <1>7
  <2>2. /\ writePos = Wrapped(readPos + currentSize)
        /\ (readPos' + currentSize') % bufferSize = Wrapped(readPos' + currentSize')
    BY <2>1, Wrap DEF BufferInv
  <2>3. Wrapped(readPos + currentSize) = Wrapped(readPos' + currentSize')
    BY <1>1, <1>6 DEF Wrapped
  <2> QED
    BY <1>1, <2>2, <2>3
<1>9. BufferInv'
  <2>1. /\ buffer' \in [Index -> Bytes] /\ writePos' \in Index
    BY <1>1 DEF BufferInv, BufferTypeOK
  <2>2. currentSize' \in 0 .. bufferSize
    BY <1>1
  <2>3. readPos' \in Index
    BY <1>7 DEF Index
  <2> QED
    BY <1>4, <1>8, <2>1, <2>2, <2>3 DEF BufferInv, BufferTypeOK, Index
<1>10. /\ Contents' \in Seq(Bytes) /\ Len(Contents') = currentSize'
       /\ \A i \in 1 .. currentSize' :
            Contents'[i] = buffer[(readPos' + i - 1) % bufferSize]
  <2>1. ContentsOK'
    BY <1>9, ContentsType, PTL
  <2> QED
    BY <1>1, <2>1 DEF ContentsOK
<1>11. ASSUME NEW i \in 1 .. currentSize'
       PROVE  Contents'[i] = Contents[size + i]
  <2>1. /\ readPos' + i - 1 \in 0 .. 2 * bufferSize - 1
        /\ readPos + size + i - 1 \in 0 .. 2 * bufferSize - 1
        /\ size + i \in 1 .. currentSize
    BY <1>1, <1>7
  <2>2. /\ (readPos' + i - 1) % bufferSize = Wrapped(readPos' + i - 1)
        /\ (readPos + size + i - 1) % bufferSize = Wrapped(readPos + size + i - 1)
    BY <2>1, Wrap
  <2>3. Wrapped(readPos' + i - 1) = Wrapped(readPos + size + i - 1)
    <3>1. /\ bufferSize \in Nat \ {0} /\ currentSize \in 0 .. bufferSize
          /\ readPos \in 0 .. bufferSize - 1 /\ size \in 1 .. currentSize
          /\ i \in Nat /\ i >= 1 /\ i <= currentSize - size
      BY <1>1
    <3>2. readPos' = IF readPos + size < bufferSize THEN readPos + size
                     ELSE readPos + size - bufferSize
      BY <1>6, <3>1 DEF Wrapped
    <3> QED
      BY <3>1, <3>2 DEF Wrapped
  <2>4. readPos + (size + i) - 1 = readPos + size + i - 1
    BY <1>1
  <2>5. Contents[size + i] = buffer[(readPos + size + i - 1) % bufferSize]
    BY <1>2, <2>1, <2>4
  <2>6. Contents'[i] = buffer[(readPos' + i - 1) % bufferSize]
    BY <1>10
  <2> QED
    BY <2>2, <2>3, <2>5, <2>6
<1>12. Contents' = SubSeq(Contents, size + 1, Len(Contents))
  <2> HIDE DEF Contents
  <2>1. /\ SubSeq(Contents, size + 1, currentSize) \in Seq(Bytes)
        /\ Len(SubSeq(Contents, size + 1, currentSize)) = currentSize - size
        /\ \A i \in 1 .. currentSize - size :
             SubSeq(Contents, size + 1, currentSize)[i] = Contents[size + i]
    BY <1>1, <1>2
  <2>2. \A i \in 1 .. currentSize - size :
          Contents'[i] = SubSeq(Contents, size + 1, currentSize)[i]
    BY <1>1, <1>11, <2>1
  <2>3. Contents' \in Seq(Bytes) /\ Len(Contents') = currentSize - size
    BY <1>1, <1>10
  <2> DEFINE rest == SubSeq(Contents, size + 1, currentSize)
  <2> HIDE DEF rest
  <2>4. Contents' = rest
    BY <2>1, <2>2, <2>3, SeqEqual DEF rest
  <2> QED
    BY <1>2, <2>4 DEF rest
<1> QED
  BY <1>1, <1>2, <1>3, <1>9, <1>12

----------------------------------------------------------------------------
(* Theorems *)

\* A step of the buffer keeps the invariant and is a step of the queue.
LEMMA BufferStep ==
  BufferInv /\ [BufferNext]_bufferVars
  => BufferInv' /\ [Queue!Next]_<<Contents, readData>>
<1> SUFFICES ASSUME BufferInv, [BufferNext]_bufferVars
             PROVE  BufferInv' /\ [Queue!Next]_<<Contents, readData>>
  OBVIOUS
<1>0. Contents \in Seq(Bytes) /\ Len(Contents) \in Nat
  BY ContentsType DEF ContentsOK, BufferInv, BufferTypeOK
<1>1. ASSUME NEW data \in Seq(Bytes), data # <<>>, Write(data)
      PROVE  BufferInv' /\ Queue!Next
  <2>1. BufferInv'
    BY <1>1, WriteType
  <2>2. Contents' \in Seq(Bytes)
    <3>1. ContentsOK'
      BY <2>1, ContentsType, PTL
    <3> QED
      BY <3>1 DEF ContentsOK
  <2>3. /\ Len(Contents') = Len(Contents) + Len(data)
        /\ SubSeq(Contents', 1, Len(Contents)) = Contents
        /\ Len(Contents') <= bufferSize
    BY <1>1, WriteAppends
  <2>4. Len(data) \in 1 .. bufferSize - Len(Contents)
    <3> HIDE DEF Contents
    <3> QED
      BY <1>0, <1>1, <2>3, BufferAssumption
  <2>5. readData' = readData
    BY <1>1 DEF Write
  <2> HIDE DEF Contents
  <2>6. Queue!PutAll
    BY <2>3, <2>4, <2>5 DEF Queue!PutAll
  <2> QED
    BY <2>1, <2>2, <2>6 DEF Queue!Next
<1>2. ASSUME NEW size \in Nat \ {0}, Read(size)
      PROVE  BufferInv' /\ Queue!Next
  <2>1. /\ BufferInv'
        /\ size <= Len(Contents)
        /\ readData' = SubSeq(Contents, 1, size)
        /\ Contents' = SubSeq(Contents, size + 1, Len(Contents))
    BY <1>2, ReadTakes
  <2> HIDE DEF Contents
  <2>2. size \in 1 .. Len(Contents)
    BY <1>0, <2>1
  <2>3. Queue!TakeFront
    BY <2>1, <2>2 DEF Queue!TakeFront
  <2>4. Contents' \in Seq(Bytes)
    BY <1>0, <2>1, <2>2
  <2> QED
    BY <2>1, <2>3, <2>4 DEF Queue!Next
<1>3. CASE UNCHANGED bufferVars
  BY <1>3 DEF bufferVars, BufferInv, BufferTypeOK, Contents
<1> QED
  BY <1>1, <1>2, <1>3 DEF BufferNext

LEMMA BufferStart == BufferInit => BufferInv /\ Queue!Init
<1> SUFFICES ASSUME BufferInit PROVE Queue!Init
  BY TypeInit
<1>1. currentSize = 0 /\ readData = <<>>
  BY DEF BufferInit
<1>2. Contents = <<>>
  BY <1>1 DEF Contents
<1> QED
  BY <1>1, <1>2 DEF Queue!Init

\* The receive buffer, of whatever size and whatever is written, is a bounded queue of
\* bytes (CircularBuffer::Write, CircularBuffer::Read).
THEOREM BufferIsQueue == BufferSpec => IsByteQueue
<1>1. BufferInit => BufferInv /\ Queue!Init
  BY BufferStart
<1>2. BufferInv /\ [BufferNext]_bufferVars
      => BufferInv' /\ [Queue!Next]_<<Contents, readData>>
  BY BufferStep
<1> QED
  BY <1>1, <1>2, PTL DEF BufferSpec, IsByteQueue, Queue!Spec

----------------------------------------------------------------------------
(* The invariant of Ingest *)

Typed ==
  /\ chunk \in Seq(Bytes) /\ stream \in Seq(Bytes)
  /\ packets \in Seq(Lengths)
  /\ conn \in 1 .. MaxConns
  /\ worker \in {"recv", "write", "push"}
  /\ procSktQueue \in Seq(1 .. MaxRecv)
  /\ thread \in [Threads -> [at : {"idle", "popped", "read", "undefined"},
                             size : 0 .. MaxRecv, first : Bytes]]
  /\ refused \in Nat /\ calm \in BOOLEAN
  /\ due \in Seq([data : Seq(Bytes), session : 1 .. MaxConns])

\* The worker has a chunk exactly between the receive and the push.
Receiving ==
  /\ worker = "recv" <=> chunk = <<>>
  /\ Len(chunk) <= MaxRecv

\* A thread that is idle has nothing, one that has popped a size wants some bytes.
Handing ==
  \A t \in Threads :
    /\ thread[t].at = "idle" => thread[t] = Idle
    /\ thread[t].at = "popped" => thread[t].size # 0

InHand == IF \E t \in Threads : thread[t] # Idle THEN 1 ELSE 0

InChunk == IF worker = "recv" THEN 0 ELSE 1

\* The first entry of due whose bytes are in the buffer, and the last.
FirstIn == IF \E t \in Threads : thread[t].at = "read" THEN 2 ELSE 1

LastIn == IF worker = "write" THEN Len(due) - 1 ELSE Len(due)

\* At most one thread is at work.
OneHand == \A t, u \in Threads : thread[t] # Idle /\ thread[u] # Idle => t = u

\* due lists what is with a thread, in the queue and with the worker.
Listed == Len(due) = InHand + Len(procSktQueue) + InChunk

Whole == \A i \in 1 .. Len(due) : due[i].session = conn /\ IsPacket(due[i].data)

Sized ==
  /\ \A i \in 1 .. Len(procSktQueue) : procSktQueue[i] = Len(due[InHand + i].data)
  /\ worker # "recv" => chunk = due[Len(due)].data

InWork ==
  \A t \in Threads :
    /\ thread[t].at # "undefined"
    /\ thread[t].at = "popped" => thread[t].size = Len(due[1].data)
    /\ thread[t].at = "read" => readData = due[1].data /\ thread[t].first = due[1].data[1]

\* Entry j of d begins after place off[j] of C, which entries b to e fill.
Places(off, d, C, b, e) ==
  /\ \A j, k \in 1 .. Len(d) + 1 : j <= k => off[j] <= off[k]
  /\ \A j \in 1 .. Len(d) : off[j + 1] = off[j] + Len(d[j].data)
  /\ off[b] = 0 /\ off[e + 1] = Len(C)
  /\ \A j \in b .. e : \A i \in 1 .. Len(d[j].data) : C[off[j] + i] = d[j].data[i]

\* The entries from FirstIn to LastIn are what the buffer holds, in this order.
Stored ==
  \E off \in [1 .. Len(due) + 1 -> Int] : Places(off, due, Contents, FirstIn, LastIn)

Calm == OneHand /\ Listed /\ Whole /\ Sized /\ InWork /\ Stored

Undisturbed == calm => Calm

Inv == Typed /\ BufferInv /\ Receiving /\ Handing /\ ReadsBacked /\ Undisturbed

LEMMA Constants ==
  /\ MaxRecv \in Nat \ {0} /\ MaxPackets \in Nat \ {0} /\ MaxConns \in Nat \ {0}
  /\ Lengths \subseteq 1 .. MaxRecv /\ IsFiniteSet(Threads) /\ Junk \in Bytes
  /\ \A n \in 1 .. MaxPackets, i \in 1 .. MaxRecv : <<n, i>> \in Bytes
BY IngestAssumption, BufferAssumption

----------------------------------------------------------------------------
(* How many bytes the sizes stand for *)

LEMMA BlockOut ==
  ASSUME NEW A, IsFiniteSet(A), NEW x, NEW k \in Nat, {x} \X (1 .. k) \subseteq A
  PROVE  /\ Cardinality(A) \in Nat
         /\ Cardinality(A \ ({x} \X (1 .. k))) = Cardinality(A) - k
<1> DEFINE D == {x} \X (1 .. k)
           B == A \ D
<1>1. k \in Int /\ 1 \in Int
  OBVIOUS
<1>2. IsFiniteSet(1 .. k) /\ Cardinality(1 .. k) = k
  BY <1>1, FS_Interval
<1>3. IsFiniteSet({x}) /\ Cardinality({x}) = 1
  BY FS_Singleton
<1>4. Cardinality(D) = 1 * k
  BY <1>2, <1>3, FS_Product
<1>5. IsFiniteSet(D) /\ IsFiniteSet(B)
  BY <1>2, <1>3, FS_Product, FS_Subset
<1>6. Cardinality(B \cup D) = Cardinality(B) + Cardinality(D) - Cardinality(B \cap D)
  BY <1>5, FS_Union
<1>7. B \cup D = A /\ B \cap D = {}
  OBVIOUS
<1>8. Cardinality(A) \in Nat /\ Cardinality(B) \in Nat /\ Cardinality({}) = 0
  BY <1>5, FS_CardinalityType, FS_EmptySet
<1>9. Cardinality(B \cup D) = Cardinality(A) /\ Cardinality(B \cap D) = Cardinality({})
  BY <1>7
<1> HIDE DEF D, B
<1>10. Cardinality(A) = Cardinality(B) + k
  BY <1>4, <1>6, <1>8, <1>9
<1>11. Cardinality(B) = Cardinality(A) - k
  BY <1>8, <1>10
<1> QED BY <1>8, <1>11 DEF B, D

QueueSet(q) == UNION {{i} \X (1 .. q[i]) : i \in 1 .. Len(q)}

LEMMA QueueFinite ==
  ASSUME NEW q \in Seq(1 .. MaxRecv)
  PROVE  IsFiniteSet(QueueSet(q)) /\ Cardinality(QueueSet(q)) \in Nat
<1>1. Len(q) \in Int /\ MaxRecv \in Int /\ 1 \in Int
  BY Constants
<1>2. IsFiniteSet(1 .. Len(q)) /\ IsFiniteSet(1 .. MaxRecv)
  BY <1>1, FS_Interval
<1>3. IsFiniteSet((1 .. Len(q)) \X (1 .. MaxRecv))
  BY <1>2, FS_Product
<1>4. \A i \in 1 .. Len(q) : q[i] \in 1 .. MaxRecv
  BY ElementOfSeq
<1>5. QueueSet(q) \subseteq (1 .. Len(q)) \X (1 .. MaxRecv)
  BY <1>1, <1>4 DEF QueueSet
<1> QED BY <1>3, <1>5, FS_Subset, FS_CardinalityType

\* A size that is queued adds its bytes,
LEMMA QueueAppend ==
  ASSUME NEW q \in Seq(1 .. MaxRecv), NEW k \in 1 .. MaxRecv
  PROVE  Cardinality(QueueSet(Append(q, k))) = Cardinality(QueueSet(q)) + k
<1> DEFINE r == Append(q, k)
           D == {Len(q) + 1} \X (1 .. k)
<1>1. /\ r \in Seq(1 .. MaxRecv) /\ Len(r) = Len(q) + 1 /\ Len(q) \in Nat
      /\ r[Len(q) + 1] = k /\ \A i \in 1 .. Len(q) : r[i] = q[i]
      /\ k \in Nat
  BY Constants
<1> HIDE DEF r
<1>2. 1 .. Len(r) = (1 .. Len(q)) \cup {Len(q) + 1}
  BY <1>1
<1>3. QueueSet(r) = QueueSet(q) \cup D
  BY <1>1, <1>2 DEF QueueSet
<1>4. QueueSet(q) \cap D = {}
  BY <1>1 DEF QueueSet
<1>5. QueueSet(q) = QueueSet(r) \ D
  BY <1>3, <1>4
<1>6. IsFiniteSet(QueueSet(r)) /\ D \subseteq QueueSet(r)
  BY <1>1, <1>3, QueueFinite
<1>7. /\ Cardinality(QueueSet(r)) \in Nat
      /\ Cardinality(QueueSet(r) \ D) = Cardinality(QueueSet(r)) - k
  BY <1>1, <1>6, BlockOut
<1>8. Cardinality(QueueSet(q)) = Cardinality(QueueSet(r)) - k
  BY <1>5, <1>7
<1> QED BY <1>1, <1>7, <1>8 DEF r

\* and one that is popped takes them along.
LEMMA QueueTail ==
  ASSUME NEW q \in Seq(1 .. MaxRecv), q # <<>>
  PROVE  Cardinality(QueueSet(Tail(q))) = Cardinality(QueueSet(q)) - Head(q)
<1>1. /\ Tail(q) \in Seq(1 .. MaxRecv) /\ Len(Tail(q)) = Len(q) - 1
      /\ Len(q) \in Nat \ {0} /\ Head(q) = q[1] /\ Head(q) \in Nat
      /\ \A i \in 1 .. Len(q) - 1 : Tail(q)[i] = q[i + 1]
  BY Constants
<1> DEFINE T == QueueSet(Tail(q))
           D == {1} \X (1 .. Head(q))
           S == QueueSet(q) \ D
           f == [c \in T |-> <<c[1] + 1, c[2]>>]
<1>2. /\ \A c \in T : \E i \in 1 .. Len(q) - 1, k \in Int : k \in 1 .. q[i + 1] /\ c = <<i, k>>
      /\ \A i \in 1 .. Len(q) - 1, k \in Int : k \in 1 .. q[i + 1] => <<i, k>> \in T
  BY <1>1 DEF QueueSet
<1>3. /\ \A c \in S : \E i \in 2 .. Len(q), k \in Int : k \in 1 .. q[i] /\ c = <<i, k>>
      /\ \A i \in 2 .. Len(q), k \in Int : k \in 1 .. q[i] => <<i, k>> \in S
  BY <1>1 DEF QueueSet
<1>4. f \in Bijection(T, S)
  <2> HIDE DEF T, S
  <2>1. ASSUME NEW c \in T PROVE <<c[1] + 1, c[2]>> \in S
    <3>1. PICK i \in 1 .. Len(q) - 1, k \in Int : k \in 1 .. q[i + 1] /\ c = <<i, k>>
      BY <1>2
    <3>2. i + 1 \in 2 .. Len(q) /\ k \in Int
      BY <1>1
    <3> QED BY <1>3, <3>1, <3>2
  <2>2. f \in [T -> S]
    BY <2>1
  <2>3. \A c, e \in T : f[c] = f[e] => c = e
    <3> SUFFICES ASSUME NEW c \in T, NEW e \in T, f[c] = f[e] PROVE c = e
      OBVIOUS
    <3>1. PICK i \in 1 .. Len(q) - 1, k \in Int : k \in 1 .. q[i + 1] /\ c = <<i, k>>
      BY <1>2
    <3>2. PICK j \in 1 .. Len(q) - 1, m \in Int : m \in 1 .. q[j + 1] /\ e = <<j, m>>
      BY <1>2
    <3>3. <<i + 1, k>> = <<j + 1, m>>
      BY <3>1, <3>2
    <3> QED BY <1>1, <3>1, <3>2, <3>3
  <2>4. \A s \in S : \E c \in T : f[c] = s
    <3> SUFFICES ASSUME NEW s \in S PROVE \E c \in T : f[c] = s
      OBVIOUS
    <3>1. PICK i \in 2 .. Len(q), k \in Int : k \in 1 .. q[i] /\ s = <<i, k>>
      BY <1>3
    <3>2. i - 1 \in 1 .. Len(q) - 1 /\ (i - 1) + 1 = i /\ k \in Int
      BY <1>1, <3>1
    <3>3. <<i - 1, k>> \in T
      <4>1. k \in 1 .. q[(i - 1) + 1]
        BY <3>1, <3>2
      <4> QED BY <1>2, <3>2, <4>1
    <3>4. f[<<i - 1, k>>] = s
      BY <3>1, <3>2, <3>3
    <3> QED BY <3>3, <3>4
  <2> QED BY <2>2, <2>3, <2>4 DEF Bijection, Injection, Surjection, IsInjective
<1>5. ExistsBijection(T, S)
  BY <1>4 DEF ExistsBijection
<1>6. Cardinality(S) = Cardinality(T)
  BY <1>1, <1>5, QueueFinite, FS_Bijection
<1>7. D \subseteq QueueSet(q)
  BY <1>1 DEF QueueSet
<1>8. Cardinality(S) = Cardinality(QueueSet(q)) - Head(q)
  BY <1>1, <1>7, QueueFinite, BlockOut
<1> QED BY <1>6, <1>8

HandSet(f) == UNION {{t} \X (1 .. f[t]) : t \in Threads}

LEMMA HandFinite ==
  ASSUME NEW f \in [Threads -> 0 .. MaxRecv]
  PROVE  IsFiniteSet(HandSet(f)) /\ Cardinality(HandSet(f)) \in Nat
<1>1. MaxRecv \in Int /\ 1 \in Int
  BY Constants
<1>2. IsFiniteSet(Threads) /\ IsFiniteSet(1 .. MaxRecv)
  BY <1>1, FS_Interval, Constants
<1>3. IsFiniteSet(Threads \X (1 .. MaxRecv))
  BY <1>2, FS_Product
<1>4. HandSet(f) \subseteq Threads \X (1 .. MaxRecv)
  BY <1>1 DEF HandSet
<1> QED BY <1>3, <1>4, FS_Subset, FS_CardinalityType

\* g is as f, except that t has nothing.
LEMMA HandLess ==
  ASSUME NEW f \in [Threads -> 0 .. MaxRecv], NEW g \in [Threads -> 0 .. MaxRecv],
         NEW t \in Threads, g[t] = 0, \A u \in Threads : u # t => g[u] = f[u]
  PROVE  Cardinality(HandSet(g)) = Cardinality(HandSet(f)) - f[t]
<1> DEFINE D == {t} \X (1 .. f[t])
<1>1. f[t] \in Nat /\ 1 .. g[t] = {}
  BY Constants
<1>2. HandSet(g) = HandSet(f) \ D
  BY <1>1 DEF HandSet
<1>3. D \subseteq HandSet(f)
  BY DEF HandSet
<1>4. Cardinality(HandSet(f) \ D) = Cardinality(HandSet(f)) - f[t]
  BY <1>1, <1>3, HandFinite, BlockOut
<1> QED BY <1>2, <1>4

----------------------------------------------------------------------------
(* Types, and the steps of the buffer *)

LEMMA TypeOKIs == TypeOK <=> BufferTypeOK /\ Typed
BY DEF TypeOK, BufferTypeOK, Typed

LEMMA Start == Init => Inv /\ Queue!Init
<1> SUFFICES ASSUME Init PROVE Inv /\ Queue!Init
  OBVIOUS
<1>1. BufferInv /\ Queue!Init
  BY BufferStart DEF Init
<1>2. Typed
  BY Constants DEF Init, Typed, Idle
<1>3. Receiving /\ Handing
  BY Constants DEF Init, Receiving, Handing, Idle
<1>4. ReadsBacked
  <2>1. Queued = {} /\ Popped = {}
    BY DEF Init, Queued, Popped, PoppedSize, Idle
  <2>2. currentSize = 0 /\ worker # "push"
    BY DEF Init, BufferInit
  <2>3. Cardinality(Queued) = 0 /\ Cardinality(Popped) = 0
    BY <2>1, FS_EmptySet
  <2> QED BY <2>2, <2>3 DEF ReadsBacked
<1>5. Undisturbed
  <2>1. OneHand /\ Listed /\ Whole /\ Sized /\ InWork
    BY DEF Init, OneHand, Listed, Whole, Sized, InWork, InHand, InChunk, Idle
  <2>2. Stored
    <3> DEFINE off == [j \in 1 .. Len(due) + 1 |-> 0]
    <3>1. Len(due) = 0 /\ FirstIn = 1 /\ LastIn = 0 /\ currentSize = 0
      BY DEF Init, BufferInit, FirstIn, LastIn, Idle
    <3>2. Len(Contents) = 0
      BY <1>1, <3>1, ContentsType DEF ContentsOK
    <3>3. off \in [1 .. Len(due) + 1 -> Int]
      OBVIOUS
    <3>4. Places(off, due, Contents, FirstIn, LastIn)
      BY <3>1, <3>2 DEF Places
    <3> QED BY <3>3, <3>4 DEF Stored
  <2> QED BY <2>1, <2>2 DEF Undisturbed, Calm
<1> QED BY <1>1, <1>2, <1>3, <1>4, <1>5 DEF Inv

\* What is written is the chunk, and what is read was popped.
LEMMA BufferMoves ==
  ASSUME Typed, Receiving, Handing, Next
  PROVE  [BufferNext]_bufferVars
<1>1. CASE WriteRecvData
  <2>1. chunk \in Seq(Bytes) /\ chunk # <<>>
    BY <1>1 DEF WriteRecvData, Receiving, Typed
  <2>2. Write(chunk) \/ UNCHANGED bufferVars
    BY <1>1 DEF WriteRecvData
  <2> QED BY <2>1, <2>2 DEF BufferNext
<1>2. ASSUME NEW t \in Threads, ReadRecvData(t) PROVE [BufferNext]_bufferVars
  <2>1. thread[t].size \in Nat \ {0}
    BY <1>2, Constants DEF ReadRecvData, Handing, Typed
  <2>2. Read(thread[t].size) \/ UNCHANGED bufferVars
    BY <1>2 DEF ReadRecvData
  <2> QED BY <2>1, <2>2 DEF BufferNext
<1>3. CASE Reset \/ Receive \/ PushPacket \/ \E len \in Lengths : Send(len)
  BY <1>3 DEF Reset, Receive, PushPacket, Send
<1>4. ASSUME NEW t \in Threads, Pop(t) \/ Dispatch(t) PROVE [BufferNext]_bufferVars
  BY <1>4 DEF Pop, Dispatch
<1> QED BY <1>1, <1>2, <1>3, <1>4 DEF Next, Work, RedisThread

\* What is read are bytes.
LEMMA ReadGives ==
  ASSUME BufferInv, NEW size \in Nat \ {0}, Read(size)
  PROVE  readData' \in Seq(Bytes) /\ Len(readData') = size /\ Head(readData') \in Bytes
<1>1. /\ size <= Len(Contents) /\ readData' = SubSeq(Contents, 1, size)
      /\ Contents \in Seq(Bytes)
  BY ReadTakes, ContentsType DEF ContentsOK
<1> HIDE DEF Contents
<1>2. SubSeq(Contents, 1, size) \in Seq(Bytes) /\ Len(SubSeq(Contents, 1, size)) = size
  BY <1>1
<1>3. readData' \in Seq(Bytes) /\ Len(readData') = size
  BY <1>1, <1>2
<1> QED BY <1>3

LEMMA CellsType ==
  ASSUME NEW n \in 1 .. MaxPackets, NEW len \in Lengths
  PROVE  Cells(n, len) \in Seq(Bytes) /\ Len(Cells(n, len)) = len
<1>1. len \in 1 .. MaxRecv /\ len \in Nat
  BY Constants
<1>2. \A i \in 1 .. len : <<n, i>> \in Bytes
  BY <1>1, Constants
<1> QED BY <1>1, <1>2 DEF Cells

HandType == [at : {"idle", "popped", "read", "undefined"}, size : 0 .. MaxRecv,
             first : Bytes]

\* A thread changes its state.
LEMMA ThreadMoves ==
  ASSUME Typed, Handing, NEW t \in Threads, NEW w \in HandType,
         w.at = "idle" => w = Idle, w.at = "popped" => w.size # 0,
         thread' = [thread EXCEPT ![t] = w]
  PROVE  thread' \in [Threads -> HandType] /\ Handing'
<1>1. thread \in [Threads -> HandType]
  BY DEF Typed, HandType
<1>2. \A u \in Threads : thread'[u] = IF u = t THEN w ELSE thread[u]
  BY <1>1
<1> QED BY <1>1, <1>2 DEF Handing

\* The states into which a thread goes.
PoppedHand(size) == [at |-> "popped", size |-> size, first |-> Junk]

ReadHand(b) == [at |-> "read", size |-> 0, first |-> b]

LEMMA Hands ==
  /\ Idle \in HandType /\ Idle.at = "idle"
  /\ Undefined \in HandType /\ Undefined.at = "undefined"
BY Constants DEF Idle, Undefined, HandType

LEMMA PoppedHands ==
  ASSUME NEW size \in 1 .. MaxRecv
  PROVE  /\ PoppedHand(size) \in HandType /\ PoppedHand(size).at = "popped"
         /\ PoppedHand(size).size = size /\ size # 0
<1>1. size \in 0 .. MaxRecv /\ size # 0 /\ Junk \in Bytes
  BY Constants
<1>2. PoppedHand(size).at = "popped" /\ PoppedHand(size).size = size
  BY DEF PoppedHand
<1>3. PoppedHand(size) \in HandType
  BY <1>1 DEF PoppedHand, HandType
<1> QED BY <1>1, <1>2, <1>3

LEMMA PopIs ==
  ASSUME NEW t, Pop(t)
  PROVE  thread' = [thread EXCEPT ![t] = PoppedHand(Head(procSktQueue))]
<1>1. PICK idle : idle = [Idle EXCEPT !.at = "popped"]
  OBVIOUS
<1>2. idle = [at |-> "popped", size |-> 0, first |-> Junk]
  BY <1>1 DEF Idle
<1>3. PICK size : size = Head(procSktQueue)
  OBVIOUS
<1>4. [idle EXCEPT !.size = size] = PoppedHand(size)
  BY <1>2 DEF PoppedHand
<1>5. thread' = [thread EXCEPT ![t] = [idle EXCEPT !.size = size]]
  BY <1>1, <1>3 DEF Pop
<1> QED BY <1>3, <1>4, <1>5

LEMMA ReadHands ==
  ASSUME NEW b \in Bytes
  PROVE  ReadHand(b) \in HandType /\ ReadHand(b).at = "read" /\ ReadHand(b).first = b
BY Constants DEF HandType, ReadHand

\* The types are kept.
LEMMA TypedNext ==
  ASSUME Inv, Next
  PROVE  Typed' /\ Receiving' /\ Handing'
<1> USE DEF Inv
<1>1. ASSUME NEW len \in Lengths, Send(len) PROVE Typed' /\ Receiving' /\ Handing'
  <2>1. Len(packets) + 1 \in 1 .. MaxPackets /\ packets' \in Seq(Lengths)
    BY <1>1, Constants DEF Send, Typed
  <2>2. stream' \in Seq(Bytes)
    BY <1>1, <2>1, CellsType DEF Send, Typed
  <2> QED BY <1>1, <2>1, <2>2 DEF Send, Typed, Receiving, Handing
<1>2. CASE Reset
  <2>1. conn' \in 1 .. MaxConns
    BY <1>2, Constants DEF Reset, Typed
  <2>2. due' \in Seq([data : Seq(Bytes), session : 1 .. MaxConns]) /\ calm' \in BOOLEAN
    BY <1>2 DEF Reset, Disturbed, Typed
  <2> QED BY <1>2, <2>1, <2>2 DEF Reset, Typed, Receiving, Handing
<1>3. CASE Receive
  <2>1. PICK n \in 1 .. Len(stream) :
          /\ n <= MaxRecv
          /\ chunk' = SubSeq(stream, 1, n)
          /\ stream' = SubSeq(stream, n + 1, Len(stream))
    BY <1>3 DEF Receive
  <2>2. stream \in Seq(Bytes) /\ Len(stream) \in Nat
    BY DEF Typed
  <2>3. /\ SubSeq(stream, 1, n) \in Seq(Bytes) /\ Len(SubSeq(stream, 1, n)) = n
        /\ SubSeq(stream, n + 1, Len(stream)) \in Seq(Bytes)
    BY <2>2
  <2>4. chunk' \in Seq(Bytes) /\ Len(chunk') = n /\ stream' \in Seq(Bytes) /\ chunk' # <<>>
    BY <2>1, <2>3
  <2>5. calm' \in BOOLEAN
    BY <1>3 DEF Receive, Typed
  <2>6. due' \in Seq([data : Seq(Bytes), session : 1 .. MaxConns])
    <3>1. [data |-> chunk', session |-> conn] \in [data : Seq(Bytes), session : 1 .. MaxConns]
      BY <2>4 DEF Typed
    <3>2. due \in Seq([data : Seq(Bytes), session : 1 .. MaxConns])
      BY DEF Typed
    <3>3. Append(due, [data |-> chunk', session |-> conn])
            \in Seq([data : Seq(Bytes), session : 1 .. MaxConns])
      BY <3>1, <3>2
    <3>4. CASE calm'
      BY <1>3, <3>3, <3>4 DEF Receive
    <3>5. CASE ~calm'
      BY <1>3, <3>5 DEF Receive
    <3> QED BY <3>4, <3>5
  <2>7. worker' = "write" /\ UNCHANGED <<packets, conn, procSktQueue, thread, refused>>
    BY <1>3 DEF Receive
  <2> QED BY <2>1, <2>4, <2>5, <2>6, <2>7 DEF Typed, Receiving, Handing
<1>4. CASE WriteRecvData
  <2>1. refused' \in Nat
    BY <1>4 DEF WriteRecvData, Typed
  <2>2. due' \in Seq([data : Seq(Bytes), session : 1 .. MaxConns]) /\ calm' \in BOOLEAN
    BY <1>4 DEF WriteRecvData, Disturbed, Typed
  <2> QED BY <1>4, <2>1, <2>2 DEF WriteRecvData, Typed, Receiving, Handing
<1>5. CASE PushPacket
  <2>1. Len(chunk) \in 1 .. MaxRecv
    BY <1>5, Constants DEF PushPacket, Receiving, Typed
  <2> QED BY <1>5, <2>1, Constants DEF PushPacket, Typed, Receiving, Handing
<1>6. ASSUME NEW t \in Threads, Pop(t) PROVE Typed' /\ Receiving' /\ Handing'
  <2>1. /\ Head(procSktQueue) \in 1 .. MaxRecv
        /\ procSktQueue' \in Seq(1 .. MaxRecv)
    <3>1. procSktQueue \in Seq(1 .. MaxRecv) /\ procSktQueue # <<>>
      BY <1>6 DEF Pop, Typed
    <3> QED BY <1>6, <3>1, HeadTailProperties DEF Pop
  <2>2. due' \in Seq([data : Seq(Bytes), session : 1 .. MaxConns]) /\ calm' \in BOOLEAN
    BY <1>6 DEF Pop, Disturbed, Typed
  <2>3. thread' \in [Threads -> HandType] /\ Handing'
    <3>1. PICK size \in 1 .. MaxRecv : size = Head(procSktQueue)
      BY <2>1
    <3>2. thread' = [thread EXCEPT ![t] = PoppedHand(size)]
      BY <1>6, <3>1, PopIs
    <3>3. /\ PoppedHand(size) \in HandType /\ PoppedHand(size).at = "popped"
          /\ PoppedHand(size).size = size /\ size # 0
      BY PoppedHands
    <3> QED BY <3>2, <3>3, ThreadMoves
  <2> QED BY <1>6, <2>1, <2>2, <2>3 DEF Pop, Typed, Receiving, HandType
<1>7. ASSUME NEW t \in Threads, ReadRecvData(t) PROVE Typed' /\ Receiving' /\ Handing'
  <2>1. thread[t].size \in Nat \ {0}
    BY <1>7, Constants DEF ReadRecvData, Handing, Typed
  <2>2. Read(thread[t].size) => Head(readData') \in Bytes
    BY <2>1, ReadGives
  <2>3. thread' \in [Threads -> HandType] /\ Handing'
    <3>1. CASE Read(thread[t].size)
               /\ thread' = [thread EXCEPT ![t] = [at |-> "read", size |-> 0,
                                                  first |-> Head(readData')]]
      <4>1. ReadHand(Head(readData')) \in HandType /\ ReadHand(Head(readData')).at = "read"
        BY <2>2, <3>1, ReadHands
      <4>2. thread' = [thread EXCEPT ![t] = ReadHand(Head(readData'))]
        BY <3>1 DEF ReadHand
      <4> QED BY <4>1, <4>2, ThreadMoves
    <3>2. CASE thread' = [thread EXCEPT ![t] = Undefined]
      <4>1. Undefined \in HandType /\ Undefined.at # "idle" /\ Undefined.at # "popped"
        BY Hands
      <4> QED BY <3>2, <4>1, ThreadMoves
    <3> QED BY <1>7, <3>1, <3>2 DEF ReadRecvData
  <2> QED BY <1>7, <2>3 DEF ReadRecvData, Typed, Receiving, HandType
<1>8. ASSUME NEW t \in Threads, Dispatch(t) PROVE Typed' /\ Receiving' /\ Handing'
  <2>1. due' \in Seq([data : Seq(Bytes), session : 1 .. MaxConns])
    <3>1. CASE calm
      <4>1. due # <<>>
        <5>1. InHand = 1
          BY <1>8 DEF Dispatch, InHand, Idle
        <5>2. Len(due) = 1 + Len(procSktQueue) + InChunk /\ InChunk \in Nat
          BY <3>1, <5>1 DEF Undisturbed, Calm, Listed, InChunk
        <5>3. Len(due) # 0
          BY <5>2 DEF Typed
        <5> QED BY <5>3
      <4> QED BY <1>8, <3>1, <4>1 DEF Dispatch, Typed
    <3>2. CASE ~calm
      BY <1>8, <3>2 DEF Dispatch
    <3> QED BY <3>1, <3>2
  <2>2. thread' \in [Threads -> HandType] /\ Handing'
    <3>1. CASE thread' = [thread EXCEPT ![t] = Idle]
      BY <3>1, Hands, ThreadMoves
    <3>2. CASE thread' = [thread EXCEPT ![t] = Undefined]
      <4>1. Undefined \in HandType /\ Undefined.at # "idle" /\ Undefined.at # "popped"
        BY Hands
      <4> QED BY <3>2, <4>1, ThreadMoves
    <3> QED BY <1>8, <3>1, <3>2 DEF Dispatch
  <2> QED BY <1>8, <2>1, <2>2 DEF Dispatch, Typed, Receiving, HandType
<1> QED BY <1>1, <1>2, <1>3, <1>4, <1>5, <1>6, <1>7, <1>8 DEF Next, Work, RedisThread

----------------------------------------------------------------------------
(* The bytes in the buffer are accounted for *)

Sizes == [t \in Threads |-> PoppedSize(t)]

Counted ==
  /\ Sizes \in [Threads -> 0 .. MaxRecv]
  /\ Popped = HandSet(Sizes) /\ Queued = QueueSet(procSktQueue)
  /\ Cardinality(Popped) \in Nat /\ Cardinality(Queued) \in Nat

LEMMA Counts == Typed => Counted
<1> SUFFICES ASSUME Typed PROVE Counted
  OBVIOUS
<1>1. Sizes \in [Threads -> 0 .. MaxRecv]
  BY Constants DEF Typed, Sizes, PoppedSize
<1>2. Popped = HandSet(Sizes)
  BY DEF Popped, HandSet, Sizes
<1>3. Queued = QueueSet(procSktQueue)
  BY DEF Queued, QueueSet
<1>4. procSktQueue \in Seq(1 .. MaxRecv)
  BY DEF Typed
<1> QED BY <1>1, <1>2, <1>3, <1>4, HandFinite, QueueFinite DEF Counted

LEMMA BackedNext ==
  ASSUME Inv, Next
  PROVE  ReadsBacked'
<1>0. /\ Typed /\ Typed' /\ BufferInv /\ Receiving /\ Handing /\ ReadsBacked
      /\ currentSize \in Nat /\ MaxRecv \in Nat \ {0}
  BY TypedNext, Constants, BufferAssumption DEF Inv, BufferInv, BufferTypeOK
<1>1. /\ Sizes \in [Threads -> 0 .. MaxRecv]
      /\ Popped = HandSet(Sizes) /\ Queued = QueueSet(procSktQueue)
      /\ Cardinality(Popped) \in Nat /\ Cardinality(Queued) \in Nat
  BY <1>0, Counts DEF Counted
<1>2. /\ Sizes' \in [Threads -> 0 .. MaxRecv]
      /\ Popped' = HandSet(Sizes') /\ Queued' = QueueSet(procSktQueue')
      /\ Cardinality(Popped') \in Nat /\ Cardinality(Queued') \in Nat
  <2>1. Counted'
    BY <1>0, Counts, PTL
  <2> QED BY <2>1 DEF Counted
<1>3. CASE UNCHANGED <<currentSize, procSktQueue, thread, refused>>
           /\ worker # "push" /\ worker' # "push"
  <2>1. Queued' = Queued /\ Popped' = Popped
    BY <1>3 DEF Queued, Popped, PoppedSize
  <2> QED BY <1>0, <1>3, <2>1 DEF ReadsBacked
<1>4. CASE UNCHANGED <<currentSize, procSktQueue, thread, refused, worker, chunk>>
  <2>1. Queued' = Queued /\ Popped' = Popped
    BY <1>4 DEF Queued, Popped, PoppedSize
  <2> QED BY <1>0, <1>4, <2>1 DEF ReadsBacked
<1>5. CASE WriteRecvData
  <2>1. Queued' = Queued /\ Popped' = Popped
    BY <1>5 DEF WriteRecvData, Queued, Popped, PoppedSize
  <2>2. Len(chunk) \in Nat \ {0} /\ refused \in Nat /\ worker # "push" /\ worker' = "push"
        /\ chunk' = chunk
    BY <1>0, <1>5 DEF WriteRecvData, Receiving, Typed
  <2>3. CASE Write(chunk) /\ UNCHANGED refused
    <3>1. currentSize' = currentSize + Len(chunk)
      BY <2>3 DEF Write
    <3> QED BY <1>0, <1>1, <2>1, <2>2, <2>3, <3>1 DEF ReadsBacked
  <2>4. CASE refused' = refused + Len(chunk)
    BY <2>2, <2>4 DEF ReadsBacked
  <2> QED BY <1>5, <2>3, <2>4 DEF WriteRecvData
<1>6. CASE PushPacket
  <2>1. Len(chunk) \in 1 .. MaxRecv /\ procSktQueue \in Seq(1 .. MaxRecv)
    BY <1>0, <1>6 DEF PushPacket, Receiving, Typed
  <2>2. procSktQueue' = Append(procSktQueue, Len(chunk)) /\ Popped' = Popped
    BY <1>6 DEF PushPacket, Popped, PoppedSize
  <2>3. Cardinality(Queued') = Cardinality(Queued) + Len(chunk)
    BY <1>1, <1>2, <2>1, <2>2, QueueAppend
  <2>4. currentSize' = currentSize /\ worker = "push" /\ worker' = "recv"
        /\ refused' = refused
    BY <1>6 DEF PushPacket, bufferVars
  <2> QED BY <1>0, <1>1, <2>1, <2>2, <2>3, <2>4 DEF ReadsBacked
<1>7. ASSUME NEW t \in Threads, Pop(t) PROVE ReadsBacked'
  <2>1. procSktQueue \in Seq(1 .. MaxRecv) /\ procSktQueue # <<>>
        /\ procSktQueue' = Tail(procSktQueue)
    BY <1>0, <1>7 DEF Pop, Typed
  <2>2. Head(procSktQueue) \in 1 .. MaxRecv
    BY <2>1, HeadTailProperties
  <2>3. Cardinality(Queued') = Cardinality(Queued) - Head(procSktQueue)
    BY <1>1, <1>2, <2>1, QueueTail
  <2>4. /\ thread[t] = Idle /\ thread \in [Threads -> HandType]
        /\ thread' = [thread EXCEPT ![t] = PoppedHand(Head(procSktQueue))]
    BY <1>0, <1>7, PopIs DEF Pop, Typed, HandType
  <2>5. Sizes[t] = 0 /\ Sizes'[t] = Head(procSktQueue)
    BY <2>4 DEF Sizes, PoppedSize, PoppedHand, Idle
  <2>6. \A u \in Threads : u # t => Sizes[u] = Sizes'[u]
    BY <2>4 DEF Sizes, PoppedSize
  <2>7. Cardinality(HandSet(Sizes)) = Cardinality(HandSet(Sizes')) - Sizes'[t]
    BY <1>1, <1>2, <2>5, <2>6, HandLess
  <2>8. UNCHANGED <<currentSize, worker, chunk, refused>>
    BY <1>7 DEF Pop, bufferVars
  <2>9. Cardinality(Popped) = Cardinality(Popped') - Head(procSktQueue)
    BY <1>1, <1>2, <2>5, <2>7
  <2>10. Cardinality(Queued') + Cardinality(Popped')
         = Cardinality(Queued) + Cardinality(Popped)
    BY <1>1, <1>2, <2>2, <2>3, <2>9
  <2> QED BY <1>0, <2>8, <2>10 DEF ReadsBacked
<1>8. ASSUME NEW t \in Threads, ReadRecvData(t) PROVE ReadsBacked'
  <2>1. /\ thread[t].at = "popped" /\ thread \in [Threads -> HandType]
        /\ thread[t].size \in Nat \ {0}
    BY <1>0, <1>8 DEF ReadRecvData, Typed, Handing, HandType
  <2>2. Sizes[t] = thread[t].size
    BY <2>1 DEF Sizes, PoppedSize
  <2>3. thread' = [thread EXCEPT ![t] = ReadHand(Head(readData'))]
        \/ thread' = [thread EXCEPT ![t] = Undefined]
    BY <1>8 DEF ReadRecvData, ReadHand
  <2>4. Sizes'[t] = 0
    BY <2>1, <2>3 DEF Sizes, PoppedSize, ReadHand, Undefined, Idle
  <2>5. \A u \in Threads : u # t => Sizes'[u] = Sizes[u]
    BY <2>1, <2>3 DEF Sizes, PoppedSize
  <2>6. Cardinality(HandSet(Sizes')) = Cardinality(HandSet(Sizes)) - Sizes[t]
    BY <1>1, <1>2, <2>4, <2>5, HandLess
  <2>7. Cardinality(Popped') = Cardinality(Popped) - thread[t].size
    BY <1>1, <1>2, <2>2, <2>6
  <2>8. /\ Queued' = Queued /\ UNCHANGED <<worker, chunk, refused>>
        /\ Len(chunk) \in Nat
    BY <1>0, <1>8 DEF ReadRecvData, Queued, Typed
  <2>9. CASE Read(thread[t].size)
    <3>1. currentSize' = currentSize - thread[t].size
      BY <2>9 DEF Read
    <3>2. PICK w \in Nat : w = IF worker = "push" THEN Len(chunk) ELSE 0
      BY <2>8
    <3>3. w = IF worker' = "push" THEN Len(chunk') ELSE 0
      BY <2>8, <3>2
    <3>4. refused' = 0 => currentSize = Cardinality(Queued) + Cardinality(Popped) + w
      BY <1>0, <2>8, <3>2 DEF ReadsBacked
    <3>5. refused' = 0 => currentSize' = Cardinality(Queued') + Cardinality(Popped') + w
      <4>1. Cardinality(Queued') = Cardinality(Queued) /\ thread[t].size \in Nat
        BY <2>1, <2>8
      <4>2. PICK p \in Nat : p = Cardinality(Popped)
        BY <1>1
      <4>3. PICK q \in Nat : q = Cardinality(Queued)
        BY <1>1
      <4>4. PICK z \in Nat : z = thread[t].size
        BY <2>1
      <4>5. Cardinality(Popped') = p - z /\ currentSize' = currentSize - z
            /\ Cardinality(Queued') = q
        BY <2>7, <3>1, <4>1, <4>2, <4>3, <4>4
      <4>6. refused' = 0 => currentSize = q + p + w
        BY <3>4, <4>2, <4>3
      <4> QED BY <1>0, <4>5, <4>6
    <3> QED BY <3>3, <3>5 DEF ReadsBacked
  <2>10. CASE currentSize < thread[t].size
    <3>1. thread[t].size <= Cardinality(Popped)
      BY <1>1, <1>2, <2>1, <2>7
    <3>2. refused # 0
      BY <1>0, <1>1, <2>1, <2>8, <2>10, <3>1 DEF ReadsBacked
    <3> QED BY <2>8, <3>2 DEF ReadsBacked
  <2> QED BY <1>8, <2>9, <2>10 DEF ReadRecvData
<1>9. ASSUME NEW t \in Threads, Dispatch(t) PROVE ReadsBacked'
  <2>1. /\ thread[t].at = "read" /\ thread \in [Threads -> HandType]
        /\ thread' = [thread EXCEPT ![t] = Idle]
           \/ thread' = [thread EXCEPT ![t] = Undefined]
    BY <1>0, <1>9 DEF Dispatch, Typed, HandType
  <2>2. \A u \in Threads : PoppedSize(u)' = PoppedSize(u)
    BY <2>1 DEF PoppedSize, Idle, Undefined
  <2>3. Popped' = Popped
    BY <2>2 DEF Popped
  <2>4. Queued' = Queued /\ UNCHANGED <<currentSize, worker, chunk, refused>>
    BY <1>9 DEF Dispatch, Queued, bufferVars
  <2> QED BY <1>0, <2>3, <2>4 DEF ReadsBacked
<1>10. CASE Receive
  BY <1>3, <1>10 DEF Receive, bufferVars
<1>11. CASE Reset \/ \E len \in Lengths : Send(len)
  BY <1>4, <1>11 DEF Reset, Send, bufferVars
<1> QED BY <1>5, <1>6, <1>7, <1>8, <1>9, <1>10, <1>11 DEF Next, Work, RedisThread

----------------------------------------------------------------------------
(* Where the entries of due lie in the buffer *)

Entries == [data : Seq(Bytes), session : 1 .. MaxConns]

\* Entries that are in the buffer are inside it.
LEMMA PlacesInside ==
  ASSUME NEW d \in Seq(Entries), NEW C \in Seq(Bytes), NEW off \in [1 .. Len(d) + 1 -> Int],
         NEW b \in 1 .. Len(d) + 1, NEW e \in 0 .. Len(d), Places(off, d, C, b, e),
         NEW j \in b .. e
  PROVE  /\ j \in 1 .. Len(d) /\ d[j].data \in Seq(Bytes) /\ off[j] \in Nat
         /\ off[j] + Len(d[j].data) <= Len(C)
         /\ \A i \in 1 .. Len(d[j].data) : C[off[j] + i] = d[j].data[i]
<1>1. Len(d) \in Nat /\ Len(C) \in Nat
  OBVIOUS
<1>2. /\ j \in 1 .. Len(d) /\ j \in 1 .. Len(d) + 1 /\ j + 1 \in 1 .. Len(d) + 1
      /\ e + 1 \in 1 .. Len(d) + 1 /\ b <= j /\ j + 1 <= e + 1
  BY <1>1
<1>3. d[j] \in Entries
  BY <1>2
<1>4. d[j].data \in Seq(Bytes) /\ Len(d[j].data) \in Nat
  BY <1>3 DEF Entries
<1>5. /\ off[b] <= off[j] /\ off[j + 1] <= off[e + 1]
      /\ off[j + 1] = off[j] + Len(d[j].data)
      /\ off[b] = 0 /\ off[e + 1] = Len(C)
      /\ \A i \in 1 .. Len(d[j].data) : C[off[j] + i] = d[j].data[i]
  BY <1>2 DEF Places
<1>6. off[j] \in Int /\ off[j + 1] \in Int
  BY <1>2
<1> QED BY <1>1, <1>2, <1>4, <1>5, <1>6

\* An entry is added whose bytes the worker still has,
LEMMA PlacesAppend ==
  ASSUME NEW d \in Seq(Entries), NEW C \in Seq(Bytes), NEW off \in [1 .. Len(d) + 1 -> Int],
         NEW b \in 1 .. Len(d) + 1, Places(off, d, C, b, Len(d)), NEW x \in Entries
  PROVE  \E o \in [1 .. Len(d) + 2 -> Int] : Places(o, Append(d, x), C, b, Len(d))
<1>1. /\ Append(d, x) \in Seq(Entries) /\ Len(Append(d, x)) = Len(d) + 1
      /\ Append(d, x)[Len(d) + 1] = x /\ \A j \in 1 .. Len(d) : Append(d, x)[j] = d[j]
      /\ Len(d) \in Nat
  OBVIOUS
<1>2. PICK r : r = Append(d, x)
  OBVIOUS
<1>3. PICK n \in Nat : n = Len(d)
  BY <1>1
<1>4. PICK m \in Nat : m = Len(x.data)
  BY DEF Entries
<1> DEFINE o == [j \in 1 .. n + 2 |-> IF j <= n + 1 THEN off[j] ELSE off[n + 1] + m]
<1>5. off \in [1 .. n + 1 -> Int]
  BY <1>3
<1>6. o \in [1 .. n + 2 -> Int]
  BY <1>5
<1>7. /\ \A j \in 1 .. n + 1 : o[j] = off[j]
      /\ o[n + 2] = off[n + 1] + m
  OBVIOUS
<1>8. /\ \A j, k \in 1 .. n + 1 : j <= k => off[j] <= off[k]
      /\ \A j \in 1 .. n : off[j + 1] = off[j] + Len(d[j].data)
      /\ off[b] = 0 /\ off[n + 1] = Len(C)
      /\ \A j \in b .. n : \A i \in 1 .. Len(d[j].data) : C[off[j] + i] = d[j].data[i]
  BY <1>3 DEF Places
<1> HIDE DEF o
<1>9. \A j, k \in 1 .. n + 2 : j <= k => o[j] <= o[k]
  <2> SUFFICES ASSUME NEW j \in 1 .. n + 2, NEW k \in 1 .. n + 2, j <= k
               PROVE  o[j] <= o[k]
    OBVIOUS
  <2>1. CASE k <= n + 1
    BY <1>7, <1>8, <2>1
  <2>2. CASE j = n + 2
    <3>1. k = n + 2 /\ o[n + 2] \in Int
      BY <1>6, <2>2
    <3> QED BY <2>2, <3>1
  <2>3. CASE j <= n + 1 /\ k = n + 2
    <3>1. o[j] = off[j] /\ off[j] <= off[n + 1] /\ off[j] \in Int /\ off[n + 1] \in Int
      BY <1>5, <1>7, <1>8, <2>3
    <3> QED BY <1>7, <2>3, <3>1
  <2> QED BY <2>1, <2>2, <2>3
<1>10. \A j \in 1 .. n + 1 : o[j + 1] = o[j] + Len(r[j].data)
  <2> SUFFICES ASSUME NEW j \in 1 .. n + 1 PROVE o[j + 1] = o[j] + Len(r[j].data)
    OBVIOUS
  <2>1. CASE j \in 1 .. n
    BY <1>1, <1>2, <1>3, <1>7, <1>8, <2>1
  <2>2. CASE j = n + 1
    BY <1>1, <1>2, <1>3, <1>4, <1>7, <2>2
  <2> QED BY <2>1, <2>2
<1>11. o[b] = 0 /\ o[n + 1] = Len(C)
  BY <1>3, <1>7, <1>8
<1>12. \A j \in b .. n : \A i \in 1 .. Len(r[j].data) : C[o[j] + i] = r[j].data[i]
  <2> SUFFICES ASSUME NEW j \in b .. n
               PROVE  \A i \in 1 .. Len(r[j].data) : C[o[j] + i] = r[j].data[i]
    OBVIOUS
  <2>1. j \in 1 .. n /\ o[j] = off[j] /\ r[j] = d[j]
    BY <1>1, <1>2, <1>3, <1>7
  <2> QED BY <1>8, <2>1
<1>13. Len(r) + 1 = n + 2
  BY <1>1, <1>2, <1>3
<1>14. Places(o, r, C, b, n)
  BY <1>1, <1>2, <1>3, <1>9, <1>10, <1>11, <1>12, <1>13 DEF Places
<1> QED BY <1>2, <1>3, <1>6, <1>14

\* then they are written behind the others.
LEMMA PlacesWrite ==
  ASSUME NEW d \in Seq(Entries), NEW C \in Seq(Bytes), NEW off \in [1 .. Len(d) + 1 -> Int],
         NEW b \in 1 .. Len(d) + 1, d # <<>>, Places(off, d, C, b, Len(d) - 1),
         NEW x \in Seq(Bytes), x = d[Len(d)].data,
         NEW B \in Seq(Bytes), Len(B) = Len(C) + Len(x),
         \A i \in 1 .. Len(C) : B[i] = C[i],
         \A i \in 1 .. Len(x) : B[Len(C) + i] = x[i]
  PROVE  Places(off, d, B, b, Len(d))
<1>1. PICK n \in Nat : n = Len(d) /\ n >= 1
  <2>1. Len(d) \in Nat /\ Len(d) # 0
    OBVIOUS
  <2> QED BY <2>1
<1>2. /\ \A j, k \in 1 .. n + 1 : j <= k => off[j] <= off[k]
      /\ \A j \in 1 .. n : off[j + 1] = off[j] + Len(d[j].data)
      /\ off[b] = 0 /\ off[(n - 1) + 1] = Len(C)
  BY <1>1 DEF Places
<1>3. off[n] = Len(C)
  BY <1>1, <1>2
<1>4. off[n + 1] = Len(B)
  <2>1. n \in 1 .. n
    BY <1>1
  <2>2. off[n + 1] = off[n] + Len(d[n].data)
    BY <1>2, <2>1
  <2> QED BY <1>1, <1>3, <2>2
<1>5. \A j \in b .. n : \A i \in 1 .. Len(d[j].data) : B[off[j] + i] = d[j].data[i]
  <2> SUFFICES ASSUME NEW j \in b .. n, NEW i \in 1 .. Len(d[j].data)
               PROVE  B[off[j] + i] = d[j].data[i]
    OBVIOUS
  <2>1. CASE j = n
    BY <1>1, <1>3, <2>1
  <2>2. CASE j # n
    <3>1. j \in b .. Len(d) - 1 /\ Len(d) - 1 \in 0 .. Len(d)
      BY <1>1, <2>2
    <3>2. /\ d[j].data \in Seq(Bytes) /\ off[j] \in Nat
          /\ off[j] + Len(d[j].data) <= Len(C)
          /\ C[off[j] + i] = d[j].data[i]
      BY <3>1, PlacesInside
    <3>3. off[j] + i \in 1 .. Len(C)
      <4>1. PICK z \in Nat : z = off[j]
        BY <3>2
      <4>2. PICK m \in Nat : m = Len(d[j].data)
        BY <3>2
      <4>3. PICK c \in Nat : c = Len(C)
        OBVIOUS
      <4>4. z + m <= c /\ i \in 1 .. m
        BY <3>2, <4>1, <4>2, <4>3
      <4>5. z + i \in 1 .. c
        BY <4>4
      <4> QED BY <4>1, <4>3, <4>5
    <3> QED BY <3>2, <3>3
  <2> QED BY <2>1, <2>2
<1> QED BY <1>1, <1>2, <1>4, <1>5 DEF Places

\* What is in front is the first entry.
LEMMA PlacesFront ==
  ASSUME NEW d \in Seq(Entries), NEW C \in Seq(Bytes), NEW off \in [1 .. Len(d) + 1 -> Int],
         NEW e \in 1 .. Len(d), Places(off, d, C, 1, e)
  PROVE  /\ d[1].data \in Seq(Bytes) /\ Len(d[1].data) <= Len(C)
         /\ SubSeq(C, 1, Len(d[1].data)) = d[1].data
<1>1. 1 \in 1 .. e /\ 1 \in 1 .. Len(d) + 1 /\ e \in 0 .. Len(d)
  OBVIOUS
<1>2. /\ d[1].data \in Seq(Bytes) /\ off[1] \in Nat
      /\ off[1] + Len(d[1].data) <= Len(C)
      /\ \A i \in 1 .. Len(d[1].data) : C[off[1] + i] = d[1].data[i]
  BY <1>1, PlacesInside
<1>3. off[1] = 0
  BY DEF Places
<1>4. PICK x \in Seq(Bytes) : x = d[1].data
  BY <1>2
<1>5. Len(x) \in Nat /\ Len(x) <= Len(C) /\ \A i \in 1 .. Len(x) : C[i] = x[i]
  BY <1>2, <1>3, <1>4
<1>6. /\ SubSeq(C, 1, Len(x)) \in Seq(Bytes) /\ Len(SubSeq(C, 1, Len(x))) = Len(x)
      /\ \A i \in 1 .. Len(x) : SubSeq(C, 1, Len(x))[i] = C[i]
  BY <1>5
<1>7. SubSeq(C, 1, Len(x)) = x
  BY <1>5, <1>6, SeqEqual
<1> QED BY <1>4, <1>5, <1>7

\* It is read,
LEMMA PlacesRead ==
  ASSUME NEW d \in Seq(Entries), NEW C \in Seq(Bytes), NEW off \in [1 .. Len(d) + 1 -> Int],
         NEW e \in 1 .. Len(d), Places(off, d, C, 1, e)
  PROVE  \E o \in [1 .. Len(d) + 1 -> Int] :
           Places(o, d, SubSeq(C, Len(d[1].data) + 1, Len(C)), 2, e)
<1>1. Len(d) \in Nat /\ d[1].data \in Seq(Bytes) /\ Len(d[1].data) <= Len(C)
  BY PlacesFront
<1>2. PICK m \in Nat : m = Len(d[1].data)
  BY <1>1
<1>3. PICK n \in Nat : n = Len(d)
  BY <1>1
<1>4. PICK B : B = SubSeq(C, m + 1, Len(C))
  OBVIOUS
<1>5. Len(B) = Len(C) - m /\ \A i \in 1 .. Len(C) - m : B[i] = C[m + i]
  <2>1. PICK c \in Nat : c = Len(C)
    OBVIOUS
  <2>2. m <= c
    BY <1>1, <1>2, <2>1
  <2>3. \A i \in m + 1 .. c : C[i] \in Bytes
    BY <2>1
  <2>4. B = SubSeq(C, m + 1, c)
    BY <1>4, <2>1
  <2>5. /\ Len(B) = IF m + 1 <= c THEN c - (m + 1) + 1 ELSE 0
        /\ \A i \in 1 .. c - (m + 1) + 1 : B[i] = C[(m + 1) + i - 1]
    BY <2>3, <2>4, SubSeqProperties
  <2>6. Len(B) = c - m
    BY <2>2, <2>5
  <2>7. \A i \in 1 .. c - m : B[i] = C[m + i]
    <3> SUFFICES ASSUME NEW i \in 1 .. c - m PROVE B[i] = C[m + i]
      OBVIOUS
    <3>1. i \in 1 .. c - (m + 1) + 1 /\ (m + 1) + i - 1 = m + i
      BY <2>2
    <3> QED BY <2>5, <3>1
  <2> QED BY <2>1, <2>6, <2>7
<1> DEFINE o == [j \in 1 .. n + 1 |-> off[j] - m]
<1>6. off \in [1 .. n + 1 -> Int]
  BY <1>3
<1>7. o \in [1 .. n + 1 -> Int] /\ \A j \in 1 .. n + 1 : o[j] = off[j] - m
  BY <1>6
<1> HIDE DEF o
<1>8. /\ \A j, k \in 1 .. n + 1 : j <= k => off[j] <= off[k]
      /\ \A j \in 1 .. n : off[j + 1] = off[j] + Len(d[j].data)
      /\ off[1] = 0 /\ off[e + 1] = Len(C)
  BY <1>3 DEF Places
<1>9. 1 \in 1 .. n /\ 2 \in 1 .. n + 1 /\ e + 1 \in 1 .. n + 1
  BY <1>3
<1>10. off[2] = m
  <2>1. off[1 + 1] = off[1] + Len(d[1].data)
    BY <1>8, <1>9
  <2> QED BY <1>2, <1>8, <2>1
<1>11. o[2] = 0 /\ o[e + 1] = Len(B)
  BY <1>5, <1>7, <1>8, <1>9, <1>10
<1>12. \A j, k \in 1 .. n + 1 : j <= k => o[j] <= o[k]
  <2> SUFFICES ASSUME NEW j \in 1 .. n + 1, NEW k \in 1 .. n + 1, j <= k
               PROVE  o[j] <= o[k]
    OBVIOUS
  <2>1. off[j] <= off[k] /\ off[j] \in Int /\ off[k] \in Int
    BY <1>6, <1>8
  <2>2. PICK y \in Int, z \in Int : y = off[j] /\ z = off[k]
    BY <2>1
  <2>3. o[j] = y - m /\ o[k] = z - m /\ y <= z
    BY <1>7, <2>1, <2>2
  <2>4. y - m <= z - m
    BY <2>3
  <2> QED BY <2>3, <2>4
<1>13. \A j \in 1 .. n : o[j + 1] = o[j] + Len(d[j].data)
  <2> SUFFICES ASSUME NEW j \in 1 .. n PROVE o[j + 1] = o[j] + Len(d[j].data)
    OBVIOUS
  <2>1. j \in 1 .. n + 1 /\ j + 1 \in 1 .. n + 1
    OBVIOUS
  <2>2. o[j + 1] = off[j + 1] - m /\ o[j] = off[j] - m
        /\ off[j] \in Int /\ off[j + 1] \in Int
    BY <1>6, <1>7, <2>1
  <2>3. off[j + 1] = off[j] + Len(d[j].data)
    BY <1>8
  <2>4. Len(d[j].data) \in Nat
    BY <1>3 DEF Entries
  <2>5. PICK z \in Int, k \in Nat : z = off[j] /\ k = Len(d[j].data)
    BY <2>2, <2>4
  <2>6. o[j] = z - m /\ o[j + 1] = (z + k) - m
    BY <2>2, <2>3, <2>5
  <2>7. (z + k) - m = (z - m) + k
    OBVIOUS
  <2> QED BY <2>5, <2>6, <2>7
<1>14. \A j \in 2 .. e : \A i \in 1 .. Len(d[j].data) : B[o[j] + i] = d[j].data[i]
  <2> SUFFICES ASSUME NEW j \in 2 .. e, NEW i \in 1 .. Len(d[j].data)
               PROVE  B[o[j] + i] = d[j].data[i]
    OBVIOUS
  <2>1. j \in 1 .. e /\ 1 \in 1 .. Len(d) + 1 /\ e \in 0 .. Len(d) /\ j \in 1 .. n + 1
    BY <1>3
  <2>2. /\ d[j].data \in Seq(Bytes) /\ off[j] \in Nat
        /\ off[j] + Len(d[j].data) <= Len(C)
        /\ C[off[j] + i] = d[j].data[i]
    BY <2>1, PlacesInside
  <2>3. off[2] <= off[j]
    BY <1>8, <1>9, <2>1
  <2>4. o[j] = off[j] - m
    BY <1>7, <2>1
  <2>5. o[j] + i \in 1 .. Len(C) - m /\ m + (o[j] + i) = off[j] + i
    <3>1. PICK z \in Nat, k \in Nat, c \in Nat :
            z = off[j] /\ k = Len(d[j].data) /\ c = Len(C)
      BY <2>2
    <3>2. z + k <= c /\ i \in 1 .. k /\ m <= z /\ o[j] = z - m
      BY <1>10, <2>2, <2>3, <2>4, <3>1
    <3>3. (z - m) + i \in 1 .. c - m /\ m + ((z - m) + i) = z + i
      BY <3>2
    <3> QED BY <3>1, <3>2, <3>3
  <2> QED BY <1>5, <2>2, <2>5
<1>15. Places(o, d, B, 2, e)
  BY <1>3, <1>11, <1>12, <1>13, <1>14 DEF Places
<1> QED BY <1>2, <1>3, <1>4, <1>7, <1>15

\* and handled.
LEMMA PlacesTail ==
  ASSUME NEW d \in Seq(Entries), d # <<>>, NEW C \in Seq(Bytes),
         NEW off \in [1 .. Len(d) + 1 -> Int],
         NEW e \in 1 .. Len(d), Places(off, d, C, 2, e)
  PROVE  \E o \in [1 .. Len(Tail(d)) + 1 -> Int] : Places(o, Tail(d), C, 1, e - 1)
<1>1. /\ Tail(d) \in Seq(Entries) /\ Len(Tail(d)) = Len(d) - 1
      /\ Len(d) \in Nat \ {0}
      /\ \A i \in 1 .. Len(d) - 1 : Tail(d)[i] = d[i + 1]
  OBVIOUS
<1>2. PICK n \in Nat : n = Len(d) - 1
  <2>1. Len(d) - 1 \in Nat
    BY <1>1
  <2> QED BY <2>1
<1>3. PICK r : r = Tail(d)
  OBVIOUS
<1> DEFINE o == [j \in 1 .. n + 1 |-> off[j + 1]]
<1>4. off \in [1 .. n + 2 -> Int] /\ Len(d) = n + 1
  BY <1>1, <1>2
<1>5. o \in [1 .. n + 1 -> Int] /\ \A j \in 1 .. n + 1 : o[j] = off[j + 1]
  BY <1>4
<1> HIDE DEF o
<1>6. /\ \A j, k \in 1 .. n + 2 : j <= k => off[j] <= off[k]
      /\ \A j \in 1 .. n + 1 : off[j + 1] = off[j] + Len(d[j].data)
      /\ off[2] = 0 /\ off[e + 1] = Len(C)
      /\ \A j \in 2 .. e : \A i \in 1 .. Len(d[j].data) : C[off[j] + i] = d[j].data[i]
  <2>1. Len(d) + 1 = n + 2
    BY <1>4
  <2> QED BY <1>4, <2>1 DEF Places
<1>7. o[1] = 0 /\ o[(e - 1) + 1] = Len(C)
  <2>1. 1 \in 1 .. n + 1 /\ e \in 1 .. n + 1 /\ (e - 1) + 1 = e
    BY <1>4
  <2>2. o[1] = off[1 + 1] /\ o[e] = off[e + 1]
    BY <1>5, <2>1
  <2> QED BY <1>6, <2>1, <2>2
<1>8. \A j, k \in 1 .. n + 1 : j <= k => o[j] <= o[k]
  <2> SUFFICES ASSUME NEW j \in 1 .. n + 1, NEW k \in 1 .. n + 1, j <= k
               PROVE  o[j] <= o[k]
    OBVIOUS
  <2>1. j + 1 \in 1 .. n + 2 /\ k + 1 \in 1 .. n + 2 /\ j + 1 <= k + 1
    OBVIOUS
  <2> QED BY <1>5, <1>6, <2>1
<1>9. \A j \in 1 .. n : o[j + 1] = o[j] + Len(r[j].data)
  <2> SUFFICES ASSUME NEW j \in 1 .. n PROVE o[j + 1] = o[j] + Len(r[j].data)
    OBVIOUS
  <2>1. j \in 1 .. n + 1 /\ j + 1 \in 1 .. n + 1
    OBVIOUS
  <2>2. o[j + 1] = off[(j + 1) + 1] /\ o[j] = off[j + 1] /\ r[j] = d[j + 1]
    BY <1>1, <1>2, <1>3, <1>5, <2>1
  <2> QED BY <1>6, <2>1, <2>2
<1>10. \A j \in 1 .. e - 1 : \A i \in 1 .. Len(r[j].data) : C[o[j] + i] = r[j].data[i]
  <2> SUFFICES ASSUME NEW j \in 1 .. e - 1
               PROVE  \A i \in 1 .. Len(r[j].data) : C[o[j] + i] = r[j].data[i]
    OBVIOUS
  <2>1. j \in 1 .. n /\ j \in 1 .. n + 1 /\ j + 1 \in 2 .. e
    BY <1>4
  <2>2. o[j] = off[j + 1] /\ r[j] = d[j + 1]
    BY <1>1, <1>2, <1>3, <1>5, <2>1
  <2> QED BY <1>6, <2>1, <2>2
<1>11. Len(r) = n
  BY <1>1, <1>2, <1>3
<1>12. Places(o, r, C, 1, e - 1)
  BY <1>7, <1>8, <1>9, <1>10, <1>11 DEF Places
<1> QED BY <1>3, <1>5, <1>11, <1>12

----------------------------------------------------------------------------
(* Undisturbed steps *)

LEMMA CalmTypes ==
  ASSUME Typed, BufferInv, Calm
  PROVE  /\ due \in Seq(Entries) /\ Len(due) \in Nat
         /\ InHand \in 0 .. 1 /\ InChunk \in 0 .. 1
         /\ procSktQueue \in Seq(1 .. MaxRecv) /\ Len(procSktQueue) \in Nat
         /\ Len(due) = InHand + Len(procSktQueue) + InChunk
         /\ Contents \in Seq(Bytes) /\ Len(Contents) = currentSize
         /\ FirstIn \in 1 .. Len(due) + 1 /\ LastIn \in 0 .. Len(due)
         /\ \E off \in [1 .. Len(due) + 1 -> Int] :
              Places(off, due, Contents, FirstIn, LastIn)
<1>1. due \in Seq(Entries) /\ procSktQueue \in Seq(1 .. MaxRecv)
  BY DEF Typed, Entries
<1>2. InHand \in 0 .. 1 /\ InChunk \in 0 .. 1
  BY DEF InHand, InChunk
<1>3. Len(due) \in Nat /\ Len(procSktQueue) \in Nat
  BY <1>1
<1>4. Len(due) = InHand + Len(procSktQueue) + InChunk
  BY DEF Calm, Listed
<1>5. Contents \in Seq(Bytes) /\ Len(Contents) = currentSize
  BY ContentsType DEF ContentsOK
<1>6. FirstIn \in 1 .. Len(due) + 1
  <2>1. CASE \E t \in Threads : thread[t].at = "read"
    <3>1. InHand = 1
      BY <2>1 DEF InHand, Idle
    <3> QED BY <1>2, <1>3, <1>4, <3>1 DEF FirstIn
  <2>2. CASE ~(\E t \in Threads : thread[t].at = "read")
    BY <1>3, <2>2 DEF FirstIn
  <2> QED BY <2>1, <2>2
<1>7. LastIn \in 0 .. Len(due)
  <2>1. CASE worker = "write"
    <3>1. InChunk = 1
      BY <2>1 DEF InChunk
    <3> QED BY <1>2, <1>3, <1>4, <2>1, <3>1 DEF LastIn
  <2>2. CASE worker # "write"
    BY <1>3, <2>2 DEF LastIn
  <2> QED BY <2>1, <2>2
<1> QED BY <1>1, <1>2, <1>3, <1>4, <1>5, <1>6, <1>7 DEF Calm, Stored

LEMMA SendCalm ==
  ASSUME Typed, Calm, NEW len \in Lengths, Send(len)
  PROVE  Calm'
<1>1. UNCHANGED <<bufferVars, conn, worker, chunk, procSktQueue, thread, refused, calm, due>>
  BY DEF Send
<1>2. OneHand' /\ Listed' /\ Sized' /\ InWork'
  BY <1>1 DEF Calm, OneHand, Listed, Sized, InWork, InHand, InChunk, bufferVars
<1>3. Whole'
  <2>1. /\ packets \in Seq(Lengths) /\ packets' = Append(packets, len)
    BY DEF Typed, Send
  <2>2. Len(packets') = Len(packets) + 1 /\ Len(packets) \in Nat
        /\ \A n \in 1 .. Len(packets) : packets'[n] = packets[n]
    BY <2>1
  <2>3. \A data : IsPacket(data) => IsPacket(data)'
    <3> SUFFICES ASSUME NEW data, IsPacket(data) PROVE IsPacket(data)'
      OBVIOUS
    <3>1. PICK n \in 1 .. Len(packets) : data = Cells(n, packets[n])
      BY DEF IsPacket
    <3>2. n \in 1 .. Len(packets') /\ data = Cells(n, packets'[n])
      BY <2>2, <3>1
    <3> QED BY <3>2 DEF IsPacket
  <2>4. \A i \in 1 .. Len(due) : due[i].session = conn /\ IsPacket(due[i].data)
    BY DEF Calm, Whole
  <2> QED BY <1>1, <2>3, <2>4 DEF Whole, IsPacket
<1>4. Stored'
  <2>1. Contents' = Contents
    BY <1>1 DEF Contents, bufferVars
  <2> HIDE DEF Contents
  <2> QED BY <1>1, <2>1 DEF Calm, Stored, FirstIn, LastIn
<1> QED BY <1>2, <1>3, <1>4 DEF Calm

\* A client that leaves nothing behind.
LEMMA ResetCalm ==
  ASSUME Typed, Calm, Reset, calm, calm'
  PROVE  Calm'
<1>1. Drained /\ due' = due
      /\ UNCHANGED <<bufferVars, packets, worker, chunk, procSktQueue, thread, refused>>
  BY DEF Reset, Disturbed
<1>2. OneHand' /\ Listed' /\ Sized' /\ InWork'
  BY <1>1 DEF Calm, OneHand, Listed, Sized, InWork, InHand, InChunk, bufferVars
<1>3. Len(due) = 0
  <2>1. InHand = 0 /\ InChunk = 0 /\ Len(procSktQueue) = 0
    BY <1>1 DEF Drained, InHand, InChunk
  <2> QED BY <2>1 DEF Calm, Listed
<1>4. Whole'
  BY <1>1, <1>3 DEF Whole
<1>5. Stored'
  <2>1. Contents' = Contents
    BY <1>1 DEF Contents, bufferVars
  <2> HIDE DEF Contents
  <2> QED BY <1>1, <2>1 DEF Calm, Stored, FirstIn, LastIn
<1> QED BY <1>2, <1>4, <1>5 DEF Calm

LEMMA ReceiveCalm ==
  ASSUME Typed, Typed', BufferInv, Calm, Receive, calm, calm'
  PROVE  Calm'
<1>0. /\ due \in Seq(Entries) /\ Len(due) \in Nat
      /\ InHand \in 0 .. 1 /\ InChunk \in 0 .. 1
      /\ procSktQueue \in Seq(1 .. MaxRecv) /\ Len(procSktQueue) \in Nat
      /\ Len(due) = InHand + Len(procSktQueue) + InChunk
      /\ Contents \in Seq(Bytes)
      /\ FirstIn \in 1 .. Len(due) + 1
  BY CalmTypes
<1>1. PICK x \in Entries : x = [data |-> chunk', session |-> conn]
  BY DEF Typed, Entries
<1>2. /\ worker = "recv" /\ worker' = "write" /\ IsPacket(chunk')
      /\ due' = Append(due, x)
      /\ UNCHANGED <<bufferVars, packets, conn, procSktQueue, thread, refused>>
  BY <1>1 DEF Receive
<1>3. /\ Len(due') = Len(due) + 1 /\ due'[Len(due) + 1] = x
      /\ \A i \in 1 .. Len(due) : due'[i] = due[i]
  BY <1>0, <1>2
<1>4. InHand' = InHand /\ InChunk = 0 /\ InChunk' = 1
  BY <1>2 DEF InHand, InChunk
<1>5. OneHand'
  BY <1>2 DEF Calm, OneHand
<1>6. Listed'
  BY <1>0, <1>2, <1>3, <1>4 DEF Listed
<1>7. Whole'
  <2>1. x.session = conn /\ x.data = chunk'
    BY <1>1
  <2>2. \A data : IsPacket(data)' <=> IsPacket(data)
    BY <1>2 DEF IsPacket
  <2>3. \A i \in 1 .. Len(due) : due'[i].session = conn /\ IsPacket(due'[i].data)
    BY <1>3 DEF Calm, Whole
  <2>4. \A i \in 1 .. Len(due) + 1 : due'[i].session = conn /\ IsPacket(due'[i].data)
    BY <1>0, <1>2, <1>3, <2>1, <2>3
  <2> QED BY <1>2, <1>3, <2>2, <2>4 DEF Whole, IsPacket
<1>8. Sized'
  <2>1. \A i \in 1 .. Len(procSktQueue) : InHand + i \in 1 .. Len(due)
    BY <1>0
  <2>2. \A i \in 1 .. Len(procSktQueue) : procSktQueue[i] = Len(due[InHand + i].data)
    BY DEF Calm, Sized
  <2>3. \A i \in 1 .. Len(procSktQueue) : procSktQueue[i] = Len(due'[InHand + i].data)
    BY <1>3, <2>1, <2>2
  <2>4. chunk' = due'[Len(due')].data
    BY <1>1, <1>3
  <2> QED BY <1>2, <1>4, <2>3, <2>4 DEF Sized
<1>9. InWork'
  <2> SUFFICES ASSUME NEW t \in Threads
               PROVE  /\ thread[t].at # "undefined"
                      /\ thread[t].at = "popped" => thread[t].size = Len(due'[1].data)
                      /\ thread[t].at = "read" => /\ readData = due'[1].data
                                                  /\ thread[t].first = due'[1].data[1]
    BY <1>2 DEF InWork, bufferVars
  <2>1. /\ thread[t].at # "undefined"
        /\ thread[t].at = "popped" => thread[t].size = Len(due[1].data)
        /\ thread[t].at = "read" => /\ readData = due[1].data
                                    /\ thread[t].first = due[1].data[1]
    BY DEF Calm, InWork
  <2>2. CASE thread[t].at \in {"popped", "read"}
    <3>1. InHand = 1
      BY <2>2 DEF InHand, Idle
    <3>2. 1 \in 1 .. Len(due)
      BY <1>0, <3>1
    <3>3. due'[1] = due[1]
      BY <1>3, <3>2
    <3> QED BY <2>1, <3>3
  <2> QED BY <2>1, <2>2
<1>10. Stored'
  <2>1. Contents' = Contents
    BY <1>2 DEF Contents, bufferVars
  <2> HIDE DEF Contents
  <2>2. FirstIn' = FirstIn /\ LastIn = Len(due) /\ LastIn' = Len(due)
    BY <1>0, <1>2, <1>3 DEF FirstIn, LastIn
  <2>3. PICK off \in [1 .. Len(due) + 1 -> Int] :
          Places(off, due, Contents, FirstIn, Len(due))
    BY <2>2 DEF Calm, Stored
  <2>4. \E o \in [1 .. Len(due) + 2 -> Int] :
          Places(o, Append(due, x), Contents, FirstIn, Len(due))
    BY <1>0, <2>3, PlacesAppend
  <2>5. Len(due') + 1 = Len(due) + 2
    BY <1>0, <1>3
  <2> QED BY <1>2, <2>1, <2>2, <2>4, <2>5 DEF Stored
<1> QED BY <1>5, <1>6, <1>7, <1>8, <1>9, <1>10 DEF Calm

LEMMA WriteCalm ==
  ASSUME Typed, BufferInv, Calm, WriteRecvData, calm, calm'
  PROVE  Calm'
<1>0. /\ due \in Seq(Entries) /\ Len(due) \in Nat
      /\ InHand \in 0 .. 1 /\ InChunk \in 0 .. 1
      /\ Len(procSktQueue) \in Nat
      /\ Len(due) = InHand + Len(procSktQueue) + InChunk
      /\ Contents \in Seq(Bytes) /\ Len(Contents) = currentSize
      /\ FirstIn \in 1 .. Len(due) + 1
  BY CalmTypes
<1>1. /\ worker = "write" /\ worker' = "push" /\ Write(chunk) /\ due' = due
      /\ UNCHANGED <<packets, conn, chunk, procSktQueue, thread, readData>>
      /\ chunk \in Seq(Bytes)
  BY DEF WriteRecvData, Disturbed, Write, Typed
<1>2. OneHand' /\ Listed' /\ Whole' /\ Sized' /\ InWork'
  BY <1>1 DEF Calm, OneHand, Listed, Whole, IsPacket, Sized, InWork, InHand, InChunk
<1>3. Stored'
  <2>1. /\ Len(Contents') = Len(Contents) + Len(chunk)
        /\ SubSeq(Contents', 1, Len(Contents)) = Contents
        /\ Contents' \in Seq(Bytes)
    <3>0. BufferInv'
      BY <1>1, WriteType
    <3>1. ContentsOK'
      BY <3>0, ContentsType, PTL
    <3> QED BY <1>1, <3>1, WriteAppends DEF ContentsOK
  <2>2. \A i \in 1 .. Len(chunk) : Contents'[currentSize + i] = chunk[i]
    BY <1>1, WriteEnds
  <2> HIDE DEF Contents
  <2>3. \A i \in 1 .. Len(Contents) : Contents'[i] = Contents[i]
    <3> SUFFICES ASSUME NEW i \in 1 .. Len(Contents) PROVE Contents'[i] = Contents[i]
      OBVIOUS
    <3>1. PICK n \in Nat, k \in Nat : n = Len(Contents) /\ k = Len(chunk)
      BY <1>0, <1>1
    <3>2. PICK B \in Seq(Bytes) : B = Contents'
      BY <2>1
    <3>3. Len(B) = n + k /\ SubSeq(B, 1, n) = Contents /\ i \in 1 .. n
      BY <2>1, <3>1, <3>2
    <3>4. \A j \in 1 .. n : B[j] \in Bytes
      BY <3>3
    <3>5. \A j \in 1 .. n - 1 + 1 : SubSeq(B, 1, n)[j] = B[1 + j - 1]
      BY <3>4, SubSeqProperties
    <3>6. i \in 1 .. n - 1 + 1 /\ 1 + i - 1 = i
      BY <3>3
    <3>7. SubSeq(B, 1, n)[i] = B[i]
      BY <3>5, <3>6
    <3> QED BY <3>2, <3>3, <3>7
  <2>4. FirstIn' = FirstIn /\ LastIn = Len(due) - 1 /\ LastIn' = Len(due)
    BY <1>1 DEF FirstIn, LastIn
  <2>5. InChunk = 1 /\ due # <<>>
    <3>1. InChunk = 1
      BY <1>1 DEF InChunk
    <3>2. Len(due) # 0
      BY <1>0, <3>1
    <3> QED BY <3>1, <3>2
  <2>6. chunk = due[Len(due)].data
    BY <1>1 DEF Calm, Sized
  <2>7. PICK off \in [1 .. Len(due) + 1 -> Int] :
          Places(off, due, Contents, FirstIn, Len(due) - 1)
    BY <2>4 DEF Calm, Stored
  <2>8. Places(off, due, Contents', FirstIn, Len(due))
    BY <1>0, <1>1, <2>1, <2>2, <2>3, <2>5, <2>6, <2>7, PlacesWrite
  <2> QED BY <1>1, <2>4, <2>8 DEF Stored
<1> QED BY <1>2, <1>3 DEF Calm

LEMMA PushCalm ==
  ASSUME Typed, BufferInv, Calm, PushPacket
  PROVE  Calm'
<1>0. /\ due \in Seq(Entries) /\ Len(due) \in Nat
      /\ InHand \in 0 .. 1 /\ InChunk \in 0 .. 1
      /\ procSktQueue \in Seq(1 .. MaxRecv) /\ Len(procSktQueue) \in Nat
      /\ Len(due) = InHand + Len(procSktQueue) + InChunk
  BY CalmTypes
<1>1. /\ worker = "push" /\ worker' = "recv"
      /\ procSktQueue' = Append(procSktQueue, Len(chunk))
      /\ UNCHANGED <<bufferVars, packets, conn, thread, due>>
  BY DEF PushPacket
<1>2. OneHand' /\ Whole' /\ InWork'
  BY <1>1 DEF Calm, OneHand, Whole, IsPacket, InWork, bufferVars
<1>3. /\ InHand' = InHand /\ InChunk = 1 /\ InChunk' = 0
      /\ Len(procSktQueue') = Len(procSktQueue) + 1
      /\ procSktQueue'[Len(procSktQueue) + 1] = Len(chunk)
      /\ \A i \in 1 .. Len(procSktQueue) : procSktQueue'[i] = procSktQueue[i]
  BY <1>0, <1>1 DEF InHand, InChunk
<1>4. Listed'
  BY <1>0, <1>1, <1>3 DEF Listed
<1>5. Sized'
  <2>1. InHand + (Len(procSktQueue) + 1) = Len(due)
    BY <1>0, <1>3
  <2>2. /\ \A i \in 1 .. Len(procSktQueue) : procSktQueue[i] = Len(due[InHand + i].data)
        /\ chunk = due[Len(due)].data
    BY <1>1 DEF Calm, Sized
  <2>3. \A i \in 1 .. Len(procSktQueue) + 1 :
          procSktQueue'[i] = Len(due[InHand + i].data)
    <3> SUFFICES ASSUME NEW i \in 1 .. Len(procSktQueue) + 1
                 PROVE  procSktQueue'[i] = Len(due[InHand + i].data)
      OBVIOUS
    <3>1. CASE i = Len(procSktQueue) + 1
      BY <1>3, <2>1, <2>2, <3>1
    <3>2. CASE i # Len(procSktQueue) + 1
      <4>1. i \in 1 .. Len(procSktQueue)
        BY <1>0, <3>2
      <4> QED BY <1>3, <2>2, <4>1
    <3> QED BY <3>1, <3>2
  <2> QED BY <1>1, <1>3, <2>3 DEF Sized
<1>6. Stored'
  <2>1. Contents' = Contents
    BY <1>1 DEF Contents, bufferVars
  <2> HIDE DEF Contents
  <2> QED BY <1>1, <2>1 DEF Calm, Stored, FirstIn, LastIn
<1> QED BY <1>2, <1>4, <1>5, <1>6 DEF Calm

LEMMA PopCalm ==
  ASSUME Typed, BufferInv, Calm, NEW t \in Threads, Pop(t), calm, calm'
  PROVE  Calm'
<1>0. /\ due \in Seq(Entries) /\ Len(due) \in Nat
      /\ InHand \in 0 .. 1 /\ InChunk \in 0 .. 1
      /\ procSktQueue \in Seq(1 .. MaxRecv) /\ Len(procSktQueue) \in Nat
      /\ Len(due) = InHand + Len(procSktQueue) + InChunk
  BY CalmTypes
<1>1. /\ \A u \in Threads : thread[u] = Idle
      /\ procSktQueue # <<>> /\ procSktQueue' = Tail(procSktQueue)
      /\ UNCHANGED <<bufferVars, packets, conn, worker, chunk, due>>
  BY DEF Pop, Disturbed
<1>2. PICK size : size = procSktQueue[1]
  OBVIOUS
<1>3. /\ Head(procSktQueue) = size /\ Len(procSktQueue') = Len(procSktQueue) - 1
      /\ \A i \in 1 .. Len(procSktQueue') : procSktQueue'[i] = procSktQueue[i + 1]
      /\ Len(procSktQueue) >= 1 /\ size \in 1 .. MaxRecv
  <2>1. /\ Len(Tail(procSktQueue)) = Len(procSktQueue) - 1
        /\ \A i \in 1 .. Len(Tail(procSktQueue)) :
             Tail(procSktQueue)[i] = procSktQueue[i + 1]
    BY <1>0, <1>1, HeadTailProperties
  <2>2. Len(procSktQueue) >= 1
    BY <1>0, <1>1
  <2>3. 1 \in 1 .. Len(procSktQueue)
    BY <1>0, <2>2
  <2>4. size \in 1 .. MaxRecv
    BY <1>0, <1>2, <2>3, ElementOfSeq
  <2>5. Head(procSktQueue) = size
    BY <1>0, <1>2
  <2> QED BY <1>1, <2>1, <2>2, <2>4, <2>5
<1>4. \A u \in Threads : thread'[u] = IF u = t THEN PoppedHand(size) ELSE Idle
  <2>1. thread' = [thread EXCEPT ![t] = PoppedHand(size)]
    BY <1>3, PopIs
  <2>2. thread \in [Threads -> HandType]
    BY DEF Typed, HandType
  <2> QED BY <1>1, <2>1, <2>2
<1>5. /\ PoppedHand(size).at = "popped" /\ PoppedHand(size).size = size
      /\ Idle.at = "idle"
  BY <1>3, PoppedHands, Hands
<1>6. InHand = 0 /\ InHand' = 1 /\ InChunk' = InChunk
  <2>1. InHand = 0
    BY <1>1 DEF InHand
  <2>2. thread'[t] # Idle
    BY <1>4, <1>5
  <2>3. InHand' = 1
    BY <2>2 DEF InHand
  <2> QED BY <1>1, <2>1, <2>3 DEF InChunk
<1>7. FirstIn = 1 /\ FirstIn' = 1 /\ LastIn' = LastIn
  <2>1. \A u \in Threads : thread[u].at # "read" /\ thread'[u].at # "read"
    BY <1>1, <1>4, <1>5
  <2>2. ~(\E u \in Threads : thread[u].at = "read")
        /\ ~(\E u \in Threads : thread'[u].at = "read")
    BY <2>1
  <2> QED BY <1>1, <2>2 DEF FirstIn, LastIn
<1>8. OneHand'
  BY <1>4 DEF OneHand
<1>9. Listed'
  BY <1>0, <1>1, <1>3, <1>6 DEF Listed
<1>10. Whole'
  BY <1>1 DEF Calm, Whole, IsPacket
<1>11. /\ \A i \in 1 .. Len(procSktQueue) : procSktQueue[i] = Len(due[i].data)
       /\ worker # "recv" => chunk = due[Len(due)].data
  <2>1. /\ \A i \in 1 .. Len(procSktQueue) : procSktQueue[i] = Len(due[InHand + i].data)
        /\ worker # "recv" => chunk = due[Len(due)].data
    BY DEF Calm, Sized
  <2>2. \A i \in 1 .. Len(procSktQueue) : InHand + i = i
    BY <1>6
  <2> QED BY <2>1, <2>2
<1>12. Sized'
  <2>1. \A i \in 1 .. Len(procSktQueue') : procSktQueue'[i] = Len(due[1 + i].data)
    <3> SUFFICES ASSUME NEW i \in 1 .. Len(procSktQueue')
                 PROVE  procSktQueue'[i] = Len(due[1 + i].data)
      OBVIOUS
    <3>1. i + 1 \in 1 .. Len(procSktQueue) /\ i + 1 = 1 + i
      BY <1>0, <1>3
    <3>2. procSktQueue'[i] = procSktQueue[i + 1]
      BY <1>3
    <3> QED BY <1>11, <3>1, <3>2
  <2> QED BY <1>1, <1>6, <1>11, <2>1 DEF Sized
<1>13. InWork'
  <2>1. 1 \in 1 .. Len(procSktQueue)
    BY <1>0, <1>3
  <2>2. size = Len(due[1].data)
    BY <1>2, <1>11, <2>1
  <2>3. \A u \in Threads :
          /\ thread'[u].at # "undefined" /\ thread'[u].at # "read"
          /\ thread'[u].at = "popped" => thread'[u].size = Len(due[1].data)
    BY <1>4, <1>5, <2>2
  <2> QED BY <1>1, <2>3 DEF InWork
<1>14. Stored'
  <2>1. Contents' = Contents
    BY <1>1 DEF Contents, bufferVars
  <2> HIDE DEF Contents
  <2> QED BY <1>1, <1>7, <2>1 DEF Calm, Stored
<1> QED BY <1>8, <1>9, <1>10, <1>12, <1>13, <1>14 DEF Calm

LEMMA ReadCalm ==
  ASSUME Typed, BufferInv, Handing, Calm, NEW t \in Threads, ReadRecvData(t)
  PROVE  Calm'
<1>0. /\ due \in Seq(Entries) /\ Len(due) \in Nat
      /\ InHand \in 0 .. 1 /\ InChunk \in 0 .. 1
      /\ Len(procSktQueue) \in Nat
      /\ Len(due) = InHand + Len(procSktQueue) + InChunk
      /\ Contents \in Seq(Bytes) /\ Len(Contents) = currentSize
  BY CalmTypes
<1>1. /\ thread[t].at = "popped" /\ thread \in [Threads -> HandType]
      /\ thread[t].size \in Nat \ {0} /\ thread[t].size = Len(due[1].data)
      /\ UNCHANGED <<packets, conn, worker, chunk, procSktQueue, due>>
  BY DEF ReadRecvData, Typed, Handing, HandType, Calm, InWork
<1>2. \A u \in Threads : u # t => thread[u] = Idle
  <2>1. thread[t] # Idle
    BY <1>1 DEF Idle
  <2> QED BY <2>1 DEF Calm, OneHand
<1>3. InHand = 1 /\ FirstIn = 1
  <2>1. thread[t] # Idle
    BY <1>1 DEF Idle
  <2>2. ~(\E u \in Threads : thread[u].at = "read")
    BY <1>1, <1>2 DEF Idle
  <2> QED BY <2>1, <2>2 DEF InHand, FirstIn
<1>4. LastIn \in 1 .. Len(due) /\ LastIn' = LastIn /\ InChunk' = InChunk
  <2>1. worker = "write" => InChunk = 1
    BY DEF InChunk
  <2> QED BY <1>0, <1>1, <1>3, <2>1 DEF LastIn, InChunk
<1>5. PICK off \in [1 .. Len(due) + 1 -> Int] : Places(off, due, Contents, 1, LastIn)
  BY <1>3 DEF Calm, Stored
<1>6. /\ Len(due[1].data) <= Len(Contents)
      /\ SubSeq(Contents, 1, Len(due[1].data)) = due[1].data
      /\ due[1].data \in Seq(Bytes)
  BY <1>0, <1>4, <1>5, PlacesFront
<1>7. Read(thread[t].size) /\ thread' = [thread EXCEPT ![t] = ReadHand(Head(readData'))]
  <2>1. ~(currentSize < thread[t].size)
    BY <1>0, <1>1, <1>6
  <2> QED BY <2>1 DEF ReadRecvData, ReadHand
<1>8. /\ readData' = SubSeq(Contents, 1, thread[t].size)
      /\ Contents' = SubSeq(Contents, thread[t].size + 1, Len(Contents))
  BY <1>1, <1>7, ReadTakes
<1> HIDE DEF Contents
<1>9. readData' = due[1].data
  BY <1>1, <1>6, <1>8
<1>10. Head(readData') = due[1].data[1]
  <2>1. PICK x \in Seq(Bytes) : x = due[1].data
    BY <1>6
  <2>2. Len(x) # 0
    BY <1>1, <2>1
  <2>3. Head(x) = x[1]
    BY <2>2
  <2> QED BY <1>9, <2>1, <2>3
<1>11. /\ \A u \in Threads : thread'[u] = IF u = t THEN ReadHand(due[1].data[1]) ELSE Idle
       /\ ReadHand(due[1].data[1]).at = "read"
       /\ ReadHand(due[1].data[1]).first = due[1].data[1]
       /\ Idle.at = "idle"
  <2>1. thread' = [thread EXCEPT ![t] = ReadHand(due[1].data[1])]
    BY <1>7, <1>10
  <2>2. \A u \in Threads : thread'[u] = IF u = t THEN ReadHand(due[1].data[1]) ELSE Idle
    BY <1>1, <1>2, <2>1
  <2> QED BY <2>2, Hands DEF ReadHand
<1>12. InHand' = 1 /\ FirstIn' = 2
  <2>1. thread'[t].at = "read" /\ thread'[t] # Idle
    BY <1>11
  <2> QED BY <2>1 DEF InHand, FirstIn
<1>13. OneHand'
  BY <1>11 DEF OneHand
<1>14. Listed' /\ Sized' /\ Whole'
  BY <1>1, <1>3, <1>4, <1>12 DEF Calm, Listed, Sized, Whole, IsPacket
<1>15. InWork'
  <2>1. \A u \in Threads :
          /\ thread'[u].at # "undefined" /\ thread'[u].at # "popped"
          /\ thread'[u].at = "read" => thread'[u].first = due[1].data[1]
    BY <1>11
  <2> QED BY <1>1, <1>9, <2>1 DEF InWork
<1>16. Stored'
  <2>1. \E o \in [1 .. Len(due) + 1 -> Int] :
          Places(o, due, SubSeq(Contents, Len(due[1].data) + 1, Len(Contents)), 2, LastIn)
    BY <1>0, <1>4, <1>5, PlacesRead
  <2>2. \E o \in [1 .. Len(due) + 1 -> Int] : Places(o, due, Contents', 2, LastIn)
    BY <1>1, <1>8, <2>1
  <2> QED BY <1>1, <1>4, <1>12, <2>2 DEF Stored
<1> QED BY <1>13, <1>14, <1>15, <1>16 DEF Calm

\* A thread that has read when it is calm has the first entry, of this client.
LEMMA AtHand ==
  ASSUME Typed, BufferInv, Calm, NEW t \in Threads, thread[t].at = "read"
  PROVE  /\ due # <<>> /\ 1 \in 1 .. Len(due) /\ InHand = 1 /\ FirstIn = 2
         /\ readData = due[1].data /\ due[1].session = conn
         /\ thread[t].first[2] = 1
         /\ \A u \in Threads : u # t => thread[u] = Idle
<1>1. thread[t] # Idle
  BY DEF Idle
<1>2. InHand = 1 /\ FirstIn = 2
  BY <1>1 DEF InHand, FirstIn
<1>3. due # <<>> /\ 1 \in 1 .. Len(due)
  <2>1. /\ due \in Seq(Entries) /\ Len(due) \in Nat /\ InChunk \in 0 .. 1
        /\ Len(procSktQueue) \in Nat
        /\ Len(due) = InHand + Len(procSktQueue) + InChunk
    BY CalmTypes
  <2>2. Len(due) >= 1
    BY <1>2, <2>1
  <2> QED BY <2>1, <2>2
<1>4. \A u \in Threads : u # t => thread[u] = Idle
  BY <1>1 DEF Calm, OneHand
<1>5. readData = due[1].data /\ thread[t].first = due[1].data[1]
  BY DEF Calm, InWork
<1>6. due[1].session = conn /\ IsPacket(due[1].data)
  BY <1>3 DEF Calm, Whole
<1>7. PICK n \in 1 .. Len(packets) : due[1].data = Cells(n, packets[n])
  BY <1>6 DEF IsPacket
<1>8. packets[n] \in 1 .. MaxRecv
  <2>1. packets \in Seq(Lengths)
    BY DEF Typed
  <2> QED BY <2>1, Constants, ElementOfSeq
<1>9. Cells(n, packets[n])[1] = <<n, 1>>
  BY <1>8, Constants DEF Cells
<1>10. thread[t].first = <<n, 1>>
  BY <1>5, <1>7, <1>9
<1>11. thread[t].first[2] = 1
  BY <1>10
<1> QED BY <1>2, <1>3, <1>4, <1>5, <1>6, <1>11

LEMMA DispatchCalm ==
  ASSUME Typed, BufferInv, Calm, NEW t \in Threads, Dispatch(t), calm
  PROVE  Calm'
<1>0. /\ due \in Seq(Entries) /\ Len(due) \in Nat
      /\ InHand \in 0 .. 1 /\ InChunk \in 0 .. 1
      /\ Len(procSktQueue) \in Nat
      /\ Len(due) = InHand + Len(procSktQueue) + InChunk
      /\ Contents \in Seq(Bytes)
  BY CalmTypes
<1>1. /\ thread[t].at = "read" /\ thread \in [Threads -> HandType]
      /\ due' = Tail(due)
      /\ UNCHANGED <<bufferVars, packets, conn, worker, chunk, procSktQueue>>
  BY DEF Dispatch, Typed, HandType
<1>2. /\ due # <<>> /\ InHand = 1 /\ FirstIn = 2
      /\ thread[t].first[2] = 1
      /\ \A u \in Threads : u # t => thread[u] = Idle
  BY <1>1, AtHand
<1>3. \A u \in Threads : thread'[u] = Idle
  <2>1. thread' = [thread EXCEPT ![t] = Idle]
    BY <1>2 DEF Dispatch
  <2> QED BY <1>1, <1>2, <2>1
<1>4. InHand' = 0 /\ FirstIn' = 1 /\ InChunk' = InChunk
  <2>1. ~(\E u \in Threads : thread'[u] # Idle) /\ ~(\E u \in Threads : thread'[u].at = "read")
    BY <1>3, Hands
  <2> QED BY <1>1, <2>1 DEF InHand, FirstIn, InChunk
<1>5. /\ due' \in Seq(Entries) /\ Len(due') = Len(due) - 1
      /\ \A i \in 1 .. Len(due') : due'[i] = due[i + 1]
  BY <1>0, <1>1, <1>2, HeadTailProperties
<1>6. PICK n \in Nat : n = Len(due')
  BY <1>5
<1>7. Len(due) = n + 1 /\ \A i \in 1 .. n : due'[i] = due[i + 1]
  BY <1>0, <1>5, <1>6
<1>8. OneHand' /\ InWork'
  BY <1>3, Hands DEF OneHand, InWork
<1>9. Listed'
  BY <1>0, <1>1, <1>2, <1>4, <1>5 DEF Listed
<1>10. Whole'
  <2>1. \A i \in 1 .. n + 1 : due[i].session = conn /\ IsPacket(due[i].data)
    BY <1>7 DEF Calm, Whole
  <2>2. \A i \in 1 .. n : due'[i].session = conn /\ IsPacket(due'[i].data)
    <3> SUFFICES ASSUME NEW i \in 1 .. n
                 PROVE  due'[i].session = conn /\ IsPacket(due'[i].data)
      OBVIOUS
    <3>1. i + 1 \in 1 .. n + 1 /\ due'[i] = due[i + 1]
      BY <1>7
    <3> QED BY <2>1, <3>1
  <2>3. \A data : IsPacket(data)' <=> IsPacket(data)
    BY <1>1 DEF IsPacket
  <2> QED BY <1>1, <1>6, <2>2, <2>3 DEF Whole, IsPacket
<1>11. Sized'
  <2>1. /\ \A i \in 1 .. Len(procSktQueue) : procSktQueue[i] = Len(due[InHand + i].data)
        /\ worker # "recv" => chunk = due[Len(due)].data
    BY DEF Calm, Sized
  <2>2. \A i \in 1 .. Len(procSktQueue) : procSktQueue[i] = Len(due'[0 + i].data)
    <3> SUFFICES ASSUME NEW i \in 1 .. Len(procSktQueue)
                 PROVE  procSktQueue[i] = Len(due'[0 + i].data)
      OBVIOUS
    <3>1. i \in 1 .. n /\ InHand + i = i + 1 /\ 0 + i = i
      BY <1>0, <1>2, <1>7
    <3> QED BY <1>7, <2>1, <3>1
  <2>3. worker # "recv" => chunk = due'[Len(due')].data
    <3> SUFFICES ASSUME worker # "recv" PROVE chunk = due'[n].data
      BY <1>6
    <3>1. InChunk = 1
      BY DEF InChunk
    <3>2. n \in 1 .. n
      BY <1>0, <1>2, <1>7, <3>1
    <3> QED BY <1>7, <2>1, <3>2
  <2> QED BY <1>1, <1>4, <2>2, <2>3 DEF Sized
<1>12. Stored'
  <2>1. Contents' = Contents
    BY <1>1 DEF Contents, bufferVars
  <2> HIDE DEF Contents
  <2>2. LastIn \in 1 .. Len(due) /\ LastIn' = LastIn - 1
    <3>1. worker = "write" => InChunk = 1
      BY DEF InChunk
    <3> QED BY <1>0, <1>1, <1>2, <1>5, <3>1 DEF LastIn
  <2>3. PICK off \in [1 .. Len(due) + 1 -> Int] : Places(off, due, Contents, 2, LastIn)
    BY <1>2 DEF Calm, Stored
  <2>4. \E o \in [1 .. Len(Tail(due)) + 1 -> Int] :
          Places(o, Tail(due), Contents, 1, LastIn - 1)
    BY <1>0, <1>2, <2>2, <2>3, PlacesTail
  <2> QED BY <1>1, <1>4, <2>1, <2>2, <2>4 DEF Stored
<1> QED BY <1>8, <1>9, <1>10, <1>11, <1>12 DEF Calm

LEMMA UndisturbedNext ==
  ASSUME Inv, Next
  PROVE  Undisturbed'
<1> SUFFICES ASSUME calm' PROVE Calm'
  BY DEF Undisturbed
<1>0. Typed /\ Typed' /\ BufferInv /\ Receiving /\ Handing /\ calm \in BOOLEAN
  BY TypedNext DEF Inv, Typed
<1>1. calm => Calm
  BY DEF Inv, Undisturbed
<1>2. ASSUME NEW len \in Lengths, Send(len) PROVE Calm'
  BY <1>0, <1>1, <1>2, SendCalm DEF Send
<1>3. CASE Reset
  BY <1>0, <1>1, <1>3, ResetCalm DEF Reset, Disturbed
<1>4. CASE Receive
  BY <1>0, <1>1, <1>4, ReceiveCalm DEF Receive
<1>5. CASE WriteRecvData
  BY <1>0, <1>1, <1>5, WriteCalm DEF WriteRecvData, Disturbed
<1>6. CASE PushPacket
  BY <1>0, <1>1, <1>6, PushCalm DEF PushPacket
<1>7. ASSUME NEW t \in Threads, Pop(t) PROVE Calm'
  BY <1>0, <1>1, <1>7, PopCalm DEF Pop, Disturbed
<1>8. ASSUME NEW t \in Threads, ReadRecvData(t) PROVE Calm'
  BY <1>0, <1>1, <1>8, ReadCalm DEF ReadRecvData
<1>9. ASSUME NEW t \in Threads, Dispatch(t) PROVE Calm'
  BY <1>0, <1>1, <1>9, DispatchCalm DEF Dispatch
<1> QED BY <1>2, <1>3, <1>4, <1>5, <1>6, <1>7, <1>8, <1>9 DEF Next, Work, RedisThread

----------------------------------------------------------------------------
(* Theorems about Ingest *)

LEMMA Step ==
  Inv /\ [Next]_vars => Inv' /\ [Queue!Next]_<<Contents, readData>>
<1> SUFFICES ASSUME Inv, [Next]_vars
             PROVE  Inv' /\ [Queue!Next]_<<Contents, readData>>
  OBVIOUS
<1>1. CASE Next
  <2>1. [BufferNext]_bufferVars
    BY <1>1, BufferMoves DEF Inv
  <2>2. BufferInv' /\ [Queue!Next]_<<Contents, readData>>
    BY <2>1, BufferStep DEF Inv
  <2> QED BY <1>1, <2>2, TypedNext, BackedNext, UndisturbedNext DEF Inv
<1>2. CASE UNCHANGED vars
  <2>1. UNCHANGED bufferVars /\ UNCHANGED ingestVars
    BY <1>2 DEF vars
  <2>2. BufferInv' /\ [Queue!Next]_<<Contents, readData>>
    BY <2>1, BufferStep DEF Inv
  <2>3. Typed' /\ Receiving' /\ Handing'
    BY <2>1 DEF Inv, ingestVars, Typed, Receiving, Handing
  <2>4. Queued' = Queued /\ Popped' = Popped
    BY <2>1 DEF ingestVars, Queued, Popped, PoppedSize
  <2>5. ReadsBacked'
    BY <2>1, <2>4 DEF Inv, ingestVars, bufferVars, ReadsBacked
  <2>6. Contents' = Contents
    BY <2>1 DEF bufferVars, Contents
  <2>7. Undisturbed'
    <3> HIDE DEF Contents
    <3>1. Calm => OneHand' /\ Listed' /\ Whole' /\ Sized' /\ InWork'
      BY <2>1 DEF Calm, OneHand, Listed, Whole, IsPacket, Sized, InWork, InHand, InChunk,
                  bufferVars, ingestVars
    <3>2. Calm => Stored'
      BY <2>1, <2>6 DEF Calm, Stored, FirstIn, LastIn, ingestVars
    <3> QED BY <2>1, <3>1, <3>2 DEF Inv, Undisturbed, Calm, ingestVars
  <2> QED BY <2>2, <2>3, <2>5, <2>7 DEF Inv
<1> QED BY <1>1, <1>2

\* Every variable of the pipeline has its type: in particular no position of the
\* buffer and no size leaves its range (CircularBuffer, RedisManager::PushRedisPacket).
THEOREM IngestTypes == Spec => []TypeOK
<1>1. Init => Inv
  BY Start
<1>2. Inv /\ [Next]_vars => Inv'
  BY Step
<1>3. Inv => TypeOK
  BY TypeOKIs DEF Inv, BufferInv
<1> QED BY <1>1, <1>2, <1>3, PTL DEF Spec

\* As long as no write was refused, what is queued, popped and about to be queued adds
\* up to what the buffer holds, so that no thread finds less than it wants, with any
\* number of threads and clients (RedisManager::RedisThread, ConnUser::ReadRecvData).
THEOREM ReadsAreBacked == Spec => []ReadsBacked
<1>1. Init => Inv
  BY Start
<1>2. Inv /\ [Next]_vars => Inv'
  BY Step
<1>3. Inv => ReadsBacked
  BY DEF Inv
<1> QED BY <1>1, <1>2, <1>3, PTL DEF Spec

\* An undisturbed request is handled whole, in its turn and in the session of its sender
\* (RedisManager::RedisThread).
THEOREM RequestsHandledAsSent == Spec => HandledAsSent
<1>1. Init => Inv
  BY Start
<1>2. Inv /\ [Next]_vars => Inv'
  BY Step
<1>3. Inv /\ [Next]_vars
      => [\A t \in Threads :
            Dispatch(t) /\ calm
            => due # <<>> /\ Head(due) = [data |-> readData, session |-> conn]]_vars
  <2> SUFFICES ASSUME Inv, NEW t \in Threads, Dispatch(t), calm
               PROVE  due # <<>> /\ Head(due) = [data |-> readData, session |-> conn]
    OBVIOUS
  <2>1. Typed /\ BufferInv /\ Calm
    BY DEF Inv, Undisturbed
  <2>2. thread[t].at = "read" /\ due \in Seq(Entries)
    BY <2>1 DEF Dispatch, Typed, Entries
  <2>3. /\ due # <<>> /\ 1 \in 1 .. Len(due)
        /\ readData = due[1].data /\ due[1].session = conn
    BY <2>1, <2>2, AtHand
  <2>4. Head(due) = due[1] /\ due[1] \in Entries
    BY <2>2, <2>3
  <2>5. due[1] = [data |-> due[1].data, session |-> due[1].session]
    BY <2>4 DEF Entries
  <2> QED BY <2>3, <2>4, <2>5
<1> QED BY <1>1, <1>2, <1>3, PTL DEF Spec, HandledAsSent

\* Whatever the worker and the threads do, what goes through the buffer of a connection
\* goes through a bounded queue of bytes (CircularBuffer in ConnUser).
THEOREM PipelineIsByteQueue == Spec => IsByteQueue
<1>1. Init => Inv /\ Queue!Init
  BY Start
<1>2. Inv /\ [Next]_vars => Inv' /\ [Queue!Next]_<<Contents, readData>>
  BY Step
<1> QED BY <1>1, <1>2, PTL DEF Spec, IsByteQueue, Queue!Spec

=============================================================================
