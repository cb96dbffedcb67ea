--------------------------- MODULE CircularBuffer ---------------------------
(***************************************************************************)
(* The receive buffer of a connection (class CircularBuffer): an array,    *)
(* the positions of the next write and the next read, and the number of    *)
(* bytes in between.  A lock makes each operation one step.                *)
(***************************************************************************)
EXTENDS Integers, Sequences

CONSTANTS
  Bytes,       \* what a byte can be
  Junk,        \* a byte of memory that was never written
  bufferSize   \* MAX_CIRCLE_SIZE

ASSUME BufferAssumption ==
  /\ bufferSize \in Nat \ {0}
  /\ Junk \in Bytes

VARIABLES
  buffer,
  writePos,
  readPos,
  currentSize,
  readData     \* the bytes of the last successful read (ConnUser::readData)

bufferVars == <<buffer, writePos, readPos, currentSize, readData>>

Index == 0 .. bufferSize - 1

\* memcpy(buf + at, data, size)
Copied(buf, at, data) ==
  [k \in Index |-> IF k - at \in 0 .. Len(data) - 1 THEN data[k - at + 1] ELSE buf[k]]

\* memcpy(.., buffer + at, size)
Slice(at, size) == [i \in 1 .. size |-> buffer[at + i - 1]]

\* Mutant: one byte more is let in.
HasRoomPlusOne(size) == bufferSize - currentSize + 1 >= size

\* The test of Write for empty space.
HasRoom(size) == bufferSize - currentSize >= size

Write(data) ==
  LET size     == Len(data)
      endSpace == bufferSize - writePos
  IN /\ HasRoom(size)
     /\ \/ /\ endSpace >= size
           /\ buffer' = Copied(buffer, writePos, data)
        \/ /\ endSpace < size
           /\ buffer' = Copied(Copied(buffer, writePos, SubSeq(data, 1, endSpace)),
                               0, SubSeq(data, endSpace + 1, size))
     /\ writePos' = (writePos + size) % bufferSize
     /\ currentSize' = currentSize + size
     /\ UNCHANGED <<readPos, readData>>

\* Mutant: the second part is read from where the first began.
FirstBytesUnwrapped(size) ==
  LET endSpace == bufferSize - readPos
  IN IF endSpace >= size THEN Slice(readPos, size)
     ELSE Slice(readPos, endSpace) \o Slice(endSpace, size - endSpace)

\* What Read copies out.
FirstBytes(size) ==
  LET endSpace == bufferSize - readPos
  IN IF endSpace >= size THEN Slice(readPos, size)
     ELSE Slice(readPos, endSpace) \o Slice(0, size - endSpace)

Read(size) ==
  /\ currentSize >= size
  /\ readData' = FirstBytes(size)
  /\ readPos' = (readPos + size) % bufferSize
  /\ currentSize' = currentSize - size
  /\ UNCHANGED <<buffer, writePos>>

BufferInit ==
  /\ buffer = [k \in Index |-> Junk]
  /\ writePos = 0
  /\ readPos = 0
  /\ currentSize = 0
  /\ readData = <<>>

BufferNext ==
  \/ \E data \in Seq(Bytes) : data # <<>> /\ Write(data)
  \/ \E size \in Nat \ {0} : Read(size)

BufferSpec == BufferInit /\ [][BufferNext]_bufferVars

----------------------------------------------------------------------------
(* The buffer is a queue of bytes.                                         *)

\* The bytes between the read and the write position, in order.
Contents == [i \in 1 .. currentSize |-> buffer[(readPos + i - 1) % bufferSize]]

Queue == INSTANCE ByteQueue WITH queue <- Contents, got <- readData,
                                 Limit <- bufferSize

\* Whatever is written comes out again, in the same order and nothing else, also
\* across the end of the array and when the buffer is full or empty
\* (CircularBuffer::Write, CircularBuffer::Read).
IsByteQueue == Queue!Spec
=============================================================================
