----------------------------- MODULE ByteBuffer -----------------------------
(***************************************************************************)
(* One struct buffer together with the memory it points into, used the way *)
(* the proxy uses it: write_ptr + recv + write_adv, read_ptr + send +      *)
(* read_adv, and the one-byte calls buffer_write and buffer_read.          *)
(***************************************************************************)
EXTENDS Buffer

CONSTANT Byte

VARIABLES data,    \* the memory, data[0] .. data[BufferSize - 1]
          b        \* the cursors
vars == <<data, b>>

Memory == [0..(BufferSize - 1) -> Byte]

TypeOK == data \in Memory /\ b \in Cursors

Init == data \in Memory /\ b = buffer_reset          \* buffer_init

\* p = buffer_write_ptr(b, &size); n = recv(fd, p, size); buffer_write_adv(b, n)
WriteBytes ==
  \E n \in 1..WritableBytes(b) : \E s \in [0..(n - 1) -> Byte] :
     /\ data' = [i \in 0..(BufferSize - 1) |->
                   IF b.write <= i /\ i < b.write + n THEN s[i - b.write] ELSE data[i]]
     /\ b' = buffer_write_adv(b, n)

\* p = buffer_read_ptr(b, &size); n = send(fd, p, size); buffer_read_adv(b, n)
ReadBytes ==
  \E n \in 1..ReadableBytes(b) :
     /\ b' = buffer_read_adv(b, n)
     /\ UNCHANGED data

buffer_write ==
  \E c \in Byte :
     /\ buffer_can_write(b)
     /\ data' = [data EXCEPT ![b.write] = c]
     /\ b' = buffer_write_adv(b, 1)

buffer_read ==
  /\ buffer_can_read(b)
  /\ b' = buffer_read_adv(b, 1)
  /\ UNCHANGED data

\* A mutated form: the move is one byte short.
memmove_Short(n) == [i \in 0..(BufferSize - 1) |-> IF i < n - 1 THEN data[b.read + i] ELSE data[i]]

\* buffer_compact called on demand: the pending bytes are moved to the front.
memmove(n) == [i \in 0..(BufferSize - 1) |-> IF i < n THEN data[b.read + i] ELSE data[i]]

CompactOnDemand ==
  /\ data' = memmove(ReadableBytes(b))
  /\ b' = buffer_compact(b)

Next == WriteBytes \/ ReadBytes \/ buffer_write \/ buffer_read \/ CompactOnDemand

Spec == Init /\ [][Next]_vars
-----------------------------------------------------------------------------
(* The cursors stay ordered and inside the memory, and a buffer that cannot
   be written can be read: the relay of copy.c, which stops reading a socket
   whose buffer is full, is always woken up by the other side. *)
CursorsWellFormed == WellFormed(b)

FullIsReadable == ~buffer_can_write(b) => buffer_can_read(b)

(* The bytes between the cursors, seen as a queue. *)
Pending == [i \in 1..ReadableBytes(b) |-> data[b.read + i - 1]]

Abstract == INSTANCE Fifo WITH queue <- Pending, Capacity <- BufferSize

(* Writing, reading and compacting, in any order and with any split of the
   traffic, never lose, duplicate or reorder a byte. *)
IsFifo == Abstract!Spec
=============================================================================
