------------------------------- MODULE Queue -------------------------------
(***************************************************************************)
(* A struct buffer as its users see it once ByteBuffer is known to be a    *)
(* FIFO queue: the record                                                  *)
(*                                                                         *)
(*      [read |-> R, bytes |-> S]                                          *)
(*                                                                         *)
(* of the offset of the next byte to read and the sequence of the bytes    *)
(* from there to the write cursor.  The offset matters because room is     *)
(* counted from the write cursor to the end of the memory, and compaction  *)
(* happens only when the buffer is read empty.                             *)
(***************************************************************************)
EXTENDS Integers, Sequences

CONSTANT BufferSize    \* limit - data

ASSUME QueueSizeAssumption == BufferSize \in Nat \ {0}

EmptyQueue == [read |-> 0, bytes |-> << >>]

\* The *nbyte result of buffer_write_ptr.
Room(q) == BufferSize - q.read - Len(q.bytes)

CanWrite(q) == Room(q) > 0
CanRead(q) == Len(q.bytes) > 0

\* buffer_write_ptr, recv or a marshalling function, buffer_write_adv.
Put(q, s) == [q EXCEPT !.bytes = @ \o s]

\* A mutated form: the rest of a partial send is forgotten.
Take_All(q, n) == EmptyQueue

\* buffer_read_ptr, send, buffer_read_adv with what send accepted.
Take(q, n) ==
  IF n = Len(q.bytes) THEN EmptyQueue
  ELSE [read |-> q.read + n, bytes |-> SubSeq(q.bytes, n + 1, Len(q.bytes))]

Queues(B) ==
  {q \in [read : 0..(BufferSize - 1), bytes : Seq(B)] :
     /\ q.read + Len(q.bytes) <= BufferSize
     /\ q.bytes = << >> => q.read = 0}
=============================================================================
