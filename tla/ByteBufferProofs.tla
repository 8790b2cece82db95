-------------------------- MODULE ByteBufferProofs --------------------------
(***************************************************************************)
(* ByteBuffer for every buffer size and every set of byte values: the      *)
(* cursors are always well formed, and the buffer implements Fifo.         *)
(***************************************************************************)
EXTENDS ByteBuffer, SequenceTheorems, TLAPS

(* The inductive invariant: the memory keeps its shape and the cursors are
   ordered and rewound when they meet.  The rewind is what FullIsReadable
   needs; the order is what the refinement needs. *)
BufferInv == TypeOK /\ CursorsWellFormed

(* Reading n pending bytes leaves well-formed cursors and removes exactly n
   bytes from the front, whether or not the buffer rewinds itself. *)
LEMMA ReadAdvWellFormed ==
  ASSUME NEW c \in Cursors, WellFormed(c), NEW n \in 1..ReadableBytes(c)
  PROVE  /\ WellFormed(buffer_read_adv(c, n))
         /\ ReadableBytes(buffer_read_adv(c, n)) = ReadableBytes(c) - n
         /\ ReadableBytes(c) > n => buffer_read_adv(c, n).read = c.read + n
BY BufferSizeAssumption
   DEF WellFormed, Cursors, ReadableBytes, buffer_read_adv, buffer_compact

(* Writing n bytes into free room leaves well-formed cursors. *)
LEMMA WriteAdvWellFormed ==
  ASSUME NEW c \in Cursors, WellFormed(c), NEW n \in 1..WritableBytes(c)
  PROVE  /\ WellFormed(buffer_write_adv(c, n))
         /\ buffer_write_adv(c, n).read = c.read
         /\ buffer_write_adv(c, n).write = c.write + n
BY BufferSizeAssumption
   DEF WellFormed, Cursors, WritableBytes, buffer_write_adv

(* Compacting on demand leaves well-formed cursors. *)
LEMMA CompactWellFormed ==
  ASSUME NEW c \in Cursors, WellFormed(c)
  PROVE  WellFormed(buffer_compact(c))
BY BufferSizeAssumption DEF WellFormed, Cursors, buffer_compact

(* buffer_init establishes the invariant, every call preserves it. *)
LEMMA InitBufferInv == Init => BufferInv
BY BufferSizeAssumption
   DEF Init, BufferInv, TypeOK, CursorsWellFormed, WellFormed, Cursors, buffer_reset

(* One step per function of buffer.c. *)
LEMMA NextBufferInv == BufferInv /\ [Next]_vars => BufferInv'
<1> SUFFICES ASSUME BufferInv, [Next]_vars PROVE BufferInv'
  OBVIOUS
<1> USE DEF BufferInv, TypeOK, CursorsWellFormed
<1>1. CASE WriteBytes
  <2>1. PICK n \in 1..WritableBytes(b) : \E s \in [0..(n - 1) -> Byte] :
          /\ data' = [i \in 0..(BufferSize - 1) |->
                   IF b.write <= i /\ i < b.write + n THEN s[i - b.write] ELSE data[i]]
          /\ b' = buffer_write_adv(b, n)
    BY <1>1 DEF WriteBytes
  <2>2. WellFormed(b')
    BY <2>1, WriteAdvWellFormed
  <2>3. data' \in Memory
    BY <2>1, BufferSizeAssumption DEF Memory, WritableBytes, Cursors
  <2> QED BY <2>2, <2>3 DEF WellFormed
<1>2. CASE ReadBytes
  BY <1>2, ReadAdvWellFormed DEF ReadBytes, WellFormed
<1>3. CASE buffer_write
  <2>1. 1 \in 1..WritableBytes(b)
    BY <1>3, BufferSizeAssumption DEF buffer_write, buffer_can_write, WritableBytes, Cursors
  <2>2. WellFormed(b')
    BY <1>3, <2>1, WriteAdvWellFormed DEF buffer_write
  <2>3. data' \in Memory
    BY <1>3 DEF buffer_write, Memory
  <2> QED BY <2>2, <2>3 DEF WellFormed
<1>4. CASE buffer_read
  <2>1. 1 \in 1..ReadableBytes(b)
    BY <1>4, BufferSizeAssumption DEF buffer_read, buffer_can_read, ReadableBytes, Cursors
  <2> QED BY <1>4, <2>1, ReadAdvWellFormed DEF buffer_read, WellFormed
<1>5. CASE CompactOnDemand
  <2>1. WellFormed(b')
    BY <1>5, CompactWellFormed DEF CompactOnDemand
  <2>2. data' \in Memory
    BY <1>5, BufferSizeAssumption
       DEF CompactOnDemand, memmove, Memory, ReadableBytes, Cursors, WellFormed
  <2> QED BY <2>1, <2>2 DEF WellFormed
<1>6. CASE UNCHANGED vars
  BY <1>6 DEF vars
<1> QED BY <1>1, <1>2, <1>3, <1>4, <1>5, <1>6 DEF Next

(* The inductive invariant holds in every reachable state. *)
THEOREM BufferInvariant == Spec => []BufferInv
BY InitBufferInv, NextBufferInv, PTL DEF Spec

(* buffer.h's "R <= W <= limit", with the rewind of an exhausted buffer. *)
THEOREM CursorsAlwaysWellFormed == Spec => []CursorsWellFormed
BY BufferInvariant, PTL DEF BufferInv

(* No call moves a cursor or writes a byte outside of the buffer. *)
THEOREM BufferTypes == Spec => []TypeOK
BY BufferInvariant, PTL DEF BufferInv

(* A buffer with no room left always has bytes to read. *)
THEOREM FullAlwaysReadable == Spec => []FullIsReadable
<1>1. BufferInv => FullIsReadable
  BY BufferSizeAssumption
     DEF BufferInv, TypeOK, CursorsWellFormed, WellFormed, Cursors, FullIsReadable,
         buffer_can_write, buffer_can_read
<1> QED BY <1>1, BufferInvariant, PTL
-----------------------------------------------------------------------------
(* The refinement.  Pending is a sequence whose length is the distance
   between the cursors. *)
LEMMA PendingIsSeq ==
  ASSUME BufferInv
  PROVE  /\ Pending \in Seq(Byte)
         /\ Len(Pending) = ReadableBytes(b)
         /\ ReadableBytes(b) \in 0..BufferSize
<1> USE DEF BufferInv, TypeOK, CursorsWellFormed, WellFormed, Cursors, Memory
<1>1. ReadableBytes(b) \in 0..BufferSize
  BY BufferSizeAssumption DEF ReadableBytes
<1>2. \A i \in 1..ReadableBytes(b) : data[b.read + i - 1] \in Byte
  BY BufferSizeAssumption DEF ReadableBytes
<1>3. Pending \in [1..ReadableBytes(b) -> Byte]
  BY <1>2 DEF Pending
<1> QED BY <1>1, <1>3

(* ConcatProperties in the form in which AppendIsPut uses it. *)
LEMMA ConcatSpec ==
  ASSUME NEW S, NEW s1 \in Seq(S), NEW s2 \in Seq(S), NEW k, NEW n,
         Len(s1) = k, Len(s2) = n
  PROVE  /\ s1 \o s2 \in Seq(S)
         /\ Len(s1 \o s2) = k + n
         /\ \A i \in 1..(k + n) : (s1 \o s2)[i] = IF i <= k THEN s1[i] ELSE s2[i - k]
BY ConcatProperties, Zenon

(* A step that appends the function s of n bytes behind the write cursor is a
   Put of the abstract queue. *)
LEMMA AppendIsPut ==
  ASSUME BufferInv, BufferInv', NEW n \in 1..WritableBytes(b), NEW s \in [1..n -> Byte],
         b'.read = b.read, b'.write = b.write + n,
         \A i \in 0..(BufferSize - 1) :
            data'[i] = IF b.write <= i /\ i < b.write + n THEN s[i - b.write + 1] ELSE data[i]
  PROVE  Abstract!Put
<1> USE DEF BufferInv, TypeOK, CursorsWellFormed, WellFormed, Cursors
<1>1. n \in 1..BufferSize /\ ReadableBytes(b)' = ReadableBytes(b) + n
  BY BufferSizeAssumption DEF WritableBytes, ReadableBytes
<1>2. s \in Seq(Byte) /\ Len(s) = n
  BY <1>1
<1>3. Len(Pending) + Len(s) <= BufferSize
  BY <1>2, PendingIsSeq, BufferSizeAssumption DEF WritableBytes, ReadableBytes
<1>4. Pending' = Pending \o s
  <2> DEFINE k == ReadableBytes(b)
  <2>1. k \in 0..BufferSize /\ Pending \in Seq(Byte) /\ Len(Pending) = k
    BY PendingIsSeq
  <2>2. ASSUME NEW i \in 1..(k + n)
        PROVE  data'[b.read + i - 1] = IF i <= k THEN Pending[i] ELSE s[i - k]
    <3>1. b.read + i - 1 \in 0..(BufferSize - 1)
      BY BufferSizeAssumption DEF ReadableBytes, WritableBytes
    <3>2. CASE i <= k
      <4>1. b.read + i - 1 < b.write
        BY <3>2 DEF ReadableBytes
      <4>2. data'[b.read + i - 1] = data[b.read + i - 1]
        BY <3>1, <4>1
      <4>3. Pending[i] = data[b.read + i - 1]
        BY <3>2, <2>1 DEF Pending
      <4> QED BY <3>2, <4>2, <4>3
    <3>3. CASE ~(i <= k)
      <4>1. b.write <= b.read + i - 1 /\ b.read + i - 1 < b.write + n
        BY <3>3, <2>1, <1>1 DEF ReadableBytes
      <4>2. (b.read + i - 1) - b.write + 1 = i - k
        BY <2>1 DEF ReadableBytes
      <4>3. data'[b.read + i - 1] = s[i - k]
        BY <3>1, <4>1, <4>2
      <4> QED BY <3>3, <4>3
    <3> QED BY <3>2, <3>3
  <2>3. Pending' = [i \in 1..(k + n) |-> data'[b.read + i - 1]]
    BY <1>1 DEF Pending
  <2>4. Pending' = [i \in 1..(k + n) |-> IF i <= k THEN Pending[i] ELSE s[i - k]]
    BY <2>2, <2>3
  <2>5. Pending \o s = [i \in 1..(k + n) |-> IF i <= k THEN Pending[i] ELSE s[i - k]]
    <3>1. /\ Pending \o s \in Seq(Byte)
          /\ Len(Pending \o s) = k + n
          /\ \A i \in 1..(k + n) :
                (Pending \o s)[i] = IF i <= k THEN Pending[i] ELSE s[i - k]
      BY ONLY <2>1, <1>2, ConcatSpec
    <3>2. Pending \o s \in [1..(k + n) -> Byte]
      BY <3>1, LenProperties
    <3> QED BY <3>1, <3>2
  <2> QED BY <2>4, <2>5
<1> QED BY <1>1, <1>2, <1>3, <1>4 DEF Abstract!Put

(* A step that removes the n oldest bytes is a Take. *)
LEMMA AdvanceIsTake ==
  ASSUME BufferInv, NEW n \in 1..ReadableBytes(b),
         b' = buffer_read_adv(b, n), data' = data
  PROVE  Abstract!Take
<1> USE DEF BufferInv, TypeOK, CursorsWellFormed
<1>1. /\ ReadableBytes(b)' = ReadableBytes(b) - n
      /\ ReadableBytes(b) > n => b'.read = b.read + n
  BY ReadAdvWellFormed DEF ReadableBytes
<1>2. \A i \in 1..(ReadableBytes(b) - n) : Pending'[i] = Pending[n + i]
  BY <1>1, PendingIsSeq, BufferSizeAssumption DEF Pending, Cursors
<1>3. Pending' = [i \in 1..(ReadableBytes(b) - n) |-> Pending[n + i]]
  BY <1>1, <1>2 DEF Pending
<1> QED BY <1>3, PendingIsSeq DEF Abstract!Take

(* Every call of buffer.c is a Put, a Take or a stutter of the queue. *)
LEMMA StepSimulation == BufferInv /\ BufferInv' /\ [Next]_vars => [Abstract!Next]_Pending
<1> SUFFICES ASSUME BufferInv, BufferInv', [Next]_vars PROVE [Abstract!Next]_Pending
  OBVIOUS
<1> USE DEF BufferInv, TypeOK, CursorsWellFormed, WellFormed
<1>1. CASE WriteBytes
  <2>1. PICK n \in 1..WritableBytes(b) : \E s \in [0..(n - 1) -> Byte] :
          /\ data' = [i \in 0..(BufferSize - 1) |->
                   IF b.write <= i /\ i < b.write + n THEN s[i - b.write] ELSE data[i]]
          /\ b' = buffer_write_adv(b, n)
    BY <1>1 DEF WriteBytes
  <2>2. PICK s \in [0..(n - 1) -> Byte] :
          data' = [i \in 0..(BufferSize - 1) |->
                   IF b.write <= i /\ i < b.write + n THEN s[i - b.write] ELSE data[i]]
    BY <2>1
  <2> DEFINE t == [i \in 1..n |-> s[i - 1]]
  <2>3. t \in [1..n -> Byte]
    OBVIOUS
  <2>4. \A i \in 0..(BufferSize - 1) :
          data'[i] = IF b.write <= i /\ i < b.write + n THEN t[i - b.write + 1] ELSE data[i]
    BY <2>2, BufferSizeAssumption DEF Cursors
  <2>5. b'.read = b.read /\ b'.write = b.write + n
    BY <2>1, WriteAdvWellFormed
  <2> HIDE DEF t
  <2>6. Abstract!Put
    BY <2>3, <2>4, <2>5, AppendIsPut
  <2> QED BY <2>6 DEF Abstract!Next
<1>2. CASE ReadBytes
  BY <1>2, AdvanceIsTake DEF ReadBytes, Abstract!Next
<1>3. CASE buffer_write
  <2>1. PICK c \in Byte : data' = [data EXCEPT ![b.write] = c]
    BY <1>3 DEF buffer_write
  <2>2. 1 \in 1..WritableBytes(b)
    BY <1>3, BufferSizeAssumption DEF buffer_write, buffer_can_write, WritableBytes, Cursors
  <2>3. b'.read = b.read /\ b'.write = b.write + 1
    BY <1>3, <2>2, WriteAdvWellFormed DEF buffer_write
  <2> DEFINE t == [i \in 1..1 |-> c]
  <2>4. \A i \in 0..(BufferSize - 1) :
          data'[i] = IF b.write <= i /\ i < b.write + 1 THEN t[i - b.write + 1] ELSE data[i]
    BY <2>1, BufferSizeAssumption DEF Cursors, Memory
  <2>5. t \in [1..1 -> Byte]
    OBVIOUS
  <2> HIDE DEF t
  <2>6. Abstract!Put
    BY <2>2, <2>3, <2>4, <2>5, AppendIsPut
  <2> QED BY <2>6 DEF Abstract!Next
<1>4. CASE buffer_read
  <2>1. 1 \in 1..ReadableBytes(b)
    BY <1>4, BufferSizeAssumption DEF buffer_read, buffer_can_read, ReadableBytes, Cursors
  <2> QED BY <1>4, <2>1, AdvanceIsTake DEF buffer_read, Abstract!Next
<1>5. CASE CompactOnDemand
  <2>1. ReadableBytes(b)' = ReadableBytes(b) /\ b'.read = 0
    BY <1>5, BufferSizeAssumption DEF CompactOnDemand, buffer_compact, ReadableBytes, Cursors
  <2>2. \A i \in 1..ReadableBytes(b) : data'[i - 1] = data[b.read + i - 1]
    BY <1>5, BufferSizeAssumption
       DEF CompactOnDemand, memmove, ReadableBytes, Cursors
  <2>3. Pending' = Pending
    BY <2>1, <2>2, BufferSizeAssumption DEF Pending, Cursors
  <2> QED BY <2>3
<1>6. CASE UNCHANGED vars
  BY <1>6 DEF vars, Pending, ReadableBytes
<1> QED BY <1>1, <1>2, <1>3, <1>4, <1>5, <1>6 DEF Next

(* struct buffer implements the bounded FIFO queue, whatever its size and
   however the traffic is split: no byte is lost, duplicated or reordered. *)
THEOREM BufferImplementsFifo == Spec => IsFifo
<1>1. Init => Abstract!Init
  BY DEF Init, Abstract!Init, Pending, ReadableBytes, buffer_reset
<1> QED BY <1>1, BufferInvariant, StepSimulation, PTL DEF Spec, IsFifo, Abstract!Spec
=============================================================================
