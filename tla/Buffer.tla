------------------------------- MODULE Buffer -------------------------------
(***************************************************************************)
(* The cursor arithmetic of src/src/buffer.c.  A buffer is the record      *)
(*                                                                         *)
(*      [read |-> R, write |-> W]                                          *)
(*                                                                         *)
(* of the two offsets R and W from `data`; `limit` is the constant         *)
(* BufferSize.  The operators are those of buffer.c under the same names.  *)
(* The module has no variables: Socks5 keeps two such records per          *)
(* connection, ByteBuffer adds the bytes.                                  *)
(***************************************************************************)
EXTENDS Integers

CONSTANT BufferSize    \* limit - data

ASSUME BufferSizeAssumption == BufferSize \in Nat \ {0}

Cursors == [read : 0..BufferSize, write : 0..BufferSize]

buffer_reset == [read |-> 0, write |-> 0]

buffer_can_write(b) == BufferSize - b.write > 0

buffer_can_read(b) == b.write - b.read > 0

\* The *nbyte results of buffer_write_ptr and buffer_read_ptr.
WritableBytes(b) == BufferSize - b.write

ReadableBytes(b) == b.write - b.read

buffer_compact(b) == [read |-> 0, write |-> b.write - b.read]

buffer_write_adv(b, n) == [b EXCEPT !.write = @ + n]

\* A mutated form: the exhausted buffer is not rewound.
buffer_read_adv_NoCompact(b, n) == [b EXCEPT !.read = @ + n]

\* The buffer compacts itself when, and only when, the last byte is read.
buffer_read_adv(b, n) ==
  IF b.read + n = b.write THEN buffer_compact([b EXCEPT !.read = @ + n])
                          ELSE [b EXCEPT !.read = @ + n]

(***************************************************************************)
(* The documented invariant, R <= W <= limit, and what every select loop   *)
(* that uses the buffer relies on besides it: an exhausted buffer is always*)
(* rewound, so a buffer with no room left has something to read.           *)
(***************************************************************************)
WellFormed(b) ==
  /\ b \in Cursors
  /\ b.read <= b.write
  /\ b.read = b.write => b.write = 0
=============================================================================
