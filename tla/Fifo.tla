-------------------------------- MODULE Fifo --------------------------------
(***************************************************************************)
(* What src/include/buffer.h promises its users: a bounded queue of bytes. *)
(* Bytes leave in the order in which they came, none is lost, invented or  *)
(* duplicated, and at most Capacity of them are held at a time.            *)
(***************************************************************************)
EXTENDS Naturals, Sequences

CONSTANTS Byte,        \* the values a byte can take
          Capacity     \* number of bytes that fit

VARIABLE queue         \* bytes written and not read yet, oldest first

Init == queue = << >>

\* Bytes are added behind the ones that are waiting.
Put == \E s \in UNION {[1..k -> Byte] : k \in 1..Capacity} :
         /\ Len(queue) + Len(s) <= Capacity
         /\ queue' = queue \o s

\* A non-empty prefix of the waiting bytes is taken away.
Take == \E n \in 1..Len(queue) :
          queue' = [i \in 1..(Len(queue) - n) |-> queue[n + i]]

Next == Put \/ Take

Spec == Init /\ [][Next]_queue
=============================================================================
