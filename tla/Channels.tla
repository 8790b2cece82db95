------------------------------ MODULE Channels ------------------------------
(***************************************************************************)
(* What the relay promises the two ends of a connection: once it is        *)
(* established, a bounded queue of bytes in each direction.  Bytes come    *)
(* out in the order in which they went in, none lost, invented or doubled, *)
(* until the direction is given up; then it carries nothing any more.      *)
(* Giving up one direction does not touch what is queued in the other.     *)
(***************************************************************************)
EXTENDS Integers, Sequences

CONSTANTS Byte, Capacity

VARIABLES
  queue, open,      \* of each direction
  established,
  delivered         \* the bytes that the last step took out

vars == <<queue, open, established, delivered>>

Directions == {"up", "down"}     \* from client to origin, from origin to client

Contents == {s \in Seq(Byte) : Len(s) <= Capacity}

Init ==
  /\ queue = [d \in Directions |-> << >>]
  /\ open = [d \in Directions |-> FALSE]
  /\ established = FALSE /\ delivered = 0

\* Bytes of the client may be there already.
Establish ==
  /\ ~established /\ established'
  /\ queue'["up"] \in Contents
  /\ queue' = [queue EXCEPT !["up"] = queue'["up"]]
  /\ open' = [d \in Directions |-> TRUE]
  /\ delivered' = 0

\* Bytes go in at the end.
Send(d) ==
  /\ open[d]
  /\ queue'[d] \in Contents
  /\ Len(queue'[d]) > Len(queue[d])
  /\ SubSeq(queue'[d], 1, Len(queue[d])) = queue[d]
  /\ queue' = [queue EXCEPT ![d] = queue'[d]]
  /\ delivered' = 0
  /\ UNCHANGED <<open, established>>

\* Bytes come out at the front.
Deliver(d, n) ==
  /\ open[d]
  /\ queue' = [queue EXCEPT ![d] = SubSeq(@, n + 1, Len(@))]
  /\ delivered' = n
  /\ UNCHANGED <<open, established>>

\* What was queued is lost.
GiveUp(D) ==
  /\ open' = [d \in Directions |-> open[d] /\ d \notin D]
  /\ queue' = [d \in Directions |-> IF d \in D THEN << >> ELSE queue[d]]
  /\ delivered' = 0
  /\ UNCHANGED established

Next ==
  \/ Establish
  \/ \E d \in Directions : Send(d) \/ \E n \in 1..Len(queue[d]) : Deliver(d, n)
  \/ \E D \in SUBSET Directions : GiveUp(D)

Spec == Init /\ [][Next]_vars
=============================================================================
