------------------------------- MODULE Relay -------------------------------
(***************************************************************************)
(* The relay of one connection (copy.c), with the bytes that it carries:   *)
(* the two buffers of the connection, the end of the input or the output   *)
(* of either side, and the interests that keep it going.                   *)
(***************************************************************************)
EXTENDS Queue, Dissector

CONSTANTS ClientBytes, OriginBytes     \* what the two ends send

VARIABLES
  state,        \* of the state machine of the connection
  buffer,       \* its read_buffer and write_buffer
  mask,         \* copy_st.interest: what is still open of each side
  interest,     \* what the selector watches each side's descriptor for
  dissector,    \* its password_parser
  sent          \* history: the bytes that the last step of the relay sent

relayVars == <<buffer, mask, interest, dissector, sent>>

Sides == {"client", "origin"}
Other(s) == CHOOSE o \in Sides : o # s
BytesOf(s) == IF s = "client" THEN ClientBytes ELSE OriginBytes

\* d->rb and d->wb of each side's copy_st.
rb(s) == IF s = "client" THEN "read_buffer" ELSE "write_buffer"
wb(s) == IF s = "client" THEN "write_buffer" ELSE "read_buffer"

copy_compute_interests(s, m, b) ==
  {op \in m[s] : (op = "READ" /\ CanWrite(b[rb(s)])) \/ (op = "WRITE" /\ CanRead(b[wb(s)]))}

\* A mutated form: the other side is polled for what it was.
BothInterests_OneSide(s, m, b) ==
  [interest EXCEPT ![s] = copy_compute_interests(s, m, b)]

\* For d and for d->other_copy.
BothInterests(s, m, b) == [t \in Sides |-> copy_compute_interests(t, m, b)]

\* What every handler of the relay ends with, where side s had the event.
Recompute(s) ==
  /\ interest' = BothInterests(s, mask', buffer')
  /\ state' = IF mask'[s] = {} THEN "DONE" ELSE state

copy_init ==
  /\ mask' = [s \in Sides |-> {"READ", "WRITE"}]
  /\ interest' = BothInterests("origin", mask', buffer')

\* One direction is shut: the input of side s, the output of the other.
Shuts(s) == mask' = [mask EXCEPT ![s] = @ \ {"READ"}, ![Other(s)] = @ \ {"WRITE"}]

\* The dissector is on or off, as the management protocol says at the moment.
Dissects(bytes) == dissector' \in {dissector, password_consume(dissector, bytes)}

Ready(s, op) == state = "COPY" /\ op \in interest[s]

copy_read(s) ==
  /\ Ready(s, "READ")
  /\ \/ \E n \in 1..Room(buffer[rb(s)]) : \E bytes \in [1..n -> BytesOf(s)] :
          /\ buffer' = [buffer EXCEPT ![rb(s)] = Put(@, bytes)]
          /\ Dissects(bytes)
          /\ UNCHANGED mask
     \/ Shuts(s) /\ UNCHANGED <<buffer, dissector>>
  /\ sent' = 0
  /\ Recompute(s)

copy_write(s) ==
  /\ Ready(s, "WRITE")
  /\ \/ \E n \in 1..Len(buffer[wb(s)].bytes) :
          /\ buffer' = [buffer EXCEPT ![wb(s)] = Take(@, n)]
          /\ sent' = n
          /\ UNCHANGED mask
     \/ Shuts(Other(s)) /\ sent' = 0 /\ UNCHANGED buffer
  /\ UNCHANGED dissector
  /\ Recompute(s)
-----------------------------------------------------------------------------
(* The relay as two channels: what each buffer carries while its direction is
   open at the side that it is read from. *)

Relaying == state = "COPY"
Open(s) == Relaying /\ "READ" \in mask[s]
Carried(s) == IF Open(s) THEN buffer[rb(s)].bytes ELSE << >>
Side(d) == IF d = "up" THEN "client" ELSE "origin"
=============================================================================
