---------------------------- MODULE Socks5Proofs ----------------------------
(***************************************************************************)
(* Proofs about Socks5: for any number of connections, descriptors and     *)
(* addresses and any size of buffers.                                      *)
(***************************************************************************)
EXTENDS Socks5, TLAPS

(* The inductive invariant, connection by connection. *)

EarlyStates == {"HELLO_READ", "HELLO_WRITE", "USERPASS_READ", "USERPASS_WRITE",
                "REQUEST_READ", "REQUEST_RESOLV"}

ClientFd(c) == conn[c].client_fd
OriginFd(c) == conn[c].origin_fd
State(c) == conn[c].state

\* The descriptors of a live connection are open and, but for an origin that
\* connecting has not registered, the selector's item is its own.
EndsInv(c) ==
  Live(c) =>
    /\ ClientFd(c) \in FDs /\ item[ClientFd(c)] = c /\ sock[ClientFd(c)] = "peer"
    /\ OriginFd(c) # NoFd =>
         /\ State(c) \notin EarlyStates
         /\ sock[OriginFd(c)] \notin {"closed", "peer"}
         /\ item[OriginFd(c)] = c \/ State(c) = "REQUEST_CONNECTING"

IsEnd(c, f) == Live(c) /\ (f = ClientFd(c) \/ f = OriginFd(c))

\* An item that is not one of its connection's ends was left behind by
\* connection(): it is not polled, and its connection has no origin.
ItemsInv(c) ==
  \A f \in FDs : item[f] = c =>
    /\ State(c) # "free"
    /\ ~IsEnd(c, f) => /\ interest[f] = {}
                       /\ State(c) \notin EarlyStates
                       /\ OriginFd(c) = NoFd \/ State(c) = "DONE"

\* At most one item is left behind, and there is a reference for each item.
ReferencesInv(c) ==
  \A f \in FDs : item[f] = c =>
    /\ conn[c].references >= 1
    /\ Live(c) /\ f # ClientFd(c) => conn[c].references >= 2
    /\ \A g \in FDs : item[g] = c /\ (Live(c) => f # ClientFd(c) /\ g # ClientFd(c)) => f = g

\* An attempt is under way, or one failed and a reply waits to be written.
Attempting(c) ==
  /\ OriginFd(c) # NoFd /\ item[OriginFd(c)] = c
  /\ interest[OriginFd(c)] = {"WRITE"} /\ interest[ClientFd(c)] = {}

GaveUp(c) ==
  /\ conn[c].status = "failed" /\ buffer_can_read(conn[c].write_buffer)
  /\ interest[ClientFd(c)] = {"WRITE"}
  /\ OriginFd(c) # NoFd => interest[OriginFd(c)] = {}

\* What is polled in each state.
PolledInv(c) ==
  /\ State(c) \in {"HELLO_READ", "USERPASS_READ", "REQUEST_READ"} => interest[ClientFd(c)] = {"READ"}
  /\ State(c) \in {"HELLO_WRITE", "USERPASS_WRITE"} => interest[ClientFd(c)] = {"WRITE"}
  /\ State(c) = "REQUEST_RESOLV" => interest[ClientFd(c)] = {}
  /\ State(c) = "REQUEST_CONNECTING" => Attempting(c) \/ GaveUp(c)
  /\ State(c) = "REQUEST_WRITE" =>
       /\ interest[ClientFd(c)] = {"WRITE"}
       /\ OriginFd(c) # NoFd => interest[OriginFd(c)] = {}
       /\ conn[c].status = "succeeded" => OriginFd(c) # NoFd
  /\ State(c) = "COPY" =>
       /\ OriginFd(c) # NoFd
       /\ interest[ClientFd(c)] = ClientInterest(conn[c])
       /\ interest[OriginFd(c)] = OriginInterest(conn[c])

\* Each direction of the relay is either open at both of its ends or closed at
\* both, and one is open.
DirectionsInv(c) ==
  State(c) = "COPY" =>
    /\ \A s \in Sides : "READ" \in conn[c].mask[s] <=> "WRITE" \in conn[c].mask[Other(s)]
    /\ \E s \in Sides : "READ" \in conn[c].mask[s]

\* The resolver's descriptor, and the parser it reads.
ThreadInv(c) ==
  conn[c].resolver # NoFd =>
    /\ State(c) = "REQUEST_RESOLV" /\ conn[c].resolver = ClientFd(c)
    /\ conn[c].parser = "reading" /\ ClientFd(c) \notin jobs

AuthInv(c) ==
  /\ State(c) = "USERPASS_WRITE" => (conn[c].authentication = 0 => conn[c].accepted)
  /\ State(c) \in {"REQUEST_READ", "REQUEST_RESOLV", "REQUEST_CONNECTING", "REQUEST_WRITE", "COPY"} =>
       conn[c].method = "no_auth" \/ conn[c].accepted

BuffersInv(c) == WellFormed(conn[c].read_buffer) /\ WellFormed(conn[c].write_buffer)

ConnInv(c) ==
  /\ EndsInv(c) /\ ItemsInv(c) /\ ReferencesInv(c)
  /\ PolledInv(c) /\ DirectionsInv(c)
  /\ ThreadInv(c) /\ AuthInv(c) /\ BuffersInv(c)

\* Two live connections never have the same origin descriptor.
OriginsInv ==
  \A c, d \in Conns : c # d /\ Live(c) /\ Live(d) /\ OriginFd(c) # NoFd => OriginFd(c) # OriginFd(d)

UnusedInv == \A f \in FDs : item[f] = None => interest[f] = {}

JobsInv ==
  \A f \in jobs : /\ item[f] # None
                  /\ State(item[f]) = "REQUEST_RESOLV" /\ conn[item[f]].resolver = NoFd

ProxyInv ==
  /\ TypeOK
  /\ \A c \in Conns : ConnInv(c)
  /\ OriginsInv /\ UnusedInv /\ JobsInv
-----------------------------------------------------------------------------
(* Buffers and the records of connections. *)

(* What the buffer's tests mean for its cursors. *)
LEMMA BufferFacts ==
  ASSUME NEW b, WellFormed(b)
  PROVE  /\ WritableBytes(b) \in Nat /\ ReadableBytes(b) \in Nat
         /\ buffer_can_read(b) <=> b.read < b.write
         /\ ~buffer_can_read(b) => b = buffer_reset
BY BufferSizeAssumption
   DEF WellFormed, Cursors, WritableBytes, ReadableBytes, buffer_can_read, buffer_reset

(* buffer_reset leaves an empty buffer. *)
LEMMA ResetIsWellFormed == WellFormed(buffer_reset) /\ ~buffer_can_read(buffer_reset)
BY BufferSizeAssumption DEF WellFormed, Cursors, buffer_reset, buffer_can_read

(* Bytes written into the room there is can be read. *)
LEMMA WriteAdvIsWellFormed ==
  ASSUME NEW b, WellFormed(b), NEW n \in 1..WritableBytes(b)
  PROVE  /\ WellFormed(buffer_write_adv(b, n))
         /\ buffer_can_read(buffer_write_adv(b, n))
<1>1. buffer_write_adv(b, n) = [read |-> b.read, write |-> b.write + n]
  BY DEF WellFormed, Cursors, buffer_write_adv
<1> QED
  BY <1>1, BufferSizeAssumption
     DEF WellFormed, Cursors, WritableBytes, buffer_can_read

(* Reading moves the cursor, and compacts when nothing is left. *)
LEMMA ReadAdvIsWellFormed ==
  ASSUME NEW b, WellFormed(b), NEW n \in 1..ReadableBytes(b)
  PROVE  WellFormed(buffer_read_adv(b, n))
<1>1. [b EXCEPT !.read = @ + n] = [read |-> b.read + n, write |-> b.write]
  BY DEF WellFormed, Cursors
<1> QED
  BY <1>1, BufferSizeAssumption
     DEF WellFormed, Cursors, ReadableBytes, buffer_read_adv, buffer_compact

(* ... so does send, however much it took. *)
LEMMA AfterSendIsWellFormed ==
  ASSUME NEW b, WellFormed(b), NEW a \in AfterSend(b)
  PROVE  WellFormed(a)
BY ReadAdvIsWellFormed DEF AfterSend

(* ... and recv followed by a parser. *)
LEMMA AfterMessageIsWellFormed ==
  ASSUME NEW b, WellFormed(b), NEW a \in AfterMessage(b)
  PROVE  WellFormed(a)
<1>1. PICK n \in 1..WritableBytes(b) :
         a \in {buffer_read_adv(buffer_write_adv(b, n), k) : k \in 1..(ReadableBytes(b) + n)}
  BY DEF AfterMessage
<1>2. PICK k \in 1..(ReadableBytes(b) + n) : a = buffer_read_adv(buffer_write_adv(b, n), k)
  BY <1>1
<1>3. WellFormed(buffer_write_adv(b, n))
  BY WriteAdvIsWellFormed
<1>4. ReadableBytes(buffer_write_adv(b, n)) = ReadableBytes(b) + n
  BY DEF ReadableBytes, buffer_write_adv, WellFormed, Cursors, WritableBytes
<1> QED BY <1>2, <1>3, <1>4, ReadAdvIsWellFormed

(* With or without room for the reply, there is something to send after it. *)
LEMMA WithReplyIsWellFormed ==
  ASSUME NEW b, WellFormed(b)
  PROVE  WellFormed(WithReply(b)) /\ buffer_can_read(WithReply(b))
<1>1. CASE WritableBytes(b) < ReplySize
  <2>1. b.write > 0
    BY <1>1, BufferSizeAssumption, Socks5Assumption DEF WritableBytes, WellFormed, Cursors
  <2> QED BY <1>1, <2>1 DEF WithReply, WellFormed, Cursors, buffer_can_read
<1>2. CASE ~(WritableBytes(b) < ReplySize)
  <2>1. ReplySize \in 1..WritableBytes(b)
    BY <1>2, Socks5Assumption, BufferFacts, BufferSizeAssumption
  <2> QED BY <1>2, <2>1, WriteAdvIsWellFormed DEF WithReply
<1> QED BY <1>1, <1>2

(* Well-formed cursors are cursors. *)
LEMMA WellFormedIsCursors == ASSUME NEW b, WellFormed(b) PROVE b \in Cursors
BY DEF WellFormed

(* A record with one field replaced by another value of its type. *)
LEMMA FieldTypes ==
  ASSUME NEW r \in Connections
  PROVE  /\ \A x \in States : [r EXCEPT !.state = x] \in Connections
         /\ \A x \in FDs \cup {NoFd} : [r EXCEPT !.origin_fd = x] \in Connections
         /\ \A x \in FDs \cup {NoFd} : [r EXCEPT !.resolver = x] \in Connections
         /\ \A x \in Nat : [r EXCEPT !.references = x] \in Connections
         /\ \A x \in MethodKinds : [r EXCEPT !.method = x] \in Connections
         /\ \A x \in {0, 1} : [r EXCEPT !.authentication = x] \in Connections
         /\ \A x \in BOOLEAN : [r EXCEPT !.accepted = x] \in Connections
         /\ \A x \in {"none", "reading", "rejected"} : [r EXCEPT !.parser = x] \in Connections
         /\ \A x \in 0..MaxAddrs : [r EXCEPT !.addrs = x] \in Connections
         /\ \A x \in {"succeeded", "failed"} : [r EXCEPT !.status = x] \in Connections
         /\ \A x \in Cursors : [r EXCEPT !.read_buffer = x] \in Connections
         /\ \A x \in Cursors : [r EXCEPT !.write_buffer = x] \in Connections
         /\ \A x \in [Sides -> SUBSET Ops] : [r EXCEPT !.mask = x] \in Connections
         /\ \A x \in Nat : [r EXCEPT !.replies = x] \in Connections
<1>1. /\ \A x \in States : [r EXCEPT !.state = x] \in Connections
      /\ \A x \in FDs \cup {NoFd} : [r EXCEPT !.origin_fd = x] \in Connections
      /\ \A x \in FDs \cup {NoFd} : [r EXCEPT !.resolver = x] \in Connections
      /\ \A x \in Nat : [r EXCEPT !.references = x] \in Connections
      /\ \A x \in MethodKinds : [r EXCEPT !.method = x] \in Connections
      /\ \A x \in {0, 1} : [r EXCEPT !.authentication = x] \in Connections
      /\ \A x \in BOOLEAN : [r EXCEPT !.accepted = x] \in Connections
  BY DEF Connections
<1>2. /\ \A x \in {"none", "reading", "rejected"} : [r EXCEPT !.parser = x] \in Connections
      /\ \A x \in 0..MaxAddrs : [r EXCEPT !.addrs = x] \in Connections
      /\ \A x \in {"succeeded", "failed"} : [r EXCEPT !.status = x] \in Connections
      /\ \A x \in Cursors : [r EXCEPT !.read_buffer = x] \in Connections
      /\ \A x \in Cursors : [r EXCEPT !.write_buffer = x] \in Connections
      /\ \A x \in [Sides -> SUBSET Ops] : [r EXCEPT !.mask = x] \in Connections
      /\ \A x \in Nat : [r EXCEPT !.replies = x] \in Connections
  BY DEF Connections
<1> QED BY <1>1, <1>2

(* request_marshall writes to write_buffer, and to nothing else. *)
LEMMA MarshallFields ==
  ASSUME NEW r \in Connections, WellFormed(r.write_buffer)
  PROVE  LET m == request_marshall(r) IN
         /\ m \in Connections
         /\ WellFormed(m.write_buffer) /\ buffer_can_read(m.write_buffer)
         /\ m.state = r.state /\ m.client_fd = r.client_fd /\ m.origin_fd = r.origin_fd
         /\ m.references = r.references /\ m.method = r.method
         /\ m.authentication = r.authentication /\ m.accepted = r.accepted
         /\ m.parser = r.parser /\ m.resolver = r.resolver /\ m.addrs = r.addrs
         /\ m.status = r.status /\ m.read_buffer = r.read_buffer /\ m.mask = r.mask
<1> DEFINE b == WithReply(r.write_buffer)
<1>1. WellFormed(b) /\ buffer_can_read(b) /\ b \in Cursors
  BY WithReplyIsWellFormed, WellFormedIsCursors
<1>2. \/ request_marshall(r) = r /\ b = r.write_buffer
      \/ request_marshall(r) = [r EXCEPT !.write_buffer = b, !.replies = @ + 1]
  BY DEF request_marshall, WithReply
<1> HIDE DEF b
<1>3. r.replies + 1 \in Nat
  BY DEF Connections
<1>4. [r EXCEPT !.write_buffer = b, !.replies = @ + 1] \in Connections
  BY <1>1, <1>3, FieldTypes
<1>5. CASE request_marshall(r) = r /\ b = r.write_buffer
  BY <1>1, <1>5
<1>6. CASE request_marshall(r) = [r EXCEPT !.write_buffer = b, !.replies = @ + 1]
  <2>1. PICK m : m = [r EXCEPT !.write_buffer = b, !.replies = @ + 1]
    OBVIOUS
  <2>2. m \in Connections /\ m.write_buffer = b
    BY <1>4, <2>1 DEF Connections
  <2>3. /\ m.state = r.state /\ m.client_fd = r.client_fd /\ m.origin_fd = r.origin_fd
        /\ m.references = r.references /\ m.method = r.method
        /\ m.authentication = r.authentication /\ m.accepted = r.accepted
        /\ m.parser = r.parser /\ m.resolver = r.resolver /\ m.addrs = r.addrs
        /\ m.status = r.status /\ m.read_buffer = r.read_buffer /\ m.mask = r.mask
    BY <2>1 DEF Connections
  <2>4. request_marshall(r) = m
    BY <1>6, <2>1
  <2> QED BY <1>1, <2>2, <2>3, <2>4
<1> QED BY <1>2, <1>5, <1>6

(* The fields that socks5_new sets. *)
LEMMA NewConnectionFacts ==
  ASSUME NEW f \in FDs \cup {NoFd}
  PROVE  LET n == NewConnection(f) IN
         /\ n \in Connections
         /\ n.state = "HELLO_READ" /\ n.references = 1
         /\ n.client_fd = f /\ n.origin_fd = NoFd /\ n.resolver = NoFd
         /\ n.read_buffer = buffer_reset /\ n.write_buffer = buffer_reset
<1>1. /\ buffer_reset \in Cursors /\ 0 \in 0..MaxAddrs
      /\ [s \in Sides |-> {}] \in [Sides -> SUBSET Ops]
      /\ "HELLO_READ" \in States /\ "none" \in MethodKinds
  BY ResetIsWellFormed, WellFormedIsCursors, Socks5Assumption DEF States, MethodKinds
<1> QED BY <1>1 DEF NewConnection, Connections

(* The struct that is not in use. *)
LEMMA FreeConnectionFacts ==
  /\ FreeConnection \in Connections
  /\ FreeConnection.state = "free" /\ FreeConnection.references = 0
  /\ FreeConnection.client_fd = NoFd /\ FreeConnection.origin_fd = NoFd
  /\ FreeConnection.resolver = NoFd
  /\ FreeConnection.read_buffer = buffer_reset /\ FreeConnection.write_buffer = buffer_reset
<1>1. FreeConnection \in Connections
  BY NewConnectionFacts, FieldTypes DEF FreeConnection, States
<1> QED BY <1>1, NewConnectionFacts DEF FreeConnection, Connections

(* -1 is no descriptor. *)
LEMMA NoFdIsNoFD == NoFd \notin FDs
BY Socks5Assumption DEF NoFd
-----------------------------------------------------------------------------
(* How a step for one connection leaves the others alone. *)

(* The parts of the invariant, for one connection. *)
LEMMA ProxyFacts ==
  ASSUME ProxyInv, NEW c \in Conns
  PROVE  /\ TypeOK /\ conn[c] \in Connections
         /\ EndsInv(c) /\ ItemsInv(c) /\ ReferencesInv(c) /\ PolledInv(c)
         /\ DirectionsInv(c) /\ ThreadInv(c) /\ AuthInv(c) /\ BuffersInv(c)
         /\ OriginsInv /\ UnusedInv /\ JobsInv
BY DEF ProxyInv, ConnInv, TypeOK

(* No descriptor is an end of two connections. *)
LEMMA EndsAreDisjoint ==
  ASSUME ProxyInv, NEW c \in Conns, NEW d \in Conns, c # d, NEW f \in FDs, IsEnd(c, f)
  PROVE  ~IsEnd(d, f)
BY ProxyFacts, NoFdIsNoFD DEF EndsInv, IsEnd, OriginsInv, ClientFd, OriginFd

(* The ends of a connection are open. *)
LEMMA EndsAreOpen ==
  ASSUME ProxyInv, NEW c \in Conns, NEW f \in FDs, IsEnd(c, f)
  PROVE  sock[f] # "closed"
BY ProxyFacts, NoFdIsNoFD DEF EndsInv, IsEnd, ClientFd, OriginFd

\* A step for connection c changes the selector's and the kernel's tables only
\* on E, which are descriptors of c or new ones.
TouchesOnly(c, E) ==
  /\ \A f \in E : IsEnd(c, f) \/ sock[f] = "closed"
  /\ \A f \in FDs \ E : sock'[f] = sock[f] /\ item'[f] = item[f] /\ interest'[f] = interest[f]

\* ... and even there what belongs to other connections is kept.  (A struct
\* that has no item may be normalised by Released.)
KeepsOther(d, E) ==
  /\ \/ conn'[d] = conn[d]
     \/ conn'[d] = FreeConnection /\ \A f \in FDs : item[f] # d
  /\ \A f \in E : /\ item[f] = d <=> item'[f] = d
                  /\ item[f] = d => interest'[f] = interest[f]

(* The connections that are not touched keep their invariant. *)
LEMMA OtherConnectionKept ==
  ASSUME ProxyInv, NEW c \in Conns, NEW d \in Conns, c # d,
         NEW E \in SUBSET FDs, TouchesOnly(c, E), KeepsOther(d, E),
         \A f \in jobs' : f \in jobs \/ item[f] = c
  PROVE  ConnInv(d)'
<1> USE ProxyFacts, NoFdIsNoFD
<1>1. CASE conn'[d] = FreeConnection /\ \A f \in FDs : item[f] # d
  <2>1. \A f \in FDs : item'[f] # d
    BY <1>1 DEF TouchesOnly, KeepsOther
  <2>2. conn'[d].state = "free" /\ conn'[d].resolver = NoFd
        /\ WellFormed(conn'[d].read_buffer) /\ WellFormed(conn'[d].write_buffer)
    BY <1>1, FreeConnectionFacts, ResetIsWellFormed
  <2> QED
    BY <2>1, <2>2 DEF ConnInv, EndsInv, ItemsInv, ReferencesInv, PolledInv, DirectionsInv,
       ThreadInv, AuthInv, BuffersInv, Live, State
<1>2. CASE conn'[d] = conn[d]
  <2>1. \A f \in FDs : IsEnd(d, f) => f \notin E
    BY EndsAreDisjoint, EndsAreOpen DEF TouchesOnly
  <2>2. \A f \in FDs : IsEnd(d, f) =>
          sock'[f] = sock[f] /\ item'[f] = item[f] /\ interest'[f] = interest[f]
    BY <2>1 DEF TouchesOnly
  <2>3. \A f \in FDs : /\ item[f] = d <=> item'[f] = d
                       /\ item[f] = d => interest'[f] = interest[f]
    BY DEF TouchesOnly, KeepsOther
  <2>4. /\ Live(d) <=> Live(d)'
        /\ ClientFd(d)' = ClientFd(d) /\ OriginFd(d)' = OriginFd(d) /\ State(d)' = State(d)
        /\ \A f : IsEnd(d, f) <=> IsEnd(d, f)'
    BY <1>2 DEF Live, ClientFd, OriginFd, State, IsEnd
  <2>5. EndsInv(d)'
    BY <2>2, <2>4 DEF EndsInv, IsEnd, TypeOK, Connections, OriginFd
  <2>6. ItemsInv(d)'
    BY <2>3, <2>4 DEF ItemsInv
  <2>7. ReferencesInv(d)'
    BY <1>2, <2>3, <2>4 DEF ReferencesInv
  <2>8. PolledInv(d)'
    <3>1. Live(d) => /\ interest'[ClientFd(d)] = interest[ClientFd(d)]
                     /\ OriginFd(d) # NoFd => /\ interest'[OriginFd(d)] = interest[OriginFd(d)]
                                              /\ item'[OriginFd(d)] = item[OriginFd(d)]
      BY <2>2 DEF IsEnd, EndsInv, TypeOK, Connections, OriginFd
    <3>2. CASE Live(d)
      BY <1>2, <2>4, <3>1, <3>2 DEF PolledInv, Attempting, GaveUp, Live, State, ClientFd, OriginFd
    <3>3. CASE ~Live(d)
      BY <1>2, <2>4, <3>3 DEF PolledInv, Live, State
    <3> QED BY <3>2, <3>3
  <2>9. DirectionsInv(d)' /\ AuthInv(d)' /\ BuffersInv(d)'
    BY <1>2 DEF DirectionsInv, AuthInv, BuffersInv, State
  <2>10. ThreadInv(d)'
    BY <1>2 DEF ThreadInv, State, ClientFd, EndsInv, Live
  <2> QED
    BY <2>5, <2>6, <2>7, <2>8, <2>9, <2>10 DEF ConnInv
<1> QED BY <1>1, <1>2 DEF KeepsOther

(* socks5_destroy: the last reference frees the struct. *)
LEMMA ReleasedFacts ==
  ASSUME NEW r \in Connections, NEW n \in Nat
  PROVE  /\ Released(r, n) \in Connections
         /\ r.references <= n => Released(r, n) = FreeConnection
         /\ r.references > n => Released(r, n) = [r EXCEPT !.references = @ - n]
         /\ r.references > 0 => Released(r, 0) = r
<1>1. r.references \in Nat
  BY DEF Connections
<1>2. CASE r.references <= n
  BY <1>1, <1>2, FreeConnectionFacts DEF Released, Connections
<1>3. CASE r.references > n
  <2>1. r.references - n \in Nat
    BY <1>1, <1>3
  <2>2. [r EXCEPT !.references = r.references - n] \in Connections
    BY <2>1, FieldTypes
  <2>3. Released(r, n) = [r EXCEPT !.references = r.references - n]
    BY <1>1, <1>3 DEF Released
  <2> QED BY <1>1, <1>3, <2>2, <2>3 DEF Released, Connections
<1> QED BY <1>1, <1>2, <1>3

(* A connection that has no items is a free one or one that DONE left with a
   reference too many; releasing nothing keeps every other one. *)
LEMMA ReleaseNothing ==
  ASSUME ProxyInv, NEW d \in Conns
  PROVE  \/ Released(conn[d], 0) = conn[d]
         \/ Released(conn[d], 0) = FreeConnection /\ \A f \in FDs : item[f] # d
<1>1. conn[d] \in Connections /\ ReferencesInv(d)
  BY ProxyFacts
<1>2. CASE conn[d].references > 0
  BY <1>1, <1>2, ReleasedFacts
<1>3. CASE ~(conn[d].references > 0)
  BY <1>1, <1>3, ReleasedFacts DEF ReferencesInv, Connections
<1> QED BY <1>2, <1>3
\* ... or an item that d left behind at o is unregistered, with its reference.
LosesLeftover(d, E) ==
  \E o \in E :
    /\ item[o] = d /\ item'[o] # d /\ conn'[d] = Released(conn[d], 1)
    /\ \A f \in E \ {o} : /\ item[f] = d <=> item'[f] = d
                          /\ item[f] = d => interest'[f] = interest[f]

(* Losing an item that was left behind keeps the invariant of its connection:
   the reference goes with it, and with the last one the struct. *)
LEMMA LeftoverLost ==
  ASSUME ProxyInv, NEW c \in Conns, NEW d \in Conns, c # d,
         NEW E \in SUBSET FDs, TouchesOnly(c, E), LosesLeftover(d, E)
  PROVE  /\ ConnInv(d)' /\ State(d) # "REQUEST_RESOLV"
         /\ Live(d)' => Live(d) /\ OriginFd(d)' = OriginFd(d)
<1>0. /\ TypeOK /\ conn[d] \in Connections /\ EndsInv(d) /\ ItemsInv(d) /\ ReferencesInv(d)
      /\ PolledInv(d) /\ DirectionsInv(d) /\ ThreadInv(d) /\ AuthInv(d) /\ BuffersInv(d)
  BY ProxyFacts
<1>1. PICK o \in E :
        /\ item[o] = d /\ item'[o] # d /\ conn'[d] = Released(conn[d], 1)
        /\ \A f \in E \ {o} : /\ item[f] = d <=> item'[f] = d
                              /\ item[f] = d => interest'[f] = interest[f]
  BY DEF LosesLeftover
<1>2. \A f \in FDs : IsEnd(d, f) => f \notin E
  BY EndsAreDisjoint, EndsAreOpen DEF TouchesOnly
<1>3. \A f \in FDs : IsEnd(d, f) =>
        sock'[f] = sock[f] /\ item'[f] = item[f] /\ interest'[f] = interest[f]
  BY <1>2 DEF TouchesOnly
<1>4. /\ o \in FDs /\ ~IsEnd(d, o) /\ State(d) \notin EarlyStates
      /\ OriginFd(d) = NoFd \/ State(d) = "DONE"
      /\ conn[d].references >= 1 /\ (Live(d) => conn[d].references >= 2)
  BY <1>0, <1>1, <1>2 DEF ItemsInv, ReferencesInv, IsEnd
<1>5. \A f \in FDs : item'[f] = d => item[f] = d /\ f # o
  BY <1>1 DEF TouchesOnly
<1>6. \A f \in FDs : item'[f] = d => Live(d) /\ f = ClientFd(d)
  BY <1>0, <1>1, <1>4, <1>5 DEF ReferencesInv, IsEnd
<1>7. CASE conn[d].references = 1
  <2>1. conn'[d] = FreeConnection /\ \A f \in FDs : item'[f] # d
    BY <1>0, <1>1, <1>4, <1>6, <1>7, ReleasedFacts
  <2>2. /\ conn'[d].state = "free" /\ conn'[d].resolver = NoFd
        /\ WellFormed(conn'[d].read_buffer) /\ WellFormed(conn'[d].write_buffer)
    BY <2>1, FreeConnectionFacts, ResetIsWellFormed
  <2> QED
    BY <1>4, <2>1, <2>2 DEF ConnInv, EndsInv, ItemsInv, ReferencesInv, PolledInv, DirectionsInv,
       ThreadInv, AuthInv, BuffersInv, Live, State, EarlyStates
<1>8. CASE conn[d].references # 1
  <2> DEFINE r == conn'[d]
  <2>1. /\ r.references = conn[d].references - 1 /\ r.references >= 1
        /\ r.state = conn[d].state /\ r.client_fd = conn[d].client_fd
        /\ r.origin_fd = conn[d].origin_fd /\ r.method = conn[d].method
        /\ r.authentication = conn[d].authentication /\ r.accepted = conn[d].accepted
        /\ r.parser = conn[d].parser /\ r.resolver = conn[d].resolver /\ r.status = conn[d].status
        /\ r.read_buffer = conn[d].read_buffer /\ r.write_buffer = conn[d].write_buffer
        /\ r.mask = conn[d].mask
    <3>1. conn[d].references \in Nat /\ conn[d].references > 1
      BY <1>0, <1>4, <1>8 DEF Connections
    <3>2. r = [conn[d] EXCEPT !.references = @ - 1]
      BY <1>0, <1>1, <3>1, ReleasedFacts
    <3> QED BY <1>0, <3>1, <3>2 DEF Connections
  <2>2. /\ Live(d) <=> Live(d)'
        /\ ClientFd(d)' = ClientFd(d) /\ OriginFd(d)' = OriginFd(d) /\ State(d)' = State(d)
        /\ \A f : IsEnd(d, f) <=> IsEnd(d, f)'
    BY <2>1 DEF Live, ClientFd, OriginFd, State, IsEnd
  <2>3. Live(d) => /\ IsEnd(d, ClientFd(d)) /\ ClientFd(d) \in FDs /\ OriginFd(d) = NoFd
    BY <1>0, <1>4 DEF EndsInv, IsEnd, Live, State
  <2>4. EndsInv(d)'
    BY <1>0, <1>3, <2>2, <2>3 DEF EndsInv
  <2>5. ItemsInv(d)' /\ ReferencesInv(d)'
    BY <1>6, <2>1, <2>2, <2>3 DEF ItemsInv, ReferencesInv, Live, State
  <2>6. PolledInv(d)'
    <3>1. CASE Live(d)
      <4>1. interest'[ClientFd(d)] = interest[ClientFd(d)]
        BY <1>3, <2>3, <3>1
      <4> QED BY <1>0, <2>1, <2>2, <2>3, <3>1, <4>1 DEF PolledInv, Attempting, GaveUp, Live, State, ClientFd, OriginFd
    <3>2. CASE ~Live(d)
      BY <2>2, <3>2 DEF PolledInv, Live, State
    <3> QED BY <3>1, <3>2
  <2>7. DirectionsInv(d)'
    BY <1>0, <2>1, <2>2 DEF DirectionsInv
  <2>8. AuthInv(d)' /\ BuffersInv(d)'
    BY <1>0, <2>1, <2>2 DEF AuthInv, BuffersInv
  <2>9. ThreadInv(d)'
    BY <1>0, <1>4, <2>1 DEF ThreadInv, EarlyStates
  <2> QED
    BY <1>4, <2>2, <2>4, <2>5, <2>6, <2>7, <2>8, <2>9 DEF ConnInv, EarlyStates
<1> QED BY <1>7, <1>8

(* Every descriptor with a finished job is the client's of its connection. *)
LEMMA JobsAreOfClients ==
  ASSUME ProxyInv, NEW f \in jobs
  PROVE  /\ f \in FDs /\ item[f] \in Conns
         /\ State(item[f]) = "REQUEST_RESOLV" /\ f = ClientFd(item[f]) /\ sock[f] = "peer"
<1>1. f \in FDs /\ item[f] \in Conns /\ State(item[f]) = "REQUEST_RESOLV"
  BY DEF ProxyInv, JobsInv, TypeOK
<1>2. IsEnd(item[f], f)
  BY <1>1, ProxyFacts DEF ItemsInv, EarlyStates
<1>3. OriginFd(item[f]) = NoFd
  BY <1>1, ProxyFacts DEF EndsInv, EarlyStates, Live, State
<1> QED BY <1>1, <1>2, <1>3, NoFdIsNoFD, ProxyFacts DEF IsEnd, EndsInv

(* What is left to show of a step for connection c: what becomes of c. *)
LEMMA OneConnectionStep ==
  ASSUME ProxyInv, TypeOK', NEW c \in Conns, NEW E \in SUBSET FDs,
         TouchesOnly(c, E),
         \A d \in Conns \ {c} : KeepsOther(d, E) \/ LosesLeftover(d, E),
         \A f \in E : item'[f] = None => interest'[f] = {},
         \A f \in jobs' : f \in jobs \/ item[f] = c,
         \A f \in jobs' : item[f] = c =>
           item'[f] = c /\ State(c)' = "REQUEST_RESOLV" /\ conn'[c].resolver = NoFd,
         Live(c)' /\ OriginFd(c)' # NoFd =>
           \/ Live(c) /\ OriginFd(c)' = OriginFd(c)
           \/ sock[OriginFd(c)'] = "closed",
         ConnInv(c)'
  PROVE  ProxyInv'
<1>1. \A d \in Conns : ConnInv(d)'
  BY OtherConnectionKept, LeftoverLost
<1>0. /\ TypeOK /\ OriginsInv /\ UnusedInv /\ JobsInv
      /\ \A d \in Conns : EndsInv(d)
  BY DEF ProxyInv, ConnInv
<1>2. \A d \in Conns \ {c} : Live(d)' => Live(d) /\ OriginFd(d)' = OriginFd(d)
  BY FreeConnectionFacts, LeftoverLost DEF KeepsOther, Live, OriginFd
<1>3. OriginsInv'
  <2>1. ASSUME NEW d \in Conns \ {c}, Live(c)', Live(d)', OriginFd(d)' # NoFd
        PROVE  OriginFd(d)' # OriginFd(c)'
    <3>1. Live(d) /\ OriginFd(d)' = OriginFd(d) /\ sock[OriginFd(d)] # "closed"
      BY <1>0, <1>2, <2>1 DEF OriginFd, EndsInv
    <3> QED BY <1>0, <2>1, <3>1 DEF OriginsInv
  <2>2. ASSUME NEW d \in Conns \ {c}, NEW e \in Conns \ {c}, d # e,
               Live(d)', Live(e)', OriginFd(d)' # NoFd
        PROVE  OriginFd(d)' # OriginFd(e)'
    <3>1. /\ Live(d) /\ OriginFd(d)' = OriginFd(d)
          /\ Live(e) /\ OriginFd(e)' = OriginFd(e)
      BY <1>2, <2>2 DEF OriginFd
    <3> QED BY <1>0, <2>2, <3>1 DEF OriginsInv
  <2> QED BY <2>1, <2>2 DEF OriginsInv
<1>4. UnusedInv'
  BY <1>0 DEF UnusedInv, TouchesOnly
<1>5. JobsInv'
  <2>1. ASSUME NEW f \in jobs', item[f] # c
        PROVE  (item[f] # None /\ State(item[f]) = "REQUEST_RESOLV"
               /\ conn[item[f]].resolver = NoFd)'
    <3>1. f \in jobs
      BY <2>1
    <3> DEFINE d == item[f]
    <3>2. f \in FDs /\ d \in Conns \ {c} /\ State(d) = "REQUEST_RESOLV"
      BY <2>1, <3>1, JobsAreOfClients
    <3>0. KeepsOther(d, E)
      BY <3>2, LeftoverLost
    <3>3. item'[f] = d
      BY <3>0, <3>2 DEF TouchesOnly, KeepsOther
    <3>4. conn'[d] = conn[d]
      BY <3>0, <3>2 DEF KeepsOther
    <3>5. conn[d].resolver = NoFd
      BY <1>0, <3>1 DEF JobsInv
    <3> QED BY <3>2, <3>3, <3>4, <3>5, NoneAssumption DEF State
  <2>2. ASSUME NEW f \in jobs', item[f] = c
        PROVE  (item[f] # None /\ State(item[f]) = "REQUEST_RESOLV"
               /\ conn[item[f]].resolver = NoFd)'
    BY <2>2, NoneAssumption DEF State
  <2> QED BY <2>1, <2>2 DEF JobsInv
<1> QED BY <1>1, <1>3, <1>4, <1>5 DEF ProxyInv

(* Only a connection in REQUEST_RESOLV has a job. *)
LEMMA NoJobOf ==
  ASSUME ProxyInv, NEW c \in Conns, State(c) # "REQUEST_RESOLV", NEW f \in jobs
  PROVE  item[f] # c
BY JobsAreOfClients

(* An event is dispatched to one of the two ends of a live connection: an item
   left behind has no interest. *)
LEMMA EventIsOfAnEnd ==
  ASSUME ProxyInv, NEW c \in Conns, NEW f \in FDs, NEW op \in Ops, handle_event(f, op, c)
  PROVE  /\ IsEnd(c, f) /\ Live(c) /\ item[f] = c /\ op \in interest[f]
         /\ f \in FDs
         /\ State(c) \in EarlyStates => f = ClientFd(c) /\ OriginFd(c) = NoFd
         /\ ready' \subseteq FDs \X Ops
<1>1. item[f] = c /\ op \in interest[f] /\ ready' \subseteq ready
  BY DEF handle_event
<1>2. IsEnd(c, f)
  BY <1>1, ProxyFacts DEF ItemsInv
<1> QED BY <1>1, <1>2, ProxyFacts, NoFdIsNoFD DEF IsEnd, EndsInv, TypeOK

(* A step that keeps the items, the ends and the references of a live
   connection c, and changes the interests of its ends only. *)
LEMMA LocalStep ==
  ASSUME ProxyInv, NEW c \in Conns, Live(c),
         NEW r \in Connections, conn' = [conn EXCEPT ![c] = r],
         r.state \notin {"free", "DONE"},
         r.state \in EarlyStates => State(c) \in EarlyStates,
         r.client_fd = ClientFd(c), r.origin_fd = OriginFd(c),
         r.references >= conn[c].references,
         r.origin_fd # NoFd => item[r.origin_fd] = c \/ r.state = "REQUEST_CONNECTING",
         item' = item,
         sock' \in [FDs -> SockStates],
         \A f \in FDs : sock'[f] = sock[f] \/ (f = OriginFd(c) /\ sock'[f] \notin {"closed", "peer"}),
         interest' \in [FDs -> SUBSET Ops],
         \A f \in FDs : interest'[f] = interest[f] \/ (IsEnd(c, f) /\ item[f] = c),
         ready' \subseteq FDs \X Ops, jobs' \subseteq FDs, crashed' \in BOOLEAN,
         \A f \in jobs' : f \in jobs \/ item[f] = c,
         \A f \in jobs' : item[f] = c => r.state = "REQUEST_RESOLV" /\ r.resolver = NoFd,
         PolledInv(c)', DirectionsInv(c)', ThreadInv(c)', AuthInv(c)',
         WellFormed(r.read_buffer), WellFormed(r.write_buffer)
  PROVE  ProxyInv'
<1> DEFINE E == {f \in FDs : IsEnd(c, f)}
<1>0. /\ TypeOK /\ UnusedInv /\ EndsInv(c) /\ ItemsInv(c) /\ ReferencesInv(c)
      /\ conn[c] \in Connections
  BY ProxyFacts
<1>1. conn'[c] = r /\ \A d \in Conns \ {c} : conn'[d] = conn[d]
  BY <1>0 DEF TypeOK
<1>2. TypeOK'
  BY <1>0 DEF TypeOK
<1>3. /\ Live(c)' /\ ClientFd(c)' = ClientFd(c) /\ OriginFd(c)' = OriginFd(c)
      /\ \A f : IsEnd(c, f)' <=> IsEnd(c, f)
      /\ State(c)' = r.state /\ State(c)' # "free"
  BY <1>1 DEF Live, ClientFd, OriginFd, IsEnd, State
<1>4. TouchesOnly(c, E)
  BY <1>0, NoFdIsNoFD DEF TouchesOnly, IsEnd
<1>5. \A d \in Conns \ {c} : KeepsOther(d, E)
  BY <1>1 DEF KeepsOther
<1>6. EndsInv(c)'
  BY <1>0, <1>1, <1>3, NoFdIsNoFD DEF EndsInv, Connections, ClientFd, OriginFd, State
<1>7. ItemsInv(c)'
  BY <1>0, <1>3 DEF ItemsInv, State, Live
<1>8. ReferencesInv(c)'
  BY <1>0, <1>1, <1>3 DEF ReferencesInv, Connections
<1>9. BuffersInv(c)'
  BY <1>1 DEF BuffersInv
<1>10. ConnInv(c)'
  BY <1>6, <1>7, <1>8, <1>9 DEF ConnInv
<1>11. \A f \in E : item'[f] = None => interest'[f] = {}
  BY <1>0, NoneAssumption DEF UnusedInv
<1>12. \A f \in jobs' : item[f] = c =>
         item'[f] = c /\ State(c)' = "REQUEST_RESOLV" /\ conn'[c].resolver = NoFd
  BY <1>1, <1>3
<1> HIDE DEF E
<1>13. E \in SUBSET FDs
  BY DEF E
<1> QED BY <1>2, <1>3, <1>4, <1>5, <1>10, <1>11, <1>12, <1>13, OneConnectionStep

\* What is polled on the client's descriptor before there is an origin.
EarlyInterest(st) ==
  CASE st \in {"HELLO_READ", "USERPASS_READ", "REQUEST_READ"} -> {"READ"}
    [] st \in {"HELLO_WRITE", "USERPASS_WRITE"} -> {"WRITE"}
    [] st = "REQUEST_RESOLV" -> {}

(* A step of the dialogue with the client. *)
LEMMA EarlyStep ==
  ASSUME ProxyInv, NEW c \in Conns, State(c) \in EarlyStates \ {"REQUEST_RESOLV"},
         NEW r \in Connections, conn' = [conn EXCEPT ![c] = r],
         r.state \in EarlyStates,
         r.client_fd = ClientFd(c), r.origin_fd = OriginFd(c),
         r.references = conn[c].references,
         r.resolver # NoFd =>
           r.state = "REQUEST_RESOLV" /\ r.resolver = ClientFd(c) /\ r.parser = "reading",
         sock' = sock, item' = item, jobs' = jobs, crashed' \in BOOLEAN,
         ready' \subseteq FDs \X Ops,
         interest' = [interest EXCEPT ![ClientFd(c)] = EarlyInterest(r.state)],
         r.state = "USERPASS_WRITE" => (r.authentication = 0 => r.accepted),
         r.state \in {"REQUEST_READ", "REQUEST_RESOLV"} => r.method = "no_auth" \/ r.accepted,
         WellFormed(r.read_buffer), WellFormed(r.write_buffer)
  PROVE  ProxyInv'
<1>0. /\ TypeOK /\ EndsInv(c) /\ ThreadInv(c) /\ conn[c] \in Connections
  BY ProxyFacts
<1>1. Live(c)
  BY DEF Live, State, EarlyStates
<1>2. conn'[c] = r
  BY <1>0 DEF TypeOK
<1>3. \A f \in jobs' : f \in jobs /\ item[f] # c
  BY NoJobOf
<1>4. /\ ClientFd(c) \in FDs /\ item[ClientFd(c)] = c /\ IsEnd(c, ClientFd(c))
      /\ OriginFd(c) = NoFd
  BY <1>0, <1>1 DEF EndsInv, IsEnd
<1>5. EarlyInterest(r.state) \subseteq Ops
  BY DEF EarlyInterest, EarlyStates, Ops
<1>6. /\ interest' \in [FDs -> SUBSET Ops] /\ interest'[ClientFd(c)] = EarlyInterest(r.state)
      /\ \A f \in FDs : f # ClientFd(c) => interest'[f] = interest[f]
  BY <1>0, <1>4, <1>5 DEF TypeOK
<1>7. PolledInv(c)'
  BY <1>2, <1>6 DEF PolledInv, EarlyInterest, EarlyStates, State, ClientFd
<1>8. DirectionsInv(c)'
  BY <1>2 DEF DirectionsInv, EarlyStates, State
<1>9. ThreadInv(c)'
  BY <1>2, <1>3, <1>4 DEF ThreadInv, State, ClientFd
<1>10. AuthInv(c)'
  BY <1>2 DEF AuthInv, EarlyStates, State
<1>11. r.state \notin {"free", "DONE"} /\ r.references >= conn[c].references
  BY <1>0 DEF EarlyStates, Connections
<1>12. jobs' \subseteq FDs /\ sock' \in [FDs -> SockStates]
  BY <1>0 DEF TypeOK
<1>13. \A f \in FDs : interest'[f] = interest[f] \/ (IsEnd(c, f) /\ item[f] = c)
  BY <1>4, <1>6
<1>14. /\ r.state \in EarlyStates => State(c) \in EarlyStates
       /\ r.origin_fd # NoFd => item[r.origin_fd] = c \/ r.state = "REQUEST_CONNECTING"
       /\ \A f \in FDs : sock'[f] = sock[f] \/ (f = OriginFd(c) /\ sock'[f] \notin {"closed", "peer"})
       /\ \A f \in jobs' : f \in jobs \/ item[f] = c
       /\ \A f \in jobs' : item[f] = c => r.state = "REQUEST_RESOLV" /\ r.resolver = NoFd
  BY <1>3, <1>4
<1> QED
  BY <1>1, <1>6, <1>7, <1>8, <1>9, <1>10, <1>11, <1>12, <1>13, <1>14, LocalStep

-----------------------------------------------------------------------------
(* DONE: both ends are unregistered and closed; an item left behind stays,
   and with it a reference. *)
LEMMA DoneStep ==
  ASSUME ProxyInv, NEW c \in Conns, Live(c),
         State(c) \notin {"REQUEST_RESOLV", "REQUEST_CONNECTING"},
         socksv5_done(c), ready' \subseteq FDs \X Ops
  PROVE  ProxyInv'
<1> DEFINE cf == conn[c].client_fd
           of == conn[c].origin_fd
           r == [conn[c] EXCEPT !.state = "DONE"]
           n(d) == Held(d, cf) + Held(d, of)
           E == {f \in FDs : f = cf \/ f = of}
<1>0. /\ TypeOK /\ UnusedInv /\ EndsInv(c) /\ ItemsInv(c) /\ ReferencesInv(c) /\ BuffersInv(c)
      /\ ThreadInv(c) /\ conn[c] \in Connections
  BY ProxyFacts
<1>1. /\ r \in Connections /\ r.state = "DONE" /\ r.references = conn[c].references
      /\ r.client_fd = cf /\ r.origin_fd = of /\ r.resolver = conn[c].resolver
      /\ r.read_buffer = conn[c].read_buffer /\ r.write_buffer = conn[c].write_buffer
  <2>1. r \in Connections
    BY <1>0, FieldTypes DEF States
  <2> QED BY <1>0, <2>1 DEF Connections
<1>2. /\ cf \in FDs /\ item[cf] = c /\ cf # of
      /\ of # NoFd => (of \in FDs /\ item[of] = c)
  <2>1. cf \in FDs /\ item[cf] = c /\ sock[cf] = "peer"
    BY <1>0 DEF EndsInv, ClientFd
  <2>2. of \in FDs \cup {NoFd}
    BY <1>0 DEF Connections
  <2>3. of # NoFd => item[of] = c /\ sock[of] # "peer"
    BY <1>0 DEF EndsInv, OriginFd
  <2> QED BY <2>1, <2>2, <2>3, NoFdIsNoFD
<1>3. /\ \A d \in Conns \ {c} : n(d) = 0
      /\ n(c) = IF of = NoFd THEN 1 ELSE 2
  <2>1. ASSUME NEW d \in Conns \ {c} PROVE Held(d, cf) = 0 /\ Held(d, of) = 0
    BY <1>2, NoFdIsNoFD DEF Held
  <2>2. Held(c, cf) = 1 /\ Held(c, of) = IF of = NoFd THEN 0 ELSE 1
    BY <1>2, NoFdIsNoFD DEF Held
  <2> QED BY <2>1, <2>2
<1>4. /\ conn'[c] = Released(r, n(c))
      /\ \A d \in Conns \ {c} : conn'[d] = Released(conn[d], 0)
      /\ conn' = [d \in Conns |-> Released(IF d = c THEN r ELSE conn[d], n(d))]
  BY <1>3 DEF socksv5_done, unregister_and_close
<1>5. /\ \A f \in FDs \ E : sock'[f] = sock[f] /\ item'[f] = item[f] /\ interest'[f] = interest[f]
      /\ \A f \in E : sock'[f] = "closed" /\ item'[f] = None /\ interest'[f] = {}
      /\ sock' \in [FDs -> SockStates] /\ item' \in [FDs -> Conns \cup {None}]
      /\ interest' \in [FDs -> SUBSET Ops]
  BY <1>0 DEF socksv5_done, unregister_and_close, TypeOK, SockStates
<1>6. jobs' = jobs /\ crashed' = crashed
  BY DEF socksv5_done
<1>7. TypeOK'
  <2>1. ASSUME NEW d \in Conns
        PROVE  Released(IF d = c THEN r ELSE conn[d], n(d)) \in Connections
    <3>1. n(d) \in Nat
      BY DEF Held
    <3>2. (IF d = c THEN r ELSE conn[d]) \in Connections
      BY <1>0, <1>1 DEF TypeOK
    <3> HIDE DEF n, r
    <3> QED BY <3>1, <3>2, ReleasedFacts
  <2>2. conn' \in [Conns -> Connections]
    BY <1>4, <2>1
  <2> QED BY <1>0, <1>5, <1>6, <2>2 DEF TypeOK
<1> HIDE DEF r, n
<1>8. TouchesOnly(c, E)
  BY <1>2, <1>5 DEF TouchesOnly, IsEnd, ClientFd, OriginFd
<1>9. \A d \in Conns \ {c} : KeepsOther(d, E)
  <2> TAKE d \in Conns \ {c}
  <2>2. \A f \in E : item[f] = c /\ item'[f] = None
    BY <1>2, <1>5, NoFdIsNoFD
  <2>3. conn'[d] = Released(conn[d], 0)
    BY <1>4
  <2> QED BY <2>2, <2>3, ReleaseNothing, NoneAssumption DEF KeepsOther
<1>10. /\ ~Live(c)' /\ State(c)' \in {"free", "DONE"}
       /\ WellFormed(conn'[c].read_buffer) /\ WellFormed(conn'[c].write_buffer)
       /\ conn'[c].resolver = NoFd
  <2>1. conn[c].resolver = NoFd
    BY <1>0 DEF ThreadInv
  <2>2. n(c) \in Nat
    BY <1>3
  <2>3. CASE r.references <= n(c)
    BY <1>4, <1>1, <2>2, <2>3, ReleasedFacts, FreeConnectionFacts, ResetIsWellFormed
       DEF State, Live
  <2>4. CASE r.references > n(c)
    BY <1>0, <1>1, <1>4, <2>1, <2>2, <2>4, ReleasedFacts DEF State, Live, Connections, BuffersInv
  <2> QED BY <1>1, <2>2, <2>3, <2>4 DEF Connections
<1>11. ASSUME NEW f \in FDs, item'[f] = c
       PROVE  /\ f \in FDs \ E /\ item[f] = c /\ interest[f] = {} /\ of = NoFd
              /\ State(c)' = "DONE" /\ conn'[c].references >= 1
  <2>1. f \in FDs \ E /\ item[f] = c /\ f # cf /\ f # of
    BY <1>5, <1>11, NoneAssumption
  <2>2. ~IsEnd(c, f)
    BY <2>1 DEF IsEnd, ClientFd, OriginFd
  <2>3. of = NoFd /\ interest[f] = {} /\ conn[c].references >= 2
    BY <1>0, <2>1, <2>2 DEF ItemsInv, ReferencesInv, Live, State, ClientFd, OriginFd
  <2>4. r.references > n(c) /\ n(c) = 1
    BY <1>0, <1>1, <1>3, <2>3 DEF Connections
  <2> QED
    BY <1>1, <1>4, <2>1, <2>3, <2>4, ReleasedFacts DEF State, Connections
<1>12. ItemsInv(c)'
  BY <1>5, <1>11 DEF ItemsInv, EarlyStates
<1>13. ReferencesInv(c)'
  <2>1. ASSUME NEW f \in FDs, item'[f] = c, NEW g \in FDs, item'[g] = c PROVE f = g
    BY <1>0, <1>2, <1>11, <2>1 DEF ReferencesInv, ClientFd
  <2> QED BY <1>10, <1>11, <2>1 DEF ReferencesInv
<1>14. ConnInv(c)'
  BY <1>10, <1>12, <1>13 DEF ConnInv, EndsInv, PolledInv, DirectionsInv, ThreadInv, AuthInv,
     BuffersInv, State
<1>15. \A f \in jobs' : f \in jobs /\ item[f] # c
  BY <1>6, NoJobOf
<1> HIDE DEF E
<1>16. E \in SUBSET FDs /\ \A f \in E : item'[f] = None => interest'[f] = {}
  BY <1>5 DEF E
<1> QED BY <1>7, <1>8, <1>9, <1>10, <1>14, <1>15, <1>16, OneConnectionStep
-----------------------------------------------------------------------------
(* The handlers of the dialogue with the client. *)

(* A connection in the dialogue has no origin and polls what its state says. *)
LEMMA EarlyFacts ==
  ASSUME ProxyInv, NEW c \in Conns, State(c) \in EarlyStates
  PROVE  /\ Live(c) /\ ClientFd(c) \in FDs /\ OriginFd(c) = NoFd
         /\ interest = [interest EXCEPT ![ClientFd(c)] = EarlyInterest(State(c))]
         /\ State(c) # "REQUEST_RESOLV" => conn[c].resolver = NoFd
         /\ conn[c] \in Connections
         /\ WellFormed(conn[c].read_buffer) /\ WellFormed(conn[c].write_buffer)
<1>1. Live(c)
  BY DEF Live, State, EarlyStates
<1>2. ClientFd(c) \in FDs /\ OriginFd(c) = NoFd
  BY <1>1, ProxyFacts DEF EndsInv
<1>3. interest[ClientFd(c)] = EarlyInterest(State(c))
  BY ProxyFacts DEF PolledInv, EarlyStates, EarlyInterest
<1>4. interest = [interest EXCEPT ![ClientFd(c)] = EarlyInterest(State(c))]
  BY <1>2, <1>3, ProxyFacts DEF TypeOK
<1> QED BY <1>1, <1>2, <1>4, ProxyFacts DEF ThreadInv, BuffersInv

\* Bytes that the parser took, or bytes that were sent: one buffer changes.
LEMMA BufferStep ==
  ASSUME ProxyInv, NEW c \in Conns, State(c) \in EarlyStates \ {"REQUEST_RESOLV"},
         NEW b, WellFormed(b),
         \/ conn' = [conn EXCEPT ![c].read_buffer = b]
         \/ conn' = [conn EXCEPT ![c].write_buffer = b],
         UNCHANGED <<sock, item, interest, jobs, crashed>>, ready' \subseteq FDs \X Ops
  PROVE  ProxyInv'
<1>0. /\ conn[c] \in Connections /\ AuthInv(c) /\ TypeOK /\ b \in Cursors
  BY ProxyFacts, WellFormedIsCursors
<1>1. PICK r \in Connections :
        /\ conn' = [conn EXCEPT ![c] = r]
        /\ \/ r = [conn[c] EXCEPT !.read_buffer = b]
           \/ r = [conn[c] EXCEPT !.write_buffer = b]
  <2>1. [conn[c] EXCEPT !.read_buffer = b] \in Connections
    BY <1>0, FieldTypes
  <2>2. [conn[c] EXCEPT !.write_buffer = b] \in Connections
    BY <1>0, FieldTypes
  <2> QED BY <2>1, <2>2
<1>2. /\ r.state = State(c) /\ r.client_fd = ClientFd(c) /\ r.origin_fd = OriginFd(c)
      /\ r.references = conn[c].references /\ r.resolver = conn[c].resolver
      /\ r.authentication = conn[c].authentication /\ r.accepted = conn[c].accepted
      /\ r.method = conn[c].method
      /\ r.read_buffer \in {b, conn[c].read_buffer}
      /\ r.write_buffer \in {b, conn[c].write_buffer}
  BY <1>0, <1>1 DEF Connections, State, ClientFd, OriginFd
<1>3. WellFormed(r.read_buffer) /\ WellFormed(r.write_buffer)
  BY <1>2, EarlyFacts
<1>4. /\ r.state = "USERPASS_WRITE" => (r.authentication = 0 => r.accepted)
      /\ r.state \in {"REQUEST_READ", "REQUEST_RESOLV"} => r.method = "no_auth" \/ r.accepted
  BY <1>0, <1>2 DEF AuthInv
<1>5. crashed' \in BOOLEAN
  BY <1>0 DEF TypeOK
<1>6. /\ r.state \in EarlyStates /\ r.resolver = NoFd
      /\ interest' = [interest EXCEPT ![ClientFd(c)] = EarlyInterest(r.state)]
  BY <1>2, EarlyFacts DEF EarlyStates
<1> QED BY <1>1, <1>2, <1>3, <1>4, <1>5, <1>6, EarlyStep

(* hello_read: one step of the greeting keeps the invariant. *)
LEMMA HelloRead ==
  ASSUME ProxyInv, NEW c \in Conns, NEW f \in FDs, hello_read(f, c)
  PROVE  ProxyInv'
<1> DEFINE r == conn[c]
<1>1. handle_read(f, c) /\ State(c) = "HELLO_READ"
  BY DEF hello_read, State
<1>2. State(c) \in EarlyStates \ {"REQUEST_RESOLV"}
  BY <1>1 DEF EarlyStates
<1>3. /\ Live(c) /\ f = ClientFd(c) /\ ready' \subseteq FDs \X Ops
  BY <1>1, <1>2, EventIsOfAnEnd DEF handle_read, Ops
<1>4. CASE socksv5_done(c)
  BY <1>1, <1>3, <1>4, DoneStep
<1>5. CASE /\ conn' = [conn EXCEPT ![c].read_buffer = Drained]
           /\ UNCHANGED <<sock, item, interest, jobs, crashed>>
  BY <1>2, <1>3, <1>5, ResetIsWellFormed, BufferStep DEF Drained
<1>6. ASSUME NEW b \in AfterMessage(r.read_buffer), NEW m \in Methods,
             conn' = [conn EXCEPT ![c] =
                        [r EXCEPT !.state = "HELLO_WRITE", !.method = m, !.read_buffer = b,
                                  !.write_buffer = WithReply(@)]],
             interest' = [interest EXCEPT ![f] = {"WRITE"}],
             UNCHANGED <<sock, item, jobs, crashed>>
      PROVE  ProxyInv'
  <2> DEFINE s == [r EXCEPT !.state = "HELLO_WRITE", !.method = m, !.read_buffer = b,
                            !.write_buffer = WithReply(r.write_buffer)]
  <2>1. /\ r \in Connections /\ WellFormed(b) /\ WellFormed(WithReply(r.write_buffer))
        /\ r.resolver = NoFd /\ m \in MethodKinds
    BY <1>2, EarlyFacts, AfterMessageIsWellFormed, WithReplyIsWellFormed, Socks5Assumption
  <2>2. s \in Connections
    <3>1. /\ "HELLO_WRITE" \in States /\ m \in MethodKinds
          /\ b \in Cursors /\ WithReply(r.write_buffer) \in Cursors
      BY <2>1, WellFormedIsCursors DEF States
    <3> QED BY <2>1, <3>1, FieldTypes
  <2>3. /\ s.state = "HELLO_WRITE" /\ s.client_fd = ClientFd(c) /\ s.origin_fd = OriginFd(c)
        /\ s.references = r.references /\ s.resolver = NoFd
        /\ s.read_buffer = b /\ s.write_buffer = WithReply(r.write_buffer)
    BY <2>1 DEF Connections, ClientFd, OriginFd
  <2>4. conn' = [conn EXCEPT ![c] = s]
    BY <1>6
  <2> HIDE DEF s
  <2>5. interest' = [interest EXCEPT ![ClientFd(c)] = EarlyInterest(s.state)]
    BY <1>3, <1>6, <2>3 DEF EarlyInterest
  <2>6. s.state \in EarlyStates /\ crashed' \in BOOLEAN
    BY <1>6, <2>3, ProxyFacts DEF EarlyStates, TypeOK
  <2>7. WellFormed(s.read_buffer) /\ WellFormed(s.write_buffer)
    BY <2>1, <2>3
  <2> HIDE DEF r
  <2> QED
    BY <1>2, <1>3, <1>6, <2>2, <2>3, <2>4, <2>5, <2>6, <2>7, EarlyStep DEF r
<1> QED BY <1>4, <1>5, <1>6 DEF hello_read

(* hello_write: the method decides between USERPASS_READ and REQUEST_READ. *)
LEMMA HelloWrite ==
  ASSUME ProxyInv, NEW c \in Conns, NEW f \in FDs, hello_write(f, c)
  PROVE  ProxyInv'
<1> DEFINE r == conn[c]
<1>1. handle_write(f, c) /\ State(c) = "HELLO_WRITE"
  BY DEF hello_write, State
<1>2. State(c) \in EarlyStates \ {"REQUEST_RESOLV"}
  BY <1>1 DEF EarlyStates
<1>3. /\ Live(c) /\ f = ClientFd(c) /\ ready' \subseteq FDs \X Ops
  BY <1>1, <1>2, EventIsOfAnEnd DEF handle_write, Ops
<1>4. CASE socksv5_done(c)
  BY <1>1, <1>3, <1>4, DoneStep
<1>5. ASSUME NEW b \in AfterSend(r.write_buffer),
             conn' = [conn EXCEPT ![c].write_buffer = b],
             UNCHANGED <<sock, item, interest, jobs, crashed>>
      PROVE  ProxyInv'
  BY <1>2, <1>3, <1>5, EarlyFacts, AfterSendIsWellFormed, BufferStep
<1>6. ASSUME NEW b \in AfterSend(r.write_buffer), r.method # "none",
             conn' = [conn EXCEPT ![c] = AfterHello([r EXCEPT !.write_buffer = b])],
             interest' = [interest EXCEPT ![f] = {"READ"}],
             UNCHANGED <<sock, item, jobs, crashed>>
      PROVE  ProxyInv'
  <2> DEFINE w == [r EXCEPT !.write_buffer = b]
             s == AfterHello(w)
  <2>1. /\ r \in Connections /\ WellFormed(b) /\ b \in Cursors
        /\ r.resolver = NoFd /\ WellFormed(r.read_buffer)
    BY <1>2, EarlyFacts, AfterSendIsWellFormed, WellFormedIsCursors
  <2>2. /\ w \in Connections /\ w.write_buffer = b /\ w.method = r.method
        /\ w.client_fd = r.client_fd /\ w.origin_fd = r.origin_fd
        /\ w.references = r.references /\ w.resolver = r.resolver
        /\ w.read_buffer = r.read_buffer
    <3>1. w \in Connections
      BY <2>1, FieldTypes
    <3> QED BY <2>1, <3>1 DEF Connections
  <2> HIDE DEF w
  <2>3. /\ s \in Connections
        /\ \/ s = [w EXCEPT !.state = "REQUEST_READ", !.parser = "reading"] /\ w.method = "no_auth"
           \/ s = [w EXCEPT !.state = "USERPASS_READ"]
    BY <2>2, FieldTypes DEF AfterHello, States
  <2> HIDE DEF s
  <2>4. /\ s.client_fd = ClientFd(c) /\ s.origin_fd = OriginFd(c)
        /\ s.references = r.references /\ s.resolver = NoFd
        /\ s.read_buffer = r.read_buffer /\ s.write_buffer = b /\ s.method = r.method
        /\ s.state \in {"REQUEST_READ", "USERPASS_READ"}
        /\ s.state = "REQUEST_READ" => s.method = "no_auth"
    <3>1. CASE s = [w EXCEPT !.state = "REQUEST_READ", !.parser = "reading"] /\ w.method = "no_auth"
      BY <2>1, <2>2, <3>1 DEF Connections, ClientFd, OriginFd
    <3>2. CASE s = [w EXCEPT !.state = "USERPASS_READ"]
      BY <2>1, <2>2, <3>2 DEF Connections, ClientFd, OriginFd
    <3> QED BY <2>3, <3>1, <3>2
  <2>5. conn' = [conn EXCEPT ![c] = s]
    BY <1>6 DEF s, w
  <2>6. interest' = [interest EXCEPT ![ClientFd(c)] = EarlyInterest(s.state)]
    BY <1>3, <1>6, <2>4 DEF EarlyInterest
  <2>7. s.state \in EarlyStates /\ crashed' \in BOOLEAN
    BY <1>6, <2>4, ProxyFacts DEF EarlyStates, TypeOK
  <2> QED
    BY <1>2, <1>3, <1>6, <2>1, <2>3, <2>4, <2>5, <2>6, <2>7, EarlyStep
<1> QED BY <1>4, <1>5, <1>6 DEF hello_write

(* The invariant does not speak of the events still to be served. *)
LEMMA OnlyReadyChanges ==
  ASSUME ProxyInv, UNCHANGED <<sock, item, interest, conn, jobs>>,
         ready' \subseteq FDs \X Ops, crashed' \in BOOLEAN
  PROVE  ProxyInv'
<1>1. TypeOK'
  BY DEF ProxyInv, TypeOK
<1>2. ASSUME NEW c \in Conns PROVE ConnInv(c)'
  <2>1. ConnInv(c)
    BY DEF ProxyInv
  <2>2. EndsInv(c)' /\ ItemsInv(c)'
    BY <2>1 DEF ConnInv, EndsInv, ItemsInv, Live, IsEnd, State, ClientFd, OriginFd
  <2>3. ReferencesInv(c)'
    BY <2>1 DEF ConnInv, ReferencesInv, Live, IsEnd, Attempting, GaveUp, State, ClientFd, OriginFd
  <2>4. PolledInv(c)'
    BY <2>1 DEF ConnInv, PolledInv, Live, IsEnd, Attempting, GaveUp, State, ClientFd, OriginFd
  <2>5. DirectionsInv(c)'
    BY <2>1 DEF ConnInv, DirectionsInv, Live, State, ClientFd, OriginFd
  <2>6. ThreadInv(c)' /\ AuthInv(c)' /\ BuffersInv(c)'
    BY <2>1 DEF ConnInv, ThreadInv, AuthInv, BuffersInv, Live, State, ClientFd, OriginFd
  <2> QED BY <2>2, <2>3, <2>4, <2>5, <2>6 DEF ConnInv
<1>3. OriginsInv' /\ UnusedInv' /\ JobsInv'
  BY DEF ProxyInv, OriginsInv, UnusedInv, JobsInv, Live, State, OriginFd
<1> QED BY <1>1, <1>2, <1>3 DEF ProxyInv

(* auth_read: the verdict is stored before it is sent. *)
LEMMA AuthRead ==
  ASSUME ProxyInv, NEW c \in Conns, NEW f \in FDs, auth_read(f, c)
  PROVE  ProxyInv'
<1> DEFINE r == conn[c]
<1>1. handle_read(f, c) /\ State(c) = "USERPASS_READ"
  BY DEF auth_read, State
<1>2. State(c) \in EarlyStates \ {"REQUEST_RESOLV"}
  BY <1>1 DEF EarlyStates
<1>3. /\ Live(c) /\ f = ClientFd(c) /\ ready' \subseteq FDs \X Ops
  BY <1>1, <1>2, EventIsOfAnEnd DEF handle_read, Ops
<1>4. CASE socksv5_done(c)
  BY <1>1, <1>3, <1>4, DoneStep
<1>5. CASE /\ conn' = [conn EXCEPT ![c].read_buffer = Drained]
           /\ UNCHANGED <<sock, item, interest, jobs, crashed>>
  BY <1>2, <1>3, <1>5, ResetIsWellFormed, BufferStep DEF Drained
<1>6. CASE crashed' = TRUE /\ UNCHANGED <<sock, item, interest, conn, jobs>>
  BY <1>3, <1>6, OnlyReadyChanges
<1>7. ASSUME NEW b \in AfterMessage(r.read_buffer), NEW a \in {0, 1},
             conn' = [conn EXCEPT ![c] =
                        [r EXCEPT !.state = "USERPASS_WRITE", !.authentication = a,
                                  !.accepted = (a = 0), !.read_buffer = b]],
             interest' = [interest EXCEPT ![f] = {"WRITE"}],
             UNCHANGED <<sock, item, jobs, crashed>>
      PROVE  ProxyInv'
  <2> DEFINE s == [r EXCEPT !.state = "USERPASS_WRITE", !.authentication = a,
                            !.accepted = (a = 0), !.read_buffer = b]
  <2>1. /\ r \in Connections /\ WellFormed(b) /\ b \in Cursors
        /\ r.resolver = NoFd /\ WellFormed(r.write_buffer)
    BY <1>2, EarlyFacts, AfterMessageIsWellFormed, WellFormedIsCursors
  <2>2. s \in Connections
    <3>1. "USERPASS_WRITE" \in States /\ (a = 0) \in BOOLEAN
      BY DEF States
    <3> QED BY <2>1, <3>1, FieldTypes
  <2>3. /\ s.state = "USERPASS_WRITE" /\ s.client_fd = ClientFd(c) /\ s.origin_fd = OriginFd(c)
        /\ s.references = r.references /\ s.resolver = NoFd
        /\ s.authentication = a /\ s.accepted = (a = 0)
        /\ s.read_buffer = b /\ s.write_buffer = r.write_buffer
    BY <2>1 DEF Connections, ClientFd, OriginFd
  <2>4. conn' = [conn EXCEPT ![c] = s]
    BY <1>7
  <2> HIDE DEF s
  <2>5. interest' = [interest EXCEPT ![ClientFd(c)] = EarlyInterest(s.state)]
    BY <1>3, <1>7, <2>3 DEF EarlyInterest
  <2>6. /\ s.state \in EarlyStates /\ crashed' \in BOOLEAN
        /\ s.authentication = 0 => s.accepted
    BY <1>7, <2>3, ProxyFacts DEF EarlyStates, TypeOK
  <2>7. WellFormed(s.read_buffer) /\ WellFormed(s.write_buffer)
    BY <2>1, <2>3
  <2> HIDE DEF r
  <2> QED
    BY <1>2, <1>3, <1>7, <2>2, <2>3, <2>4, <2>5, <2>6, <2>7, EarlyStep DEF r
<1> QED BY <1>4, <1>5, <1>6, <1>7 DEF auth_read

(* auth_write: REQUEST_READ only after a good verdict. *)
LEMMA AuthWrite ==
  ASSUME ProxyInv, NEW c \in Conns, NEW f \in FDs, auth_write(f, c)
  PROVE  ProxyInv'
<1> DEFINE r == conn[c]
           reply == WithReply(r.write_buffer)
<1>1. handle_write(f, c) /\ State(c) = "USERPASS_WRITE"
  BY DEF auth_write, State
<1>2. State(c) \in EarlyStates \ {"REQUEST_RESOLV"}
  BY <1>1 DEF EarlyStates
<1>3. /\ Live(c) /\ f = ClientFd(c) /\ ready' \subseteq FDs \X Ops
  BY <1>1, <1>2, EventIsOfAnEnd DEF handle_write, Ops
<1>4. CASE socksv5_done(c)
  BY <1>1, <1>3, <1>4, DoneStep
<1>5. WellFormed(reply) /\ \A b \in AfterSend(reply) : WellFormed(b)
  <2>1. WellFormed(reply)
    BY <1>2, EarlyFacts, WithReplyIsWellFormed
  <2> HIDE DEF reply
  <2> QED BY <2>1, AfterSendIsWellFormed
<1> HIDE DEF reply
<1>6. ASSUME NEW b \in AfterSend(reply),
             conn' = [conn EXCEPT ![c].write_buffer = b],
             UNCHANGED <<sock, item, interest, jobs, crashed>>
      PROVE  ProxyInv'
  BY <1>2, <1>3, <1>5, <1>6, BufferStep
<1>7. ASSUME NEW b \in AfterSend(reply), r.authentication = 0,
             conn' = [conn EXCEPT ![c] =
                        [r EXCEPT !.state = "REQUEST_READ", !.parser = "reading",
                                  !.write_buffer = b]],
             interest' = [interest EXCEPT ![f] = {"READ"}],
             UNCHANGED <<sock, item, jobs, crashed>>
      PROVE  ProxyInv'
  <2> DEFINE s == [r EXCEPT !.state = "REQUEST_READ", !.parser = "reading", !.write_buffer = b]
  <2>1. /\ r \in Connections /\ WellFormed(b) /\ b \in Cursors /\ r.accepted
        /\ r.resolver = NoFd /\ WellFormed(r.read_buffer)
    BY <1>1, <1>2, <1>5, <1>7, EarlyFacts, ProxyFacts, WellFormedIsCursors DEF AuthInv
  <2>2. s \in Connections
    <3>1. "REQUEST_READ" \in States
      BY DEF States
    <3> QED BY <2>1, <3>1, FieldTypes
  <2>3. /\ s.state = "REQUEST_READ" /\ s.client_fd = ClientFd(c) /\ s.origin_fd = OriginFd(c)
        /\ s.references = r.references /\ s.resolver = NoFd /\ s.accepted
        /\ s.read_buffer = r.read_buffer /\ s.write_buffer = b
    BY <2>1 DEF Connections, ClientFd, OriginFd
  <2>4. conn' = [conn EXCEPT ![c] = s]
    BY <1>7
  <2> HIDE DEF s
  <2>5. interest' = [interest EXCEPT ![ClientFd(c)] = EarlyInterest(s.state)]
    BY <1>3, <1>7, <2>3 DEF EarlyInterest
  <2>6. s.state \in EarlyStates /\ crashed' \in BOOLEAN
    BY <1>7, <2>3, ProxyFacts DEF EarlyStates, TypeOK
  <2>7. WellFormed(s.read_buffer) /\ WellFormed(s.write_buffer)
    BY <2>1, <2>3
  <2> HIDE DEF r
  <2> QED
    BY <1>2, <1>3, <1>7, <2>2, <2>3, <2>4, <2>5, <2>6, <2>7, EarlyStep DEF r
<1>8. r.authentication \in {0, 1}
  BY ProxyFacts DEF Connections
<1> QED BY <1>4, <1>6, <1>7, <1>8 DEF auth_write, reply
-----------------------------------------------------------------------------
(* connection(): an attempt to connect the origin's socket. *)

(* selector_set_interest changes one used item, and no other. *)
LEMMA SetInterestFacts ==
  ASSUME NEW table \in [FDs -> SUBSET Ops], NEW f \in FDs \cup {NoFd}, NEW ops \in SUBSET Ops
  PROVE  /\ set_interest(table, f, ops) \in [FDs -> SUBSET Ops]
         /\ \A g \in FDs :
              set_interest(table, f, ops)[g] =
                IF g = f /\ item[g] # None THEN ops ELSE table[g]
BY NoFdIsNoFD DEF set_interest

(* error_handler_to_client leaves the client writing and the origin waiting. *)
LEMMA InterestToClientFacts ==
  ASSUME NEW table \in [FDs -> SUBSET Ops], NEW r \in Connections,
         r.client_fd \in FDs, item[r.client_fd] # None, r.origin_fd # r.client_fd
  PROVE  LET result == InterestToClient(table, r) IN
         /\ result \in [FDs -> SUBSET Ops]
         /\ result[r.client_fd] = {"WRITE"}
         /\ \A g \in FDs : g # r.client_fd =>
              result[g] = IF g = r.origin_fd /\ item[g] # None THEN {} ELSE table[g]
<1> DEFINE t1 == set_interest(table, r.client_fd, {"WRITE"})
<1>1. r.origin_fd \in FDs \cup {NoFd} /\ {"WRITE"} \in SUBSET Ops /\ {} \in SUBSET Ops
  BY DEF Connections, Ops
<1>2. /\ t1 \in [FDs -> SUBSET Ops]
      /\ \A g \in FDs : t1[g] = IF g = r.client_fd /\ item[g] # None
                                   THEN {"WRITE"} ELSE table[g]
  BY <1>1, SetInterestFacts
<1> HIDE DEF t1
<1>3. /\ set_interest(t1, r.origin_fd, {}) \in [FDs -> SUBSET Ops]
      /\ \A g \in FDs :
           set_interest(t1, r.origin_fd, {})[g] =
             IF g = r.origin_fd /\ item[g] # None THEN {} ELSE t1[g]
  BY <1>1, <1>2, SetInterestFacts
<1>4. InterestToClient(table, r) = set_interest(t1, r.origin_fd, {})
  BY DEF InterestToClient, t1
<1> QED BY <1>2, <1>3, <1>4

\* What an attempt for connection c with origin socket o comes to: it failed,
\* or it began.
AttemptFailed(c, o, m) ==
  /\ m.status = "failed" /\ buffer_can_read(m.write_buffer)
  /\ m.references >= conn[c].references
  /\ item' = item
  /\ interest'[m.client_fd] = {"WRITE"} /\ (o # NoFd => interest'[o] = {})
  /\ m.origin_fd # NoFd => m.origin_fd = o /\ sock'[o] \notin {"closed", "peer"}

AttemptBegan(c, o, m) ==
  /\ m.origin_fd = o /\ o # NoFd
  /\ m.references = conn[c].references + 1
  /\ item[o] = None /\ item' = [item EXCEPT ![o] = c]
  /\ interest'[m.client_fd] = {} /\ interest'[o] = {"WRITE"}
  /\ sock'[o] = "connecting"

\* The socket o that connection() is called for is a new one, the one that c
\* has, or none; s is its state.
OriginOf(c, o, s) ==
  \/ /\ State(c) \in EarlyStates
     /\ \/ o \in FDs /\ sock[o] = "closed" /\ s = "fresh"
        \/ o = NoFd /\ s = "none"
  \/ /\ State(c) = "REQUEST_CONNECTING" /\ o = OriginFd(c)
     /\ s = IF o = NoFd THEN "none" ELSE sock[o]

(* The socket of an attempt is not the client's nor an end of another
   connection, whatever item its number has. *)
LEMMA OriginFacts ==
  ASSUME ProxyInv, NEW c \in Conns, Live(c), NEW o \in FDs \cup {NoFd}, NEW s, OriginOf(c, o, s)
  PROVE  /\ ClientFd(c) \in FDs /\ item[ClientFd(c)] = c /\ o # ClientFd(c)
         /\ o # NoFd => o \in FDs /\ sock[o] # "peer"
         /\ o # NoFd /\ item[o] # c =>
              interest[o] = {} /\ \A d \in Conns \ {c} : ~IsEnd(d, o)
         /\ \A g \in FDs : item[g] = c /\ g # ClientFd(c) /\ g # o =>
              interest[g] = {} /\ o = NoFd
         /\ conn[c].references >= 1
<1>0. /\ EndsInv(c) /\ ItemsInv(c) /\ ReferencesInv(c) /\ UnusedInv /\ TypeOK
  BY ProxyFacts
<1>1. ClientFd(c) \in FDs /\ item[ClientFd(c)] = c /\ sock[ClientFd(c)] = "peer"
  BY <1>0 DEF EndsInv
<1>2. State(c) \in EarlyStates => OriginFd(c) = NoFd
  BY <1>0 DEF EndsInv
<1>3. o # NoFd => o \in FDs /\ sock[o] # "peer"
  BY <1>0, <1>2 DEF EndsInv, OriginOf
<1>4. ASSUME o # NoFd, item[o] # c
      PROVE  interest[o] = {} /\ \A d \in Conns \ {c} : ~IsEnd(d, o)
  <2>1. o \in FDs /\ (sock[o] = "closed" \/ IsEnd(c, o))
    BY <1>3, <1>4 DEF OriginOf, IsEnd
  <2>2. \A d \in Conns \ {c} : ~IsEnd(d, o)
    BY <2>1, EndsAreDisjoint, EndsAreOpen
  <2>3. CASE item[o] = None
    BY <1>0, <2>1, <2>2, <2>3 DEF UnusedInv
  <2>4. CASE item[o] # None
    <3>1. item[o] \in Conns
      BY <1>0, <2>1, <2>4 DEF TypeOK
    <3>2. ItemsInv(item[o])
      BY <3>1, ProxyFacts
    <3> QED BY <1>4, <2>1, <2>2, <3>1, <3>2 DEF ItemsInv
  <2> QED BY <2>2, <2>3, <2>4
<1>5. ASSUME NEW g \in FDs, item[g] = c, g # ClientFd(c), g # o
      PROVE  interest[g] = {} /\ o = NoFd
  <2>1. CASE IsEnd(c, g)
    BY <1>2, <1>5, <2>1, NoFdIsNoFD DEF IsEnd, OriginOf
  <2>2. CASE ~IsEnd(c, g)
    <3>1. interest[g] = {} /\ State(c) \notin EarlyStates /\ OriginFd(c) = NoFd
      BY <1>0, <1>5, <2>2 DEF ItemsInv, Live, State
    <3> QED BY <3>1 DEF OriginOf
  <2> QED BY <2>1, <2>2
<1>6. conn[c].references >= 1
  BY <1>0, <1>1 DEF ReferencesInv
<1>7. o # ClientFd(c)
  BY <1>1, <1>3, NoFdIsNoFD
<1> QED BY <1>1, <1>3, <1>4, <1>5, <1>6, <1>7

\* The step: c goes on as m, its socket was o.
Attempted(c, o, m) ==
  /\ conn' = [conn EXCEPT ![c] = m]
  /\ m.state = "REQUEST_CONNECTING" /\ m.client_fd = ClientFd(c) /\ m.resolver = NoFd
  /\ m.method = "no_auth" \/ m.accepted
  /\ WellFormed(m.read_buffer) /\ WellFormed(m.write_buffer)
  /\ AttemptFailed(c, o, m) \/ AttemptBegan(c, o, m)
  /\ sock' \in [FDs -> SockStates] /\ interest' \in [FDs -> SUBSET Ops]
  /\ \A g \in FDs : g # o => sock'[g] = sock[g]
  /\ \A g \in FDs : g # o /\ g # ClientFd(c) => interest'[g] = interest[g]

(* Whatever connection() came to, the invariant holds afterwards. *)
LEMMA AttemptStep ==
  ASSUME ProxyInv, NEW c \in Conns, Live(c),
         NEW o \in FDs \cup {NoFd}, NEW s, OriginOf(c, o, s),
         NEW m \in Connections, Attempted(c, o, m),
         ready' \subseteq FDs \X Ops, crashed' \in BOOLEAN,
         jobs' \subseteq jobs, \A f \in jobs' : item[f] # c
  PROVE  ProxyInv'
<1> USE DEF Attempted
<1> DEFINE cf == ClientFd(c)
           E == {g \in FDs : g = cf \/ g = o}
<1>0. /\ EndsInv(c) /\ ItemsInv(c) /\ ReferencesInv(c) /\ TypeOK /\ conn[c] \in Connections
      /\ conn[c].references \in Nat
  BY ProxyFacts DEF Connections
<1>1. /\ cf \in FDs /\ item[cf] = c /\ o # cf /\ sock[cf] = "peer"
      /\ o # NoFd => o \in FDs
      /\ o # NoFd /\ item[o] # c =>
           interest[o] = {} /\ \A d \in Conns \ {c} : ~IsEnd(d, o)
      /\ \A g \in FDs : item[g] = c /\ g # cf /\ g # o => interest[g] = {} /\ o = NoFd
      /\ conn[c].references >= 1
  BY <1>0, OriginFacts DEF EndsInv
<1>2. conn'[c] = m /\ \A d \in Conns \ {c} : conn'[d] = conn[d]
  BY <1>0 DEF TypeOK
<1>3. /\ Live(c)' /\ State(c)' = "REQUEST_CONNECTING" /\ ClientFd(c)' = cf
      /\ OriginFd(c)' = m.origin_fd
  BY <1>2 DEF Live, State, ClientFd, OriginFd
<1>4. item' \in [FDs -> Conns \cup {None}]
  BY <1>0, <1>1 DEF TypeOK, AttemptFailed, AttemptBegan
<1>5. TypeOK'
  BY <1>0, <1>4 DEF TypeOK
<1>6. TouchesOnly(c, E)
  <2>1. \A g \in E : IsEnd(c, g) \/ sock[g] = "closed"
    BY <1>1, NoFdIsNoFD DEF IsEnd, OriginOf
  <2>2. \A g \in FDs \ E : item'[g] = item[g]
    BY <1>0, <1>1 DEF TypeOK, AttemptFailed, AttemptBegan
  <2> QED BY <2>1, <2>2 DEF TouchesOnly
<1>7. \A d \in Conns \ {c} : KeepsOther(d, E)
  <2> TAKE d \in Conns \ {c}
  <2>1. ASSUME NEW g \in E
        PROVE  /\ item[g] = d <=> item'[g] = d
               /\ item[g] = d => interest'[g] = interest[g]
    <3>1. CASE g = cf
      <4>1. item'[g] = c
        BY <1>0, <1>1, <3>1 DEF TypeOK, AttemptFailed, AttemptBegan
      <4> QED BY <1>1, <3>1, <4>1
    <3>2. CASE g # cf
      <4>1. g = o /\ o # NoFd /\ o \in FDs
        BY <3>2, NoFdIsNoFD
      <4>2. CASE AttemptFailed(c, o, m)
        BY <1>1, <4>1, <4>2 DEF AttemptFailed
      <4>3. CASE AttemptBegan(c, o, m)
        BY <1>0, <4>1, <4>3, NoneAssumption DEF AttemptBegan, TypeOK
      <4> QED BY <4>2, <4>3
    <3> QED BY <3>1, <3>2
  <2> QED BY <1>2, <2>1 DEF KeepsOther
<1>8. EndsInv(c)'
  BY <1>0, <1>1, <1>2, <1>3 DEF EndsInv, OriginFd, EarlyStates, AttemptFailed, AttemptBegan, TypeOK
<1>9. ItemsInv(c)'
  <2> SUFFICES ASSUME NEW g \in FDs, item'[g] = c, ~IsEnd(c, g)'
               PROVE  interest'[g] = {} /\ m.origin_fd = NoFd
    BY <1>3 DEF ItemsInv, EarlyStates
  <2>1. g # cf /\ g # m.origin_fd
    BY <1>3 DEF IsEnd
  <2>2. CASE AttemptFailed(c, o, m)
    BY <1>1, <2>1, <2>2, NoFdIsNoFD DEF AttemptFailed
  <2>3. CASE AttemptBegan(c, o, m)
    BY <1>0, <1>1, <2>1, <2>3 DEF AttemptBegan, TypeOK
  <2> QED BY <2>2, <2>3
<1>10. ReferencesInv(c)'
  <2>1. CASE AttemptFailed(c, o, m)
    BY <1>0, <1>1, <1>2, <1>3, <2>1 DEF ReferencesInv, AttemptFailed, Connections
  <2>2. CASE AttemptBegan(c, o, m)
    <3>1. \A g \in FDs : item'[g] = c => g \in {cf, o}
      BY <1>0, <1>1, <2>2 DEF AttemptBegan, TypeOK
    <3>2. m.references >= 2
      BY <1>0, <1>1, <2>2 DEF AttemptBegan
    <3> QED BY <1>2, <1>3, <3>1, <3>2 DEF ReferencesInv, Connections
  <2> QED BY <2>1, <2>2
<1>11. PolledInv(c)'
  <2>1. CASE AttemptFailed(c, o, m)
    <3>1. GaveUp(c)'
      BY <1>2, <1>3, <2>1 DEF GaveUp, AttemptFailed
    <3> QED BY <1>3, <3>1 DEF PolledInv
  <2>2. CASE AttemptBegan(c, o, m)
    <3>1. Attempting(c)'
      BY <1>0, <1>1, <1>3, <2>2 DEF Attempting, AttemptBegan, TypeOK
    <3> QED BY <1>3, <3>1 DEF PolledInv
  <2> QED BY <2>1, <2>2
<1>12. ConnInv(c)'
  BY <1>2, <1>3, <1>8, <1>9, <1>10, <1>11
     DEF ConnInv, DirectionsInv, ThreadInv, AuthInv, BuffersInv
<1>13. \A g \in E : item'[g] = None => interest'[g] = {}
  <2>1. item'[cf] = c
    BY <1>0, <1>1 DEF TypeOK, AttemptFailed, AttemptBegan
  <2>2. o # NoFd => (item'[o] = None => interest'[o] = {})
    BY <1>0, <1>1, NoneAssumption DEF TypeOK, AttemptFailed, AttemptBegan
  <2> QED BY <2>1, <2>2, NoneAssumption, NoFdIsNoFD
<1>14. OriginFd(c)' # NoFd => (Live(c) /\ OriginFd(c)' = OriginFd(c)) \/ sock[OriginFd(c)'] = "closed"
  BY <1>3 DEF OriginOf, AttemptFailed, AttemptBegan
<1> HIDE DEF E
<1>15. E \in SUBSET FDs
  BY DEF E
<1> QED BY <1>5, <1>6, <1>7, <1>12, <1>13, <1>14, <1>15, OneConnectionStep

(* connection() comes to one of the two, in each of its four outcomes. *)
LEMMA ConnectionStep ==
  ASSUME ProxyInv, NEW c \in Conns, Live(c),
         NEW r \in Connections, NEW s, OriginOf(c, r.origin_fd, s),
         NEW k \in FDs, IsEnd(c, k), item[k] = c,
         r.state = "REQUEST_CONNECTING", r.client_fd = ClientFd(c), r.resolver = NoFd,
         r.references = conn[c].references, r.method = "no_auth" \/ r.accepted,
         WellFormed(r.read_buffer), WellFormed(r.write_buffer),
         connection(c, r, k, s),
         ready' \subseteq FDs \X Ops, crashed' \in BOOLEAN,
         jobs' \subseteq jobs, \A f \in jobs' : item[f] # c
  PROVE  ProxyInv'
<1> DEFINE o == r.origin_fd
           failed == [r EXCEPT !.status = "failed"]
           failedAgain == [AddReference(r) EXCEPT !.status = "failed"]
<1>0. /\ TypeOK /\ conn[c] \in Connections /\ o \in FDs \cup {NoFd}
      /\ r.references \in Nat /\ EndsInv(c)
  BY ProxyFacts DEF Connections
<1>9. OriginOf(c, o, s)
  OBVIOUS
<1>1. /\ ClientFd(c) \in FDs /\ item[ClientFd(c)] = c /\ o # ClientFd(c)
      /\ o # NoFd => o \in FDs /\ sock[o] # "peer"
      /\ o # NoFd /\ item[o] # c =>
           interest[o] = {} /\ \A d \in Conns \ {c} : ~IsEnd(d, o)
  BY <1>0, OriginFacts
<1>2. /\ failed \in Connections /\ failed.status = "failed" /\ failed.state = r.state
      /\ failed.client_fd = ClientFd(c) /\ failed.origin_fd = o /\ failed.resolver = NoFd
      /\ failed.references = r.references /\ failed.method = r.method
      /\ failed.accepted = r.accepted /\ failed.read_buffer = r.read_buffer
      /\ failed.write_buffer = r.write_buffer
  <2>1. failed \in Connections
    BY FieldTypes
  <2> QED BY <2>1 DEF Connections
<1>3. /\ failedAgain \in Connections /\ failedAgain.status = "failed"
      /\ failedAgain.state = r.state
      /\ failedAgain.client_fd = ClientFd(c) /\ failedAgain.origin_fd = o /\ failedAgain.resolver = NoFd
      /\ failedAgain.references = r.references + 1 /\ failedAgain.method = r.method
      /\ failedAgain.accepted = r.accepted /\ failedAgain.read_buffer = r.read_buffer
      /\ failedAgain.write_buffer = r.write_buffer
  <2>1. failedAgain = [r EXCEPT !.references = r.references + 1, !.status = "failed"]
    BY DEF AddReference
  <2>2. r.references + 1 \in Nat
    BY <1>0
  <2>3. [r EXCEPT !.references = r.references + 1, !.status = "failed"] \in Connections
    BY <2>2, FieldTypes
  <2> QED BY <2>1, <2>3 DEF Connections
<1> HIDE DEF failed, failedAgain
\* The interests that error_handler_to_client leaves.
<1>4. ASSUME NEW table \in [FDs -> SUBSET Ops],
             \A g \in FDs : g # ClientFd(c) /\ g # o => table[g] = interest[g],
             o # NoFd /\ item[o] = None => table[o] = interest[o],
             interest' = InterestToClient(table, r)
      PROVE  /\ interest' \in [FDs -> SUBSET Ops]
             /\ interest'[ClientFd(c)] = {"WRITE"} /\ (o # NoFd => interest'[o] = {})
             /\ \A g \in FDs : g # o /\ g # ClientFd(c) => interest'[g] = interest[g]
  <2>1. /\ interest' \in [FDs -> SUBSET Ops]
        /\ interest'[ClientFd(c)] = {"WRITE"}
        /\ \A g \in FDs : g # ClientFd(c) =>
             interest'[g] = IF g = o /\ item[g] # None THEN {} ELSE table[g]
    BY <1>1, <1>4, InterestToClientFacts, NoneAssumption
  <2>2. o # NoFd => interest'[o] = {}
    BY <1>1, <1>4, <2>1, NoneAssumption
  <2> QED BY <1>4, <2>1, <2>2
<1>5. CASE ConnectFails(c, r, s)
  <2> DEFINE m == request_marshall(failed)
  <2>1. /\ m \in Connections /\ WellFormed(m.write_buffer) /\ buffer_can_read(m.write_buffer)
        /\ m.state = r.state /\ m.client_fd = ClientFd(c) /\ m.origin_fd = o /\ m.references = r.references
        /\ m.method = r.method /\ m.accepted = r.accepted /\ m.resolver = NoFd
        /\ m.status = "failed" /\ m.read_buffer = r.read_buffer
    BY <1>2, MarshallFields
  <2>2. conn' = [conn EXCEPT ![c] = m] /\ item' = item
    BY <1>5 DEF ConnectFails, failed
  <2> HIDE DEF m
  <2>3. /\ interest' \in [FDs -> SUBSET Ops]
        /\ interest'[ClientFd(c)] = {"WRITE"} /\ (o # NoFd => interest'[o] = {})
        /\ \A g \in FDs : g # o /\ g # ClientFd(c) => interest'[g] = interest[g]
    <3>1. interest \in [FDs -> SUBSET Ops] /\ interest' = InterestToClient(interest, r)
      BY <1>0, <1>5 DEF TypeOK, ConnectFails
    <3> QED BY <1>4, <3>1
  <2>4. /\ sock' \in [FDs -> SockStates]
        /\ \A g \in FDs : g # o => sock'[g] = sock[g]
        /\ o # NoFd => sock'[o] \notin {"closed", "peer"}
    <3>1. s \in SockStates \cup {"none"} /\ (o # NoFd => s \in SockStates \ {"closed", "peer"})
      BY <1>0, <1>1 DEF OriginOf, TypeOK, SockStates, EndsInv, OriginFd
    <3> QED BY <1>0, <1>1, <1>5, <3>1 DEF ConnectFails, AfterFailedConnect, TypeOK, SockStates
  <2>5. AttemptFailed(c, o, m)
    BY <1>0, <2>1, <2>2, <2>3, <2>4 DEF AttemptFailed
  <2>6. (m.method = "no_auth" \/ m.accepted) /\ WellFormed(m.read_buffer)
    BY <2>1
  <2>7. Attempted(c, o, m) /\ m \in Connections
    BY <2>1, <2>2, <2>3, <2>4, <2>5, <2>6 DEF Attempted
  <2> HIDE DEF o
  <2> QED BY <1>0, <1>9, <2>7, AttemptStep
<1>6. CASE ConnectStarts(c, r, k, s)
  <2> DEFINE m == AddReference(r)
  <2>1. /\ m \in Connections /\ m.write_buffer = r.write_buffer
        /\ m.state = r.state /\ m.client_fd = ClientFd(c) /\ m.origin_fd = o
        /\ m.references = r.references + 1
        /\ m.method = r.method /\ m.accepted = r.accepted /\ m.resolver = NoFd
        /\ m.read_buffer = r.read_buffer
    <3>1. m = [r EXCEPT !.references = r.references + 1]
      BY DEF AddReference
    <3>2. r.references + 1 \in Nat
      BY <1>0
    <3>3. [r EXCEPT !.references = r.references + 1] \in Connections
      BY <3>2, FieldTypes
    <3> QED BY <3>1, <3>3 DEF Connections
  <2>2. conn' = [conn EXCEPT ![c] = m] /\ item[o] = None /\ s = "fresh"
        /\ item' = [item EXCEPT ![o] = c] /\ sock' = [sock EXCEPT ![o] = "connecting"]
        /\ interest' = [set_interest(interest, k, {}) EXCEPT ![o] = {"WRITE"}]
    BY <1>6 DEF ConnectStarts
  <2> HIDE DEF m
  <2>3. o # NoFd /\ o \in FDs
    BY <1>1, <2>2, NoFdIsNoFD DEF OriginOf
  <2>4. k = ClientFd(c)
    BY <1>0, <2>2, NoneAssumption, NoFdIsNoFD DEF IsEnd, OriginOf, EndsInv
  <2>5. /\ interest' \in [FDs -> SUBSET Ops]
        /\ interest'[ClientFd(c)] = {} /\ interest'[o] = {"WRITE"}
        /\ \A g \in FDs : g # o /\ g # ClientFd(c) => interest'[g] = interest[g]
    <3> DEFINE t == set_interest(interest, k, {})
    <3>1. /\ t \in [FDs -> SUBSET Ops] /\ t[ClientFd(c)] = {}
          /\ \A g \in FDs : g # ClientFd(c) => t[g] = interest[g]
      BY <1>0, <1>1, <2>4, SetInterestFacts, NoneAssumption DEF TypeOK
    <3> HIDE DEF t
    <3>2. interest' = [t EXCEPT ![o] = {"WRITE"}] /\ {"WRITE"} \in SUBSET Ops
      BY <2>2 DEF t, Ops
    <3> QED BY <1>1, <2>3, <3>1, <3>2
  <2>6. /\ sock' \in [FDs -> SockStates] /\ sock'[o] = "connecting"
        /\ \A g \in FDs : g # o => sock'[g] = sock[g]
    BY <1>0, <2>2, <2>3 DEF TypeOK, SockStates
  <2>7. AttemptBegan(c, o, m)
    BY <1>0, <2>1, <2>2, <2>3, <2>5, <2>6 DEF AttemptBegan
  <2>8. (m.method = "no_auth" \/ m.accepted) /\ WellFormed(m.read_buffer)
    BY <2>1
  <2>9. Attempted(c, o, m) /\ m \in Connections
    BY <2>1, <2>2, <2>5, <2>6, <2>7, <2>8 DEF Attempted
  <2> HIDE DEF o
  <2> QED BY <1>0, <1>9, <2>9, AttemptStep
<1>7. CASE ConnectStartsOnUsedItem(c, r, s)
  <2> DEFINE w == request_marshall(failed)
             m == WithoutOrigin(w)
  <2>1. /\ w \in Connections /\ WellFormed(w.write_buffer) /\ buffer_can_read(w.write_buffer)
        /\ w.state = r.state /\ w.client_fd = ClientFd(c) /\ w.references = r.references
        /\ w.method = r.method /\ w.accepted = r.accepted /\ w.resolver = NoFd
        /\ w.status = "failed" /\ w.read_buffer = r.read_buffer
    BY <1>2, MarshallFields
  <2>2. conn' = [conn EXCEPT ![c] = m] /\ item' = item
    BY <1>7 DEF ConnectStartsOnUsedItem, failed
  <2> HIDE DEF w
  <2>3. /\ m \in Connections /\ m.write_buffer = w.write_buffer /\ m.origin_fd = NoFd
        /\ m.state = r.state /\ m.client_fd = ClientFd(c) /\ m.references = r.references
        /\ m.method = r.method /\ m.accepted = r.accepted /\ m.resolver = NoFd
        /\ m.status = "failed" /\ m.read_buffer = r.read_buffer
    <3>1. m \in Connections
      BY <2>1, FieldTypes DEF WithoutOrigin
    <3> QED BY <2>1, <3>1 DEF WithoutOrigin, Connections
  <2> HIDE DEF m
  <2>4. /\ interest' \in [FDs -> SUBSET Ops]
        /\ interest'[ClientFd(c)] = {"WRITE"} /\ (o # NoFd => interest'[o] = {})
        /\ \A g \in FDs : g # o /\ g # ClientFd(c) => interest'[g] = interest[g]
    <3>1. interest \in [FDs -> SUBSET Ops] /\ interest' = InterestToClient(interest, r)
      BY <1>0, <1>7 DEF TypeOK, ConnectStartsOnUsedItem
    <3> QED BY <1>4, <3>1
  <2>5. /\ sock' \in [FDs -> SockStates]
        /\ \A g \in FDs : g # o => sock'[g] = sock[g]
    BY <1>0, <1>7 DEF ConnectStartsOnUsedItem, TypeOK, SockStates
  <2>6. AttemptFailed(c, o, m)
    BY <1>0, <2>1, <2>2, <2>3, <2>4 DEF AttemptFailed
  <2>7. (m.method = "no_auth" \/ m.accepted) /\ WellFormed(m.read_buffer)
    BY <2>3
  <2>8. Attempted(c, o, m) /\ m \in Connections
    BY <2>1, <2>2, <2>3, <2>4, <2>5, <2>6, <2>7 DEF Attempted
  <2> HIDE DEF o
  <2> QED BY <1>0, <1>9, <2>8, AttemptStep
<1>8. CASE ConnectFindsItConnected(c, r, k, s)
  <2> DEFINE m == request_marshall(failedAgain)
             t == set_interest(interest, k, {"READ"})
  <2>1. /\ m \in Connections /\ WellFormed(m.write_buffer) /\ buffer_can_read(m.write_buffer)
        /\ m.state = r.state /\ m.client_fd = ClientFd(c) /\ m.origin_fd = o
        /\ m.references = r.references + 1
        /\ m.method = r.method /\ m.accepted = r.accepted /\ m.resolver = NoFd
        /\ m.status = "failed" /\ m.read_buffer = r.read_buffer
    BY <1>3, MarshallFields
  <2>2. conn' = [conn EXCEPT ![c] = m] /\ item' = item
    BY <1>8 DEF ConnectFindsItConnected, failedAgain
  <2> HIDE DEF m
  <2>3. o # NoFd /\ o \in FDs
    BY <1>1, <1>8 DEF ConnectFindsItConnected, OriginOf
  <2>4. k = ClientFd(c) \/ k = o
    BY <1>0, <1>8, NoFdIsNoFD DEF IsEnd, OriginOf, EndsInv, ConnectFindsItConnected
  <2>5. /\ t \in [FDs -> SUBSET Ops]
        /\ \A g \in FDs : g # ClientFd(c) /\ g # o => t[g] = interest[g]
        /\ o # NoFd /\ item[o] = None => t[o] = interest[o]
    <3>1. interest \in [FDs -> SUBSET Ops] /\ {"READ"} \in SUBSET Ops
      BY <1>0 DEF TypeOK, Ops
    <3> QED BY <1>1, <2>3, <2>4, <3>1, SetInterestFacts, NoneAssumption
  <2>6. interest' = InterestToClient(t, r)
    BY <1>8 DEF ConnectFindsItConnected
  <2> HIDE DEF t
  <2>7. /\ interest' \in [FDs -> SUBSET Ops]
        /\ interest'[ClientFd(c)] = {"WRITE"} /\ (o # NoFd => interest'[o] = {})
        /\ \A g \in FDs : g # o /\ g # ClientFd(c) => interest'[g] = interest[g]
    BY <1>4, <2>5, <2>6
  <2>8. /\ sock' \in [FDs -> SockStates] /\ sock'[o] = "confirmed"
        /\ \A g \in FDs : g # o => sock'[g] = sock[g]
    BY <1>0, <1>8, <2>3 DEF ConnectFindsItConnected, TypeOK, SockStates
  <2>9. AttemptFailed(c, o, m)
    BY <1>0, <2>1, <2>2, <2>3, <2>7, <2>8 DEF AttemptFailed
  <2>10. (m.method = "no_auth" \/ m.accepted) /\ WellFormed(m.read_buffer)
    BY <2>1
  <2>11. Attempted(c, o, m) /\ m \in Connections
    BY <2>1, <2>2, <2>7, <2>8, <2>9, <2>10 DEF Attempted
  <2> HIDE DEF o
  <2> QED BY <1>0, <1>9, <2>11, AttemptStep
<1> QED BY <1>5, <1>6, <1>7, <1>8 DEF connection

(* connecting_init: the first attempt, with a new socket or without one. *)
LEMMA ConnectingInit ==
  ASSUME ProxyInv, NEW c \in Conns, State(c) \in {"REQUEST_READ", "REQUEST_RESOLV"},
         NEW r \in Connections, r.client_fd = ClientFd(c), r.origin_fd = NoFd, r.resolver = NoFd,
         r.references = conn[c].references, r.method = "no_auth" \/ r.accepted,
         WellFormed(r.read_buffer), WellFormed(r.write_buffer),
         connecting_init(c, r, ClientFd(c)),
         ready' \subseteq FDs \X Ops, crashed' \in BOOLEAN,
         jobs' \subseteq jobs, \A f \in jobs' : item[f] # c
  PROVE  ProxyInv'
<1> DEFINE k == ClientFd(c)
           r1 == [r EXCEPT !.state = "REQUEST_CONNECTING", !.status = "succeeded"]
           r2(o) == [r1 EXCEPT !.origin_fd = o]
<1>1. State(c) \in EarlyStates
  BY DEF EarlyStates
<1>2. /\ Live(c) /\ k \in FDs /\ item[k] = c /\ IsEnd(c, k)
  BY <1>1, EarlyFacts, ProxyFacts DEF EndsInv, IsEnd
<1>3. /\ r1 \in Connections /\ r1.state = "REQUEST_CONNECTING" /\ r1.client_fd = ClientFd(c)
      /\ r1.origin_fd = NoFd /\ r1.resolver = NoFd /\ r1.references = conn[c].references
      /\ r1.method = r.method /\ r1.accepted = r.accepted
      /\ r1.read_buffer = r.read_buffer /\ r1.write_buffer = r.write_buffer
  <2>1. r1 \in Connections
    BY FieldTypes DEF States
  <2> QED BY <2>1 DEF Connections
<1> HIDE DEF r1
<1>4. r1.method = "no_auth" \/ r1.accepted
  BY <1>3
<1>5. ASSUME NEW o \in FDs, IsNextFd(o), connection(c, r2(o), k, "fresh") PROVE ProxyInv'
  <2>1. /\ r2(o) \in Connections /\ r2(o).state = "REQUEST_CONNECTING"
        /\ r2(o).client_fd = ClientFd(c) /\ r2(o).origin_fd = o /\ r2(o).resolver = NoFd
        /\ r2(o).references = conn[c].references
        /\ r2(o).method = r1.method /\ r2(o).accepted = r1.accepted
        /\ r2(o).read_buffer = r.read_buffer /\ r2(o).write_buffer = r.write_buffer
    <3>1. r2(o) \in Connections
      BY <1>3, FieldTypes
    <3> QED BY <1>3, <3>1 DEF Connections
  <2>2. OriginOf(c, o, "fresh")
    BY <1>1, <1>5 DEF OriginOf, IsNextFd
  <2> DEFINE m == r2(o)
  <2>3. connection(c, m, k, "fresh")
    BY <1>5
  <2> HIDE DEF r2, m
  <2>4. m \in Connections /\ (m.method = "no_auth" \/ m.accepted) /\ OriginOf(c, m.origin_fd, "fresh")
        /\ m.state = "REQUEST_CONNECTING"
        /\ m.client_fd = ClientFd(c) /\ m.resolver = NoFd
        /\ m.references = conn[c].references
        /\ WellFormed(m.read_buffer) /\ WellFormed(m.write_buffer)
    BY <1>4, <2>1, <2>2 DEF m
  <2> QED BY <1>2, <2>3, <2>4, ConnectionStep
<1>6. CASE /\ conn' = [conn EXCEPT ![c] = request_marshall([r1 EXCEPT !.status = "failed"])]
           /\ interest' = InterestToClient(interest, r1)
           /\ UNCHANGED <<sock, item>>
  <2>1. connection(c, r1, k, "none")
    BY <1>3, <1>6 DEF connection, ConnectFails
  <2>2. OriginOf(c, r1.origin_fd, "none")
    BY <1>1, <1>3 DEF OriginOf
  <2>3. WellFormed(r1.read_buffer) /\ WellFormed(r1.write_buffer)
    BY <1>3
  <2> QED BY <1>2, <1>3, <1>4, <2>1, <2>2, <2>3, ConnectionStep
<1> QED BY <1>5, <1>6 DEF connecting_init, r1

(* request_read: to REQUEST_CONNECTING or REQUEST_RESOLV, or nowhere. *)
LEMMA RequestRead ==
  ASSUME ProxyInv, NEW c \in Conns, NEW f \in FDs, request_read(f, c)
  PROVE  ProxyInv'
<1> DEFINE r == conn[c]
<1>1. handle_read(f, c) /\ State(c) = "REQUEST_READ"
  BY DEF request_read, State
<1>2. State(c) \in EarlyStates \ {"REQUEST_RESOLV"}
  BY <1>1 DEF EarlyStates
<1>3. /\ Live(c) /\ f = ClientFd(c) /\ ready' \subseteq FDs \X Ops /\ OriginFd(c) = NoFd
  BY <1>1, <1>2, EventIsOfAnEnd DEF handle_read, Ops
<1>4. CASE socksv5_done(c)
  BY <1>1, <1>3, <1>4, DoneStep
<1>5. CASE /\ conn' = [conn EXCEPT ![c].read_buffer = Drained]
           /\ UNCHANGED <<sock, item, interest, jobs, crashed>>
  BY <1>2, <1>3, <1>5, ResetIsWellFormed, BufferStep DEF Drained
<1>6. /\ r \in Connections /\ r.resolver = NoFd /\ (r.method = "no_auth" \/ r.accepted)
      /\ WellFormed(r.read_buffer) /\ WellFormed(r.write_buffer)
      /\ interest = [interest EXCEPT ![ClientFd(c)] = {"READ"}]
  BY <1>1, <1>2, EarlyFacts, ProxyFacts DEF AuthInv, EarlyInterest
<1>7. CASE /\ conn' = [conn EXCEPT ![c] = [r EXCEPT !.parser = "rejected", !.read_buffer = Drained]]
           /\ UNCHANGED <<sock, item, interest, jobs, crashed>>
  <2> DEFINE s == [r EXCEPT !.parser = "rejected", !.read_buffer = Drained]
  <2>1. s \in Connections
    <3>1. Drained \in Cursors /\ "rejected" \in {"none", "reading", "rejected"}
      BY ResetIsWellFormed, WellFormedIsCursors DEF Drained
    <3> QED BY <1>6, <3>1, FieldTypes
  <2>2. /\ s.state = State(c) /\ s.client_fd = ClientFd(c) /\ s.origin_fd = OriginFd(c)
        /\ s.references = r.references /\ s.resolver = NoFd /\ s.method = r.method
        /\ s.accepted = r.accepted
        /\ s.read_buffer = buffer_reset /\ s.write_buffer = r.write_buffer
    BY <1>6 DEF Connections, State, ClientFd, OriginFd, Drained
  <2>3. conn' = [conn EXCEPT ![c] = s]
    BY <1>7
  <2> HIDE DEF s
  <2>4. /\ s.method = "no_auth" \/ s.accepted
        /\ WellFormed(s.read_buffer) /\ WellFormed(s.write_buffer)
    BY <1>6, <2>2, ResetIsWellFormed
  <2>5. interest' = [interest EXCEPT ![ClientFd(c)] = EarlyInterest(s.state)]
    BY <1>1, <1>6, <1>7, <2>2 DEF EarlyInterest
  <2>6. s.state \in EarlyStates /\ crashed' \in BOOLEAN /\ s.state = "REQUEST_READ"
    BY <1>1, <1>2, <1>7, <2>2, ProxyFacts DEF TypeOK
  <2> HIDE DEF r
  <2> QED
    BY <1>2, <1>3, <1>7, <2>1, <2>2, <2>3, <2>4, <2>5, <2>6, EarlyStep DEF r
<1>8. ASSUME NEW b \in AfterMessage(r.read_buffer), r.parser = "reading",
             request_process(f, c, [r EXCEPT !.read_buffer = b]), UNCHANGED <<jobs, crashed>>
      PROVE  ProxyInv'
  <2> DEFINE w == [r EXCEPT !.read_buffer = b]
  <2>1. WellFormed(b) /\ b \in Cursors
    BY <1>6, AfterMessageIsWellFormed, WellFormedIsCursors
  <2>2. /\ w \in Connections /\ w.client_fd = ClientFd(c) /\ w.origin_fd = NoFd
        /\ w.resolver = NoFd /\ w.references = r.references /\ w.method = r.method
        /\ w.accepted = r.accepted /\ w.read_buffer = b /\ w.write_buffer = r.write_buffer
        /\ w.parser = "reading"
    <3>1. w \in Connections
      BY <1>6, <2>1, FieldTypes
    <3> QED BY <1>3, <1>6, <1>8, <3>1 DEF Connections, ClientFd, OriginFd
  <2>3. request_process(f, c, w)
    BY <1>8
  <2> HIDE DEF w
  <2>4. /\ w.method = "no_auth" \/ w.accepted
        /\ WellFormed(w.read_buffer) /\ WellFormed(w.write_buffer)
    BY <1>6, <2>1, <2>2
  <2>5. crashed' \in BOOLEAN /\ jobs' \subseteq jobs /\ \A g \in jobs' : item[g] # c
    BY <1>1, <1>8, ProxyFacts, NoJobOf DEF TypeOK
  <2>6. CASE connecting_init(c, request_close(w, "address"), f)
    <3> DEFINE s == request_close(w, "address")
    <3>1. s = [w EXCEPT !.parser = "none"]
      BY DEF request_close
    <3>2. s \in Connections
      BY <2>2, <3>1, FieldTypes
    <3>3. connecting_init(c, s, ClientFd(c))
      BY <1>3, <2>6
    <3> HIDE DEF s
    <3>4. /\ s.client_fd = ClientFd(c) /\ s.origin_fd = NoFd
          /\ s.resolver = NoFd /\ s.references = r.references /\ s.method = w.method
          /\ s.accepted = w.accepted
          /\ s.read_buffer = w.read_buffer /\ s.write_buffer = w.write_buffer
      BY <2>2, <3>1 DEF Connections
    <3>5. /\ s.method = "no_auth" \/ s.accepted
          /\ WellFormed(s.read_buffer) /\ WellFormed(s.write_buffer)
      BY <2>4, <3>4
    <3> HIDE DEF r
    <3> QED BY <1>1, <1>3, <2>5, <3>2, <3>3, <3>4, <3>5, ConnectingInit DEF r
  <2>7. ASSUME NEW thread \in {f, NoFd},
               conn' = [conn EXCEPT ![c] = [request_close(w, "name") EXCEPT
                                              !.state = "REQUEST_RESOLV", !.resolver = thread]],
               interest' = [interest EXCEPT ![f] = {}], UNCHANGED <<sock, item>>
        PROVE  ProxyInv'
    <3> DEFINE s == [w EXCEPT !.state = "REQUEST_RESOLV", !.resolver = thread]
    <3>1. conn' = [conn EXCEPT ![c] = s]
      BY <2>7 DEF request_close
    <3>2. s \in Connections
      BY <2>2, FieldTypes DEF States
    <3>3. /\ s.state = "REQUEST_RESOLV" /\ s.client_fd = ClientFd(c) /\ s.origin_fd = OriginFd(c)
          /\ s.resolver \in {ClientFd(c), NoFd} /\ s.references = r.references
          /\ s.method = w.method /\ s.accepted = w.accepted /\ s.parser = "reading"
          /\ s.read_buffer = w.read_buffer /\ s.write_buffer = w.write_buffer
      BY <1>3, <2>2 DEF Connections
    <3> HIDE DEF s
    <3>4. /\ s.method = "no_auth" \/ s.accepted
          /\ WellFormed(s.read_buffer) /\ WellFormed(s.write_buffer)
      BY <2>4, <3>3
    <3>5. interest' = [interest EXCEPT ![ClientFd(c)] = EarlyInterest(s.state)]
      BY <1>3, <2>7, <3>3 DEF EarlyInterest
    <3>6. s.state \in EarlyStates
      BY <3>3 DEF EarlyStates
    <3> HIDE DEF r
    <3> QED
      BY <1>2, <1>3, <1>8, <2>5, <2>7, <3>1, <3>2, <3>3, <3>4, <3>5, <3>6, EarlyStep DEF r
  <2> QED BY <2>3, <2>6, <2>7 DEF request_process
<1> QED BY <1>4, <1>5, <1>7, <1>8 DEF request_read

(* The thread's last act: the job is the client's, whose connection waits. *)
LEMMA ResolverThread ==
  ASSUME ProxyInv, NEW c \in Conns, request_resolv_blocking(c), crashed' \in BOOLEAN
  PROVE  ProxyInv'
<1> DEFINE r == conn[c]
<1>0. r.resolver # NoFd
  BY DEF request_resolv_blocking
<1>1. /\ State(c) = "REQUEST_RESOLV" /\ r.resolver = ClientFd(c)
      /\ r \in Connections /\ TypeOK /\ EndsInv(c) /\ PolledInv(c) /\ AuthInv(c)
  BY <1>0, ProxyFacts DEF ThreadInv
<1>2. /\ State(c) \in EarlyStates /\ Live(c) /\ ClientFd(c) \in FDs /\ OriginFd(c) = NoFd
      /\ item[ClientFd(c)] = c /\ WellFormed(r.read_buffer) /\ WellFormed(r.write_buffer)
  <2>1. State(c) \in EarlyStates
    BY <1>1 DEF EarlyStates
  <2> QED BY <1>1, <2>1, EarlyFacts DEF EndsInv
<1>3. PICK n \in 0..MaxAddrs : conn' = [conn EXCEPT ![c] = [r EXCEPT !.addrs = n, !.resolver = NoFd]]
  BY DEF request_resolv_blocking
<1> DEFINE s == [r EXCEPT !.addrs = n, !.resolver = NoFd]
<1>4. s \in Connections
  BY <1>1, FieldTypes
<1>5. /\ s.state = "REQUEST_RESOLV" /\ s.client_fd = ClientFd(c) /\ s.origin_fd = NoFd
      /\ s.references = r.references /\ s.resolver = NoFd /\ s.method = r.method
      /\ s.accepted = r.accepted
      /\ s.read_buffer = r.read_buffer /\ s.write_buffer = r.write_buffer
  BY <1>1, <1>2 DEF Connections, State, ClientFd, OriginFd
<1>6. conn' = [conn EXCEPT ![c] = s]
  BY <1>3
<1> HIDE DEF s
<1>7. /\ sock' = sock /\ item' = item /\ interest' = interest /\ ready' = ready
      /\ jobs' = jobs \cup {ClientFd(c)}
  BY <1>1 DEF request_resolv_blocking
<1>8. conn'[c] = s
  BY <1>1, <1>6 DEF TypeOK
<1>9. PolledInv(c)' /\ DirectionsInv(c)' /\ ThreadInv(c)'
  BY <1>1, <1>5, <1>7, <1>8 DEF PolledInv, DirectionsInv, ThreadInv, State, ClientFd
<1>10. AuthInv(c)'
  <2>1. s.method = "no_auth" \/ s.accepted
    BY <1>1, <1>5 DEF AuthInv
  <2> QED BY <1>5, <1>8, <2>1 DEF AuthInv, State
<1>11. /\ sock' \in [FDs -> SockStates] /\ interest' \in [FDs -> SUBSET Ops]
       /\ ready' \subseteq FDs \X Ops /\ jobs' \subseteq FDs
       /\ s.references >= r.references /\ s.state \notin {"free", "DONE"}
       /\ WellFormed(s.read_buffer) /\ WellFormed(s.write_buffer)
  BY <1>1, <1>2, <1>5, <1>7 DEF TypeOK, Connections
<1>12. \A f \in jobs' : f \in jobs \/ item[f] = c
  BY <1>2, <1>7
<1> HIDE DEF r
<1> QED
  BY <1>2, <1>4, <1>5, <1>6, <1>7, <1>9, <1>10, <1>11, <1>12, LocalStep DEF r

(* request_resolv_done: the job's connection goes on. *)
LEMMA ResolvDone ==
  ASSUME ProxyInv, NEW c \in Conns, NEW f \in FDs, request_resolv_done(f, c)
  PROVE  ProxyInv'
<1> DEFINE r == conn[c]
<1>1. /\ f \in jobs /\ item[f] = c /\ State(c) = "REQUEST_RESOLV"
      /\ jobs' = jobs \ {f} /\ ready' = ready /\ crashed' = crashed
  BY DEF request_resolv_done, State
<1>2. /\ f = ClientFd(c) /\ r.resolver = NoFd /\ \A g \in jobs' : item[g] # c
  BY <1>1, JobsAreOfClients, ProxyFacts DEF JobsInv
<1>3. State(c) \in EarlyStates
  BY <1>1 DEF EarlyStates
<1>4. /\ r \in Connections /\ TypeOK /\ Live(c) /\ OriginFd(c) = NoFd
      /\ WellFormed(r.read_buffer) /\ WellFormed(r.write_buffer)
      /\ r.method = "no_auth" \/ r.accepted
  BY <1>1, <1>3, EarlyFacts, ProxyFacts DEF AuthInv
<1>5. /\ ready' \subseteq FDs \X Ops /\ crashed' \in BOOLEAN
      /\ jobs' \subseteq jobs /\ jobs' \subseteq FDs
  BY <1>1, <1>4 DEF TypeOK
<1>6. CASE connecting_init(c, r, f)
  <2>1. connecting_init(c, r, ClientFd(c))
    BY <1>2, <1>6
  <2>2. r.client_fd = ClientFd(c) /\ r.origin_fd = NoFd
    BY <1>4 DEF ClientFd, OriginFd
  <2> QED BY <1>1, <1>2, <1>4, <1>5, <2>1, <2>2, ConnectingInit
<1>7. CASE /\ conn' = [conn EXCEPT ![c] =
                         request_marshall([r EXCEPT !.state = "REQUEST_WRITE", !.status = "failed"])]
           /\ interest' = [interest EXCEPT ![f] = {"WRITE"}]
           /\ UNCHANGED <<sock, item>>
  <2> DEFINE w == [r EXCEPT !.state = "REQUEST_WRITE", !.status = "failed"]
             s == request_marshall(w)
  <2>1. /\ w \in Connections /\ w.state = "REQUEST_WRITE" /\ w.status = "failed"
        /\ w.client_fd = r.client_fd /\ w.origin_fd = NoFd /\ w.resolver = NoFd
        /\ w.references = r.references /\ w.method = r.method /\ w.accepted = r.accepted
        /\ w.read_buffer = r.read_buffer /\ w.write_buffer = r.write_buffer
    <3>1. w \in Connections
      BY <1>4, FieldTypes DEF States
    <3> QED BY <1>2, <1>4, <3>1 DEF Connections, OriginFd
  <2> HIDE DEF w
  <2>2. /\ s \in Connections /\ s.state = "REQUEST_WRITE" /\ s.status = "failed"
        /\ s.client_fd = ClientFd(c) /\ s.origin_fd = NoFd /\ s.resolver = NoFd
        /\ s.references = r.references /\ s.method = r.method /\ s.accepted = r.accepted
        /\ WellFormed(s.read_buffer) /\ WellFormed(s.write_buffer)
    BY <1>4, <2>1, MarshallFields DEF ClientFd
  <2>3. conn' = [conn EXCEPT ![c] = s]
    BY <1>7 DEF w
  <2> HIDE DEF s
  <2>4. conn'[c] = s
    BY <1>4, <2>3 DEF TypeOK
  <2>5. /\ interest' \in [FDs -> SUBSET Ops] /\ interest'[ClientFd(c)] = {"WRITE"}
        /\ \A g \in FDs : interest'[g] = interest[g] \/ (IsEnd(c, g) /\ item[g] = c)
    BY <1>1, <1>2, <1>4, <1>7 DEF TypeOK, Ops, IsEnd
  <2>6. PolledInv(c)' /\ DirectionsInv(c)' /\ ThreadInv(c)'
    BY <2>2, <2>4, <2>5 DEF PolledInv, DirectionsInv, ThreadInv, State, ClientFd, OriginFd
  <2>7. AuthInv(c)'
    <3>1. s.method = "no_auth" \/ s.accepted
      BY <1>4, <2>2
    <3> QED BY <2>2, <2>4, <3>1 DEF AuthInv, State
  <2>8. /\ sock' \in [FDs -> SockStates] /\ sock' = sock /\ item' = item
        /\ s.references >= r.references /\ s.state \notin {"free", "DONE"}
        /\ s.state \notin EarlyStates
    BY <1>4, <1>7, <2>2 DEF TypeOK, Connections, EarlyStates
  <2> HIDE DEF r
  <2> QED
    BY <1>2, <1>4, <1>5, <2>2, <2>3, <2>5, <2>6, <2>7, <2>8, LocalStep DEF r
<1> QED BY <1>6, <1>7 DEF request_resolv_done
-----------------------------------------------------------------------------
(* connecting_write: the event of an attempt, or of the client after one. *)

(* connecting_close and the reply leave the identity of the connection alone. *)
LEMMA ToRequestWriteFacts ==
  ASSUME NEW r \in Connections, WellFormed(r.read_buffer), WellFormed(r.write_buffer)
  PROVE  LET m == ToRequestWrite(r) IN
         /\ m \in Connections
         /\ m.state = "REQUEST_WRITE" /\ m.client_fd = r.client_fd /\ m.origin_fd = r.origin_fd
         /\ m.references = r.references /\ m.method = r.method /\ m.accepted = r.accepted
         /\ m.resolver = r.resolver /\ m.status = r.status
         /\ WellFormed(m.read_buffer) /\ WellFormed(m.write_buffer)
<1> DEFINE w == request_marshall(r)
           m == [w EXCEPT !.state = "REQUEST_WRITE", !.parser = "none", !.addrs = 0]
<1>1. /\ w \in Connections /\ w.client_fd = r.client_fd /\ w.origin_fd = r.origin_fd
      /\ w.references = r.references /\ w.method = r.method /\ w.accepted = r.accepted
      /\ w.resolver = r.resolver /\ w.status = r.status /\ w.read_buffer = r.read_buffer
      /\ WellFormed(w.write_buffer)
  BY MarshallFields
<1> HIDE DEF w
<1>2. m \in Connections
  <2>1. "REQUEST_WRITE" \in States /\ 0 \in 0..MaxAddrs
    BY Socks5Assumption DEF States
  <2> QED BY <1>1, <2>1, FieldTypes
<1>3. ToRequestWrite(r) = m
  BY DEF ToRequestWrite, w
<1> QED BY <1>1, <1>2, <1>3 DEF Connections

(* The handler is called on the way to REQUEST_WRITE with an origin that is
   registered, whether it was reached or not. *)
LEMMA AnswerStep ==
  ASSUME ProxyInv, NEW c \in Conns, State(c) = "REQUEST_CONNECTING",
         NEW r \in Connections, conn' = [conn EXCEPT ![c] = ToRequestWrite(r)],
         r.client_fd = ClientFd(c), r.origin_fd = OriginFd(c), r.resolver = conn[c].resolver,
         r.references = conn[c].references, r.method = conn[c].method,
         r.accepted = conn[c].accepted,
         r.read_buffer = conn[c].read_buffer, r.write_buffer = conn[c].write_buffer,
         OriginFd(c) # NoFd, item[OriginFd(c)] = c,
         interest' \in [FDs -> SUBSET Ops],
         interest'[ClientFd(c)] = {"WRITE"}, interest'[OriginFd(c)] = {},
         \A g \in FDs : g # ClientFd(c) /\ g # OriginFd(c) => interest'[g] = interest[g],
         UNCHANGED <<sock, item, jobs, crashed>>, ready' \subseteq FDs \X Ops
  PROVE  ProxyInv'
<1> DEFINE m == ToRequestWrite(r)
<1>0. /\ TypeOK /\ EndsInv(c) /\ ThreadInv(c) /\ AuthInv(c) /\ BuffersInv(c)
      /\ conn[c] \in Connections
  BY ProxyFacts
<1>1. /\ Live(c) /\ ClientFd(c) \in FDs /\ item[ClientFd(c)] = c
      /\ conn[c].resolver = NoFd /\ conn[c].references \in Nat
      /\ conn[c].method = "no_auth" \/ conn[c].accepted
  BY <1>0 DEF Live, State, EndsInv, ThreadInv, AuthInv, Connections
<1>2. /\ m \in Connections /\ m.state = "REQUEST_WRITE" /\ m.client_fd = ClientFd(c)
      /\ m.origin_fd = OriginFd(c) /\ m.references = conn[c].references
      /\ m.method = conn[c].method /\ m.accepted = conn[c].accepted /\ m.resolver = NoFd
      /\ WellFormed(m.read_buffer) /\ WellFormed(m.write_buffer)
  BY <1>0, <1>1, ToRequestWriteFacts DEF BuffersInv
<1> HIDE DEF m
<1>3. conn' = [conn EXCEPT ![c] = m] /\ conn'[c] = m
  BY <1>0 DEF m, TypeOK
<1>4. PolledInv(c)' /\ DirectionsInv(c)' /\ ThreadInv(c)'
  BY <1>2, <1>3 DEF PolledInv, DirectionsInv, ThreadInv, State, ClientFd, OriginFd
<1>5. AuthInv(c)'
  <2>1. m.method = "no_auth" \/ m.accepted
    BY <1>1, <1>2
  <2> QED BY <1>2, <1>3, <2>1 DEF AuthInv, State
<1>6. \A g \in FDs : interest'[g] = interest[g] \/ (IsEnd(c, g) /\ item[g] = c)
  BY <1>1 DEF IsEnd
<1>7. /\ sock' \in [FDs -> SockStates] /\ jobs' \subseteq FDs /\ crashed' \in BOOLEAN
      /\ m.references >= conn[c].references /\ m.state \notin {"free", "DONE"}
      /\ m.state \notin EarlyStates
      /\ \A g \in jobs' : g \in jobs /\ item[g] # c
  BY <1>0, <1>1, <1>2, NoJobOf DEF TypeOK, EarlyStates
<1>8. conn' = [conn EXCEPT ![c] = m] /\ sock' = sock /\ item' = item
  BY <1>3
<1> QED BY ONLY ProxyInv, c \in Conns, ready' \subseteq FDs \X Ops,
           OriginFd(c) # NoFd, item[OriginFd(c)] = c, interest' \in [FDs -> SUBSET Ops],
           <1>1, <1>2, <1>4, <1>5, <1>6, <1>7, <1>8, LocalStep

(* No address is left: the origin's descriptor is unregistered and closed; if
   the item was another connection's, left behind, that loses a reference. *)
LEMMA GiveUpStep ==
  ASSUME ProxyInv, NEW c \in Conns, State(c) = "REQUEST_CONNECTING",
         conn[c].status = "failed", GiveUpOrigin(c),
         UNCHANGED <<jobs, crashed>>, ready' \subseteq FDs \X Ops
  PROVE  ProxyInv'
<1> DEFINE cf == ClientFd(c)
           o == OriginFd(c)
           w == WithoutOrigin(conn[c])
           m == ToRequestWrite(w)
           table == set_interest(interest, cf, {"WRITE"})
           n(d) == Held(d, NoFd) + Held(d, o)
           E == {g \in FDs : g = cf \/ g = o}
<1>0. /\ TypeOK /\ EndsInv(c) /\ ThreadInv(c) /\ AuthInv(c) /\ BuffersInv(c)
      /\ ReferencesInv(c) /\ conn[c] \in Connections /\ Live(c)
      /\ conn[c].references \in Nat
  BY ProxyFacts DEF Live, State, Connections
<1>1. /\ cf \in FDs /\ item[cf] = c /\ o # cf /\ sock[cf] = "peer"
      /\ o \in FDs \cup {NoFd}
      /\ \A g \in FDs : item[g] = c /\ g # cf /\ g # o => interest[g] = {} /\ o = NoFd
      /\ conn[c].references >= 1
      /\ o # NoFd => IsEnd(c, o)
  <2>1. o \in FDs \cup {NoFd} /\ OriginOf(c, o, IF o = NoFd THEN "none" ELSE sock[o])
    BY <1>0 DEF OriginFd, Connections, OriginOf
  <2> HIDE DEF o
  <2> QED BY <1>0, <2>1, OriginFacts DEF EndsInv, IsEnd, o
<1>2. /\ m \in Connections /\ m.state = "REQUEST_WRITE" /\ m.client_fd = cf
      /\ m.origin_fd = NoFd /\ m.references = conn[c].references
      /\ m.method = conn[c].method /\ m.accepted = conn[c].accepted /\ m.resolver = NoFd
      /\ m.status = "failed" /\ WellFormed(m.read_buffer) /\ WellFormed(m.write_buffer)
  <2>1. /\ w \in Connections /\ w.client_fd = cf /\ w.origin_fd = NoFd
        /\ w.references = conn[c].references /\ w.method = conn[c].method
        /\ w.accepted = conn[c].accepted /\ w.resolver = NoFd /\ w.status = "failed"
        /\ w.read_buffer = conn[c].read_buffer /\ w.write_buffer = conn[c].write_buffer
    <3>1. w \in Connections
      BY <1>0, FieldTypes DEF WithoutOrigin
    <3>2. conn[c].resolver = NoFd
      BY <1>0 DEF ThreadInv
    <3> QED BY <1>0, <3>1, <3>2 DEF WithoutOrigin, Connections, ClientFd
  <2> HIDE DEF w
  <2> QED BY <1>0, <2>1, ToRequestWriteFacts DEF BuffersInv
<1>3. conn' = [d \in Conns |-> Released(IF d = c THEN m ELSE conn[d], n(d))]
  BY DEF GiveUpOrigin, unregister_and_close, OriginFd
<1>4. /\ sock' = [f \in FDs |-> IF f \in {NoFd, o} THEN "closed" ELSE sock[f]]
      /\ item' = [f \in FDs |-> IF f \in {NoFd, o} THEN None ELSE item[f]]
      /\ interest' = [f \in FDs |-> IF f \in {NoFd, o} THEN {} ELSE table[f]]
  BY DEF GiveUpOrigin, unregister_and_close, OriginFd, ClientFd
<1>5. /\ table \in [FDs -> SUBSET Ops] /\ table[cf] = {"WRITE"}
      /\ \A g \in FDs : g # cf => table[g] = interest[g]
  BY <1>0, <1>1, SetInterestFacts, NoneAssumption DEF TypeOK, Ops
<1>6. /\ sock' \in [FDs -> SockStates] /\ item' \in [FDs -> Conns \cup {None}]
      /\ interest' \in [FDs -> SUBSET Ops]
      /\ sock'[cf] = "peer" /\ item'[cf] = c /\ interest'[cf] = {"WRITE"}
      /\ \A g \in FDs : g # cf /\ g # o =>
           sock'[g] = sock[g] /\ item'[g] = item[g] /\ interest'[g] = interest[g]
      /\ o # NoFd => item'[o] = None /\ interest'[o] = {}
  <2> HIDE DEF table, o
  <2>1. "closed" \in SockStates /\ sock \in [FDs -> SockStates] /\ item \in [FDs -> Conns \cup {None}]
    BY <1>0 DEF SockStates, TypeOK
  <2> QED BY <1>1, <1>4, <1>5, <2>1, NoFdIsNoFD
<1>7. \A d \in Conns : n(d) = IF o # NoFd /\ item[o] = d THEN 1 ELSE 0
  BY <1>1, NoFdIsNoFD DEF Held
<1> HIDE DEF w, m, table, n
<1>8. TypeOK'
  <2>1. ASSUME NEW d \in Conns
        PROVE  Released(IF d = c THEN m ELSE conn[d], n(d)) \in Connections
    <3>1. n(d) \in Nat
      BY <1>7
    <3>2. (IF d = c THEN m ELSE conn[d]) \in Connections
      BY <1>0, <1>2 DEF TypeOK
    <3> QED BY <3>1, <3>2, ReleasedFacts
  <2>2. conn' \in [Conns -> Connections]
    BY <1>3, <2>1
  <2> QED BY <1>0, <1>6, <2>2 DEF TypeOK
<1>9. /\ conn'[c].state = "REQUEST_WRITE" /\ conn'[c].client_fd = cf
      /\ conn'[c].origin_fd = NoFd
      /\ conn'[c].method = conn[c].method /\ conn'[c].accepted = conn[c].accepted
      /\ conn'[c].resolver = NoFd /\ conn'[c].status = "failed"
      /\ WellFormed(conn'[c].read_buffer) /\ WellFormed(conn'[c].write_buffer)
      /\ conn'[c].references >= 1
      /\ o = NoFd => conn'[c].references = conn[c].references
  <2>1. conn'[c] = Released(m, n(c))
    BY <1>3
  <2>2. CASE o # NoFd /\ item[o] = c
    <3>1. conn[c].references >= 2
      BY <1>0, <1>1, <2>2 DEF ReferencesInv, ClientFd
    <3>2. n(c) = 1 /\ m.references > 1 /\ m.references - 1 \in Nat
      BY <1>0, <1>2, <1>7, <2>2, <3>1
    <3>3. conn'[c] = [m EXCEPT !.references = @ - 1]
      BY <1>2, <2>1, <3>2, ReleasedFacts
    <3> QED BY <1>0, <1>2, <2>2, <3>1, <3>2, <3>3 DEF Connections
  <2>3. CASE ~(o # NoFd /\ item[o] = c)
    <3>1. n(c) = 0 /\ m.references > 0
      BY <1>0, <1>1, <1>2, <1>7, <2>3
    <3>2. conn'[c] = m
      BY <1>2, <2>1, <3>1, ReleasedFacts
    <3> QED BY <1>1, <1>2, <3>2
  <2> QED BY <2>2, <2>3
<1>10. TouchesOnly(c, E)
  BY <1>0, <1>1, <1>6 DEF TouchesOnly, IsEnd
<1>11. \A d \in Conns \ {c} : KeepsOther(d, E) \/ LosesLeftover(d, E)
  <2> TAKE d \in Conns \ {c}
  <2>1. conn'[d] = Released(conn[d], n(d))
    BY <1>3
  <2>2. CASE o # NoFd /\ item[o] = d
    <3>1. o \in E /\ item'[o] # d /\ conn'[d] = Released(conn[d], 1)
      BY <1>1, <1>6, <1>7, <2>1, <2>2, NoneAssumption
    <3>2. \A f \in E \ {o} : /\ item[f] = d <=> item'[f] = d
                             /\ item[f] = d => interest'[f] = interest[f]
      BY <1>1, <1>6
    <3> QED BY <2>2, <3>1, <3>2 DEF LosesLeftover
  <2>3. CASE ~(o # NoFd /\ item[o] = d)
    <3>1. conn'[d] = Released(conn[d], 0)
      BY <1>7, <2>1, <2>3
    <3>2. \A f \in E : item[f] # d /\ item'[f] # d
      BY <1>1, <1>6, <2>3, NoFdIsNoFD, NoneAssumption
    <3> QED BY <3>1, <3>2, ReleaseNothing DEF KeepsOther
  <2> QED BY <2>2, <2>3
<1>12. /\ Live(c)' /\ ClientFd(c)' = cf /\ OriginFd(c)' = NoFd
       /\ State(c)' = "REQUEST_WRITE"
  BY <1>9 DEF Live, ClientFd, OriginFd, State
<1>13. ASSUME NEW g \in FDs, item'[g] = c, g # cf
       PROVE  item[g] = c /\ o = NoFd /\ interest'[g] = {}
  <2>1. g # o
    BY <1>1, <1>6, <1>13, NoFdIsNoFD, NoneAssumption
  <2> QED BY <1>1, <1>6, <1>13, <2>1
<1>14. EndsInv(c)' /\ ItemsInv(c)'
  <2>1. EndsInv(c)'
    BY <1>1, <1>6, <1>12 DEF EndsInv
  <2>2. ItemsInv(c)'
    BY <1>12, <1>13 DEF ItemsInv, IsEnd, EarlyStates
  <2> QED BY <2>1, <2>2
<1>15. ReferencesInv(c)'
  <2>1. ASSUME NEW g \in FDs, item'[g] = c, g # cf PROVE conn'[c].references >= 2
    BY <1>0, <1>9, <1>13, <2>1 DEF ReferencesInv
  <2>2. ASSUME NEW g \in FDs, item'[g] = c, g # cf, NEW h \in FDs, item'[h] = c, h # cf
        PROVE  g = h
    BY <1>0, <1>13, <2>2 DEF ReferencesInv
  <2> QED BY <1>9, <1>12, <2>1, <2>2 DEF ReferencesInv
<1>16. PolledInv(c)' /\ DirectionsInv(c)' /\ ThreadInv(c)' /\ BuffersInv(c)'
  BY <1>6, <1>9, <1>12 DEF PolledInv, DirectionsInv, ThreadInv, BuffersInv
<1>17. AuthInv(c)'
  <2>1. conn'[c].method = "no_auth" \/ conn'[c].accepted
    BY <1>0, <1>9 DEF AuthInv
  <2> QED BY <1>12, <2>1 DEF AuthInv
<1>18. ConnInv(c)'
  BY <1>14, <1>15, <1>16, <1>17 DEF ConnInv
<1>19. \A g \in jobs' : g \in jobs /\ item[g] # c
  BY NoJobOf
<1>20. E \in SUBSET FDs /\ \A g \in E : item'[g] = None => interest'[g] = {}
  BY <1>6, NoFdIsNoFD, NoneAssumption
<1> HIDE DEF E
<1> QED BY <1>8, <1>10, <1>11, <1>12, <1>18, <1>19, <1>20, OneConnectionStep

(* connecting_write: next address, give up, success or failure. *)
LEMMA ConnectingWrite ==
  ASSUME ProxyInv, NEW c \in Conns, NEW f \in FDs, connecting_write(f, c)
  PROVE  ProxyInv'
<1> DEFINE r == conn[c]
           cf == ClientFd(c)
           o == OriginFd(c)
           failed == [r EXCEPT !.status = "failed"]
<1>1. /\ handle_write(f, c) /\ State(c) = "REQUEST_CONNECTING"
      /\ UNCHANGED <<jobs, crashed>>
  BY DEF connecting_write, State
<1>2. /\ IsEnd(c, f) /\ Live(c) /\ item[f] = c /\ "WRITE" \in interest[f]
      /\ ready' \subseteq FDs \X Ops
  BY <1>1, EventIsOfAnEnd DEF handle_write, Ops
<1>3. /\ TypeOK /\ r \in Connections /\ EndsInv(c) /\ PolledInv(c)
      /\ r.resolver = NoFd /\ (r.method = "no_auth" \/ r.accepted)
      /\ WellFormed(r.read_buffer) /\ WellFormed(r.write_buffer)
  BY <1>1, ProxyFacts DEF ThreadInv, AuthInv, BuffersInv
<1>4. /\ cf \in FDs /\ item[cf] = c /\ sock[cf] = "peer"
      /\ o \in FDs \cup {NoFd} /\ o # cf
      /\ r.client_fd = cf /\ r.origin_fd = o
  BY <1>2, <1>3, NoFdIsNoFD DEF EndsInv, Connections, OriginFd, ClientFd
<1>5. crashed' \in BOOLEAN /\ jobs' \subseteq jobs /\ \A g \in jobs' : item[g] # c
  BY <1>1, <1>3, NoJobOf DEF TypeOK
<1>6. r.status = "succeeded" => Attempting(c) /\ f = o
  <2>1. r.status = "succeeded" => Attempting(c)
    BY <1>1, <1>3 DEF PolledInv, GaveUp
  <2> QED BY <1>2, <2>1 DEF Attempting, IsEnd
<1>7. /\ failed \in Connections /\ failed.client_fd = cf /\ failed.origin_fd = o
      /\ failed.state = r.state /\ failed.resolver = NoFd /\ failed.references = r.references
      /\ failed.method = r.method /\ failed.accepted = r.accepted
      /\ failed.read_buffer = r.read_buffer /\ failed.write_buffer = r.write_buffer
      /\ failed.addrs = r.addrs
  <2>1. failed \in Connections
    BY <1>3, FieldTypes
  <2> QED BY <1>3, <1>4, <2>1 DEF Connections
\* The next address, whatever the socket's state.
<1>8. ASSUME NEW w \in {r, failed}, HasNextAddress(w),
             connection(c, NextAddress(w), f, IF o = NoFd THEN "none" ELSE sock[o])
      PROVE  ProxyInv'
  <2> DEFINE s == NextAddress(w)
             k == IF o = NoFd THEN "none" ELSE sock[o]
  <2>1. s = [w EXCEPT !.addrs = w.addrs - 1]
    BY DEF NextAddress
  <2>2. /\ w \in Connections /\ w.client_fd = cf /\ w.origin_fd = o
        /\ w.state = r.state /\ w.resolver = NoFd /\ w.references = r.references
        /\ w.method = r.method /\ w.accepted = r.accepted
        /\ w.read_buffer = r.read_buffer /\ w.write_buffer = r.write_buffer
    BY <1>3, <1>4, <1>7
  <2>3. w.addrs - 1 \in 0..MaxAddrs
    BY <1>8, <2>2, Socks5Assumption DEF HasNextAddress, Connections
  <2>4. s \in Connections
    <3>1. \A x \in 0..MaxAddrs : [w EXCEPT !.addrs = x] \in Connections
      BY <2>2, FieldTypes
    <3> QED BY <2>1, <2>3, <3>1
  <2>5. /\ s.client_fd = cf /\ s.origin_fd = o
        /\ s.state = "REQUEST_CONNECTING" /\ s.resolver = NoFd /\ s.references = r.references
        /\ s.method = r.method /\ s.accepted = r.accepted
        /\ s.read_buffer = r.read_buffer /\ s.write_buffer = r.write_buffer
    BY <1>1, <2>1, <2>2 DEF Connections, State
  <2>6. connection(c, s, f, k) /\ OriginOf(c, s.origin_fd, k)
    BY <1>1, <1>8, <2>5 DEF OriginOf
  <2> HIDE DEF s, k
  <2>7. (s.method = "no_auth" \/ s.accepted) /\ WellFormed(s.read_buffer) /\ WellFormed(s.write_buffer)
    BY <1>3, <2>5
  <2>8. s.references = conn[c].references /\ s.client_fd = ClientFd(c)
    BY <2>5
  <2> HIDE DEF r, o, cf
  <2> QED BY <1>2, <1>5, <2>4, <2>5, <2>6, <2>7, <2>8, ConnectionStep
<1>9. CASE ConnectingAfterFailure(f, c)
  <2>1. r.status = "failed"
    BY <1>9 DEF ConnectingAfterFailure
  <2>2. CASE HasNextAddress(r)
    BY <1>8, <1>9, <2>2 DEF ConnectingAfterFailure, OriginFd
  <2>3. CASE ~HasNextAddress(r)
    <3>1. GiveUpOrigin(c)
      BY <1>9, <2>3 DEF ConnectingAfterFailure
    <3> QED BY <1>1, <1>2, <2>1, <3>1, GiveUpStep
  <2> QED BY <2>2, <2>3
<1>10. CASE ConnectingSucceeds(f, c)
  <2>1. Attempting(c) /\ f = o
    BY <1>6, <1>10 DEF ConnectingSucceeds
  <2>2. /\ conn' = [conn EXCEPT ![c] = ToRequestWrite(r)] /\ UNCHANGED <<sock, item>>
        /\ interest' = set_interest(set_interest(interest, cf, {"WRITE"}), o, {})
    BY <1>10, <2>1 DEF ConnectingSucceeds, ClientFd
  <2>3. /\ interest' \in [FDs -> SUBSET Ops] /\ interest'[cf] = {"WRITE"} /\ interest'[o] = {}
        /\ \A g \in FDs : g # cf /\ g # o => interest'[g] = interest[g]
    <3> DEFINE t == set_interest(interest, cf, {"WRITE"})
    <3>1. /\ t \in [FDs -> SUBSET Ops] /\ t[cf] = {"WRITE"}
          /\ \A g \in FDs : g # cf => t[g] = interest[g]
      BY <1>3, <1>4, SetInterestFacts, NoneAssumption DEF TypeOK, Ops
    <3>2. interest' = set_interest(t, o, {})
      BY <2>2
    <3> HIDE DEF t
    <3>3. o \in FDs /\ item[o] # None /\ {} \in SUBSET Ops
      BY <1>2, <2>1, NoneAssumption
    <3> QED BY <1>4, <3>1, <3>2, <3>3, SetInterestFacts
  <2>4. o # NoFd /\ item[o] = c
    BY <2>1 DEF Attempting
  <2>5. /\ conn' = [conn EXCEPT ![c] = ToRequestWrite(r)] /\ r \in Connections
        /\ r.client_fd = ClientFd(c) /\ r.origin_fd = OriginFd(c) /\ r.resolver = conn[c].resolver
        /\ r.references = conn[c].references /\ r.method = conn[c].method
        /\ r.accepted = conn[c].accepted
        /\ r.read_buffer = conn[c].read_buffer /\ r.write_buffer = conn[c].write_buffer
    BY <1>3, <1>4, <2>2
  <2> HIDE DEF r
  <2> QED BY <1>1, <1>2, <2>2, <2>3, <2>4, <2>5, AnswerStep
<1>11. CASE ConnectingFails(f, c)
  <2>1. Attempting(c) /\ f = o /\ sock[o] = "refused" /\ o # NoFd /\ item[o] = c
    BY <1>6, <1>11 DEF ConnectingFails, Attempting
  <2>2. CASE HasNextAddress(failed)
    BY <1>8, <1>11, <2>1, <2>2 DEF ConnectingFails
  <2>3. CASE ~HasNextAddress(failed)
    <3>1. /\ conn' = [conn EXCEPT ![c] = ToRequestWrite(failed)]
          /\ interest' = InterestToClient(interest, failed)
          /\ UNCHANGED <<sock, item>>
      BY <1>11, <2>3 DEF ConnectingFails
    <3>2. /\ failed \in Connections
          /\ failed.client_fd = ClientFd(c) /\ failed.origin_fd = OriginFd(c)
          /\ failed.resolver = conn[c].resolver
          /\ failed.references = conn[c].references /\ failed.method = conn[c].method
          /\ failed.accepted = conn[c].accepted
          /\ failed.read_buffer = conn[c].read_buffer /\ failed.write_buffer = conn[c].write_buffer
      BY <1>3, <1>7
    <3> HIDE DEF failed
    <3>3. /\ interest' \in [FDs -> SUBSET Ops] /\ interest'[cf] = {"WRITE"} /\ interest'[o] = {}
          /\ \A g \in FDs : g # cf /\ g # o => interest'[g] = interest[g]
      <4>1. /\ interest \in [FDs -> SUBSET Ops] /\ o \in FDs /\ item[o] # None
            /\ failed.client_fd \in FDs /\ item[failed.client_fd] # None
            /\ failed.origin_fd # failed.client_fd
            /\ failed.client_fd = cf /\ failed.origin_fd = o
        BY <1>2, <1>3, <1>4, <2>1, <3>2, NoneAssumption DEF TypeOK
      <4> QED BY <1>4, <3>1, <3>2, <4>1, InterestToClientFacts
    <3> QED BY <1>1, <1>2, <2>1, <3>1, <3>2, <3>3, AnswerStep
  <2> QED BY <2>2, <2>3
<1> QED BY <1>9, <1>10, <1>11 DEF connecting_write
-----------------------------------------------------------------------------
(* The reply to the request, and the relay. *)

(* copy_compute_interests on both copy_st's sets the interests of the two ends. *)
LEMMA CopyInterestsFacts ==
  ASSUME ProxyInv, NEW c \in Conns, Live(c),
         NEW r \in Connections, r.client_fd = ClientFd(c), r.origin_fd = OriginFd(c),
         OriginFd(c) # NoFd, item[OriginFd(c)] = c
  PROVE  /\ CopyInterests(r) \in [FDs -> SUBSET Ops]
         /\ CopyInterests(r)[ClientFd(c)] = ClientInterest(r)
         /\ CopyInterests(r)[OriginFd(c)] = OriginInterest(r)
         /\ \A g \in FDs : g # ClientFd(c) /\ g # OriginFd(c) =>
              CopyInterests(r)[g] = interest[g]
<1> DEFINE t == set_interest(interest, r.origin_fd, OriginInterest(r))
<1>1. /\ ClientFd(c) \in FDs /\ item[ClientFd(c)] = c /\ ClientFd(c) # OriginFd(c)
      /\ OriginFd(c) \in FDs /\ interest \in [FDs -> SUBSET Ops]
  BY ProxyFacts DEF EndsInv, OriginFd, ClientFd, Connections, TypeOK
<1>2. OriginInterest(r) \in SUBSET Ops /\ ClientInterest(r) \in SUBSET Ops
  BY DEF OriginInterest, ClientInterest, copy_compute_interests, Ops
<1>3. /\ t \in [FDs -> SUBSET Ops] /\ t[OriginFd(c)] = OriginInterest(r)
      /\ \A g \in FDs : g # OriginFd(c) => t[g] = interest[g]
  BY <1>1, <1>2, SetInterestFacts, NoneAssumption
<1>4. CopyInterests(r) = set_interest(t, ClientFd(c), ClientInterest(r))
  BY DEF CopyInterests
<1> HIDE DEF t
<1> QED BY <1>1, <1>2, <1>3, <1>4, SetInterestFacts, NoneAssumption

\* What DirectionsInv says of the record r.
Directions(r) ==
  /\ \A s \in Sides : "READ" \in r.mask[s] <=> "WRITE" \in r.mask[Other(s)]
  /\ \E s \in Sides : "READ" \in r.mask[s]

(* A step into the relay, or of it. *)
LEMMA RelayStep ==
  ASSUME ProxyInv, NEW c \in Conns, State(c) \in {"REQUEST_WRITE", "COPY"},
         OriginFd(c) # NoFd,
         NEW r \in Connections, conn' = [conn EXCEPT ![c] = r],
         r.state = "COPY", r.client_fd = ClientFd(c), r.origin_fd = OriginFd(c),
         r.references = conn[c].references, r.resolver = conn[c].resolver,
         r.method = conn[c].method, r.accepted = conn[c].accepted,
         WellFormed(r.read_buffer), WellFormed(r.write_buffer), Directions(r),
         interest' = CopyInterests(r),
         UNCHANGED <<sock, item, jobs, crashed>>, ready' \subseteq FDs \X Ops
  PROVE  ProxyInv'
<1>0. /\ TypeOK /\ EndsInv(c) /\ ThreadInv(c) /\ AuthInv(c) /\ conn[c] \in Connections
  BY ProxyFacts
<1>1. /\ Live(c) /\ item[OriginFd(c)] = c /\ ClientFd(c) \in FDs /\ item[ClientFd(c)] = c
      /\ conn[c].resolver = NoFd /\ conn[c].references \in Nat
      /\ conn[c].method = "no_auth" \/ conn[c].accepted
  BY <1>0 DEF Live, State, EndsInv, ThreadInv, AuthInv, Connections
<1>2. /\ interest' \in [FDs -> SUBSET Ops]
      /\ interest'[ClientFd(c)] = ClientInterest(r)
      /\ interest'[OriginFd(c)] = OriginInterest(r)
      /\ \A g \in FDs : g # ClientFd(c) /\ g # OriginFd(c) => interest'[g] = interest[g]
  BY <1>1, CopyInterestsFacts
<1>3. conn'[c] = r
  BY <1>0 DEF TypeOK
<1>4. PolledInv(c)' /\ ThreadInv(c)'
  BY <1>1, <1>2, <1>3 DEF PolledInv, ThreadInv, State, ClientFd, OriginFd
<1>5. DirectionsInv(c)'
  BY <1>3 DEF DirectionsInv, Directions
<1>6. AuthInv(c)'
  <2>1. r.method = "no_auth" \/ r.accepted
    BY <1>1
  <2> QED BY <1>3, <2>1 DEF AuthInv, State
<1>7. /\ sock' \in [FDs -> SockStates] /\ jobs' \subseteq FDs /\ crashed' \in BOOLEAN
      /\ r.references >= conn[c].references /\ r.state \notin {"free", "DONE"}
      /\ r.state \notin EarlyStates
      /\ \A g \in jobs' : g \in jobs /\ item[g] # c
  BY <1>0, <1>1, NoJobOf DEF TypeOK, EarlyStates
<1>8. \A g \in FDs : interest'[g] = interest[g] \/ (IsEnd(c, g) /\ item[g] = c)
  BY <1>1, <1>2 DEF IsEnd
<1> QED BY <1>1, <1>2, <1>4, <1>5, <1>6, <1>7, <1>8, LocalStep

(* request_write: into the relay, or to DONE. *)
LEMMA RequestWrite ==
  ASSUME ProxyInv, NEW c \in Conns, NEW f \in FDs, request_write(f, c)
  PROVE  ProxyInv'
<1> DEFINE r == conn[c]
<1>1. handle_write(f, c) /\ State(c) = "REQUEST_WRITE"
  BY DEF request_write, State
<1>2. Live(c) /\ ready' \subseteq FDs \X Ops
  BY <1>1, EventIsOfAnEnd DEF handle_write, Ops
<1>3. /\ TypeOK /\ r \in Connections /\ EndsInv(c) /\ PolledInv(c) /\ AuthInv(c) /\ ThreadInv(c)
      /\ r.resolver = NoFd /\ WellFormed(r.read_buffer) /\ WellFormed(r.write_buffer)
      /\ r.references \in Nat
  BY <1>1, ProxyFacts DEF ThreadInv, BuffersInv, Connections
<1>4. CASE socksv5_done(c)
  BY <1>1, <1>2, <1>4, DoneStep
<1>5. ASSUME NEW b \in AfterSend(r.write_buffer)
      PROVE  LET w == [r EXCEPT !.write_buffer = b] IN
             /\ w \in Connections /\ w.state = r.state /\ w.client_fd = ClientFd(c)
             /\ w.origin_fd = OriginFd(c) /\ w.references = r.references
             /\ w.resolver = r.resolver /\ w.method = r.method /\ w.accepted = r.accepted
             /\ w.status = r.status /\ w.read_buffer = r.read_buffer /\ w.write_buffer = b
             /\ WellFormed(b)
  <2>1. WellFormed(b) /\ b \in Cursors
    BY <1>3, <1>5, AfterSendIsWellFormed, WellFormedIsCursors
  <2>2. [r EXCEPT !.write_buffer = b] \in Connections
    BY <1>3, <2>1, FieldTypes
  <2> QED BY <1>3, <2>1, <2>2 DEF Connections, ClientFd, OriginFd
<1>6. ASSUME NEW b \in AfterSend(r.write_buffer),
             conn' = [conn EXCEPT ![c].write_buffer = b],
             UNCHANGED <<sock, item, interest, jobs, crashed>>
      PROVE  ProxyInv'
  <2> DEFINE w == [r EXCEPT !.write_buffer = b]
  <2>1. /\ w \in Connections /\ w.state = r.state /\ w.client_fd = ClientFd(c)
        /\ w.origin_fd = OriginFd(c) /\ w.references = r.references
        /\ w.resolver = r.resolver /\ w.method = r.method /\ w.accepted = r.accepted
        /\ w.status = r.status /\ w.read_buffer = r.read_buffer /\ w.write_buffer = b
        /\ WellFormed(b)
    BY <1>5
  <2>2. conn' = [conn EXCEPT ![c] = w]
    BY <1>6
  <2> HIDE DEF w
  <2>3. conn'[c] = w
    BY <1>3, <2>2 DEF TypeOK
  <2>4. PolledInv(c)' /\ DirectionsInv(c)' /\ ThreadInv(c)'
    BY <1>1, <1>3, <1>6, <2>1, <2>3
       DEF PolledInv, DirectionsInv, ThreadInv, State, ClientFd, OriginFd
  <2>5. AuthInv(c)'
    <3>1. w.method = "no_auth" \/ w.accepted
      BY <1>1, <1>3, <2>1 DEF AuthInv
    <3> QED BY <1>1, <2>1, <2>3, <3>1 DEF AuthInv, State
  <2>6. /\ w.state = "REQUEST_WRITE" /\ w.state \notin EarlyStates
        /\ w.state \notin {"free", "DONE"} /\ w.references >= conn[c].references
        /\ w.origin_fd # NoFd => item[w.origin_fd] = c
        /\ sock' \in [FDs -> SockStates] /\ interest' \in [FDs -> SUBSET Ops]
        /\ jobs' \subseteq FDs /\ crashed' \in BOOLEAN
        /\ \A g \in jobs' : g \in jobs /\ item[g] # c
        /\ WellFormed(w.read_buffer) /\ WellFormed(w.write_buffer)
    BY <1>1, <1>2, <1>3, <1>6, <2>1, NoJobOf DEF TypeOK, EarlyStates, EndsInv, State
  <2> HIDE DEF r
  <2> QED BY <1>2, <1>6, <2>1, <2>2, <2>4, <2>5, <2>6, LocalStep
<1>7. ASSUME NEW b \in AfterSend(r.write_buffer), r.status = "succeeded",
             conn' = [conn EXCEPT ![c] = copy_init([r EXCEPT !.write_buffer = b])],
             interest' = CopyInterests(copy_init([r EXCEPT !.write_buffer = b])),
             UNCHANGED <<sock, item, jobs, crashed>>
      PROVE  ProxyInv'
  <2> DEFINE w == [r EXCEPT !.write_buffer = b]
             m == copy_init(w)
  <2>1. /\ w \in Connections /\ w.client_fd = ClientFd(c)
        /\ w.origin_fd = OriginFd(c) /\ w.references = r.references
        /\ w.resolver = r.resolver /\ w.method = r.method /\ w.accepted = r.accepted
        /\ w.read_buffer = r.read_buffer /\ w.write_buffer = b
        /\ WellFormed(b)
    BY <1>5
  <2>2. conn' = [conn EXCEPT ![c] = m] /\ interest' = CopyInterests(m)
    BY <1>7
  <2> HIDE DEF w
  <2>3. /\ m \in Connections /\ m.state = "COPY" /\ m.client_fd = ClientFd(c)
        /\ m.origin_fd = OriginFd(c) /\ m.references = r.references
        /\ m.resolver = r.resolver /\ m.method = r.method /\ m.accepted = r.accepted
        /\ m.read_buffer = r.read_buffer /\ m.write_buffer = b
        /\ m.mask = [s \in Sides |-> Ops]
    <3>1. "COPY" \in States /\ [s \in Sides |-> Ops] \in [Sides -> SUBSET Ops]
      BY DEF States
    <3>2. m \in Connections
      BY <2>1, <3>1, FieldTypes DEF copy_init
    <3> QED BY <2>1, <3>2 DEF copy_init, Connections
  <2> HIDE DEF m
  <2>4. Directions(m)
    BY <2>3 DEF Directions, Sides, Other, Ops
  <2>5. OriginFd(c) # NoFd
    BY <1>1, <1>3, <1>7 DEF PolledInv
  <2>6. WellFormed(m.read_buffer) /\ WellFormed(m.write_buffer)
    BY <1>3, <2>1, <2>3
  <2> HIDE DEF r
  <2>7. /\ m.references = conn[c].references /\ m.resolver = conn[c].resolver
        /\ m.method = conn[c].method /\ m.accepted = conn[c].accepted
    BY <2>3 DEF r
  <2> QED BY <1>1, <1>2, <1>7, <2>2, <2>3, <2>4, <2>5, <2>6, <2>7, RelayStep
<1> QED BY <1>4, <1>6, <1>7 DEF request_write

(* The end of copy_read and copy_write: a copy_st that can do nothing more ends
   the connection, although the other one may still have work. *)
LEMMA CopyStepKeeps ==
  ASSUME ProxyInv, NEW c \in Conns, State(c) = "COPY", NEW s \in Sides,
         NEW r \in Connections, CopyStep(c, r, s),
         r.state = "COPY", r.client_fd = ClientFd(c), r.origin_fd = OriginFd(c),
         r.references = conn[c].references, r.resolver = conn[c].resolver,
         r.method = conn[c].method, r.accepted = conn[c].accepted,
         WellFormed(r.read_buffer), WellFormed(r.write_buffer),
         r.mask[s] # {} => Directions(r),
         ready' \subseteq FDs \X Ops
  PROVE  ProxyInv'
<1>1. Live(c) /\ OriginFd(c) # NoFd
  BY ProxyFacts DEF Live, State, PolledInv
<1>2. CASE r.mask[s] = {}
  BY <1>1, <1>2, DoneStep DEF CopyStep
<1>3. CASE r.mask[s] # {}
  <2>1. /\ conn' = [conn EXCEPT ![c] = r] /\ interest' = CopyInterests(r)
        /\ UNCHANGED <<sock, item, jobs, crashed>>
    BY <1>3 DEF CopyStep
  <2> QED BY <1>1, <1>3, <2>1, RelayStep
<1> QED BY <1>2, <1>3

(* What an event on the relay finds. *)
LEMMA CopyFacts ==
  ASSUME ProxyInv, NEW c \in Conns, NEW f \in FDs, NEW op \in Ops,
         handle_event(f, op, c), State(c) = "COPY"
  PROVE  LET r == conn[c] IN
         /\ r \in Connections /\ r.state = "COPY" /\ Directions(r)
         /\ r.client_fd = ClientFd(c) /\ r.origin_fd = OriginFd(c)
         /\ WellFormed(r.read_buffer) /\ WellFormed(r.write_buffer)
         /\ SideOf(f, r) \in Sides /\ ready' \subseteq FDs \X Ops
BY EventIsOfAnEnd, ProxyFacts
   DEF DirectionsInv, Directions, BuffersInv, State, ClientFd, OriginFd, SideOf, Sides

(* A copy_st that goes on when its input, or its output, has ended does so for
   the other direction, which is open at both of its ends. *)
LEMMA EndsOfDirections ==
  ASSUME NEW r \in Connections, Directions(r), NEW s \in Sides,
         NEW m \in {EndOfInput(r, s), EndOfOutput(r, s)}
  PROVE  /\ m \in Connections /\ m.state = r.state /\ m.client_fd = r.client_fd
         /\ m.origin_fd = r.origin_fd /\ m.references = r.references
         /\ m.resolver = r.resolver /\ m.method = r.method /\ m.accepted = r.accepted
         /\ m.read_buffer = r.read_buffer /\ m.write_buffer = r.write_buffer
         /\ m.mask[s] # {} => Directions(m)
<1> DEFINE q == Other(s)
<1>1. q \in Sides /\ q # s /\ Other(q) = s /\ Sides = {s, q}
  BY DEF Sides, Other
<1>2. r.mask \in [Sides -> SUBSET Ops]
  BY DEF Connections
<1>3. PICK a \in Ops, b \in Ops :
        /\ a # b /\ Ops = {a, b}
        /\ m = [r EXCEPT !.mask = [[r.mask EXCEPT ![s] = @ \ {a}] EXCEPT ![q] = @ \ {b}]]
  <2>1. CASE m = EndOfInput(r, s)
    <3>1. m = [r EXCEPT !.mask = [[r.mask EXCEPT ![s] = @ \ {"READ"}] EXCEPT ![q] = @ \ {"WRITE"}]]
      BY <1>1, <1>2, <2>1 DEF EndOfInput, Connections
    <3>2. "READ" # "WRITE" /\ Ops = {"READ", "WRITE"}
      BY DEF Ops
    <3> QED BY <3>1, <3>2
  <2>2. CASE m = EndOfOutput(r, s)
    <3>1. m = [r EXCEPT !.mask = [[r.mask EXCEPT ![s] = @ \ {"WRITE"}] EXCEPT ![q] = @ \ {"READ"}]]
      BY <1>1, <1>2, <2>2 DEF EndOfOutput, Connections
    <3>2. "READ" # "WRITE" /\ Ops = {"WRITE", "READ"}
      BY DEF Ops
    <3> QED BY <3>1, <3>2
  <2> QED BY <2>1, <2>2
<1> DEFINE mask == [[r.mask EXCEPT ![s] = @ \ {a}] EXCEPT ![q] = @ \ {b}]
<1> HIDE DEF q
<1>4. /\ mask \in [Sides -> SUBSET Ops]
      /\ mask[s] = r.mask[s] \ {a} /\ mask[q] = r.mask[q] \ {b}
  BY <1>1, <1>2
<1>5. m = [r EXCEPT !.mask = mask]
  BY <1>3
<1> HIDE DEF mask
<1>6. m \in Connections
  BY <1>4, <1>5, FieldTypes
<1>7. /\ m.mask = mask /\ m.state = r.state /\ m.client_fd = r.client_fd
      /\ m.origin_fd = r.origin_fd /\ m.references = r.references
      /\ m.resolver = r.resolver /\ m.method = r.method /\ m.accepted = r.accepted
      /\ m.read_buffer = r.read_buffer /\ m.write_buffer = r.write_buffer
  BY <1>5 DEF Connections
<1>8. ASSUME m.mask[s] # {} PROVE Directions(m)
  <2>1. b \in r.mask[s]
    BY <1>2, <1>3, <1>4, <1>7, <1>8
  <2>2. /\ "READ" \in r.mask[s] <=> "WRITE" \in r.mask[q]
        /\ "READ" \in r.mask[q] <=> "WRITE" \in r.mask[s]
    BY <1>1 DEF Directions, q
  <2>3. \/ a = "READ" /\ b = "WRITE"
        \/ a = "WRITE" /\ b = "READ"
    BY <1>3 DEF Ops
  <2>4. /\ "READ" \in mask[s] <=> "WRITE" \in mask[q]
        /\ "READ" \in mask[q] <=> "WRITE" \in mask[s]
        /\ "READ" \in mask[s] \/ "READ" \in mask[q]
    BY <1>4, <2>1, <2>2, <2>3
  <2> QED BY <1>1, <1>7, <2>4 DEF Directions, q
<1> QED BY <1>6, <1>7, <1>8

(* Bytes were received or sent for the relay: one buffer changes. *)
LEMMA CopyBufferStep ==
  ASSUME ProxyInv, NEW c \in Conns, State(c) = "COPY", NEW s \in Sides,
         NEW b, WellFormed(b),
         \/ CopyStep(c, [conn[c] EXCEPT !.read_buffer = b], s)
         \/ CopyStep(c, [conn[c] EXCEPT !.write_buffer = b], s),
         ready' \subseteq FDs \X Ops
  PROVE  ProxyInv'
<1>0. /\ conn[c] \in Connections /\ WellFormed(conn[c].read_buffer)
      /\ WellFormed(conn[c].write_buffer) /\ Directions(conn[c]) /\ b \in Cursors
  BY ProxyFacts, WellFormedIsCursors DEF BuffersInv, DirectionsInv, Directions
<1>1. PICK r \in Connections :
        /\ CopyStep(c, r, s)
        /\ \/ r = [conn[c] EXCEPT !.read_buffer = b]
           \/ r = [conn[c] EXCEPT !.write_buffer = b]
  <2>1. [conn[c] EXCEPT !.read_buffer = b] \in Connections
    BY <1>0, FieldTypes
  <2>2. [conn[c] EXCEPT !.write_buffer = b] \in Connections
    BY <1>0, FieldTypes
  <2> QED BY <2>1, <2>2
<1>2. /\ r.state = "COPY" /\ r.client_fd = ClientFd(c) /\ r.origin_fd = OriginFd(c)
      /\ r.references = conn[c].references /\ r.resolver = conn[c].resolver
      /\ r.method = conn[c].method /\ r.accepted = conn[c].accepted
      /\ r.mask = conn[c].mask
      /\ r.read_buffer \in {b, conn[c].read_buffer}
      /\ r.write_buffer \in {b, conn[c].write_buffer}
  BY <1>0, <1>1 DEF Connections, State, ClientFd, OriginFd
<1>3. Directions(r) /\ WellFormed(r.read_buffer) /\ WellFormed(r.write_buffer)
  BY <1>0, <1>2 DEF Directions
<1> QED BY <1>1, <1>2, <1>3, CopyStepKeeps

(* copy_read: input, or its end. *)
LEMMA CopyRead ==
  ASSUME ProxyInv, NEW c \in Conns, NEW f \in FDs, copy_read(f, c)
  PROVE  ProxyInv'
<1> DEFINE r == conn[c]
           s == SideOf(f, r)
<1>1. handle_event(f, "READ", c) /\ State(c) = "COPY" /\ "READ" \in Ops
  BY DEF copy_read, handle_read, State, Ops
<1>2. /\ r \in Connections /\ r.state = "COPY" /\ Directions(r)
      /\ r.client_fd = ClientFd(c) /\ r.origin_fd = OriginFd(c)
      /\ WellFormed(r.read_buffer) /\ WellFormed(r.write_buffer)
      /\ s \in Sides /\ ready' \subseteq FDs \X Ops
  BY <1>1, CopyFacts
<1> HIDE DEF s
<1>3. CASE CopyStep(c, EndOfInput(r, s), s)
  <2> DEFINE m == EndOfInput(r, s)
  <2>1. /\ m \in Connections /\ m.state = r.state /\ m.client_fd = r.client_fd
        /\ m.origin_fd = r.origin_fd /\ m.references = r.references
        /\ m.resolver = r.resolver /\ m.method = r.method /\ m.accepted = r.accepted
        /\ m.read_buffer = r.read_buffer /\ m.write_buffer = r.write_buffer
        /\ m.mask[s] # {} => Directions(m)
    BY <1>2, EndsOfDirections
  <2> HIDE DEF m
  <2>2. CopyStep(c, m, s)
    BY <1>3 DEF m
  <2> QED BY <1>1, <1>2, <2>1, <2>2, CopyStepKeeps
<1>4. ASSUME NEW n \in 1..WritableBytes(r.read_buffer),
             CopyStep(c, [r EXCEPT !.read_buffer = buffer_write_adv(@, n)], s)
      PROVE  ProxyInv'
  BY <1>1, <1>2, <1>4, WriteAdvIsWellFormed, CopyBufferStep
<1>5. ASSUME NEW n \in 1..WritableBytes(r.write_buffer),
             CopyStep(c, [r EXCEPT !.write_buffer = buffer_write_adv(@, n)], s)
      PROVE  ProxyInv'
  BY <1>1, <1>2, <1>5, WriteAdvIsWellFormed, CopyBufferStep
<1> QED BY <1>3, <1>4, <1>5 DEF copy_read, s

(* copy_write: output, or its end. *)
LEMMA CopyWrite ==
  ASSUME ProxyInv, NEW c \in Conns, NEW f \in FDs, copy_write(f, c)
  PROVE  ProxyInv'
<1> DEFINE r == conn[c]
           s == SideOf(f, r)
<1>1. handle_event(f, "WRITE", c) /\ State(c) = "COPY" /\ "WRITE" \in Ops
  BY DEF copy_write, handle_write, State, Ops
<1>2. /\ r \in Connections /\ r.state = "COPY" /\ Directions(r)
      /\ r.client_fd = ClientFd(c) /\ r.origin_fd = OriginFd(c)
      /\ WellFormed(r.read_buffer) /\ WellFormed(r.write_buffer)
      /\ s \in Sides /\ ready' \subseteq FDs \X Ops
  BY <1>1, CopyFacts
<1> HIDE DEF s
<1>3. CASE CopyStep(c, EndOfOutput(r, s), s)
  <2> DEFINE m == EndOfOutput(r, s)
  <2>1. /\ m \in Connections /\ m.state = r.state /\ m.client_fd = r.client_fd
        /\ m.origin_fd = r.origin_fd /\ m.references = r.references
        /\ m.resolver = r.resolver /\ m.method = r.method /\ m.accepted = r.accepted
        /\ m.read_buffer = r.read_buffer /\ m.write_buffer = r.write_buffer
        /\ m.mask[s] # {} => Directions(m)
    BY <1>2, EndsOfDirections
  <2> HIDE DEF m
  <2>2. CopyStep(c, m, s)
    BY <1>3 DEF m
  <2> QED BY <1>1, <1>2, <2>1, <2>2, CopyStepKeeps
<1>4. ASSUME NEW b \in AfterSend(r.write_buffer),
             CopyStep(c, [r EXCEPT !.write_buffer = b], s)
      PROVE  ProxyInv'
  BY <1>1, <1>2, <1>4, AfterSendIsWellFormed, CopyBufferStep
<1>5. ASSUME NEW b \in AfterSend(r.read_buffer),
             CopyStep(c, [r EXCEPT !.read_buffer = b], s)
      PROVE  ProxyInv'
  BY <1>1, <1>2, <1>5, AfterSendIsWellFormed, CopyBufferStep
<1> QED BY <1>3, <1>4, <1>5 DEF copy_write, s
-----------------------------------------------------------------------------
(* New connections, the kernel and the loop. *)

LEMMA Accept ==
  ASSUME ProxyInv, socksv5_passive_accept
  PROVE  ProxyInv'
<1>1. PICK f \in FDs, c \in Conns :
        /\ IsNextFd(f) /\ item[f] = None /\ conn[c].state = "free"
        /\ conn' = [conn EXCEPT ![c] = NewConnection(f)]
        /\ sock' = [sock EXCEPT ![f] = "peer"]
        /\ item' = [item EXCEPT ![f] = c]
        /\ interest' = [interest EXCEPT ![f] = {"READ"}]
        /\ UNCHANGED <<ready, jobs, crashed>>
  BY DEF socksv5_passive_accept
<1> DEFINE n == NewConnection(f)
           E == {f}
<1>2. TypeOK /\ ItemsInv(c) /\ UnusedInv
  BY ProxyFacts
<1>3. /\ n \in Connections /\ n.state = "HELLO_READ" /\ n.references = 1
      /\ n.client_fd = f /\ n.origin_fd = NoFd /\ n.resolver = NoFd
      /\ WellFormed(n.read_buffer) /\ WellFormed(n.write_buffer)
  BY NewConnectionFacts, ResetIsWellFormed
<1>4. conn' = [conn EXCEPT ![c] = n]
  BY <1>1
<1> HIDE DEF n
<1>5. /\ conn'[c] = n /\ \A d \in Conns \ {c} : conn'[d] = conn[d]
      /\ sock'[f] = "peer" /\ item'[f] = c /\ interest'[f] = {"READ"}
      /\ \A g \in FDs \ {f} : sock'[g] = sock[g] /\ item'[g] = item[g] /\ interest'[g] = interest[g]
      /\ sock[f] = "closed"
  BY <1>1, <1>2, <1>4 DEF TypeOK, IsNextFd
<1>6. TypeOK'
  BY <1>1, <1>2, <1>3, <1>4 DEF TypeOK, SockStates, Ops
<1>7. \A g \in FDs : item[g] # c
  BY <1>1, <1>2 DEF ItemsInv, State
<1>8. TouchesOnly(c, E)
  BY <1>5 DEF TouchesOnly
<1>9. \A d \in Conns \ {c} : KeepsOther(d, E)
  BY <1>1, <1>5, NoneAssumption DEF KeepsOther
<1>10. /\ Live(c)' /\ State(c)' = "HELLO_READ" /\ ClientFd(c)' = f /\ OriginFd(c)' = NoFd
  BY <1>3, <1>5 DEF Live, State, ClientFd, OriginFd
<1>11. \A g \in FDs : item'[g] = c => g = f
  BY <1>5, <1>7
<1>12. EndsInv(c)' /\ ItemsInv(c)' /\ ReferencesInv(c)'
  <2>1. EndsInv(c)'
    BY <1>5, <1>10 DEF EndsInv
  <2>2. ItemsInv(c)'
    BY <1>10, <1>11 DEF ItemsInv, IsEnd
  <2>3. ReferencesInv(c)'
    BY <1>3, <1>5, <1>10, <1>11 DEF ReferencesInv
  <2> QED BY <2>1, <2>2, <2>3
<1>13. /\ PolledInv(c)' /\ DirectionsInv(c)' /\ ThreadInv(c)' /\ AuthInv(c)' /\ BuffersInv(c)'
  BY <1>3, <1>5, <1>10 DEF PolledInv, DirectionsInv, ThreadInv, AuthInv, BuffersInv
<1>14. ConnInv(c)'
  BY <1>12, <1>13 DEF ConnInv
<1>15. \A g \in jobs' : g \in jobs /\ item[g] # c
  BY <1>1, NoJobOf DEF State
<1>16. E \in SUBSET FDs /\ \A g \in E : item'[g] = None => interest'[g] = {}
  BY <1>5, NoneAssumption
<1> HIDE DEF E
<1> QED BY <1>6, <1>8, <1>9, <1>10, <1>14, <1>15, <1>16, OneConnectionStep

(* The end of a handshake leaves the socket open, and an origin's. *)
LEMMA ConnectEndsKeeps ==
  ASSUME ProxyInv, NEW o \in FDs, ConnectEnds(o)
  PROVE  ProxyInv'
<1>1. /\ sock[o] = "connecting"
      /\ UNCHANGED <<item, interest, conn, ready, jobs, crashed>>
  BY DEF ConnectEnds
<1>2. PICK s \in {"established", "refused"} : sock' = [sock EXCEPT ![o] = s]
  BY DEF ConnectEnds
<1>3. TypeOK'
  BY <1>1, <1>2 DEF ProxyInv, TypeOK, SockStates
<1>4. ASSUME NEW d \in Conns PROVE ConnInv(d)'
  <2>1. EndsInv(d)'
    BY <1>1, <1>2, <1>3, ProxyFacts
       DEF EndsInv, Live, State, ClientFd, OriginFd, TypeOK, Connections
  <2>2. /\ ItemsInv(d)' /\ ReferencesInv(d)' /\ PolledInv(d)' /\ DirectionsInv(d)'
        /\ ThreadInv(d)' /\ AuthInv(d)' /\ BuffersInv(d)'
    BY <1>1, ProxyFacts
       DEF ItemsInv, ReferencesInv, PolledInv, DirectionsInv, ThreadInv, AuthInv, BuffersInv,
           Live, IsEnd, Attempting, GaveUp, State, ClientFd, OriginFd
  <2> QED BY <2>1, <2>2 DEF ConnInv
<1>5. OriginsInv' /\ UnusedInv' /\ JobsInv'
  BY <1>1 DEF ProxyInv, OriginsInv, UnusedInv, JobsInv, Live, State, OriginFd
<1> QED BY <1>3, <1>4, <1>5 DEF ProxyInv

(* Every handler keeps the invariant. *)
LEMMA HandlerStep ==
  ASSUME ProxyInv, NEW c \in Conns, NEW f \in FDs, Handler(f, c)
  PROVE  ProxyInv'
BY HelloRead, HelloWrite, AuthRead, AuthWrite, RequestRead, RequestWrite,
   ResolvDone, ConnectingWrite, CopyRead, CopyWrite DEF Handler

(* pselect and passed-over events do. *)
LEMMA LoopStep ==
  ASSUME ProxyInv, selector_select \/ SkipEvent
  PROVE  ProxyInv'
<1>0. TypeOK
  BY DEF ProxyInv
<1>1. UNCHANGED <<sock, item, interest, conn, jobs>> /\ crashed' \in BOOLEAN
  BY <1>0 DEF selector_select, SkipEvent, TypeOK
<1>2. ready' \subseteq FDs \X Ops
  <2>1. CASE selector_select
    BY <2>1 DEF selector_select, SurelyReady, MayBeReady, Polled
  <2>2. CASE SkipEvent
    BY <1>0, <2>2 DEF SkipEvent, TypeOK
  <2> QED BY <2>1, <2>2
<1> QED BY <1>1, <1>2, OnlyReadyChanges
-----------------------------------------------------------------------------
(* The invariant of the whole proxy. *)

LEMMA InitProxy == Init => ProxyInv
<1> SUFFICES ASSUME Init PROVE ProxyInv
  OBVIOUS
<1>1. TypeOK
  BY FreeConnectionFacts DEF Init, TypeOK, SockStates
<1>2. ASSUME NEW c \in Conns PROVE ConnInv(c)
  <2>1. /\ conn[c] = FreeConnection /\ \A f \in FDs : item[f] # c
    BY NoneAssumption DEF Init
  <2>2. /\ State(c) = "free" /\ ~Live(c) /\ conn[c].resolver = NoFd
        /\ WellFormed(conn[c].read_buffer) /\ WellFormed(conn[c].write_buffer)
    BY <2>1, FreeConnectionFacts, ResetIsWellFormed DEF State, Live
  <2> QED
    BY <2>1, <2>2 DEF ConnInv, EndsInv, ItemsInv, ReferencesInv, PolledInv, DirectionsInv,
       ThreadInv, AuthInv, BuffersInv
<1>3. OriginsInv /\ UnusedInv /\ JobsInv
  BY FreeConnectionFacts DEF Init, OriginsInv, UnusedInv, JobsInv, Live
<1> QED BY <1>1, <1>2, <1>3 DEF ProxyInv

(* ProxyInv is inductive. *)
LEMMA NextProxy == ProxyInv /\ [Next]_vars => ProxyInv'
<1> SUFFICES ASSUME ProxyInv, [Next]_vars PROVE ProxyInv'
  OBVIOUS
<1>1. CASE MainLoop
  BY <1>1, HandlerStep, LoopStep DEF MainLoop
<1>2. CASE socksv5_passive_accept
  BY <1>2, Accept
<1>3. ASSUME NEW c \in Conns, request_resolv_blocking(c) PROVE ProxyInv'
  <2>1. crashed' \in BOOLEAN
    BY <1>3 DEF request_resolv_blocking, ProxyInv, TypeOK
  <2> QED BY <1>3, <2>1, ResolverThread
<1>4. ASSUME NEW o \in FDs, ConnectEnds(o) PROVE ProxyInv'
  BY <1>4, ConnectEndsKeeps
<1>5. CASE UNCHANGED vars
  BY <1>5, OnlyReadyChanges DEF vars, ProxyInv, TypeOK
<1> QED BY <1>1, <1>2, <1>3, <1>4, <1>5 DEF Next
-----------------------------------------------------------------------------
(* What the invariant implies. *)

LEMMA HandlersFromInv == ProxyInv => EveryEventHasAHandler
<1> SUFFICES ASSUME ProxyInv, NEW f \in FDs, item[f] # None
             PROVE  LET st == conn[item[f]].state IN
                    /\ "READ" \in interest[f] => st \in ReadStates
                    /\ "WRITE" \in interest[f] => st \in WriteStates
  BY DEF EveryEventHasAHandler
<1> DEFINE c == item[f]
<1>1. c \in Conns
  BY DEF ProxyInv, TypeOK
<1>2. /\ EndsInv(c) /\ ItemsInv(c) /\ PolledInv(c) /\ conn[c] \in Connections
  BY <1>1, ProxyFacts
<1>3. CASE IsEnd(c, f)
  <2>1. Live(c) /\ (f = ClientFd(c) \/ (f = OriginFd(c) /\ OriginFd(c) # NoFd))
    BY <1>1, <1>2, <1>3, NoFdIsNoFD DEF IsEnd
  <2>2. State(c) \in States \ {"free", "DONE"}
    BY <1>2, <2>1 DEF Live, State, Connections
  <2>3. f = OriginFd(c) /\ OriginFd(c) # NoFd => State(c) \notin EarlyStates
    BY <1>2, <2>1 DEF EndsInv
  <2>4. CASE f = ClientFd(c)
    BY <1>2, <2>2, <2>4
       DEF PolledInv, Attempting, GaveUp, State, States, ReadStates, WriteStates
  <2>5. CASE f = OriginFd(c) /\ OriginFd(c) # NoFd
    BY <1>2, <2>2, <2>3, <2>5
       DEF PolledInv, Attempting, GaveUp, State, States, EarlyStates, ReadStates, WriteStates
  <2> QED BY <2>1, <2>4, <2>5
<1>4. CASE ~IsEnd(c, f)
  BY <1>2, <1>4 DEF ItemsInv
<1> QED BY <1>3, <1>4

(* ... a job's connection waits for it; its thread's parser is there. *)
LEMMA JobsFromInv == ProxyInv => JobsBelongToResolv /\ ParserOutlivesResolver
BY ProxyFacts DEF ProxyInv, JobsInv, ThreadInv, EndsInv, Live, State, ClientFd,
   JobsBelongToResolv, ParserOutlivesResolver

(* ... descriptors to unregister are registered, items have live structs. *)
LEMMA RegistrationsFromInv == ProxyInv => DoneCanUnregister /\ ItemsPointToLiveStructs
<1> SUFFICES ASSUME ProxyInv PROVE DoneCanUnregister /\ ItemsPointToLiveStructs
  OBVIOUS
<1>1. DoneCanUnregister
  BY ProxyFacts DEF EndsInv, State, ClientFd, OriginFd, DoneCanUnregister
<1>2. ASSUME NEW f \in FDs, item[f] # None PROVE conn[item[f]].references > 0
  <2>1. item[f] \in Conns
    BY <1>2 DEF ProxyInv, TypeOK
  <2> QED BY <2>1, ProxyFacts DEF ReferencesInv, Connections
<1> QED BY <1>1, <1>2 DEF ItemsPointToLiveStructs

(* ... polled descriptors are open, failures reach the client. *)
LEMMA PolledFromInv == ProxyInv => PolledIsOpen /\ FailureReachesClient
<1> SUFFICES ASSUME ProxyInv PROVE PolledIsOpen /\ FailureReachesClient
  OBVIOUS
<1>1. ASSUME NEW f \in FDs, interest[f] # {} PROVE sock[f] # "closed"
  <2>1. item[f] \in Conns
    BY <1>1 DEF ProxyInv, UnusedInv, TypeOK
  <2>2. IsEnd(item[f], f)
    BY <1>1, <2>1, ProxyFacts DEF ItemsInv
  <2> QED BY <2>1, <2>2, EndsAreOpen
<1>2. FailureReachesClient
  BY ProxyFacts DEF PolledInv, Attempting, GaveUp, State, ClientFd, OriginFd, FailureReachesClient
<1> QED BY <1>1, <1>2 DEF PolledIsOpen

(* ... the relay waits for something, and reads only into room. *)
LEMMA RelayFromInv == ProxyInv => RelayIsNeverStuck /\ ReadImpliesRoom
<1> SUFFICES ASSUME ProxyInv, NEW c \in Conns, conn[c].state = "COPY"
             PROVE  LET r == conn[c] IN
                    /\ interest[r.client_fd] \cup interest[r.origin_fd] # {}
                    /\ "READ" \in interest[r.client_fd] => buffer_can_write(r.read_buffer)
                    /\ "READ" \in interest[r.origin_fd] => buffer_can_write(r.write_buffer)
  BY DEF RelayIsNeverStuck, ReadImpliesRoom
<1> DEFINE r == conn[c]
<1>1. /\ interest[r.client_fd] = ClientInterest(r) /\ interest[r.origin_fd] = OriginInterest(r)
      /\ WellFormed(r.read_buffer) /\ WellFormed(r.write_buffer)
      /\ Directions(r)
  BY ProxyFacts DEF PolledInv, State, ClientFd, OriginFd, BuffersInv, DirectionsInv, Directions
\* A full buffer has something to write.
<1>2. \A b : WellFormed(b) => buffer_can_write(b) \/ buffer_can_read(b)
  BY BufferSizeAssumption
     DEF WellFormed, Cursors, buffer_can_write, buffer_can_read, WritableBytes
<1>3. \/ "READ" \in r.mask["client"] /\ "WRITE" \in r.mask["origin"]
      \/ "READ" \in r.mask["origin"] /\ "WRITE" \in r.mask["client"]
  BY <1>1 DEF Directions, Sides, Other
<1> HIDE DEF r
<1>4. ClientInterest(r) \cup OriginInterest(r) # {}
  BY <1>1, <1>2, <1>3 DEF ClientInterest, OriginInterest, copy_compute_interests
<1>5. /\ "READ" \in ClientInterest(r) => buffer_can_write(r.read_buffer)
      /\ "READ" \in OriginInterest(r) => buffer_can_write(r.write_buffer)
  BY DEF ClientInterest, OriginInterest, copy_compute_interests
<1> QED BY <1>1, <1>4, <1>5 DEF r

(* ... requests are read after authentication. *)
LEMMA AuthFromInv == ProxyInv => AuthenticatedFirst
BY ProxyFacts DEF AuthInv, State, AuthenticatedFirst
-----------------------------------------------------------------------------
(* The invariant holds of every behaviour of the proxy. *)
THEOREM ProxyInvariant == Spec => []ProxyInv
BY InitProxy, NextProxy, PTL DEF Spec

(* Every variable has its type: descriptors, items, interests, the fields of
   struct socks5, whatever the handlers do to them. *)
THEOREM TypeCorrect == Spec => []TypeOK
<1>1. ProxyInv => TypeOK
  BY DEF ProxyInv
<1> QED BY <1>1, ProxyInvariant, PTL

(* stm.c never has to abort: an event arrives only in a state that has a
   handler for it. *)
THEOREM EventsAreHandled == Spec => []EveryEventHasAHandler
BY HandlersFromInv, ProxyInvariant, PTL

(* A finished DNS job finds the connection that asked for it, in
   REQUEST_RESOLV. *)
THEOREM JobsFindTheirConnection == Spec => []JobsBelongToResolv
BY JobsFromInv, ProxyInvariant, PTL

(* request_close and connecting_close never free the parser whose name a
   resolver thread is still reading. *)
THEOREM ParserIsKeptForResolver == Spec => []ParserOutlivesResolver
BY JobsFromInv, ProxyInvariant, PTL

(* socksv5_done finds the descriptors it unregisters registered, and so do the
   selector_set_interest calls of the relay. *)
THEOREM DoneNeverAborts == Spec => []DoneCanUnregister
BY RegistrationsFromInv, ProxyInvariant, PTL

(* No item of the selector points to a struct socks5 that was given back. *)
THEOREM NoDanglingItems == Spec => []ItemsPointToLiveStructs
BY RegistrationsFromInv, ProxyInvariant, PTL

(* pselect is never given a closed descriptor. *)
THEOREM NoClosedDescriptorPolled == Spec => []PolledIsOpen
BY PolledFromInv, ProxyInvariant, PTL

(* A connection is in REQUEST_CONNECTING only while an attempt is under way or
   a reply is on its way to the client. *)
THEOREM ConnectingMovesOn == Spec => []FailureReachesClient
BY PolledFromInv, ProxyInvariant, PTL

(* Requests are read only from clients that passed the authentication that the
   method selection asked for. *)
THEOREM NoRequestUnauthenticated == Spec => []AuthenticatedFirst
BY AuthFromInv, ProxyInvariant, PTL

(* A relay that has not ended waits for something. *)
THEOREM RelayWaitsForSomething == Spec => []RelayIsNeverStuck
BY RelayFromInv, ProxyInvariant, PTL

(* The relay never calls recv with no room in the buffer. *)
THEOREM RelayReadsIntoRoom == Spec => []ReadImpliesRoom
BY RelayFromInv, ProxyInvariant, PTL
=============================================================================
