------------------------------- MODULE Socks5 -------------------------------
(***************************************************************************)
(* The life of the SOCKSv5 connections of the proxy: socks5nio.c and the   *)
(* handlers it dispatches to (hello.c, authentication.c, request.c,        *)
(* resolv.c, connecting.c, copy.c), on top of the selector's registration  *)
(* table and the kernel's descriptor table.                                *)
(*                                                                         *)
(* One action is one handler invocation, with the change of state of stm.c *)
(* and the on_departure and on_arrival hooks that come with it.  Handlers  *)
(* run one at a time, in the order of handle_iteration, for the events     *)
(* that the last pselect reported; the resolver threads and the kernel     *)
(* interleave with them.  Contents are abstract: a message is its outcome, *)
(* a buffer is its cursors.                                                *)
(***************************************************************************)
EXTENDS Integers, FiniteSets, Buffer

CONSTANTS
  Conns,         \* the struct socks5 objects
  FDs,           \* the descriptors connections can get
  MaxAddrs,      \* most addresses a name resolves to
  ReplySize,     \* buffer room a reply takes
  Methods,       \* what the method selection may choose, a subset of MethodKinds
  Requests,      \* what clients ask for, a subset of RequestKinds
  ThreadsFail    \* whether pthread_create can fail

MethodKinds == {"none", "no_auth", "userpass"}
RequestKinds == {"address", "name", "unsupported"}

ASSUME Socks5Assumption ==
  /\ FDs \subseteq Nat
  /\ MaxAddrs \in Nat
  /\ ReplySize \in 1..BufferSize
  /\ Methods \subseteq MethodKinds
  /\ Requests \subseteq RequestKinds
  /\ ThreadsFail \in BOOLEAN

NoFd == -1
None == "no connection"
ASSUME NoneAssumption == None \notin Conns

VARIABLES
  sock,       \* kernel: the socket behind each descriptor
  item,       \* selector: the connection registered for each descriptor, or None
  interest,   \* selector: the interest registered for each descriptor
  conn,       \* the struct socks5 of each connection
  ready,      \* selector: events of slave_r, slave_w that handle_iteration has not come to
  jobs,       \* selector: descriptors whose blocking job is done
  crashed     \* the process died

vars == <<sock, item, interest, conn, ready, jobs, crashed>>

Ops == {"READ", "WRITE"}
Sides == {"client", "origin"}

\* "connecting": the handshake runs; "established": it succeeded, and connect
\* has not been called since; "confirmed": it has; "refused": it failed.
SockStates == {"closed", "peer", "fresh", "connecting", "established", "confirmed", "refused"}

States == {"free",                                     \* not in use, or in the pool
           "HELLO_READ", "HELLO_WRITE", "USERPASS_READ", "USERPASS_WRITE",
           "REQUEST_READ", "REQUEST_RESOLV", "REQUEST_CONNECTING", "REQUEST_WRITE",
           "COPY", "DONE"}

Connections ==
  [state : States,
   client_fd : FDs \cup {NoFd}, origin_fd : FDs \cup {NoFd},
   references : Nat,
   method : MethodKinds,                               \* hello.method
   authentication : {0, 1},                            \* 0 is success, and what memset leaves
   accepted : BOOLEAN,                                 \* history: checkCredentials found the user
   parser : {"none", "reading", "rejected"},           \* request.parser
   resolver : FDs \cup {NoFd},                         \* key->fd of the running thread
   addrs : 0..MaxAddrs,                                \* origin_resolution_current and its ai_next
   status : {"succeeded", "failed"},                   \* orig.conn.status
   read_buffer : Cursors, write_buffer : Cursors,
   mask : [Sides -> SUBSET Ops],                       \* copy_st.interest
   replies : Nat]                                      \* history: request replies marshalled

TypeOK ==
  /\ sock \in [FDs -> SockStates]
  /\ item \in [FDs -> Conns \cup {None}]
  /\ interest \in [FDs -> SUBSET Ops]
  /\ conn \in [Conns -> Connections]
  /\ ready \subseteq FDs \X Ops
  /\ jobs \subseteq FDs
  /\ crashed \in BOOLEAN

\* socks5_new: memset to zero, then the fields that are not zero.
NewConnection(fd) ==
  [state |-> "HELLO_READ", client_fd |-> fd, origin_fd |-> NoFd, references |-> 1,
   method |-> "none", authentication |-> 0, accepted |-> FALSE,
   parser |-> "none", resolver |-> NoFd, addrs |-> 0, status |-> "succeeded",
   read_buffer |-> buffer_reset, write_buffer |-> buffer_reset,
   mask |-> [s \in Sides |-> {}], replies |-> 0]

FreeConnection == [NewConnection(NoFd) EXCEPT !.state = "free", !.references = 0]

Init ==
  /\ sock = [f \in FDs |-> "closed"]
  /\ item = [f \in FDs |-> None]
  /\ interest = [f \in FDs |-> {}]
  /\ conn = [c \in Conns |-> FreeConnection]
  /\ ready = {}
  /\ jobs = {}
  /\ crashed = FALSE
-----------------------------------------------------------------------------
(* Selector, kernel and buffer calls that the handlers share. *)

\* The kernel hands out the lowest descriptor that is not open.
IsNextFd(f) == sock[f] = "closed" /\ \A g \in FDs : g < f => sock[g] # "closed"
NoFdLeft == \A f \in FDs : sock[f] # "closed"

\* selector_set_interest on the table `table`: no effect on an unused item.
set_interest(table, f, ops) ==
  IF f \in FDs /\ item[f] # None THEN [table EXCEPT ![f] = ops] ELSE table

\* handle_iteration: descriptors in order, reading before writing.
IsNextEvent(f, op) ==
  /\ <<f, op>> \in ready
  /\ \A e \in ready : f < e[1] \/ (f = e[1] /\ (op = "READ" \/ e[2] = "WRITE"))

\* ... its handler is called for the item that the descriptor has by now, if
\* that is interested; the kernel is not asked again.
handle_event(f, op, c) ==
  /\ IsNextEvent(f, op)
  /\ item[f] = c /\ op \in interest[f]
  /\ ready' = ready \ {<<f, op>>}

handle_read(f, c)  == handle_event(f, "READ", c)
handle_write(f, c) == handle_event(f, "WRITE", c)

\* read_buffer after recv brought bytes and the parser took all there were.
Drained == buffer_reset

\* read_buffer after recv brought n bytes and the parser stopped after k.
AfterMessage(b) ==
  UNION {{buffer_read_adv(buffer_write_adv(b, n), k) : k \in 1..(ReadableBytes(b) + n)} :
           n \in 1..WritableBytes(b)}

\* write_buffer after send took a part of it, or all.
AfterSend(b) == {buffer_read_adv(b, n) : n \in 1..ReadableBytes(b)}

\* hello_marshal, auth_reply: nothing is written if there is no room.
WithReply(b) == IF WritableBytes(b) < ReplySize THEN b ELSE buffer_write_adv(b, ReplySize)

\* A mutated form: the room is not checked.
request_marshall_NoRoomCheck(r) ==
  [r EXCEPT !.write_buffer = buffer_write_adv(@, ReplySize), !.replies = @ + 1]

request_marshall(r) ==
  IF WritableBytes(r.write_buffer) < ReplySize THEN r
  ELSE [r EXCEPT !.write_buffer = WithReply(@), !.replies = @ + 1]

\* A mutated form: the interest of the origin is left as it is.
InterestToClient_OriginStillPolled(table, r) ==
  set_interest(table, r.client_fd, {"WRITE"})

\* A mutated form: the interest of the client is left as it is.
InterestToClient_OriginOnly(table, r) ==
  set_interest(table, r.origin_fd, {})

\* error_handler_to_client: the client is to be written to, the origin waits.
InterestToClient(table, r) ==
  set_interest(set_interest(table, r.client_fd, {"WRITE"}), r.origin_fd, {})

\* How many of the references of connection d unregistering f gives back.
Held(d, f) == IF f \in FDs /\ item[f] = d THEN 1 ELSE 0

\* socks5_destroy: the struct is released with its last reference.
Released(r, n) == IF r.references <= n THEN FreeConnection
                  ELSE [r EXCEPT !.references = @ - n]

\* The connection c, that goes on as r, has its descriptors fd1 and fd2 (NoFd
\* for none) unregistered, which gives back references, and closed; the others
\* are polled for what `table` says.
unregister_and_close(c, r, fd1, fd2, table) ==
  /\ sock' = [f \in FDs |-> IF f \in {fd1, fd2} THEN "closed" ELSE sock[f]]
  /\ item' = [f \in FDs |-> IF f \in {fd1, fd2} THEN None ELSE item[f]]
  /\ interest' = [f \in FDs |-> IF f \in {fd1, fd2} THEN {} ELSE table[f]]
  /\ conn' = [d \in Conns |->
                Released(IF d = c THEN r ELSE conn[d], Held(d, fd1) + Held(d, fd2))]

\* The state machine reached DONE or ERROR.
socksv5_done(c) ==
  /\ unregister_and_close(c, [conn[c] EXCEPT !.state = "DONE"],
                          conn[c].client_fd, conn[c].origin_fd, interest)
  /\ UNCHANGED <<jobs, crashed>>
-----------------------------------------------------------------------------
(* accept(2) returns the next descriptor.  If the selector still has an item
   for that number, the client is closed again and nothing changes.  The
   passive sockets have the lowest numbers: theirs are the first events. *)
socksv5_passive_accept ==
  \E f \in FDs, c \in Conns :
    /\ ready = {} /\ IsNextFd(f) /\ item[f] = None
    /\ conn[c].state = "free"
    /\ conn' = [conn EXCEPT ![c] = NewConnection(f)]
    /\ sock' = [sock EXCEPT ![f] = "peer"]
    /\ item' = [item EXCEPT ![f] = c]
    /\ interest' = [interest EXCEPT ![f] = {"READ"}]
    /\ UNCHANGED <<ready, jobs, crashed>>

hello_read(f, c) ==
  LET r == conn[c] IN
  /\ handle_read(f, c) /\ r.state = "HELLO_READ"
  /\ \/ socksv5_done(c)                      \* end of file, error, wrong version
     \/ /\ buffer_can_write(r.read_buffer)   \* more bytes to come
        /\ conn' = [conn EXCEPT ![c].read_buffer = Drained]
        /\ UNCHANGED <<sock, item, interest, jobs, crashed>>
     \/ \E b \in AfterMessage(r.read_buffer), m \in Methods :
        /\ conn' = [conn EXCEPT ![c] =
                      [r EXCEPT !.state = "HELLO_WRITE", !.method = m, !.read_buffer = b,
                                !.write_buffer = WithReply(@)]]
        /\ interest' = [interest EXCEPT ![f] = {"WRITE"}]
        /\ UNCHANGED <<sock, item, jobs, crashed>>

\* A mutated form: the method is not looked at.
AfterHello_SkipsUserpass(r) == [r EXCEPT !.state = "REQUEST_READ", !.parser = "reading"]

\* hello_write once the method selection was sent; request_init allocates the
\* parser of the request.
AfterHello(r) ==
  IF r.method = "no_auth"
    THEN [r EXCEPT !.state = "REQUEST_READ", !.parser = "reading"]
    ELSE [r EXCEPT !.state = "USERPASS_READ"]

hello_write(f, c) ==
  LET r == conn[c] IN
  /\ handle_write(f, c) /\ r.state = "HELLO_WRITE"
  /\ \/ socksv5_done(c)                                     \* send failed
     \/ \E b \in AfterSend(r.write_buffer) :
        IF buffer_can_read(b)
          THEN /\ conn' = [conn EXCEPT ![c].write_buffer = b]
               /\ UNCHANGED <<sock, item, interest, jobs, crashed>>
          ELSE IF r.method = "none"
            THEN socksv5_done(c)
            ELSE /\ conn' = [conn EXCEPT ![c] = AfterHello([r EXCEPT !.write_buffer = b])]
                 /\ interest' = [interest EXCEPT ![f] = {"READ"}]
                 /\ UNCHANGED <<sock, item, jobs, crashed>>

auth_read(f, c) ==
  LET r == conn[c] IN
  /\ handle_read(f, c) /\ r.state = "USERPASS_READ"
  /\ \/ socksv5_done(c)                      \* end of file, error
     \/ /\ buffer_can_write(r.read_buffer)
        /\ conn' = [conn EXCEPT ![c].read_buffer = Drained]
        /\ UNCHANGED <<sock, item, interest, jobs, crashed>>
     \/ /\ buffer_can_write(r.read_buffer)   \* wrong version: auth_process compares a NULL user name
        /\ crashed' = TRUE
        /\ UNCHANGED <<sock, item, interest, conn, jobs>>
     \/ \E b \in AfterMessage(r.read_buffer), a \in {0, 1} :
        /\ conn' = [conn EXCEPT ![c] =
                      [r EXCEPT !.state = "USERPASS_WRITE", !.authentication = a,
                                !.accepted = (a = 0), !.read_buffer = b]]
        /\ interest' = [interest EXCEPT ![f] = {"WRITE"}]
        /\ UNCHANGED <<sock, item, jobs, crashed>>

\* Every call marshals the verdict again before it sends.
auth_write(f, c) ==
  LET r == conn[c] IN
  /\ handle_write(f, c) /\ r.state = "USERPASS_WRITE"
  /\ \/ socksv5_done(c)                                     \* send failed
     \/ \E b \in AfterSend(WithReply(r.write_buffer)) :
        IF buffer_can_read(b)
          THEN /\ conn' = [conn EXCEPT ![c].write_buffer = b]
               /\ UNCHANGED <<sock, item, interest, jobs, crashed>>
          ELSE IF r.authentication # 0
            THEN socksv5_done(c)
            ELSE /\ conn' = [conn EXCEPT ![c] =
                               [r EXCEPT !.state = "REQUEST_READ", !.parser = "reading",
                                         !.write_buffer = b]]
                 /\ interest' = [interest EXCEPT ![f] = {"READ"}]
                 /\ UNCHANGED <<sock, item, jobs, crashed>>
-----------------------------------------------------------------------------
\* A mutated form: references is not incremented.
AddReference_Forgotten(r) == r
AddReference(r) == [r EXCEPT !.references = @ + 1]

\* A mutated form: origin_fd keeps the closed descriptor.
WithoutOrigin_Kept(r) == r
WithoutOrigin(r) == [r EXCEPT !.origin_fd = NoFd]

\* A refused socket may be connected again once the failure was reported.
AfterFailedConnect(s) == IF s = "refused" THEN "fresh" ELSE s

(* connection() of connecting.c, called with key->fd = k for the connection
   record r, whose origin socket is in kernel state s. *)
ConnectFails(c, r, s) ==
  /\ s # "established"
  /\ conn' = [conn EXCEPT ![c] = request_marshall([r EXCEPT !.status = "failed"])]
  /\ interest' = InterestToClient(interest, r)
  /\ sock' = IF r.origin_fd = NoFd THEN sock
             ELSE [sock EXCEPT ![r.origin_fd] = AfterFailedConnect(s)]
  /\ UNCHANGED item

\* A mutated form: key->fd keeps its interest.
ConnectStarts_KeyStillPolled(c, r, k, s) ==
  /\ s = "fresh" /\ item[r.origin_fd] = None
  /\ conn' = [conn EXCEPT ![c] = AddReference(r)]
  /\ item' = [item EXCEPT ![r.origin_fd] = c]
  /\ interest' = [interest EXCEPT ![r.origin_fd] = {"WRITE"}]
  /\ sock' = [sock EXCEPT ![r.origin_fd] = "connecting"]

ConnectStarts(c, r, k, s) ==
  /\ s = "fresh" /\ item[r.origin_fd] = None
  /\ conn' = [conn EXCEPT ![c] = AddReference(r)]
  /\ item' = [item EXCEPT ![r.origin_fd] = c]
  /\ interest' = [set_interest(interest, k, {}) EXCEPT ![r.origin_fd] = {"WRITE"}]
  /\ sock' = [sock EXCEPT ![r.origin_fd] = "connecting"]

\* selector_register says SELECTOR_FDINUSE: the socket is closed, the item stays.
ConnectStartsOnUsedItem(c, r, s) ==
  /\ s = "fresh" /\ item[r.origin_fd] # None
  /\ conn' = [conn EXCEPT ![c] =
                WithoutOrigin(request_marshall([r EXCEPT !.status = "failed"]))]
  /\ interest' = InterestToClient(interest, r)
  /\ sock' = [sock EXCEPT ![r.origin_fd] = "closed"]
  /\ UNCHANGED item

\* connect returns 0 for a socket whose handshake is over; its item is in use.
ConnectFindsItConnected(c, r, k, s) ==
  /\ s = "established"
  /\ conn' = [conn EXCEPT ![c] =
                request_marshall([AddReference(r) EXCEPT !.status = "failed"])]
  /\ interest' = InterestToClient(set_interest(interest, k, {"READ"}), r)
  /\ sock' = [sock EXCEPT ![r.origin_fd] = "confirmed"]
  /\ UNCHANGED item

connection(c, r, k, s) ==
  \/ ConnectFails(c, r, s)
  \/ ConnectStarts(c, r, k, s)
  \/ ConnectStartsOnUsedItem(c, r, s)
  \/ ConnectFindsItConnected(c, r, k, s)

\* connecting_init, on arrival at REQUEST_CONNECTING with the record r.
connecting_init(c, r, k) ==
  LET r1 == [r EXCEPT !.state = "REQUEST_CONNECTING", !.status = "succeeded"] IN
  \/ \E o \in FDs : IsNextFd(o) /\ connection(c, [r1 EXCEPT !.origin_fd = o], k, "fresh")
  \/ /\ NoFdLeft                                            \* socket() failed
     /\ conn' = [conn EXCEPT ![c] = request_marshall([r1 EXCEPT !.status = "failed"])]
     /\ interest' = InterestToClient(interest, r1)
     /\ UNCHANGED <<sock, item>>

\* A mutated form: the address type is not looked at.
request_close_Always(r, kind) == [r EXCEPT !.parser = "none"]

\* request_close frees the parser, unless a resolver thread needs it.
request_close(r, kind) == IF kind = "name" THEN r ELSE [r EXCEPT !.parser = "none"]

\* request_process of a request that was read in full, with the record r.
request_process(f, c, r) ==
  \/ /\ "address" \in Requests
     /\ connecting_init(c, request_close(r, "address"), f)
  \/ /\ "name" \in Requests
     /\ \E thread \in {f} \cup (IF ThreadsFail THEN {NoFd} ELSE {}) :
          conn' = [conn EXCEPT ![c] =
                     [request_close(r, "name") EXCEPT !.state = "REQUEST_RESOLV",
                                                      !.resolver = thread]]
     /\ interest' = [interest EXCEPT ![f] = {}]
     /\ UNCHANGED <<sock, item>>

request_read(f, c) ==
  LET r == conn[c] IN
  /\ handle_read(f, c) /\ r.state = "REQUEST_READ"
  /\ \/ socksv5_done(c)                                     \* end of file, error
     \/ /\ buffer_can_write(r.read_buffer)                  \* more bytes to come
        /\ conn' = [conn EXCEPT ![c].read_buffer = Drained]
        /\ UNCHANGED <<sock, item, interest, jobs, crashed>>
     \/ /\ "unsupported" \in Requests                       \* version, command or address type
        /\ buffer_can_write(r.read_buffer)
        /\ conn' = [conn EXCEPT ![c] = [r EXCEPT !.parser = "rejected", !.read_buffer = Drained]]
        /\ UNCHANGED <<sock, item, interest, jobs, crashed>>
     \/ \E b \in AfterMessage(r.read_buffer) :
        /\ r.parser = "reading"
        /\ request_process(f, c, [r EXCEPT !.read_buffer = b])
        /\ UNCHANGED <<jobs, crashed>>

\* A mutated form: the thread notifies before it is done.
request_resolv_blocking_Early(c) ==
  /\ conn[c].resolver # NoFd
  /\ \E n \in 0..MaxAddrs : conn' = [conn EXCEPT ![c].addrs = n]
  /\ jobs' = jobs \cup {conn[c].resolver}
  /\ UNCHANGED <<sock, item, interest, ready, crashed>>

\* A mutated form: nothing found, nobody notified.
request_resolv_blocking_Silent(c) ==
  /\ conn[c].resolver # NoFd
  /\ \E n \in 0..MaxAddrs :
       conn' = [conn EXCEPT ![c] = [@ EXCEPT !.addrs = n, !.resolver = NoFd]]
  /\ jobs' = IF conn'[c].addrs = 0 THEN jobs ELSE jobs \cup {conn[c].resolver}
  /\ UNCHANGED <<sock, item, interest, ready, crashed>>

\* request_resolv_blocking, up to the end of selector_notify_block.
request_resolv_blocking(c) ==
  /\ conn[c].resolver # NoFd
  /\ \E n \in 0..MaxAddrs :
       conn' = [conn EXCEPT ![c] = [@ EXCEPT !.addrs = n, !.resolver = NoFd]]
  /\ jobs' = jobs \cup {conn[c].resolver}
  /\ UNCHANGED <<sock, item, interest, ready, crashed>>

\* socksv5_block, from handle_block_notifications after the events, for the
\* item that descriptor f has by now.
request_resolv_done(f, c) ==
  LET r == conn[c] IN
  /\ ready = {} /\ f \in jobs /\ item[f] = c /\ r.state = "REQUEST_RESOLV"
  /\ jobs' = jobs \ {f}
  /\ IF r.addrs = 0
       THEN /\ conn' = [conn EXCEPT ![c] =
                          request_marshall([r EXCEPT !.state = "REQUEST_WRITE", !.status = "failed"])]
            /\ interest' = [interest EXCEPT ![f] = {"WRITE"}]
            /\ UNCHANGED <<sock, item>>
       ELSE connecting_init(c, r, f)
  /\ UNCHANGED <<ready, crashed>>

\* Leaving REQUEST_CONNECTING: connecting_close frees the parser.
ToRequestWrite(r) ==
  [request_marshall(r) EXCEPT !.state = "REQUEST_WRITE", !.parser = "none", !.addrs = 0]

\* A mutated form: origin_resolution_current stays.
NextAddress_Same(r) == r

HasNextAddress(r) == r.addrs >= 2
NextAddress(r) == [r EXCEPT !.addrs = @ - 1]

\* No more addresses: the origin's descriptor goes, the client is to be told.
GiveUpOrigin(c) ==
  unregister_and_close(c, ToRequestWrite(WithoutOrigin(conn[c])), NoFd, conn[c].origin_fd,
                       set_interest(interest, conn[c].client_fd, {"WRITE"}))

\* An attempt failed before (orig.conn.status): next address, or give up.
ConnectingAfterFailure(f, c) ==
  LET r == conn[c] IN
  /\ r.status = "failed"
  /\ IF HasNextAddress(r)
       THEN connection(c, NextAddress(r), f,
                       IF r.origin_fd = NoFd THEN "none" ELSE sock[r.origin_fd])
       ELSE GiveUpOrigin(c)

\* SO_ERROR of the descriptor whose event this is: 0.  The buffer is empty, so
\* the reply fits and there is no way to ERROR.
ConnectingSucceeds(f, c) ==
  /\ conn[c].status = "succeeded" /\ sock[f] # "refused"
  /\ conn' = [conn EXCEPT ![c] = ToRequestWrite(@)]
  /\ interest' = set_interest(set_interest(interest, conn[c].client_fd, {"WRITE"}), f, {})
  /\ UNCHANGED <<sock, item>>

\* ... an error: next address, or REQUEST_WRITE with the origin still registered.
ConnectingFails(f, c) ==
  LET r == [conn[c] EXCEPT !.status = "failed"] IN
  /\ conn[c].status = "succeeded" /\ sock[f] = "refused"
  /\ IF HasNextAddress(r)
       THEN connection(c, NextAddress(r), f, "refused")
       ELSE /\ conn' = [conn EXCEPT ![c] = ToRequestWrite(r)]
            /\ interest' = InterestToClient(interest, r)
            /\ UNCHANGED <<sock, item>>

connecting_write(f, c) ==
  /\ handle_write(f, c) /\ conn[c].state = "REQUEST_CONNECTING"
  /\ \/ ConnectingAfterFailure(f, c)
     \/ ConnectingSucceeds(f, c)
     \/ ConnectingFails(f, c)
  /\ UNCHANGED <<jobs, crashed>>
-----------------------------------------------------------------------------
(* The relay.  A copy_st's rb is filled from its descriptor and its wb is
   emptied into it; the two copy_st's have them crossed. *)

\* A mutated form: rb is not looked at.
copy_compute_interests_NoRoomCheck(mask, rb, wb) ==
  (IF "READ" \in mask THEN {"READ"} ELSE {})
  \cup (IF "WRITE" \in mask /\ buffer_can_read(wb) THEN {"WRITE"} ELSE {})

copy_compute_interests(mask, rb, wb) ==
  (IF "READ" \in mask /\ buffer_can_write(rb) THEN {"READ"} ELSE {})
  \cup (IF "WRITE" \in mask /\ buffer_can_read(wb) THEN {"WRITE"} ELSE {})

ClientInterest(r) == copy_compute_interests(r.mask["client"], r.read_buffer, r.write_buffer)
OriginInterest(r) == copy_compute_interests(r.mask["origin"], r.write_buffer, r.read_buffer)

CopyInterests(r) ==
  set_interest(set_interest(interest, r.origin_fd, OriginInterest(r)),
               r.client_fd, ClientInterest(r))

copy_init(r) == [r EXCEPT !.state = "COPY", !.mask = [s \in Sides |-> Ops]]

request_write(f, c) ==
  LET r == conn[c] IN
  /\ handle_write(f, c) /\ r.state = "REQUEST_WRITE"
  /\ \/ socksv5_done(c)                                     \* send failed
     \/ \E b \in AfterSend(r.write_buffer) :
        IF buffer_can_read(b)
          THEN /\ conn' = [conn EXCEPT ![c].write_buffer = b]
               /\ UNCHANGED <<sock, item, interest, jobs, crashed>>
          ELSE IF r.status = "succeeded"
            THEN LET copying == copy_init([r EXCEPT !.write_buffer = b]) IN
                 /\ conn' = [conn EXCEPT ![c] = copying]
                 /\ interest' = CopyInterests(copying)
                 /\ UNCHANGED <<sock, item, jobs, crashed>>
            ELSE socksv5_done(c)

\* copy_ptr, and the copy_st on the other side.
SideOf(f, r) == IF f = r.origin_fd THEN "origin" ELSE "client"
Other(side) == IF side = "origin" THEN "client" ELSE "origin"

\* The end of copy_read and copy_write for side s: new interests, or DONE.
CopyStep(c, r, s) ==
  IF r.mask[s] = {}
    THEN socksv5_done(c)
    ELSE /\ conn' = [conn EXCEPT ![c] = r]
         /\ interest' = CopyInterests(r)
         /\ UNCHANGED <<sock, item, jobs, crashed>>

\* A mutated form: the other side goes on waiting for bytes to write.
EndOfInput_OneSide(r, s) == [r EXCEPT !.mask[s] = @ \ {"READ"}]

\* recv returned 0 or -1: nothing more is read here nor written there.
EndOfInput(r, s) ==
  [r EXCEPT !.mask[s] = @ \ {"READ"}, !.mask[Other(s)] = @ \ {"WRITE"}]

\* send returned -1: nothing more is written here nor read there.
EndOfOutput(r, s) ==
  [r EXCEPT !.mask[s] = @ \ {"WRITE"}, !.mask[Other(s)] = @ \ {"READ"}]

copy_read(f, c) ==
  LET r == conn[c]
      s == SideOf(f, r)
  IN  /\ handle_read(f, c) /\ r.state = "COPY"
      /\ \/ CopyStep(c, EndOfInput(r, s), s)
         \/ s = "client" /\ \E n \in 1..WritableBytes(r.read_buffer) :
              CopyStep(c, [r EXCEPT !.read_buffer = buffer_write_adv(@, n)], s)
         \/ s = "origin" /\ \E n \in 1..WritableBytes(r.write_buffer) :
              CopyStep(c, [r EXCEPT !.write_buffer = buffer_write_adv(@, n)], s)

copy_write(f, c) ==
  LET r == conn[c]
      s == SideOf(f, r)
  IN  /\ handle_write(f, c) /\ r.state = "COPY"
      /\ \/ CopyStep(c, EndOfOutput(r, s), s)
         \/ s = "client" /\ \E b \in AfterSend(r.write_buffer) :
              CopyStep(c, [r EXCEPT !.write_buffer = b], s)
         \/ s = "origin" /\ \E b \in AfterSend(r.read_buffer) :
              CopyStep(c, [r EXCEPT !.read_buffer = b], s)

\* Kernel: the handshake of a non-blocking connect ends.
ConnectEnds(o) ==
  /\ sock[o] = "connecting"
  /\ \E s \in {"established", "refused"} : sock' = [sock EXCEPT ![o] = s]
  /\ UNCHANGED <<item, interest, conn, ready, jobs, crashed>>
-----------------------------------------------------------------------------
(* The loop of selector_select. *)

Polled == {e \in FDs \X Ops : e[2] \in interest[e[1]]}

\* Reading, and writing on the relay, wait for the peers.  Of a handshake that
\* is over the origin's socket is writable; of a client that has been sent no
\* more than a few replies the send buffer has room.
SurelyReady ==
  {e \in Polled : e[2] = "WRITE" /\ sock[e[1]] # "connecting" /\ conn[item[e[1]]].state # "COPY"}
MayBeReady == {e \in Polled : e[2] = "WRITE" => sock[e[1]] # "connecting"}

\* pselect returns, when the events and jobs of the last iteration are done.
\* (A job that is pushed before pselect and found after it is one pushed
\* meanwhile: pselect does not read the list.)
selector_select ==
  /\ ready = {} /\ jobs = {}
  /\ \E events \in SUBSET (MayBeReady \ SurelyReady) : ready' = SurelyReady \cup events
  /\ ready' # {}
  /\ UNCHANGED <<sock, item, interest, conn, jobs, crashed>>

\* An event whose descriptor has lost the interest, or its item, is passed over.
SkipEvent ==
  /\ \E f \in FDs, op \in Ops :
       IsNextEvent(f, op) /\ op \notin interest[f] /\ ready' = ready \ {<<f, op>>}
  /\ UNCHANGED <<sock, item, interest, conn, jobs, crashed>>

Handler(f, c) ==
  \/ hello_read(f, c) \/ hello_write(f, c)
  \/ auth_read(f, c) \/ auth_write(f, c)
  \/ request_read(f, c) \/ request_write(f, c)
  \/ request_resolv_done(f, c) \/ connecting_write(f, c)
  \/ copy_read(f, c) \/ copy_write(f, c)

\* The server's thread.
MainLoop ==
  /\ ~crashed
  /\ \/ selector_select
     \/ SkipEvent
     \/ \E f \in FDs, c \in Conns : Handler(f, c)

Next ==
  \/ MainLoop
  \/ /\ ~crashed
     /\ \/ socksv5_passive_accept
        \/ \E c \in Conns : request_resolv_blocking(c)
        \/ \E o \in FDs : ConnectEnds(o)

Spec == Init /\ [][Next]_vars
-----------------------------------------------------------------------------
(* Safety. *)

Live(c) == conn[c].state \notin {"free", "DONE"}

ReadStates == {"HELLO_READ", "USERPASS_READ", "REQUEST_READ", "COPY"}
WriteStates == {"HELLO_WRITE", "USERPASS_WRITE", "REQUEST_CONNECTING", "REQUEST_WRITE", "COPY"}

(* stm.c aborts the process when an event arrives in a state that has no
   handler for it.  So the interests registered for a connection's two
   descriptors, set from a dozen places, must follow its state: never OP_READ
   in a state without on_read_ready, never OP_WRITE in one without
   on_write_ready. *)
EveryEventHasAHandler ==
  \A f \in FDs : item[f] # None =>
    LET st == conn[item[f]].state IN
    /\ "READ" \in interest[f] => st \in ReadStates
    /\ "WRITE" \in interest[f] => st \in WriteStates

(* ... and a finished DNS job must find the connection that started it still
   waiting in REQUEST_RESOLV on the descriptor the thread was given, although
   the thread knows nothing but its number. *)
JobsBelongToResolv ==
  /\ \A f \in jobs : item[f] # None /\ conn[item[f]].state = "REQUEST_RESOLV"
                     /\ conn[item[f]].resolver = NoFd
  /\ \A c \in Conns : conn[c].resolver # NoFd =>
        conn[c].state = "REQUEST_RESOLV" /\ item[conn[c].resolver] = c

(* The resolver thread reads the name from the parser: nobody frees it while
   the thread runs. *)
ParserOutlivesResolver ==
  \A c \in Conns : conn[c].resolver # NoFd => conn[c].parser = "reading"

(* socksv5_done aborts when a descriptor it closes is not registered, and
   copy_compute_interests when it cannot set an interest: in every state from
   which either runs, the descriptors of the connection are registered. *)
DoneCanUnregister ==
  \A c \in Conns : Live(c) =>
    /\ conn[c].client_fd \in FDs /\ item[conn[c].client_fd] = c
    /\ conn[c].origin_fd # NoFd /\ conn[c].state # "REQUEST_CONNECTING" =>
          item[conn[c].origin_fd] = c

(* socks5_destroy gives a struct back with its last reference: no registered
   item may point to one that was given back. *)
ItemsPointToLiveStructs ==
  \A f \in FDs : item[f] # None => conn[item[f]].references > 0

(* The count is exact: the struct is given back when, and only when, the last
   of its descriptors is unregistered. *)
ReferencesCountItems ==
  \A c \in Conns : conn[c].references = Cardinality({f \in FDs : item[f] = c})

(* A descriptor that is polled is open; a closed one makes pselect fail with
   EBADF and the server stop. *)
PolledIsOpen == \A f \in FDs : interest[f] # {} => sock[f] # "closed"

(* selector.c polls every iteration for descriptors that "se cierran pero no
   se desregistraron": there are none. *)
RegisteredIsOpen == \A f \in FDs : item[f] # None => sock[f] # "closed"

(* A client is told that it is connected only when the handshake with the
   origin succeeded (connecting.h: "Se fija si se completo la conexión"). *)
SuccessIsTrue ==
  \A c \in Conns :
    conn[c].state = "REQUEST_WRITE" /\ conn[c].status = "succeeded" =>
      conn[c].origin_fd # NoFd /\ sock[conn[c].origin_fd] = "established"

(* A connection that failed is never stuck in REQUEST_CONNECTING: whenever no
   attempt is under way, the client's descriptor is writable and something is
   waiting to be written to it. *)
FailureReachesClient ==
  \A c \in Conns : conn[c].state = "REQUEST_CONNECTING" =>
    \/ /\ conn[c].origin_fd # NoFd
       /\ item[conn[c].origin_fd] = c /\ "WRITE" \in interest[conn[c].origin_fd]
    \/ /\ conn[c].status = "failed"
       /\ "WRITE" \in interest[conn[c].client_fd]
       /\ buffer_can_read(conn[c].write_buffer)

(* No request is read from a client that has not passed the authentication
   the method selection told it to. *)
AuthenticatedFirst ==
  \A c \in Conns :
    conn[c].state \in {"REQUEST_READ", "REQUEST_RESOLV", "REQUEST_CONNECTING",
                       "REQUEST_WRITE", "COPY"} =>
      conn[c].method = "no_auth" \/ conn[c].accepted

(* Only the copy_st of the descriptor that had the event is tested for being
   finished, and interests are a function of masks and buffers: yet the relay
   never ends up with no interest at all, which nothing would ever wake. *)
RelayIsNeverStuck ==
  \A c \in Conns : conn[c].state = "COPY" =>
    interest[conn[c].client_fd] \cup interest[conn[c].origin_fd] # {}

(* recv is never called on the relay with no room in the buffer: it would
   return 0, which copy_read takes for the end of the input. *)
ReadImpliesRoom ==
  \A c \in Conns : conn[c].state = "COPY" =>
    /\ "READ" \in interest[conn[c].client_fd] => buffer_can_write(conn[c].read_buffer)
    /\ "READ" \in interest[conn[c].origin_fd] => buffer_can_write(conn[c].write_buffer)

(* Trying the next address (connecting.c: "vuelve a probar la siguiente ip") is
   of use only if an origin that accepts is kept: it is not given up for the
   failure of an address before it. *)
AcceptedOriginIsKept ==
  [][\A c \in Conns :
       /\ conn[c].state = "REQUEST_CONNECTING" /\ conn'[c].state # "REQUEST_CONNECTING"
       /\ conn[c].origin_fd # NoFd /\ sock[conn[c].origin_fd] = "established"
       => conn'[c].status = "succeeded"]_vars

(* What each client is promised, see Session. *)
Phase(c) ==
  LET st == conn[c].state IN
  CASE st \in {"free", "DONE"}               -> "closed"
    [] st \in {"HELLO_READ", "HELLO_WRITE"}  -> "greeting"
    [] st \in {"USERPASS_READ", "USERPASS_WRITE"} -> "authenticating"
    [] st = "REQUEST_READ"                   -> "requesting"
    [] st = "REQUEST_RESOLV"                 -> "resolving"
    [] st = "REQUEST_CONNECTING"             -> "connecting"
    [] st = "REQUEST_WRITE"                  -> "answering"
    [] st = "COPY"                           -> "relaying"

\* The open descriptors of c that the selector has for it.
Holds(c, f) == f \in FDs /\ item[f] = c /\ sock[f] # "closed"

Ends(c) == (IF Holds(c, conn[c].client_fd) THEN {"client"} ELSE {})
           \cup (IF Holds(c, conn[c].origin_fd) THEN {"origin"} ELSE {})

Sessions == INSTANCE Session WITH phase <- [c \in Conns |-> Phase(c)],
                                  ends  <- [c \in Conns |-> Ends(c)]

(* Descriptor numbers are reused all the time and the handlers of one
   connection unregister and close by number: still every connection goes
   through its phases holding its own descriptors, undisturbed by the others. *)
ImplementsSessions == Sessions!Spec
-----------------------------------------------------------------------------
(* Liveness. *)

(* The main loop goes on while it has something to do, getaddrinfo and the
   kernel's connect come to an end.  Nothing is assumed of clients: they may
   never send, read or close anything. *)
Fairness ==
  /\ WF_vars(MainLoop)
  /\ \A c \in Conns : WF_vars(~crashed /\ request_resolv_blocking(c))
  /\ \A o \in FDs : WF_vars(~crashed /\ ConnectEnds(o))

FairSpec == Spec /\ Fairness

(* A request whose last byte the proxy has read. *)
Asked(c) == \/ conn[c].state \in {"REQUEST_RESOLV", "REQUEST_CONNECTING"}
            \/ conn[c].state = "REQUEST_READ" /\ conn[c].parser = "rejected"

Answered(c) == conn[c].replies > 0 \/ ~Live(c)

(* Every request the proxy has read in full is answered, or its connection
   is closed. *)
EveryRequestIsAnswered == \A c \in Conns : Asked(c) ~> (Answered(c) \/ crashed)

(* However many addresses fail in whatever way, trying them ends. *)
ConnectingEnds ==
  \A c \in Conns :
    conn[c].state = "REQUEST_CONNECTING"
      ~> (conn[c].state # "REQUEST_CONNECTING" \/ crashed)
=============================================================================
