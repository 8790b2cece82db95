------------------------------ MODULE Dialogue ------------------------------
(***************************************************************************)
(* One connection of the proxy or of the management protocol, byte by      *)
(* byte: how the messages of a client reach the parsers of hello.c,        *)
(* authentication.c, request.c and management_request.c through recv and   *)
(* the read buffer, cut and joined in any way, and how what is left over   *)
(* passes to the relay.  Descriptors, interests and the way to the origin  *)
(* are in Socks5, the users table and the replies in Management.           *)
(***************************************************************************)
EXTENDS Relay, Parsers

CONSTANTS
  Messages,     \* of each protocol, the messages that a client may send in each turn
  Accounts,     \* of each protocol, the names and passwords that are accepted
  ReplySize     \* 10 in the code: of the reply to a request

Turns == <<"hello", "credentials", "request", "data">>

ASSUME DialogueAssumption ==
  /\ ReplySize \in 2..BufferSize
  /\ ClientBytes \subseteq Byte /\ OriginBytes \subseteq Byte
  /\ \A p \in DOMAIN Messages : \A t \in 1..Len(Turns) : Messages[p][Turns[t]] \subseteq Seq(Byte)

VARIABLES
  protocol,         \* isSocks
  client,           \* the union of that name: hello_st, userpass_st, ... with their parsers
  index,            \* mng_request_st.index, which outlives the parser of the index
  authentication,
  turn,             \* the last message that the client began
  unsent,           \* what it has not sent of it
  socket,           \* what it sent that the proxy has not received
  ahead,            \* history: it began a message before the proxy was ready for it
  taken             \* history: what the parser has taken

clientVars == <<turn, unsent, ahead>>
vars == <<state, relayVars, protocol, client, index, authentication, clientVars, socket, taken>>

G == INSTANCE Grammar WITH V4 <- IPV4_LEN, V6 <- IPV6_LEN

\* What comes after the end of a message belongs to the next one.
MessagesEnd ==
  \A p \in DOMAIN Messages :
    /\ \A m \in Messages[p].hello : \A n \in 0..Len(m) :
         (\E version \in Byte : G!IsHello(version, SubSeq(m, 1, n))) => n = Len(m)
    /\ \A m \in Messages[p].credentials : \A n \in 0..Len(m) :
         G!IsCredentials(SubSeq(m, 1, n)) => n = Len(m)

WithParams == {10, 11, 12, 13}     \* add_user, delete_user, disable_auth, disable_password_disectors

\* The message that each reading state waits for.
Awaits ==
  [HELLO_READ |-> 1, USERPASS_READ |-> 2, REQUEST_READ |-> 3,
   MNG_REQUEST_READ_INDEX |-> 3, MNG_REQUEST_READ |-> 3]
ReadStates == DOMAIN Awaits

hello_read_init ==
  IF protocol = "socks" THEN {hello_parser_init(5, auth_method) : auth_method \in {0, 2}}
  ELSE {hello_parser_init(1, 2)}

params_parser_init(i) ==
  CASE i = 10 -> add_user_parser_init
    [] i = 11 -> delete_user_parser_init
    [] i \in {12, 13} -> yes_no_parser_init

Init ==
  /\ protocol \in DOMAIN Messages
  /\ state = "HELLO_READ" /\ client \in hello_read_init
  /\ index = 0 /\ authentication = 0
  /\ buffer = [b \in {"read_buffer", "write_buffer"} |-> EmptyQueue]
  /\ mask = [s \in Sides |-> {"READ", "WRITE"}]
  /\ interest = [s \in Sides |-> {}]
  /\ dissector = password_parser_init /\ sent = 0
  /\ turn = 0 /\ unsent = << >> /\ ahead = FALSE
  /\ socket = << >> /\ taken = << >>
-----------------------------------------------------------------------------
(* The client. *)

Handshaking == state \notin {"COPY", "DONE", "CRASHED"}

ClientBegins ==
  /\ Handshaking /\ unsent = << >>
  /\ \E t \in (turn + 1)..Len(Turns) :
       /\ \E m \in Messages[protocol][Turns[t]] : unsent' = m
       /\ turn' = t
       /\ ahead' = (ahead \/ state \notin ReadStates \/ Awaits[state] # t)
  /\ UNCHANGED <<state, relayVars, protocol, client, index, authentication, socket, taken>>

ClientSends ==
  /\ Handshaking
  /\ \E n \in 1..Len(unsent) :
       /\ socket' = socket \o SubSeq(unsent, 1, n)
       /\ unsent' = SubSeq(unsent, n + 1, Len(unsent))
  /\ UNCHANGED <<state, relayVars, protocol, client, index, authentication, turn, ahead, taken>>
-----------------------------------------------------------------------------
(* What the handlers share. *)

\* A terminal state, or the relay: what belongs to the handshake is not used again.
Forgets ==
  /\ client' = << >> /\ taken' = << >> /\ socket' = << >> /\ unsent' = << >>
  /\ turn' = Len(Turns) /\ ahead' = TRUE /\ index' = 0 /\ authentication' = 0

Closes(terminal) ==
  /\ state' = terminal /\ Forgets
  /\ buffer' = [b \in DOMAIN buffer |-> EmptyQueue]
  /\ UNCHANGED <<mask, interest, dissector, sent, protocol>>

\* ERROR, DONE, MNG_ERROR and MNG_DONE: the connection is closed.
Ends == Closes("DONE")

Input == buffer.read_buffer
Output == buffer.write_buffer
Buffers(input, output) == [read_buffer |-> input, write_buffer |-> output]

\* What a recv of n bytes and the parser's run over read_buffer give.
AfterRecv(kind, n) ==
  LET full == Put(Input, SubSeq(socket, 1, n)) IN
  {[parser |-> run.parser,
    taken  |-> taken \o SubSeq(full.bytes, 1, run.count),
    input  |-> Take(full, run.count),
    socket |-> SubSeq(socket, n + 1, Len(socket))] :
   run \in Consume(kind, client, full.bytes)}

\* The numbers of bytes that a recv of at most `most` may give.
Recv(most) == {n \in 1..Len(socket) : n <= most /\ n <= Room(Input)}

Received(r) == client' = r.parser /\ taken' = r.taken /\ socket' = r.socket

\* recv with no room returns 0, which is taken for the end of the input.
NoRoom == socket # << >> /\ Room(Input) = 0

AllThereIs == Len(socket)
Unmoved == UNCHANGED <<mask, interest, dissector, sent, protocol, clientVars>>

\* The message is not complete: the state stays.
Continues(r) ==
  /\ Received(r) /\ buffer' = Buffers(r.input, Output)
  /\ UNCHANGED <<state, index, authentication>> /\ Unmoved

\* A mutated form: the reply is written whether it fits or not.
Marshal_NoRoomCheck(reply) == Put(Output, reply)

\* The reply, if it fits.
Marshal(reply) == IF Len(reply) > Room(Output) THEN Output ELSE Put(Output, reply)

\* What is left of q after a send of a part of it, or all.
AfterSend(q) == {Take(q, n) : n \in 1..Len(q.bytes)}
Writes(q) ==
  /\ buffer' = Buffers(Input, q)
  /\ UNCHANGED <<state, client, index, authentication, socket, taken>> /\ Unmoved

\* The arrival in a reading state, whose parser is new.
Reads(s, parser) ==
  /\ state' = s /\ client' = parser /\ taken' = << >>
  /\ buffer' = Buffers(Input, EmptyQueue)
  /\ UNCHANGED <<index, authentication, socket>> /\ Unmoved
-----------------------------------------------------------------------------
\* There is always room: the parser of the first message leaves nothing unread.
hello_read ==
  /\ state = "HELLO_READ"
  /\ \E n \in Recv(AllThereIs) : \E r \in AfterRecv("hello", n) :
       \/ ~hello_is_done(r.parser) /\ Continues(r)
       \/ r.parser.state = "hello_error_unsupported_version" /\ Ends
       \/ /\ r.parser.state = "hello_done"
          /\ state' = "HELLO_WRITE" /\ Received(r)
          /\ buffer' = Buffers(r.input, Marshal(<<r.parser.version, r.parser.chosen>>))
          /\ UNCHANGED <<index, authentication>> /\ Unmoved

hello_write ==
  /\ state = "HELLO_WRITE"
  /\ \E q \in AfterSend(Output) :
       \/ CanRead(q) /\ Writes(q)
       \/ ~CanRead(q) /\ client.chosen = NO_ACCEPTABLE_METHODS /\ Ends
       \/ ~CanRead(q) /\ client.chosen = 0 /\ Reads("REQUEST_READ", request_parser_init)
       \/ ~CanRead(q) /\ client.chosen = 2 /\ Reads("USERPASS_READ", auth_parser_init)

\* checkCredentials, checkMngCredentials: strcmp with each account.
Verdict(p) ==
  IF [name |-> G!CString(p.states[3].result), pass |-> G!CString(p.states[5].result)]
       \in Accounts[protocol]
  THEN 0 ELSE 1

\* After a wrong version strcmp is given a user name that is NULL, if there is
\* an account to compare it with.
auth_read ==
  /\ state = "USERPASS_READ"
  /\ \/ NoRoom /\ Ends
     \/ \E n \in Recv(AllThereIs) : \E r \in AfterRecv("fields", n) :
          \/ ~is_done(r.parser) /\ Continues(r)
          \/ /\ r.parser.current = "error_read"
             /\ Closes(IF Accounts[protocol] = {} THEN "DONE" ELSE "CRASHED")
          \/ /\ r.parser.current = "done_read"
             /\ state' = "USERPASS_WRITE" /\ Received(r)
             /\ authentication' = Verdict(r.parser)
             /\ buffer' = Buffers(r.input, Output)
             /\ UNCHANGED index /\ Unmoved

\* The verdict is marshalled on every call.
auth_write ==
  /\ state = "USERPASS_WRITE"
  /\ \E q \in AfterSend(Marshal(<<1, authentication>>)) :
       \/ CanRead(q) /\ Writes(q)
       \/ ~CanRead(q) /\ authentication # 0 /\ Ends
       \/ /\ ~CanRead(q) /\ authentication = 0
          /\ IF protocol = "socks" THEN Reads("REQUEST_READ", request_parser_init)
             ELSE Reads("MNG_REQUEST_READ_INDEX", mng_index_parser_init)

\* request_process: on the way to the origin, by name or by address.
request_read ==
  /\ state = "REQUEST_READ"
  /\ \/ NoRoom /\ Ends
     \/ \E n \in Recv(AllThereIs) : \E r \in AfterRecv("request", n) :
          \/ ~request_is_done(r.parser) /\ Continues(r)
          \/ /\ request_is_done(r.parser)
             /\ state' = "REQUEST_CONNECTING" /\ Received(r)
             /\ buffer' = Buffers(r.input, Output)
             /\ UNCHANGED <<index, authentication>> /\ Unmoved

request_marshall(status) == <<5, status>> \o [i \in 1..(ReplySize - 2) |-> 0]

\* The attempts are over, by any of the ways that Socks5 models.
connecting ==
  /\ state = "REQUEST_CONNECTING"
  /\ \E status \in {0, 1} :        \* orig.conn.status
       /\ client' = [status |-> status]
       /\ buffer' = Buffers(Input, Marshal(request_marshall(status)))
  /\ state' = "REQUEST_WRITE" /\ taken' = << >>
  /\ UNCHANGED <<index, authentication, socket>> /\ Unmoved

\* From here on what the client has sent arrives with whatever else it sends.
request_write ==
  /\ state = "REQUEST_WRITE"
  /\ \E q \in AfterSend(Output) :
       \/ CanRead(q) /\ Writes(q)
       \/ ~CanRead(q) /\ client.status # 0 /\ Ends
       \/ /\ ~CanRead(q) /\ client.status = 0
          /\ state' = "COPY" /\ buffer' = Buffers(Input, q) /\ copy_init
          /\ Forgets /\ UNCHANGED <<dissector, sent, protocol>>

\* A reply with something to tell, which Management models in full; here a reply of ReplySize bytes.
Value == [i \in 1..ReplySize |-> 0]

MngReplies(r, reply) ==
  /\ state' = "MNG_REQUEST_WRITE" /\ Received(r)
  /\ buffer' = Buffers(r.input, Marshal(reply))
  /\ UNCHANGED authentication /\ Unmoved

\* One byte is received, whatever the socket holds.
mng_request_index_read ==
  /\ state = "MNG_REQUEST_READ_INDEX"
  /\ \/ /\ NoRoom
        /\ MngReplies([parser |-> client, taken |-> taken, input |-> Input, socket |-> socket], <<1>>)
        /\ UNCHANGED index
     \/ \E n \in Recv(1) : \E r \in AfterRecv("fields", n) :
          LET i == r.parser.states[1].result[1] IN
          \/ r.parser.current = "error_read" /\ MngReplies(r, <<2>>) /\ UNCHANGED index
          \/ /\ r.parser.current = "done_read" /\ i \notin WithParams
             /\ MngReplies(r, Value) /\ index' = i
          \/ /\ r.parser.current = "done_read" /\ i \in WithParams
             /\ state' = "MNG_REQUEST_READ" /\ index' = i
             /\ Received([r EXCEPT !.parser = params_parser_init(i), !.taken = << >>])
             /\ buffer' = Buffers(r.input, Output)
             /\ UNCHANGED authentication /\ Unmoved

mng_request_read ==
  /\ state = "MNG_REQUEST_READ"
  /\ \/ NoRoom /\ Ends
     \/ \E n \in Recv(AllThereIs) : \E r \in AfterRecv("fields", n) :
          \/ ~is_done(r.parser) /\ Continues(r)
          \/ is_done(r.parser) /\ MngReplies(r, <<0>>) /\ UNCHANGED index

mng_request_write ==
  /\ state = "MNG_REQUEST_WRITE"
  /\ \E q \in AfterSend(Output) :
       \/ CanRead(q) /\ Writes(q)
       \/ ~CanRead(q) /\ Ends

\* The end of the client's input, a failed recv or send.
Fails == Handshaking /\ Ends
-----------------------------------------------------------------------------
ReadHandler ==
  hello_read \/ auth_read \/ request_read \/ mng_request_index_read \/ mng_request_read

WriteHandler ==
  hello_write \/ auth_write \/ request_write \/ mng_request_write

handshakeVars == <<protocol, client, index, authentication, clientVars, socket, taken>>
CopyReads(s) == copy_read(s) /\ UNCHANGED handshakeVars
CopyWrites(s) == copy_write(s) /\ UNCHANGED handshakeVars

Next ==
  \/ ClientBegins \/ ClientSends \/ Fails
  \/ ReadHandler \/ WriteHandler \/ connecting
  \/ \E s \in Sides : CopyReads(s) \/ CopyWrites(s)

\* The main loop calls the handler of every descriptor that is ready, for ever:
\* what has arrived is read, and what is queued is sent to a peer that reads.
Fairness ==
  /\ WF_vars(ReadHandler)
  /\ \A s \in Sides : WF_vars(CopyWrites(s))

Spec == Init /\ [][Next]_vars /\ Fairness
-----------------------------------------------------------------------------
ReadBuffers == {"read_buffer", "write_buffer"}
Masks == {{}, {"READ"}, {"WRITE"}, {"READ", "WRITE"}}

States ==
  ReadStates \cup
  {"HELLO_WRITE", "USERPASS_WRITE", "REQUEST_CONNECTING", "REQUEST_WRITE",
   "MNG_REQUEST_WRITE", "COPY", "DONE", "CRASHED"}

TypeOK ==
  /\ state \in States
  /\ buffer \in [ReadBuffers -> Queues(Byte)]
  /\ mask \in [Sides -> Masks] /\ interest \in [Sides -> Masks]
  /\ dissector \in Dissectors /\ sent \in 0..BufferSize
  /\ protocol \in DOMAIN Messages
  /\ index \in Byte /\ authentication \in {0, 1}
  /\ turn \in 0..Len(Turns) /\ ahead \in BOOLEAN
  /\ unsent \in Seq(Byte) /\ socket \in Seq(Byte) /\ taken \in Seq(Byte)

(* hello_read: the method chosen is the configured one exactly when the message
   of the client, taken as a whole, offers it, whatever pieces the message came
   in and whatever came with it. *)
MethodIsOneOffered ==
  state = "HELLO_WRITE" =>
    /\ G!IsHello(client.version, taken)
    /\ client.chosen = IF client.method \in G!Offered(taken) THEN client.method
                       ELSE NO_ACCEPTABLE_METHODS

AccountSent ==
  [name |-> G!CString(G!Name(Tail(taken))), pass |-> G!CString(G!Password(Tail(taken)))]

IsParameters(i, m) ==
  CASE i = 10 -> G!IsNameAndPassword(m)
    [] i = 11 -> Len(m) >= 1 /\ Len(m) = 1 + m[1]
    [] i \in {12, 13} -> Len(m) = 1

Parameters(i, p) ==
  CASE i = 10 -> <<p.states[2].result, p.states[4].result>>
    [] i = 11 -> <<p.states[2].result>>
    [] i \in {12, 13} -> <<p.states[1].result>>

ParametersSent(i, m) ==
  CASE i = 10 -> <<G!Name(m), G!Password(m)>>
    [] i = 11 -> <<Tail(m)>>
    [] i \in {12, 13} -> <<m>>

(* auth_process and process_mng_params_request work with the fields that the
   client sent: the verdict is about the name and the password in its message,
   and a user is added or deleted by the strings in it, none shifted, cut or
   mixed with what came before or after. *)
FieldsAreThoseSent ==
  /\ state = "USERPASS_WRITE" =>
       /\ G!IsCredentials(taken)
       /\ authentication = 0 <=> AccountSent \in Accounts[protocol]
  /\ state = "MNG_REQUEST_WRITE" /\ index \in WithParams =>
       /\ IsParameters(index, taken)
       /\ Parameters(index, client) = ParametersSent(index, taken)

\* The name of no bytes, which no format allows.
EmptyName(m) == m[4] = 3 /\ m[5] = 0

(* request_process connects to the address and port of the client's request. *)
DestinationIsTheOneAsked ==
  state = "REQUEST_CONNECTING" /\ ~EmptyName(taken) =>
    /\ G!IsRequest(taken)
    /\ G!Destination(taken) =
         [type |-> client.dest_addr_type, address |-> client.dest_addr, port |-> client.dest_port]

\* What has come of the message that is being read.
Message == taken \o Input.bytes \o socket

Complete ==
  CASE state = "HELLO_READ"             -> G!IsHello(client.version, Message)
    [] state = "USERPASS_READ"          -> G!IsCredentials(Message)
    [] state = "REQUEST_READ"           -> G!IsRequest(Message)
    [] state = "MNG_REQUEST_READ_INDEX" -> Message # << >>
    [] state = "MNG_REQUEST_READ"       -> IsParameters(index, Message)
    [] OTHER                            -> FALSE

(* A client that sends a message only when the proxy is ready for it never fills
   read_buffer, and is served once the message is complete: no byte of it waits
   there for another that will not come, and none is asked for beyond its end. *)
PatientClientIsServed ==
  /\ [](state \in ReadStates /\ ~ahead => ~NoRoom)
  /\ (Complete /\ ~ahead) ~> ~Complete

(* The dissector never writes beyond a block, nor uses or frees one that is free,
   whatever the two ends send and however management switches it. *)
DissectorMemoryIsSound == ~dissector.fault

Channel ==
  INSTANCE Channels WITH
    Capacity <- BufferSize,
    delivered <- sent,
    queue <- [d \in {"up", "down"} |-> Carried(Side(d))],
    open <- [d \in {"up", "down"} |-> Open(Side(d))],
    established <- Relaying \/ \A s \in Sides : mask[s] = {}

(* copy.c relays as two channels do: each byte once, in order, in its own
   direction, and the end of one direction leaves the other alone. *)
RelayIsTwoQueues == Channel!Spec

Waiting(s) == Relaying /\ Open(Other(s)) /\ CanRead(buffer[wb(s)])
SendsTo(s) == sent' > 0 /\ buffer'[wb(s)] # buffer[wb(s)]

(* Bytes that copy_read queued for a side are sent to it: they do not wait for
   ever without a send, because the interest in writing to a side follows what the
   other side's handler does to the buffer. *)
QueuedBytesMove ==
  \A s \in Sides : []<>~Waiting(s) \/ []<><<SendsTo(s)>>_vars
=============================================================================
