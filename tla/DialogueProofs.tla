--------------------------- MODULE DialogueProofs ---------------------------
(***************************************************************************)
(* Proofs about Dialogue: for buffers of any size and any messages,        *)
(* accounts and reserved words, the relay of a connection implements the   *)
(* two queues of Channels.                                                 *)
(***************************************************************************)
EXTENDS Dialogue, SequenceTheorems, TLAPS

(* Sequences. *)

LEMMA SuffixIsSeq ==
  ASSUME NEW s \in Seq(Byte), NEW n \in 0..Len(s)
  PROVE  /\ SubSeq(s, n + 1, Len(s)) \in Seq(Byte)
         /\ Len(SubSeq(s, n + 1, Len(s))) = Len(s) - n
<1>1. \A i \in (n + 1)..Len(s) : s[i] \in Byte
  BY ElementOfSeq
<1>2. n + 1 \in Int /\ Len(s) \in Int
  OBVIOUS
<1> QED
  BY <1>1, <1>2, SubSeqProperties

LEMMA PrefixIsSeq ==
  ASSUME NEW s \in Seq(Byte), NEW n \in 0..Len(s)
  PROVE  /\ SubSeq(s, 1, n) \in Seq(Byte)
         /\ Len(SubSeq(s, 1, n)) = n
<1>1. \A i \in 1..n : s[i] \in Byte
  BY ElementOfSeq
<1> QED
  BY <1>1, SubSeqProperties

(* The buffer. *)

LEMMA EmptyIsQueue == EmptyQueue \in Queues(Byte)
BY QueueSizeAssumption DEF EmptyQueue, Queues

LEMMA QueueFields ==
  ASSUME NEW q \in Queues(Byte)
  PROVE  /\ q = [read |-> q.read, bytes |-> q.bytes]
         /\ q.read \in 0..(BufferSize - 1) /\ q.bytes \in Seq(Byte)
         /\ q.read + Len(q.bytes) <= BufferSize
         /\ q.bytes = << >> => q.read = 0
         /\ Len(q.bytes) \in 0..BufferSize /\ BufferSize \in Nat
         /\ Room(q) \in Nat
BY QueueSizeAssumption DEF Queues, Room

\* What fits is put at the end.
LEMMA PutKeepsQueue ==
  ASSUME NEW q \in Queues(Byte), NEW s \in Seq(Byte), Len(s) <= Room(q)
  PROVE  /\ Put(q, s) \in Queues(Byte)
         /\ Put(q, s).bytes = q.bytes \o s
         /\ Len(q.bytes \o s) = Len(q.bytes) + Len(s)
         /\ SubSeq(q.bytes \o s, 1, Len(q.bytes)) = q.bytes
<1>1. Put(q, s) = [read |-> q.read, bytes |-> q.bytes \o s]
  <2>1. q \in [read : 0..(BufferSize - 1), bytes : Seq(Byte)]
    BY DEF Queues
  <2> DEFINE x == q.bytes \o s
  <2> HIDE DEF x
  <2>2. [q EXCEPT !.bytes = x] = [read |-> q.read, bytes |-> x]
    BY <2>1
  <2> QED
    BY <2>2 DEF Put, x
<1>2. /\ q.bytes \o s \in Seq(Byte)
      /\ Len(q.bytes \o s) = Len(q.bytes) + Len(s)
      /\ \A i \in 1..(Len(q.bytes) + Len(s)) :
           (q.bytes \o s)[i] = IF i <= Len(q.bytes) THEN q.bytes[i] ELSE s[i - Len(q.bytes)]
  BY QueueFields, ConcatProperties
<1>3. q.bytes \o s = << >> => q.bytes = << >>
  BY QueueFields, ConcatEqualIffEmpty
<1>4. Put(q, s) \in Queues(Byte)
  BY <1>1, <1>2, <1>3, QueueFields, QueueSizeAssumption DEF Queues, Room
<1>5. SubSeq(q.bytes \o s, 1, Len(q.bytes)) = q.bytes
  <2> DEFINE t == SubSeq(q.bytes \o s, 1, Len(q.bytes))
  <2>1. t \in Seq(Byte) /\ Len(t) = Len(q.bytes)
    BY <1>2, QueueFields, PrefixIsSeq
  <2>2. \A i \in 1..Len(q.bytes) : t[i] = q.bytes[i]
    <3>1. \A i \in 1..Len(q.bytes) : (q.bytes \o s)[i] \in Byte /\ (q.bytes \o s)[i] = q.bytes[i]
      BY <1>2, QueueFields, ElementOfSeq
    <3>2. \A i \in 1..(Len(q.bytes) - 1 + 1) : t[i] = (q.bytes \o s)[1 + i - 1]
      BY <3>1, QueueFields, SubSeqProperties
    <3> QED
      BY <3>1, <3>2, QueueFields
  <2>3. q.bytes \in Seq(Byte)
    BY QueueFields
  <2> HIDE DEF t
  <2>4. t = q.bytes
    BY <2>1, <2>2, <2>3, SeqEqual
  <2> QED
    BY <2>4 DEF t
<1> QED
  BY <1>1, <1>2, <1>4, <1>5

\* What is sent is taken from the front.
LEMMA TakeKeepsQueue ==
  ASSUME NEW q \in Queues(Byte), NEW n \in 1..Len(q.bytes)
  PROVE  /\ Take(q, n) \in Queues(Byte)
         /\ Take(q, n).bytes = SubSeq(q.bytes, n + 1, Len(q.bytes))
         /\ CanRead(Take(q, n)) \/ Take(q, n) = EmptyQueue
<1>1. CASE n = Len(q.bytes)
  <2>1. SubSeq(q.bytes, n + 1, Len(q.bytes)) = << >>
    BY <1>1, QueueFields, SubSeqEmpty
  <2> QED
    BY <1>1, <2>1, EmptyIsQueue DEF Take, EmptyQueue
<1>2. CASE n # Len(q.bytes)
  <2> DEFINE t == SubSeq(q.bytes, n + 1, Len(q.bytes))
  <2>1. t \in Seq(Byte) /\ Len(t) = Len(q.bytes) - n
    <3>1. q.bytes \in Seq(Byte) /\ n \in 0..Len(q.bytes)
      BY QueueFields
    <3> QED
      BY <3>1, SuffixIsSeq
  <2>2. Take(q, n) = [read |-> q.read + n, bytes |-> t]
    BY <1>2 DEF Take
  <2> HIDE DEF t
  <2>3. Len(t) > 0 /\ t # << >>
    BY <1>2, <2>1, QueueFields, EmptySeq
  <2>4. q.read + n \in 0..(BufferSize - 1) /\ q.read + n + Len(t) <= BufferSize
    BY <1>2, <2>1, QueueFields
  <2>5. [read |-> q.read + n, bytes |-> t] \in Queues(Byte)
    BY <2>1, <2>3, <2>4 DEF Queues
  <2> QED
    BY <2>2, <2>3, <2>5 DEF CanRead, t
<1> QED
  BY <1>1, <1>2

(* The inductive invariant. *)

RequestStates == {"REQUEST_READ", "REQUEST_CONNECTING", "REQUEST_WRITE"}

BytesInv ==
  /\ socket \in Seq(Byte) /\ unsent \in Seq(Byte)
  /\ turn \in 0..Len(Turns) /\ protocol \in DOMAIN Messages

\* The replies before the request are of no concern: write_buffer is rewound
\* on the way to REQUEST_READ.
BuffersInv ==
  /\ buffer = Buffers(Input, Output)
  /\ Input \in Queues(Byte)
  /\ state \in RequestStates \cup {"COPY"} => Output \in Queues(Byte)

\* The input of one side and the output of the other are shut together.
MasksInv ==
  /\ mask \in [Sides -> SUBSET {"READ", "WRITE"}]
  /\ \A s \in Sides : "READ" \in mask[s] <=> "WRITE" \in mask[Other(s)]
  /\ Handshaking => mask = [s \in Sides |-> {"READ", "WRITE"}] /\ sent = 0

InterestsInv == Relaying => interest = BothInterests("client", mask, buffer)

DialogueInv == BytesInv /\ BuffersInv /\ MasksInv /\ InterestsInv

LEMMA TwoSides ==
  /\ Sides = {"client", "origin"}
  /\ Other("client") = "origin" /\ Other("origin") = "client"
BY DEF Sides, Other

LEMMA InitInv == Init => DialogueInv
<1> SUFFICES ASSUME Init PROVE DialogueInv
  OBVIOUS
<1>1. Turns = <<"hello", "credentials", "request", "data">> /\ Len(Turns) = 4
  BY DEF Turns
<1>2. BytesInv
  BY <1>1 DEF Init, BytesInv
<1>3. BuffersInv
  BY EmptyIsQueue DEF Init, BuffersInv, Buffers, Input, Output, RequestStates
<1>4. MasksInv
  BY TwoSides DEF Init, MasksInv, Handshaking
<1>5. InterestsInv
  BY DEF Init, InterestsInv, Relaying
<1> QED
  BY <1>2, <1>3, <1>4, <1>5 DEF DialogueInv

(* The handshake: what every step before the relay does to what it needs. *)

HandshakeStep ==
  /\ Handshaking /\ state' # "COPY"
  /\ mask' = mask /\ sent' = sent
  /\ BytesInv' /\ BuffersInv'

LEMMA HandshakeKeepsInv ==
  ASSUME DialogueInv, HandshakeStep
  PROVE  DialogueInv'
<1>1. MasksInv'
  <2>1. mask' = mask /\ sent' = sent
    BY DEF HandshakeStep
  <2>2. mask = [s \in Sides |-> {"READ", "WRITE"}] /\ sent = 0
    BY DEF DialogueInv, HandshakeStep, MasksInv
  <2>3. mask' \in [Sides -> SUBSET {"READ", "WRITE"}]
    BY <2>1 DEF DialogueInv, MasksInv
  <2>4. \A s \in Sides : "READ" \in mask'[s] <=> "WRITE" \in mask'[Other(s)]
    BY <2>1 DEF DialogueInv, MasksInv
  <2> QED
    BY <2>1, <2>2, <2>3, <2>4 DEF MasksInv
<1>2. InterestsInv'
  BY DEF HandshakeStep, InterestsInv, Relaying
<1> QED
  BY <1>1, <1>2 DEF DialogueInv, HandshakeStep

\* What a recv leaves.
LEMMA RecvKeepsQueue ==
  ASSUME DialogueInv, NEW kind, NEW most, NEW n \in Recv(most), NEW r \in AfterRecv(kind, n)
  PROVE  r.input \in Queues(Byte) /\ r.socket \in Seq(Byte)
<1> DEFINE full == Put(Input, SubSeq(socket, 1, n))
<1>1. socket \in Seq(Byte) /\ Input \in Queues(Byte)
  BY DEF DialogueInv, BytesInv, BuffersInv
<1>2. n \in 1..Len(socket) /\ n <= Room(Input)
  BY DEF Recv
<1>3. n \in 0..Len(socket)
  BY <1>1, <1>2
<1>4. SubSeq(socket, 1, n) \in Seq(Byte) /\ Len(SubSeq(socket, 1, n)) = n
  BY <1>1, <1>3, PrefixIsSeq
<1>5. full \in Queues(Byte)
  BY <1>1, <1>2, <1>4, PutKeepsQueue
<1>6. PICK run \in Consume(kind, client, full.bytes) :
        r = [parser |-> run.parser, taken |-> taken \o SubSeq(full.bytes, 1, run.count),
             input |-> Take(full, run.count), socket |-> SubSeq(socket, n + 1, Len(socket))]
  BY Zenon DEF AfterRecv
<1>7. run.count \in 1..Len(full.bytes)
  BY <1>6 DEF Consume, Stops
<1> HIDE DEF full
<1>8. Take(full, run.count) \in Queues(Byte)
  BY <1>5, <1>7, TakeKeepsQueue
<1>9. SubSeq(socket, n + 1, Len(socket)) \in Seq(Byte)
  BY <1>1, <1>3, SuffixIsSeq
<1> QED
  BY <1>6, <1>8, <1>9

LEMMA ClosingStep ==
  ASSUME DialogueInv, Handshaking, NEW terminal \in {"DONE", "CRASHED"}, Closes(terminal)
  PROVE  HandshakeStep
<1>1. << >> \in Seq(Byte) /\ Len(Turns) \in 0..Len(Turns)
  BY DEF Turns
<1>2. BytesInv'
  BY <1>1 DEF DialogueInv, BytesInv, Closes, Forgets
<1>3. buffer' = Buffers(EmptyQueue, EmptyQueue)
  BY DEF DialogueInv, BuffersInv, Buffers, Closes
<1>4. BuffersInv'
  BY <1>3, EmptyIsQueue DEF BuffersInv, Buffers, Input, Output
<1> QED
  BY <1>2, <1>4 DEF Closes, HandshakeStep

\* A new value of each buffer, and what the client sent and has not sent.
LEMMA BufferStep ==
  ASSUME DialogueInv, Handshaking, state' # "COPY", NEW i \in Queues(Byte), NEW o,
         buffer' = Buffers(i, o), state' \in RequestStates => o \in Queues(Byte),
         socket' \in Seq(Byte), Unmoved
  PROVE  HandshakeStep
<1>1. BytesInv'
  BY DEF DialogueInv, BytesInv, Unmoved, clientVars
<1>2. BuffersInv'
  BY DEF BuffersInv, Buffers, Input, Output
<1> QED
  BY <1>1, <1>2 DEF Unmoved, HandshakeStep

\* A step that receives, and leaves write_buffer alone or puts a reply in it.
LEMMA ReceivingStep ==
  ASSUME DialogueInv, Handshaking, state' # "COPY",
         NEW kind, NEW most, NEW n \in Recv(most), NEW r \in AfterRecv(kind, n), NEW o,
         socket' = r.socket, buffer' = Buffers(r.input, o), Unmoved,
         state' \in RequestStates => state \in RequestStates /\ o = Output
  PROVE  HandshakeStep
<1>1. r.input \in Queues(Byte) /\ r.socket \in Seq(Byte)
  BY RecvKeepsQueue
<1>2. state' \in RequestStates => o \in Queues(Byte)
  BY DEF DialogueInv, BuffersInv
<1> QED
  BY <1>1, <1>2, BufferStep

\* A step that writes, and leaves the client's bytes alone.
LEMMA WritingStep ==
  ASSUME DialogueInv, Handshaking, NEW q, Writes(q), state \in RequestStates => q \in Queues(Byte)
  PROVE  HandshakeStep
<1>1. state' = state /\ socket' = socket /\ Unmoved /\ buffer' = Buffers(Input, q)
  BY DEF Writes
<1>2. state' # "COPY" /\ socket \in Seq(Byte) /\ Input \in Queues(Byte)
  BY <1>1 DEF DialogueInv, BytesInv, BuffersInv, Handshaking
<1> QED
  BY <1>1, <1>2, BufferStep

LEMMA ReadingStep ==
  ASSUME DialogueInv, Handshaking, NEW s, s # "COPY", NEW parser, Reads(s, parser)
  PROVE  HandshakeStep
<1>1. socket' = socket /\ Unmoved /\ buffer' = Buffers(Input, EmptyQueue) /\ state' = s
  BY DEF Reads
<1>2. socket \in Seq(Byte) /\ Input \in Queues(Byte)
  BY DEF DialogueInv, BytesInv, BuffersInv
<1> QED
  BY <1>1, <1>2, EmptyIsQueue, BufferStep

(* Each action of the handshake. *)

LEMMA ClientSteps ==
  ASSUME DialogueInv, ClientBegins \/ ClientSends
  PROVE  HandshakeStep
<1>1. /\ Handshaking /\ state' = state /\ buffer' = buffer
      /\ mask' = mask /\ sent' = sent /\ protocol' = protocol
  BY DEF ClientBegins, ClientSends, relayVars
<1>2. BuffersInv'
  BY <1>1 DEF DialogueInv, BuffersInv, Input, Output
<1>3. CASE ClientBegins
  <2>1. PICK t \in (turn + 1)..Len(Turns) :
          unsent' \in Messages[protocol][Turns[t]] /\ turn' = t
    BY <1>3 DEF ClientBegins
  <2>2. turn \in 0..4 /\ Len(Turns) = 4 /\ t \in 1..Len(Turns) /\ t \in 0..Len(Turns)
    BY <2>1 DEF DialogueInv, BytesInv, Turns
  <2>3. unsent' \in Seq(Byte)
    BY <2>1, <2>2, DialogueAssumption DEF DialogueInv, BytesInv
  <2>4. BytesInv'
    BY <1>1, <1>3, <2>1, <2>2, <2>3 DEF DialogueInv, BytesInv, ClientBegins
  <2> QED
    BY <1>1, <1>2, <2>4 DEF HandshakeStep, Handshaking
<1>4. CASE ClientSends
  <2>1. PICK n \in 1..Len(unsent) :
          /\ socket' = socket \o SubSeq(unsent, 1, n)
          /\ unsent' = SubSeq(unsent, n + 1, Len(unsent))
    BY <1>4 DEF ClientSends
  <2>2. socket \in Seq(Byte) /\ unsent \in Seq(Byte) /\ n \in 0..Len(unsent)
    BY <2>1 DEF DialogueInv, BytesInv
  <2>3. SubSeq(unsent, 1, n) \in Seq(Byte) /\ unsent' \in Seq(Byte)
    BY <2>1, <2>2, PrefixIsSeq, SuffixIsSeq
  <2>4. socket' \in Seq(Byte)
    BY <2>1, <2>2, <2>3, ConcatProperties
  <2>5. BytesInv'
    BY <1>1, <1>4, <2>3, <2>4 DEF DialogueInv, BytesInv, ClientSends
  <2> QED
    BY <1>1, <1>2, <2>5 DEF HandshakeStep, Handshaking
<1> QED
  BY <1>3, <1>4

\* What any handler of a read comes to, and any handler of a write.
ReadOutcome(r) ==
  \/ \E terminal \in {"DONE", "CRASHED"} : Closes(terminal)
  \/ \E o : /\ state' # "COPY" /\ socket' = r.socket /\ buffer' = Buffers(r.input, o) /\ Unmoved
            /\ state' \in RequestStates => state \in RequestStates /\ o = Output

WriteOutcome(q) ==
  \/ Ends \/ Writes(q)
  \/ \E s \in ReadStates : \E parser : Reads(s, parser)

LEMMA ReadStep ==
  ASSUME DialogueInv, Handshaking, NEW kind, NEW most,
         \E n \in Recv(most) : \E r \in AfterRecv(kind, n) : ReadOutcome(r)
  PROVE  HandshakeStep
<1>1. PICK n \in Recv(most) : \E r \in AfterRecv(kind, n) : ReadOutcome(r)
  OBVIOUS
<1>2. PICK r \in AfterRecv(kind, n) : ReadOutcome(r)
  BY <1>1
<1>3. CASE \E terminal \in {"DONE", "CRASHED"} : Closes(terminal)
  BY <1>3, ClosingStep
<1>4. ASSUME NEW o,
             state' # "COPY" /\ socket' = r.socket /\ buffer' = Buffers(r.input, o) /\ Unmoved,
             state' \in RequestStates => state \in RequestStates /\ o = Output
      PROVE  HandshakeStep
  BY <1>4, ReceivingStep
<1> QED
  BY <1>2, <1>3, <1>4 DEF ReadOutcome

LEMMA WriteStep ==
  ASSUME DialogueInv, Handshaking, NEW q, WriteOutcome(q),
         state \in RequestStates => q \in Queues(Byte)
  PROVE  HandshakeStep
<1>1. CASE Ends
  BY <1>1, ClosingStep DEF Ends
<1>2. CASE Writes(q)
  BY <1>2, WritingStep
<1>3. CASE \E s \in ReadStates : \E parser : Reads(s, parser)
  BY <1>3, ReadingStep DEF ReadStates, Awaits
<1> QED
  BY <1>1, <1>2, <1>3 DEF WriteOutcome

LEMMA ContinuingIsOutcome ==
  ASSUME Handshaking, NEW r, Continues(r)
  PROVE  ReadOutcome(r)
<1>1. /\ state' = state /\ socket' = r.socket /\ Unmoved /\ buffer' = Buffers(r.input, Output)
  BY DEF Continues, Received
<1> QED
  BY <1>1 DEF ReadOutcome, Handshaking

LEMMA HelloRead ==
  ASSUME DialogueInv, hello_read
  PROVE  HandshakeStep
<1>1. Handshaking
  BY DEF hello_read, Handshaking
<1>2. ASSUME NEW n \in Recv(AllThereIs), NEW r \in AfterRecv("hello", n),
             state' = "HELLO_WRITE", Received(r), Unmoved,
             buffer' = Buffers(r.input, Marshal(<<r.parser.version, r.parser.chosen>>))
      PROVE  ReadOutcome(r)
  BY <1>2 DEF ReadOutcome, Received, RequestStates
<1>3. \E n \in Recv(AllThereIs) : \E r \in AfterRecv("hello", n) : ReadOutcome(r)
  BY <1>1, <1>2, ContinuingIsOutcome DEF hello_read, Ends, ReadOutcome
<1> QED
  BY <1>1, <1>3, ReadStep

LEMMA HelloWrite ==
  ASSUME DialogueInv, hello_write
  PROVE  HandshakeStep
<1>1. Handshaking /\ state \notin RequestStates
  BY DEF hello_write, Handshaking, RequestStates
<1>2. PICK q \in AfterSend(Output) : WriteOutcome(q)
  BY DEF hello_write, WriteOutcome, ReadStates, Awaits
<1> QED
  BY <1>1, <1>2, WriteStep

LEMMA AuthRead ==
  ASSUME DialogueInv, auth_read
  PROVE  HandshakeStep
<1>1. Handshaking
  BY DEF auth_read, Handshaking
<1>2. CASE Ends
  BY <1>1, <1>2, ClosingStep DEF Ends
<1>3. ASSUME NEW n \in Recv(AllThereIs), NEW r \in AfterRecv("fields", n),
             state' = "USERPASS_WRITE", Received(r), Unmoved, buffer' = Buffers(r.input, Output)
      PROVE  ReadOutcome(r)
  BY <1>3 DEF ReadOutcome, Received, RequestStates
<1>4. CASE \E n \in Recv(AllThereIs) : \E r \in AfterRecv("fields", n) : ReadOutcome(r)
  BY <1>1, <1>4, ReadStep
<1> QED
  BY <1>1, <1>2, <1>3, <1>4, ContinuingIsOutcome DEF auth_read, ReadOutcome

LEMMA AuthWrite ==
  ASSUME DialogueInv, auth_write
  PROVE  HandshakeStep
<1>1. Handshaking /\ state \notin RequestStates
  BY DEF auth_write, Handshaking, RequestStates
<1>2. PICK q \in AfterSend(Marshal(<<1, authentication>>)) : WriteOutcome(q)
  BY DEF auth_write, WriteOutcome, ReadStates, Awaits
<1> QED
  BY <1>1, <1>2, WriteStep

LEMMA RequestRead ==
  ASSUME DialogueInv, request_read
  PROVE  HandshakeStep
<1>1. Handshaking /\ state \in RequestStates
  BY DEF request_read, Handshaking, RequestStates
<1>2. CASE Ends
  BY <1>1, <1>2, ClosingStep DEF Ends
<1>3. ASSUME NEW n \in Recv(AllThereIs), NEW r \in AfterRecv("request", n),
             state' = "REQUEST_CONNECTING", Received(r), Unmoved,
             buffer' = Buffers(r.input, Output)
      PROVE  ReadOutcome(r)
  BY <1>1, <1>3 DEF ReadOutcome, Received
<1>4. CASE \E n \in Recv(AllThereIs) : \E r \in AfterRecv("request", n) : ReadOutcome(r)
  BY <1>1, <1>4, ReadStep
<1> QED
  BY <1>1, <1>2, <1>3, <1>4, ContinuingIsOutcome DEF request_read

LEMMA Connecting ==
  ASSUME DialogueInv, connecting
  PROVE  HandshakeStep
<1>1. /\ Handshaking /\ state' = "REQUEST_WRITE" /\ socket' = socket /\ Unmoved
      /\ Input \in Queues(Byte) /\ Output \in Queues(Byte) /\ socket \in Seq(Byte)
  BY DEF connecting, Handshaking, RequestStates, DialogueInv, BytesInv, BuffersInv
<1>2. PICK status \in {0, 1} : buffer' = Buffers(Input, Marshal(request_marshall(status)))
  BY DEF connecting
<1>3. request_marshall(status) \in Seq(Byte)
  <2> DEFINE rest == [i \in 1..(ReplySize - 2) |-> 0]
  <2>1. ReplySize - 2 \in Nat
    BY DialogueAssumption, QueueSizeAssumption
  <2>2. rest \in Seq(Byte)
    BY <2>1 DEF Byte
  <2>3. <<5, status>> \in Seq(Byte)
    BY DEF Byte
  <2> HIDE DEF rest
  <2>4. <<5, status>> \o rest \in Seq(Byte)
    BY <2>2, <2>3, ConcatProperties
  <2> QED
    BY <2>4 DEF request_marshall, rest
<1>4. Marshal(request_marshall(status)) \in Queues(Byte)
  <2>1. Len(request_marshall(status)) \in Nat /\ Room(Output) \in Nat
    BY <1>1, <1>3, QueueFields, LenProperties
  <2> QED
    BY <1>1, <1>3, <2>1, PutKeepsQueue DEF Marshal
<1> QED
  BY <1>1, <1>2, <1>4, BufferStep

LEMMA MngRequestIndexRead ==
  ASSUME DialogueInv, mng_request_index_read
  PROVE  HandshakeStep
<1>1. Handshaking /\ state \notin RequestStates
  BY DEF mng_request_index_read, Handshaking, RequestStates
<1>2. ASSUME NEW r, NEW reply, MngReplies(r, reply)
      PROVE  /\ state' = "MNG_REQUEST_WRITE" /\ socket' = r.socket /\ Unmoved
             /\ buffer' = Buffers(r.input, Marshal(reply))
  BY <1>2 DEF MngReplies, Received
<1>3. CASE MngReplies([parser |-> client, taken |-> taken, input |-> Input, socket |-> socket], <<1>>)
  <2>1. /\ state' = "MNG_REQUEST_WRITE" /\ socket' = socket /\ Unmoved
        /\ buffer' = Buffers(Input, Marshal(<<1>>))
    BY <1>2, <1>3
  <2>2. Input \in Queues(Byte) /\ socket \in Seq(Byte)
    BY DEF DialogueInv, BytesInv, BuffersInv
  <2> QED
    BY <1>1, <2>1, <2>2, BufferStep DEF RequestStates
<1>4. ASSUME NEW r, \E reply : MngReplies(r, reply)
      PROVE  ReadOutcome(r)
  BY <1>2, <1>4 DEF ReadOutcome, RequestStates
<1>5. ASSUME NEW r, NEW p,
             state' = "MNG_REQUEST_READ", Received([r EXCEPT !.parser = p, !.taken = << >>]),
             r \in [parser : {r.parser}, taken : {r.taken}, input : {r.input}, socket : {r.socket}],
             buffer' = Buffers(r.input, Output), Unmoved
      PROVE  ReadOutcome(r)
  BY <1>5 DEF ReadOutcome, RequestStates, Received
<1>6. ASSUME NEW n \in Recv(1), NEW r \in AfterRecv("fields", n)
      PROVE  r \in [parser : {r.parser}, taken : {r.taken}, input : {r.input}, socket : {r.socket}]
  BY <1>6 DEF AfterRecv
<1>7. CASE \E n \in Recv(1) : \E r \in AfterRecv("fields", n) : ReadOutcome(r)
  BY <1>1, <1>7, ReadStep
<1> QED
  BY <1>3, <1>4, <1>5, <1>6, <1>7 DEF mng_request_index_read

LEMMA MngRequestRead ==
  ASSUME DialogueInv, mng_request_read
  PROVE  HandshakeStep
<1>1. Handshaking
  BY DEF mng_request_read, Handshaking
<1>2. CASE Ends
  BY <1>1, <1>2, ClosingStep DEF Ends
<1>3. \A r : MngReplies(r, <<0>>) => ReadOutcome(r)
  BY DEF ReadOutcome, MngReplies, Received, RequestStates
<1>4. CASE \E n \in Recv(AllThereIs) : \E r \in AfterRecv("fields", n) : ReadOutcome(r)
  BY <1>1, <1>4, ReadStep
<1> QED
  BY <1>1, <1>2, <1>3, <1>4, ContinuingIsOutcome DEF mng_request_read

LEMMA MngRequestWrite ==
  ASSUME DialogueInv, mng_request_write
  PROVE  HandshakeStep
<1>1. Handshaking /\ state \notin RequestStates
  BY DEF mng_request_write, Handshaking, RequestStates
<1>2. PICK q \in AfterSend(Output) : WriteOutcome(q)
  BY DEF mng_request_write, WriteOutcome
<1> QED
  BY <1>1, <1>2, WriteStep

LEMMA RequestWrite ==
  ASSUME DialogueInv, request_write
  PROVE  \/ HandshakeStep
         \/ /\ state = "REQUEST_WRITE" /\ state' = "COPY"
            /\ buffer' = Buffers(Input, EmptyQueue) /\ copy_init
            /\ Forgets /\ UNCHANGED <<dissector, sent, protocol>>
<1>1. Handshaking /\ state = "REQUEST_WRITE" /\ state \in RequestStates
  BY DEF request_write, Handshaking, RequestStates
<1>2. Output \in Queues(Byte)
  BY <1>1 DEF DialogueInv, BuffersInv
<1>3. PICK q \in AfterSend(Output) :
        \/ WriteOutcome(q)
        \/ /\ ~CanRead(q) /\ state' = "COPY" /\ buffer' = Buffers(Input, q) /\ copy_init
           /\ Forgets /\ UNCHANGED <<dissector, sent, protocol>>
  BY DEF request_write, WriteOutcome
<1>4. q \in Queues(Byte) /\ (CanRead(q) \/ q = EmptyQueue)
  BY <1>2, TakeKeepsQueue DEF AfterSend
<1>5. CASE WriteOutcome(q)
  BY <1>1, <1>4, <1>5, WriteStep
<1> QED
  BY <1>1, <1>3, <1>4, <1>5

LEMMA HandshakeSteps ==
  ASSUME DialogueInv,
         \/ ClientBegins \/ ClientSends \/ Fails
         \/ ReadHandler \/ WriteHandler \/ connecting
  PROVE  HandshakeStep \/ (request_write /\ ~HandshakeStep)
<1>1. ASSUME Fails PROVE HandshakeStep
  BY <1>1, ClosingStep DEF Fails, Ends
<1> QED
  BY <1>1, ClientSteps, HelloRead, HelloWrite, AuthRead, AuthWrite, RequestRead, Connecting,
     MngRequestIndexRead, MngRequestRead, MngRequestWrite
     DEF ReadHandler, WriteHandler

(* The relay: the two channels as the buffers and masks have them. *)

Established == Relaying \/ \A s \in Sides : mask[s] = {}

LEMMA SidesOfDirections ==
  /\ Channel!Directions = {"up", "down"}
  /\ Side("up") = "client" /\ Side("down") = "origin"
  /\ \A s \in Sides : \E d \in {"up", "down"} : s = Side(d)
BY TwoSides DEF Channel!Directions, Side

LEMMA BuffersOfSides ==
  /\ rb("client") = "read_buffer" /\ rb("origin") = "write_buffer"
  /\ wb("client") = "write_buffer" /\ wb("origin") = "read_buffer"
BY DEF rb, wb

\* Steps of the relay as steps of the channels.
Queues2 == [d \in {"up", "down"} |-> Carried(Side(d))]
Opens2 == [d \in {"up", "down"} |-> Open(Side(d))]

LEMMA OneDirection ==
  ASSUME NEW s \in Sides
  PROVE  \E d \in {"up", "down"} :
           /\ s = Side(d)
           /\ \A e \in {"up", "down"} \ {d} : Side(e) \in Sides \ {s}
BY TwoSides DEF Side

LEMMA SendStep ==
  ASSUME NEW s \in Sides, Open(s), sent' = 0, Established' = Established,
         \A t \in Sides : Open(t)' = Open(t),
         \A t \in Sides \ {s} : Carried(t)' = Carried(t),
         Carried(s)' \in Seq(Byte), Len(Carried(s)') <= BufferSize,
         Len(Carried(s)') > Len(Carried(s)),
         SubSeq(Carried(s)', 1, Len(Carried(s))) = Carried(s)
  PROVE  Channel!Next
<1>1. PICK d \in {"up", "down"} :
        s = Side(d) /\ \A e \in {"up", "down"} \ {d} : Side(e) \in Sides \ {s}
  BY OneDirection
<1>2. Queues2'[d] = Carried(s)' /\ Queues2[d] = Carried(s)
  BY <1>1 DEF Queues2
<1>3. Queues2' = [Queues2 EXCEPT ![d] = Queues2'[d]]
  <2>1. \A e \in {"up", "down"} \ {d} : Carried(Side(e))' = Carried(Side(e))
    BY <1>1
  <2> QED
    BY <1>1, <2>1 DEF Queues2
<1>4. Opens2[d] /\ Opens2' = Opens2
  <2>1. \A e \in {"up", "down"} : Open(Side(e))' = Open(Side(e))
    BY TwoSides, SidesOfDirections
  <2> QED
    BY <1>1, <2>1 DEF Opens2
<1>5. Channel!Send(d)
  BY <1>2, <1>3, <1>4 DEF Channel!Send, Channel!Contents, Established, Queues2, Opens2
<1> QED
  BY <1>5, SidesOfDirections DEF Channel!Next

LEMMA DeliverStep ==
  ASSUME NEW s \in Sides, Open(s), Established' = Established,
         NEW n \in 1..Len(Carried(s)), sent' = n,
         \A t \in Sides : Open(t)' = Open(t),
         \A t \in Sides \ {s} : Carried(t)' = Carried(t),
         Carried(s)' = SubSeq(Carried(s), n + 1, Len(Carried(s)))
  PROVE  Channel!Next
<1>1. PICK d \in {"up", "down"} :
        s = Side(d) /\ \A e \in {"up", "down"} \ {d} : Side(e) \in Sides \ {s}
  BY OneDirection
<1>2. Queues2[d] = Carried(s)
  BY <1>1 DEF Queues2
<1>3. Queues2' = [Queues2 EXCEPT ![d] = SubSeq(Queues2[d], n + 1, Len(Queues2[d]))]
  <2>1. \A e \in {"up", "down"} \ {d} : Carried(Side(e))' = Carried(Side(e))
    BY <1>1
  <2>2. Carried(Side(d))' = SubSeq(Queues2[d], n + 1, Len(Queues2[d]))
    BY <1>1, <1>2
  <2> QED
    BY <2>1, <2>2 DEF Queues2
<1>4. Opens2[d] /\ Opens2' = Opens2
  <2>1. \A e \in {"up", "down"} : Open(Side(e))' = Open(Side(e))
    BY TwoSides, SidesOfDirections
  <2> QED
    BY <1>1, <2>1 DEF Opens2
<1>5. Channel!Deliver(d, n)
  BY <1>3, <1>4 DEF Channel!Deliver, Established, Queues2, Opens2
<1>6. n \in 1..Len(Queues2[d])
  BY <1>2
<1> QED
  BY <1>5, <1>6, SidesOfDirections DEF Channel!Next, Queues2

LEMMA GiveUpStep ==
  ASSUME NEW s \in Sides, Established' = Established, sent' = 0,
         Open(s)' = FALSE, Carried(s)' = << >>,
         \A t \in Sides \ {s} : Open(t)' = Open(t) /\ Carried(t)' = Carried(t)
  PROVE  Channel!Next
<1>1. PICK d \in {"up", "down"} :
        s = Side(d) /\ \A e \in {"up", "down"} \ {d} : Side(e) \in Sides \ {s}
  BY OneDirection
<1>2. \A e \in {"up", "down"} \ {d} :
        Open(Side(e))' = Open(Side(e)) /\ Carried(Side(e))' = Carried(Side(e))
  BY <1>1
<1>3. Opens2' = [e \in {"up", "down"} |-> Opens2[e] /\ e \notin {d}]
  <2>1. \A e \in {"up", "down"} : Open(Side(e))' = (Open(Side(e)) /\ e \notin {d})
    BY <1>1, <1>2 DEF Open
  <2> QED
    BY <2>1 DEF Opens2
<1>4. Queues2' = [e \in {"up", "down"} |-> IF e \in {d} THEN << >> ELSE Queues2[e]]
  <2>1. \A e \in {"up", "down"} : Carried(Side(e))' = IF e \in {d} THEN << >> ELSE Carried(Side(e))
    BY <1>1, <1>2
  <2> QED
    BY <2>1 DEF Queues2
<1>5. Channel!GiveUp({d})
  BY <1>3, <1>4, SidesOfDirections DEF Channel!GiveUp, Established, Queues2, Opens2
<1> QED
  BY <1>5, SidesOfDirections DEF Channel!Next

LEMMA EstablishStep ==
  ASSUME DialogueInv, state = "REQUEST_WRITE", state' = "COPY", sent' = 0,
         buffer' = Buffers(Input, EmptyQueue), mask' = [s \in Sides |-> {"READ", "WRITE"}]
  PROVE  Channel!Next
<1>1. Established = FALSE /\ Established' = TRUE
  BY TwoSides DEF Established, Relaying, DialogueInv, MasksInv, Handshaking
<1>2. \A s \in Sides : Carried(s) = << >>
  BY DEF Carried, Open, Relaying
<1>3. /\ Carried("client")' = Input.bytes
      /\ Carried("origin")' = << >>
  BY TwoSides, BuffersOfSides DEF Carried, Open, Relaying, Buffers, EmptyQueue
<1>4. Input.bytes \in Seq(Byte) /\ Len(Input.bytes) <= BufferSize
  BY QueueFields DEF DialogueInv, BuffersInv
<1>5. Queues2'["up"] = Input.bytes
  BY <1>3, SidesOfDirections DEF Queues2
<1>6. Queues2' = [Queues2 EXCEPT !["up"] = Queues2'["up"]]
  <2>1. Carried(Side("down"))' = Carried(Side("down"))
    BY <1>2, <1>3, TwoSides, SidesOfDirections
  <2> QED
    BY <2>1 DEF Queues2
<1>7. Opens2' = [d \in {"up", "down"} |-> TRUE]
  BY TwoSides, SidesOfDirections DEF Opens2, Open, Relaying
<1>8. Channel!Establish
  BY <1>1, <1>4, <1>5, <1>6, <1>7, SidesOfDirections
     DEF Channel!Establish, Channel!Contents, Established, Queues2, Opens2
<1> QED
  BY <1>8 DEF Channel!Next

(* The two actions of the relay. *)

LEMMA RelayBuffers ==
  ASSUME DialogueInv, Relaying
  PROVE  buffer \in [ReadBuffers -> Queues(Byte)]
BY DEF DialogueInv, BuffersInv, Buffers, Input, Output, Relaying, ReadBuffers

\* What a step of the relay leaves alone, and what it ends with.
LEMMA RelayKeepsInv ==
  ASSUME DialogueInv, Relaying, NEW s \in Sides, UNCHANGED handshakeVars, Recompute(s),
         buffer' \in [ReadBuffers -> Queues(Byte)], mask' \in [Sides -> SUBSET {"READ", "WRITE"}],
         \A t \in Sides : "READ" \in mask'[t] <=> "WRITE" \in mask'[Other(t)]
  PROVE  DialogueInv'
<1>1. state' \in {"COPY", "DONE"}
  BY DEF Recompute, Relaying
<1>2. BytesInv'
  BY DEF DialogueInv, BytesInv, handshakeVars, clientVars
<1>3. BuffersInv'
  <2>1. buffer' = [read_buffer |-> buffer'.read_buffer, write_buffer |-> buffer'.write_buffer]
    BY DEF ReadBuffers
  <2>2. buffer'.read_buffer \in Queues(Byte) /\ buffer'.write_buffer \in Queues(Byte)
    BY DEF ReadBuffers
  <2> QED
    BY <2>1, <2>2 DEF BuffersInv, Buffers, Input, Output
<1>4. MasksInv'
  BY <1>1 DEF MasksInv, Handshaking
<1>5. InterestsInv'
  BY DEF InterestsInv, Recompute, BothInterests, copy_compute_interests
<1> QED
  BY <1>2, <1>3, <1>4, <1>5 DEF DialogueInv

LEMMA ShuttingStep ==
  ASSUME DialogueInv, Relaying, NEW s \in Sides, NEW t \in Sides,
         Shuts(s), Recompute(t), buffer' = buffer, sent' = 0, UNCHANGED handshakeVars
  PROVE  DialogueInv' /\ Channel!Next
<1> DEFINE o == Other(s)
<1>1. o \in Sides /\ o # s /\ Other(o) = s /\ Sides = {s, o}
  BY TwoSides
<1>2. /\ mask \in [Sides -> SUBSET {"READ", "WRITE"}]
      /\ "READ" \in mask[s] <=> "WRITE" \in mask[o]
      /\ "READ" \in mask[o] <=> "WRITE" \in mask[s]
  BY <1>1 DEF DialogueInv, MasksInv
<1>3. mask' = [mask EXCEPT ![s] = @ \ {"READ"}, ![o] = @ \ {"WRITE"}]
  BY DEF Shuts
<1> HIDE DEF o
<1>4. mask'[s] = mask[s] \ {"READ"} /\ mask'[o] = mask[o] \ {"WRITE"}
  BY <1>1, <1>2, <1>3
<1>5. mask' \in [Sides -> SUBSET {"READ", "WRITE"}]
  BY <1>1, <1>2, <1>3
<1>6. \A u \in Sides : "READ" \in mask'[u] <=> "WRITE" \in mask'[Other(u)]
  BY <1>1, <1>2, <1>4 DEF o
<1>7. DialogueInv'
  BY <1>5, <1>6, RelayBuffers, RelayKeepsInv
<1>8. mask'[s] = {} <=> mask'[o] = {}
  BY <1>1, <1>5, <1>6 DEF o
<1>9. /\ state' = IF mask'[t] = {} THEN "DONE" ELSE state
      /\ state = "COPY" /\ t \in {s, o}
  BY <1>1 DEF Recompute, Relaying
<1>10. state' = IF mask'[o] = {} THEN "DONE" ELSE "COPY"
  BY <1>8, <1>9
<1>11. Established = TRUE /\ Established' = TRUE
  BY <1>1, <1>8, <1>9, <1>10 DEF Established, Relaying
<1>12. Open(s)' = FALSE /\ Carried(s)' = << >>
  BY <1>4 DEF Open, Carried
<1>13. Open(o)' = Open(o)
  BY <1>2, <1>4, <1>9, <1>10 DEF Open, Relaying
<1>14. Carried(o)' = Carried(o)
  BY <1>13 DEF Carried
<1>15. Channel!Next
  BY <1>1, <1>11, <1>12, <1>13, <1>14, GiveUpStep
<1> QED
  BY <1>7, <1>15

\* A step that replaces the buffer that side s is read into.
LEMMA BufferOfSide ==
  ASSUME DialogueInv, Relaying, NEW s \in Sides, Open(s), NEW t \in Sides, Recompute(t),
         NEW q \in Queues(Byte), buffer' = [buffer EXCEPT ![rb(s)] = q], mask' = mask,
         mask[t] # {}, UNCHANGED handshakeVars
  PROVE  /\ DialogueInv'
         /\ Established' = Established
         /\ \A u \in Sides : Open(u)' = Open(u)
         /\ \A u \in Sides \ {s} : Carried(u)' = Carried(u)
         /\ Carried(s)' = q.bytes
<1>1. buffer \in [ReadBuffers -> Queues(Byte)]
  BY RelayBuffers
<1>2. rb(s) \in ReadBuffers /\ \A u \in Sides \ {s} : rb(u) \in ReadBuffers \ {rb(s)}
  BY TwoSides, BuffersOfSides DEF ReadBuffers
<1>3. buffer' \in [ReadBuffers -> Queues(Byte)]
  BY <1>1, <1>2
<1>4. buffer'[rb(s)] = q /\ \A u \in Sides \ {s} : buffer'[rb(u)] = buffer[rb(u)]
  BY <1>1, <1>2
<1>5. state' = "COPY" /\ state = "COPY"
  BY DEF Recompute, Relaying
<1>6. DialogueInv'
  BY <1>3, RelayKeepsInv DEF DialogueInv, MasksInv
<1>7. Established' = Established /\ \A u \in Sides : Open(u)' = Open(u)
  BY <1>5 DEF Established, Relaying, Open
<1>8. \A u \in Sides \ {s} : Carried(u)' = Carried(u)
  BY <1>4, <1>7 DEF Carried
<1>9. Carried(s)' = q.bytes
  BY <1>4, <1>7 DEF Carried
<1> QED
  BY <1>6, <1>7, <1>8, <1>9

\* What has an event is open.
LEMMA ReadyIsOpen ==
  ASSUME DialogueInv, NEW s \in Sides, NEW op, Ready(s, op)
  PROVE  Relaying /\ op \in mask[s]
<1>1. Relaying /\ op \in interest[s] /\ interest = BothInterests("client", mask, buffer)
  BY DEF Ready, Relaying, DialogueInv, InterestsInv
<1>2. interest[s] = copy_compute_interests(s, mask, buffer)
  BY <1>1 DEF BothInterests
<1> QED
  BY <1>1, <1>2 DEF copy_compute_interests

LEMMA CopyRead ==
  ASSUME DialogueInv, NEW s \in Sides, CopyReads(s)
  PROVE  DialogueInv' /\ Channel!Next
<1>1. /\ Ready(s, "READ") /\ sent' = 0 /\ Recompute(s) /\ UNCHANGED handshakeVars
      /\ Relaying /\ "READ" \in mask[s]
  BY ReadyIsOpen DEF CopyReads, copy_read
<1>2. CASE Shuts(s) /\ UNCHANGED <<buffer, dissector>>
  BY <1>1, <1>2, ShuttingStep
<1>3. ASSUME NEW n \in 1..Room(buffer[rb(s)]), NEW bytes \in [1..n -> BytesOf(s)],
             buffer' = [buffer EXCEPT ![rb(s)] = Put(@, bytes)], mask' = mask
      PROVE  DialogueInv' /\ Channel!Next
  <2> DEFINE q == buffer[rb(s)]
  <2>1. q \in Queues(Byte)
    BY <1>1, RelayBuffers, TwoSides, BuffersOfSides DEF ReadBuffers
  <2>2. n \in Nat /\ n > 0 /\ n <= Room(q)
    BY <1>3, <2>1, QueueFields
  <2>3. bytes \in [1..n -> Byte]
    BY <1>3, DialogueAssumption DEF BytesOf
  <2>4. bytes \in Seq(Byte) /\ Len(bytes) = n
    BY <2>2, <2>3
  <2>5. /\ Put(q, bytes) \in Queues(Byte)
        /\ Put(q, bytes).bytes = q.bytes \o bytes
        /\ Len(q.bytes \o bytes) = Len(q.bytes) + n
        /\ SubSeq(q.bytes \o bytes, 1, Len(q.bytes)) = q.bytes
    BY <2>1, <2>2, <2>4, PutKeepsQueue
  <2>6. Open(s) /\ Carried(s) = q.bytes
    BY <1>1 DEF Open, Carried
  <2>7. buffer' = [buffer EXCEPT ![rb(s)] = Put(q, bytes)]
    BY <1>3
  <2>8. /\ DialogueInv' /\ Established' = Established
        /\ \A u \in Sides : Open(u)' = Open(u)
        /\ \A u \in Sides \ {s} : Carried(u)' = Carried(u)
        /\ Carried(s)' = Put(q, bytes).bytes
    <3>1. mask[s] # {}
      BY <1>1
    <3> HIDE DEF q
    <3> QED
      BY <1>1, <1>3, <2>5, <2>6, <2>7, <3>1, BufferOfSide
  <2>9. /\ Carried(s)' \in Seq(Byte) /\ Len(Carried(s)') <= BufferSize
        /\ Len(Carried(s)') > Len(Carried(s))
        /\ SubSeq(Carried(s)', 1, Len(Carried(s))) = Carried(s)
    <3>1. q.bytes \o bytes \in Seq(Byte) /\ Len(q.bytes \o bytes) <= BufferSize
      <4> DEFINE p == Put(q, bytes)
      <4>1. p \in Queues(Byte) /\ p.bytes = q.bytes \o bytes
        BY <2>5
      <4> HIDE DEF p
      <4>2. p.bytes \in Seq(Byte) /\ Len(p.bytes) \in 0..BufferSize /\ BufferSize \in Nat
        BY <4>1, QueueFields
      <4>3. Len(p.bytes) <= BufferSize
        BY <4>2
      <4> QED
        BY <4>1, <4>2, <4>3
    <3>2. Len(q.bytes) \in Nat
      BY <2>1, QueueFields
    <3> QED
      BY <2>2, <2>5, <2>6, <2>8, <3>1, <3>2
  <2> QED
    BY <1>1, <2>6, <2>8, <2>9, SendStep
<1> QED
  BY <1>2, <1>3 DEF CopyReads, copy_read

LEMMA CopyWrite ==
  ASSUME DialogueInv, NEW s \in Sides, CopyWrites(s)
  PROVE  DialogueInv' /\ Channel!Next
<1> DEFINE o == Other(s)
<1>1. o \in Sides /\ o # s /\ Other(o) = s /\ wb(s) = rb(o)
  BY TwoSides, BuffersOfSides
<1> HIDE DEF o
<1>2. /\ Ready(s, "WRITE") /\ Recompute(s) /\ UNCHANGED handshakeVars
      /\ Relaying /\ "WRITE" \in mask[s]
  BY ReadyIsOpen DEF CopyWrites, copy_write
<1>3. "READ" \in mask[o]
  BY <1>1, <1>2 DEF DialogueInv, MasksInv
<1>4. CASE Shuts(o) /\ sent' = 0 /\ UNCHANGED buffer
  BY <1>1, <1>2, <1>4, ShuttingStep
<1>5. ASSUME NEW n \in 1..Len(buffer[wb(s)].bytes),
             buffer' = [buffer EXCEPT ![wb(s)] = Take(@, n)], sent' = n, mask' = mask
      PROVE  DialogueInv' /\ Channel!Next
  <2> DEFINE q == buffer[rb(o)]
  <2>1. q \in Queues(Byte)
    BY <1>1, <1>2, RelayBuffers, TwoSides, BuffersOfSides DEF ReadBuffers
  <2>2. n \in 1..Len(q.bytes) /\ buffer' = [buffer EXCEPT ![rb(o)] = Take(q, n)]
    BY <1>1, <1>5
  <2>3. Open(o) /\ Carried(o) = q.bytes
    BY <1>2, <1>3 DEF Open, Carried
  <2> HIDE DEF q
  <2>4. Take(q, n) \in Queues(Byte) /\ Take(q, n).bytes = SubSeq(q.bytes, n + 1, Len(q.bytes))
    BY <2>1, <2>2, TakeKeepsQueue
  <2>5. /\ DialogueInv' /\ Established' = Established
        /\ \A u \in Sides : Open(u)' = Open(u)
        /\ \A u \in Sides \ {o} : Carried(u)' = Carried(u)
        /\ Carried(o)' = Take(q, n).bytes
    <3>1. mask[s] # {}
      BY <1>2
    <3>2. Recompute(s) /\ Relaying /\ UNCHANGED handshakeVars /\ mask' = mask
      BY <1>2, <1>5
    <3>3. PICK t : t = Take(q, n) /\ t \in Queues(Byte)
      BY <2>4
    <3>4. buffer' = [buffer EXCEPT ![rb(o)] = t] /\ o \in Sides /\ Open(o)
      BY <1>1, <2>2, <2>3, <3>3
    <3> QED
      BY <3>1, <3>2, <3>3, <3>4, BufferOfSide
  <2>6. n \in 1..Len(Carried(o)) /\ Carried(o)' = SubSeq(Carried(o), n + 1, Len(Carried(o)))
    BY <2>2, <2>3, <2>4, <2>5
  <2> QED
    BY <1>1, <1>5, <2>3, <2>5, <2>6, DeliverStep
<1> QED
  BY <1>4, <1>5 DEF CopyWrites, copy_write, o

(* The whole. *)

LEMMA InitIsChannelInit == Init => Channel!Init
<1> SUFFICES ASSUME Init PROVE Channel!Init
  OBVIOUS
<1>1. ~Relaying /\ sent = 0 /\ ~Established
  BY TwoSides DEF Init, Relaying, Established
<1>2. \A s \in Sides : Carried(s) = << >> /\ Open(s) = FALSE
  BY <1>1 DEF Carried, Open
<1>3. Queues2 = [d \in {"up", "down"} |-> << >>] /\ Opens2 = [d \in {"up", "down"} |-> FALSE]
  BY <1>2, TwoSides, SidesOfDirections DEF Queues2, Opens2
<1> QED
  BY <1>1, <1>3, SidesOfDirections DEF Channel!Init, Established, Queues2, Opens2

\* Before the relay nothing of the channels changes.
LEMMA HandshakeIsStutter ==
  ASSUME DialogueInv, HandshakeStep
  PROVE  UNCHANGED Channel!vars
<1>1. ~Relaying /\ ~Relaying' /\ mask' = mask /\ sent' = sent
  BY DEF HandshakeStep, Handshaking, Relaying
<1>2. \A s \in Sides : Carried(s)' = Carried(s) /\ Open(s)' = Open(s)
  BY <1>1 DEF Carried, Open
<1>3. Queues2' = Queues2 /\ Opens2' = Opens2
  BY <1>2, TwoSides, SidesOfDirections DEF Queues2, Opens2
<1>4. Established' = Established
  BY <1>1 DEF Established
<1> QED
  BY <1>1, <1>3, <1>4 DEF Channel!vars, Established, Queues2, Opens2

LEMMA EstablishingKeepsInv ==
  ASSUME DialogueInv, state = "REQUEST_WRITE", state' = "COPY",
         buffer' = Buffers(Input, EmptyQueue), copy_init,
         Forgets, UNCHANGED <<dissector, sent, protocol>>
  PROVE  DialogueInv'
<1>1. mask' = [s \in Sides |-> {"READ", "WRITE"}]
  BY DEF copy_init
<1>2. BytesInv'
  BY DEF DialogueInv, BytesInv, Forgets, Turns
<1>3. BuffersInv'
  BY EmptyIsQueue DEF DialogueInv, BuffersInv, Buffers, Input, Output
<1>4. MasksInv'
  <2>1. \A s \in Sides : "READ" \in mask'[s] /\ "WRITE" \in mask'[Other(s)]
    BY <1>1, TwoSides
  <2>2. mask' \in [Sides -> SUBSET {"READ", "WRITE"}]
    BY <1>1
  <2> QED
    BY <2>1, <2>2 DEF MasksInv, Handshaking
<1>5. InterestsInv'
  BY DEF InterestsInv, copy_init, BothInterests
<1> QED
  BY <1>2, <1>3, <1>4, <1>5 DEF DialogueInv

LEMMA StepInvAndChannel ==
  ASSUME DialogueInv, [Next]_vars
  PROVE  DialogueInv' /\ [Channel!Next]_(Channel!vars)
<1>1. CASE HandshakeStep
  BY <1>1, HandshakeKeepsInv, HandshakeIsStutter
<1>2. CASE request_write /\ ~HandshakeStep
  <2>1. /\ state = "REQUEST_WRITE" /\ state' = "COPY"
        /\ buffer' = Buffers(Input, EmptyQueue) /\ copy_init
        /\ Forgets /\ UNCHANGED <<dissector, sent, protocol>>
    BY <1>2, RequestWrite
  <2>2. sent' = 0 /\ mask' = [s \in Sides |-> {"READ", "WRITE"}]
    BY <2>1 DEF DialogueInv, MasksInv, Handshaking, copy_init
  <2> QED
    BY <2>1, <2>2, EstablishingKeepsInv, EstablishStep
<1>3. CASE \E s \in Sides : CopyReads(s) \/ CopyWrites(s)
  BY <1>3, CopyRead, CopyWrite
<1>4. CASE UNCHANGED vars
  <2>1. DialogueInv'
    BY <1>4 DEF vars, relayVars, clientVars, DialogueInv, BytesInv, BuffersInv, MasksInv,
                InterestsInv, Input, Output, Buffers, Handshaking, Relaying,
                BothInterests, copy_compute_interests
  <2>2. UNCHANGED Channel!vars
    BY <1>4 DEF vars, relayVars, Channel!vars, Carried, Open, Relaying
  <2> QED
    BY <2>1, <2>2
<1> QED
  BY <1>1, <1>2, <1>3, <1>4, HandshakeSteps DEF Next

(* The masks, buffers and interests of a connection agree at all times: what
   is open of a side is watched for as the buffers allow, and the two ends of a
   direction are shut together. *)
THEOREM RelayIsWatched == Spec => []DialogueInv
<1>1. DialogueInv /\ [Next]_vars => DialogueInv'
  BY StepInvAndChannel
<1> QED
  BY InitInv, <1>1, PTL DEF Spec

(* copy.c relays as two bounded queues do, whatever the size of the buffers,
   the messages of the handshake and the bytes that were sent ahead of it. *)
THEOREM RelayImplementsChannels == Spec => RelayIsTwoQueues
<1>1. DialogueInv /\ [Next]_vars => [Channel!Next]_(Channel!vars)
  BY StepInvAndChannel
<1> QED
  BY InitIsChannelInit, RelayIsWatched, <1>1, PTL DEF Spec, RelayIsTwoQueues, Channel!Spec

=============================================================================
