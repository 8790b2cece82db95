# A verification of the SOCKSv5 proxy

This directory holds TLA+ models of the proxy in `src/`, the TLC configurations
that check them on small instances, and TLAPS proofs of the properties that
matter most for instances of any size. `PROJECT.json` lists the components, the
runs, the source lines each definition stands for, the hazards the properties
are aimed at, and the theorems.

## 1. The system

The server is one process. One thread runs `selector_select` in a loop; every
DNS resolution gets a short-lived thread of its own. Everything else is a
non-blocking handler that the selector calls.

| Component | State it keeps | Operations | Correct when |
|---|---|---|---|
| **selector** (`selector.c`) | item table (fd, interest, handler, data), master and slave fd sets, `max_fd`, list of finished blocking jobs with its mutex, pending signal | register, unregister, set_interest, `selector_notify_block` (from threads), `selector_select` | fd sets and `max_fd` mirror the items at every moment; each finished job is delivered exactly once, and is delivered |
| **buffer** (`buffer.c`) | `read`, `write`, `limit` cursors into a fixed memory | write_adv, read_adv, compact, reset | bytes come out as they went in; a full buffer is readable |
| **stm** (`stm.c`) | current state; table of states | jump with departure and arrival hooks; **aborts** when the state has no handler for the event | no event ever arrives in a state without a handler |
| **socks5nio** (`socks5nio.c`) | one `struct socks5` per connection: both descriptors, `references`, machine state, buffers, copy structs; the pool | passive accept, read/write/block/close dispatch, `socksv5_done` (**aborts** if a descriptor is not registered), `socks5_destroy` | structs are freed with their last item; each connection goes through its phases with its own descriptors |
| **hello, authentication** | chosen method, verdict, their parsers | read and write handlers | no request without the authentication that was chosen |
| **request** | parser (heap allocated), address type | read, process, write | each request is answered, once |
| **resolv** | list of addresses | thread, notification, handler of the result | the result reaches the connection that asked; the parser lives as long as the thread reads it |
| **connecting** | origin socket, current address, `orig.conn.status` | connect, test of SO_ERROR, next address, give up | success is reported only when true; failures reach the client; trying ends |
| **copy** (relay) | two `copy_st` with `rb`/`wb` crossed, masks (`interest`) | read and write of either side, end of input or output | never stuck, never reads without room |
| **password_parser** | state of a POP3 credential dissector, two heap blocks that grow | feed, from both directions of the relay | writes within its blocks, uses and frees none that is free |
| **management, management_request** | connections of a second protocol; `users[]` and `nusers`, flags and metrics shared with the proxy | negotiation as the proxy's, one request, one reply; add and delete user, change flags, report users and metrics | only administrators act; the table stays sound while proxy connections use it; who has access changes only on request; a request is answered |
| **main** | globals, listening sockets, the two pools | start, loop, clean-up after a signal | every struct is freed, once |
| args | - | command line, before anything else runs | - |
| client | - | interactive management client, another program | - |

How they interact. The selector calls a connection's handler by descriptor, from
the item the number has *at that moment*; handlers change the selector's table,
for their own two descriptors, while it is being walked. The kernel reuses
descriptor numbers at once, lowest first. A resolver thread knows nothing but a
descriptor number and a connection; it hands its result over through the
selector's list and a signal. Buffers are shared between the two copy structs of
a relay; `write_buffer` also carries every reply.

What is hard here, and what the properties are for: events of one `pselect`
served after handlers have closed and reused their numbers; a struct freed by
counting references that retries take and lose; failures inside an arrival hook,
which cannot change the state and have to travel through interests and a later
event; interests, set in a dozen places, that must fit the state or the process
aborts; a second attempt on a socket whose first attempt is half over; threads
against the selector; half-closed relays with full and empty buffers; a table of
users edited by one connection while others hold indices into it; messages that
arrive in pieces or joined, through a small buffer that is compacted only when it
is empty; structs that go round through a pool whose size is kept apart from its
list; a process that may end at any point. The
complete list is under `hazards` in `PROJECT.json`, each at its line.

## 2. The modules

| Module | Models | State and actions |
|---|---|---|
| `Fifo` | what a buffer promises: a bounded queue | |
| `Buffer` | the cursors of `buffer.c`, as operators | used by `ByteBuffer` and `Socks5` |
| `ByteBuffer` | one `struct buffer` with its memory, used as handlers do | one action per pattern of calls; implements `Fifo` |
| `ByteBufferProofs` | proofs for any size and any bytes | |
| `Selector` | `selector.c`: the table, `selector_select` step by step, threads, mutex, signal | `pc` is the place inside `selector_select`; while a handler runs, any table operation may happen |
| `SelectorProofs` | proofs for any number of descriptors | |
| `Session` | what the proxy promises each client | phases of a dialogue and the ends it holds |
| `Socks5` | socks5nio, hello, authentication, request, resolv, connecting and copy, over the selector's table and the kernel's descriptors | one action is one handler invocation with its jump and hooks |
| `MCSocks5` | symmetry for TLC | |
| `Socks5Proofs` | proofs for any number of connections, descriptors, addresses and any buffer size | |
| `SessionProofs` | proofs that the connections implement the sessions, and of exact references | |
| `Accounts` | what the management protocol promises: a list of accounts that pending requests change | |
| `Management` | management.c and management_request.c, the table of users, and what proxy connections keep of it and of the metrics | one action is one handler invocation of a management connection; proxy connections are reduced to authenticating, connecting and ending |
| `MCManagement` | lengths of the names for TLC | |
| `ManagementProofs` | proofs for any number of users and connections | |
| `Queue` | a `struct buffer` as a queue with its free room, which `ByteBuffer` justifies | used by `Relay` and `Dialogue` |
| `Channels` | what the relay promises: two bounded queues | |
| `Grammar` | the formats of the messages, as sets of byte sequences and the fields in them | |
| `Parsers` | `hello.c`, `new_parser.c`, `request_parser.c`, the parsers of `management_request.c` | one operator per function, on the parser's struct |
| `Dissector` | `password_parser.c` | one operator per state's handler, on the struct with its blocks |
| `Relay` | `copy.c` with the bytes in its buffers | `copy_init`, `copy_read`, `copy_write` |
| `Dialogue` | one connection of either protocol, byte by byte | one action per handler invocation; the client begins and sends messages in pieces |
| `MCDialogue` | messages, accounts and words of the dissector for TLC | |
| `DialogueProofs` | proofs for buffers of any size and any bytes | |
| `HandshakeProofs` | proofs about what is read byte by byte | |
| `Pool` | structs, references, pools, and the end of `main` | one action per registering or unregistering of descriptors |
| `MCPool` | symmetry for TLC | |
| `PoolProofs` | proofs for any memory, table and size of pool | |

### Socks5, and how it corresponds to the code

`sock` is the kernel's table, `item` and `interest` the selector's, `conn` the
`struct socks5` objects, `ready` what is left of the slave sets of the current
iteration, `jobs` the finished DNS jobs. Two fields of `conn` are history and
read by no action: `accepted` (the credentials were found) and `replies`.

* **Order of service.** `selector_select` (pselect returning) chooses `ready`
  among the polled events; handlers then serve it in descriptor order, READ
  before WRITE, each guarded by the *current* item and interest, exactly as
  `handle_iteration` does; the kernel is not asked again. Blocking jobs are
  served when `ready` is empty. The passive sockets have the lowest numbers, so
  accepting happens before the other events of an iteration (`ready = {}`).
  A job pushed just before pselect is treated as one pushed during it.
* **Descriptor numbers** are handed out lowest first (`IsNextFd`), by `accept`
  and by `socket`, which is what makes reuse happen.
* **connect(2).** A fresh socket starts a handshake, or fails at once. A socket
  whose handshake succeeded answers 0 once and then EISCONN; one that was
  refused reports the error and can be connected again. `SO_ERROR` is read from
  the descriptor *whose event is served*, which may be the client's. A fresh
  non-blocking TCP socket is taken never to connect synchronously.
* **Messages** are their outcomes: incomplete, complete, rejected. `recv` of a
  message may bring bytes of the next one along, which stay in `read_buffer`.
  A reply takes `ReplySize`, whose actual bytes nothing depends on.
* **References** follow `socks5nio.c`: 1 on acceptance, +1 in `connection()`,
  -1 for each unregistering, the struct back at 0. A struct that was given back
  is set to `FreeConnection`, which is what `socks5_new` would make of it.
* A wrong version in the authentication makes `auth_process` compare a name that
  was never read: the outcome modelled is that the process dies (`crashed`).
* `auth_method` is a global that the management can change: the method chosen
  for a greeting is any of `Methods`.

Left out of `Socks5`: the pool's list and counter (they are in `Pool`), the
metrics (`Management`), the bytes themselves (`Dialogue`), and failing `malloc`
and `fcntl`.

### Session

Each client's session is `closed`, `greeting`, `authenticating`, `requesting`,
`resolving`, `connecting`, `answering` or `relaying`, in that order, and holds
its client end from `greeting` on and its origin end only as `connecting`
decides. Each step is a step of *one* session. `ImplementsSessions` is `Socks5`
under the mapping `Phase`, `Ends` at the end of that module: a handler that
closes or unregisters a descriptor of another connection breaks it.

### Management

`mng[m]` is the struct of a management connection: its state and interest, the
verdict and the index as the C fields, the write buffer as cursors, the input as
counts. The client's conversation has `total` pieces, of which it has `sent`
some, `read_buffer` has `received` some and the parsers have `parsed` some; a
message is over when `parsed` is at its end (`Read`). A client is `eager` if it
does not wait for the replies of the negotiation. `accepted` (whether the
credentials were an administrator's) and `outcome` (how the connection ended)
are histories that nothing reads but properties.

`users` and `heap` model the table down to its pointers: a slot holds a block or
`NULL`, a block holds a name with its password or is `Freed`. `WithoutEntry` is
what `deleteUser`'s loop leaves, with the stale copy in the last slot.
`ArgvBlocks` are the names that `-u` leaves in `argv`, which cannot be freed.
`Crashes` stands for what the language leaves undefined: `free` of such a name,
writing the list past `raw_buff_b`, comparing a name that was never read.

`session[s]` is a proxy connection as far as it uses the table and the metrics:
`auth_process` takes the index, `connecting_write` counts the connection and
prints the name at the index, `copy_done` uncounts it. Descriptors are left to
`Socks5`: management connections have one each and close only that one. Left out
are the contents of replies, the counters that only grow, the pool (`Pool`),
`malloc` failing, and recv with a full `read_buffer` (`Dialogue`).

`Accounts` is the promise: a list in the order of addition, at most one pending change
per administrator, the last answer to each, and who each user of the proxy was let in
as. `Management` implements it (`ImplementsAccounts`) with `Listed` (the entries read
through their pointers) for the list, `Pending` (a request of an authenticated
administrator whose parameters are being read), the `status` of the reply and the history
`user`. `Access` is a set, and cannot tell a table with a duplicate or in another order;
which of two accounts of the same name is deleted, and that the others keep their
order, is what the list says.

### Dialogue

`Socks5` and `Management` know a message by its outcome. `Dialogue` is one
connection with its bytes. `client` is the union of that name in `struct socks5`:
the struct of the message being read, with its parser, or of the reply.
`unsent` is what is left of the client's message, `socket` what the kernel holds,
`buffer` the two `struct buffer`s as queues. `ahead` (the client began a message
before the proxy was ready for it) and `taken` (what the parser of this message
has consumed) are histories that no handler reads.

* `Recv` takes any prefix of `socket` that fits, and `NoRoom` is recv with a
  length of zero, whose answer 0 the handlers take for the end of the input.
* `Parsers` is a translation of the C functions: the tables of substates of
  `new_parser.c` with the index that `read_N` moves, `remaining`, the lengths,
  and the tests by which `consume` ends. `Stops` is where a parser stops
  although bytes are left. What it should have understood is said by `Grammar`,
  from the formats alone, of `taken` as a whole.
* `Relay` follows `copy.c`: the buffers crossed between the two `copy_st`,
  `mask` for what is open, `copy_compute_interests`, and the interests that the
  other side's handler sets. The origin's bytes and the client's are any of
  `OriginBytes` and `ClientBytes`. `Channels` is its abstract specification: it
  is implemented from the moment the relay starts, bytes sent ahead included. At
  the end of one side's input the bytes still queued for the other are given up
  (`GiveUp`), as `copy_read` drops the interest in writing.
* `Dissector` keeps of each block its size and whether it is allocated, and of
  the words it looks for their bytes. `fault` records a store beyond a block, a
  use of a freed one, or freeing one twice. Management can switch the dissector
  on and off between any two bytes. It is not reset between connections' words
  and is fed by both directions.
* A negative outcome of a step that is not about bytes (`connect`, a failed
  send) is any of those that `Socks5` allows.

### Pool

`memory` says for each block whether it is free or which kind of struct it holds;
`references` is the field, `pool` and `pool_size` the list and the counter of each
protocol. `item` is the selector's table as far as it leads to structs. The heap
is passed as one record to `socks5_new` and `socks5_destroy`, because `socksv5_done`
destroys twice. `freed_twice` and `overcounted` are histories: `connection()` that
registers a descriptor twice leaves a reference too many. An origin's item may be
left behind and taken away later by the connection that got the same number
(`GivesUpOrigin`). A connection whose name is being resolved has no interests, so
nothing ends it but `selector_destroy`. The last actions are the clean-up of
`main`: `selector_destroy` item by item, then the two pools.

## 3. The runs

| Run | Shows | Instance |
|---|---|---|
| `buffer` | cursors stay well formed; the buffer is a FIFO queue (`IsFifo`) | 5 places, 2 byte values: wraps, partial reads and compactions of every length |
| `selector` | fd sets and `max_fd` mirror the items in the middle of an iteration; one job per waiting descriptor; every result is delivered, with no timeout to help (`JobsDelivered`) | fds 0 and 1: two threads may push and signal at once, or one before pselect |
| `socks5` | the eleven safety properties of the connections and the refinement `ImplementsSessions` | 2 connections, 3 descriptors, 3 addresses, buffers of 2 |
| `socks5_live` | trying addresses ends; every request is answered or its connection closed; references count items while at most two addresses are tried | 2 connections, 4 descriptors, 2 addresses; only requests the parser accepts, and threads that start |
| `management` | interests fit states; the table of users has no freed, doubled or lost entry; only administrators get to requests; who has access changes only by a request to add or delete, one user at a time; the table is a list of accounts, and each reply says what became of its request (`ImplementsAccounts`); the metric of connections covers those open; clients that wait for replies are answered (`RequestsAreAnswered`) | 1 management and 1 proxy connection, 2 users, one of them perhaps from the command line, a write buffer of 5 |
| `dialogue` | each message is understood as its format says, however it is cut (`MethodIsOneOffered`, `FieldsAreThoseSent`, `DestinationIsTheOneAsked`); a client that waits its turn finds room in `read_buffer` and is served (`PatientClientIsServed`); the relay is two queues (`RelayIsTwoQueues`) whose bytes do not wait for ever (`QueuedBytesMove`); the dissector's memory is sound | both protocols, buffers of 3 bytes, addresses of 1 and 2 bytes, words of the dissector of 2 bytes, blocks that grow by 2 up to 4 |
| `pool` | no struct is pooled twice or behind a descriptor and in a pool; none is freed twice or used after; when `main` returns all are freed, but for those with a reference too many | 3 blocks, 4 descriptors, pools of 2, up to 4 references |
| `stale_event`, `zombie`, `retry`, `unanswered`, `misnamed_log` | the five disagreements of section 5 | as small as shows them |

**Bounds.** Two connections with three descriptors fight for numbers: two
clients and one origin, so `socket()` fails for one of them, numbers are reused
at once, and an item left behind is met by the other connection. Three addresses
are the least with which an attempt can follow one that followed a failed one. A
buffer of two with replies of one can be empty, half full, full and compacted,
and a reply may not fit. `stale_event` needs a third connection and a fourth
descriptor. Two users are the least for which deleting one moves the other.
Names of no and of two letters with a write buffer of five give lists of users
that fit, that do not, and that the code wrongly takes to fit (255 users and 2048
bytes do the same). One management connection suffices for the table: a handler
reads and changes it in one go, and connections keep nothing of it but the
index of a proxy connection. `MaxConcurrent` bounds the metric, which otherwise
grows with every connection that is never uncounted. In `dialogue` most
messages are longer than the buffer of three, so that they are read through more
than one filling of it, cut at every place, and a client that sends ahead can fill
it; strings are of no, one and two bytes, and the first message of a
client may be wrong at each field. A pool of two with three blocks can be empty,
half full and full, and refuses the third; four descriptors give two connections
with origins, or four without. `MaxReferences` bounds how often a descriptor is
registered twice, which no code bounds but the number of addresses. The theorems
of section 4 do not have these bounds.

`CHECK_DEADLOCK FALSE`: clients may send nothing for ever, a failed
`pthread_create` leaves a connection waiting, and a crash stops the process, so
the proxy may really have nothing to do.

**Fairness.** `Selector` and `Socks5` assume weak fairness of the main loop (it
is `while (!done)` around `selector_select`, and nothing else runs on its
thread), of each resolver thread (getaddrinfo has its own timeouts) and of the
kernel's handshakes (TCP gives up by itself). Nothing is assumed of clients or
origins. `SurelyReady` is the one assumption about readiness: a socket whose
handshake is over is writable, and so is a client that has been sent no more
than a few short replies; without it no answer could be shown to be delivered.

`Management` assumes that a handler that can go on does: the main loop again,
and a client that takes its reply, at most 2048 bytes, into its socket. Clients
may stop sending at any point, and fail at any point.

`Dialogue` assumes that what has arrived is read (`ReadHandler`) and that what is
queued for a side is sent when the interest is there (`CopyWrites`), to a peer that
reads; that the interest *is* there is what `QueuedBytesMove` says. It assumes
nothing of clients: the message that one never finishes is never complete. `Pool`
has no liveness.

**Mutants.** Every property of a passing run is paired with a mutated
definition, the form a plausible mistake would take, under which TLC finds it
violated; they are the `..._Forgotten`, `..._NoRoomCheck` operators next to the
definitions they replace.

## 4. The proofs

All are by induction over the steps of the specification, from the named
assumptions about the constants only: `BufferSizeAssumption` and
`QueueSizeAssumption` (at least one place), `Socks5Assumption` (descriptors are
natural numbers, a reply fits in an empty buffer), `NoneAssumption`,
`SelectorAssumption`, `ManagementAssumption` and `NullAssumption` (the table has
room for the users of the command line, whose blocks are among the blocks),
`DialogueAssumption`, `ParsersAssumption`, `DissectorAssumption`, `PoolAssumption`
(sizes are natural numbers). The TLC runs evaluate them.

* **ByteBufferProofs**: the cursors of a buffer of any size are well formed, a
  full one can be read, and the buffer implements `Fifo`: the memory between the
  cursors, read as a sequence, is appended to, shortened and left alone exactly
  as a queue is. Its types are a theorem too (`BufferTypes`).
* **SelectorProofs**: for any number of descriptors the sets and `max_fd` mirror
  the items, and each waiting descriptor has one job, with its thread or in the
  list. `SelectorTypes` has the types of the table, the loop and the lists.
  `NoWakeupIsLost` is the safety half of `JobsDelivered`: before pselect, a result
  in the list has a signal pending or its thread still to send it (`WakeupIsComing`).
  It holds because threads push before they signal, and because the selector drains
  the list with the mutex held and takes signals only in pselect (`WakeupInv`). The
  mutex is held over the drain and the handlers it calls and nowhere else
  (`MutexCoversTheList`): the selector never waits for itself.
* **Socks5Proofs**: `Spec => []ProxyInv` and, from it, the safety properties of
  run `socks5`.

`ProxyInv` is needed because none of those properties is inductive. Why can an
event not arrive in a state without a handler? Because the interests fit the
state (`PolledInv`) - but interests belong to *descriptors*, so one must know
which descriptors are a connection's (`EndsInv`, `OriginsInv`), and that an item
that still points to it from a number that is not one of its ends, which
`connection()` can leave behind, is not polled (`ItemsInv`). Why is no item left
with a freed struct? Because at most one item is ever left behind, and
`references` stays high enough for it (`ReferencesInv`). Why is the relay never
stuck? Because each direction is open at both ends or at neither and one of them
is open (`DirectionsInv`), and a full buffer is readable.

The argument has three layers. `OneConnectionStep`: a step that changes the
tables only on ends of `c`, or on closed descriptors, keeps the invariant of all
other connections, with one exception: giving up an origin may take away an item
that another connection left behind (`LosesLeftover`, `LeftoverLost`).
`LocalStep`, `EarlyStep`, `BufferStep`, `DoneStep`, `AttemptStep` and `RelayStep`
reduce the forms handlers take to it. One lemma per handler, named for it,
applies them; `NextProxy` puts them together.

* **SessionProofs**: the proxy implements `Session` (`ProxyImplementsSessions`).
  `Session` says what a step may do to *one* client, so the proof is about the
  others: `Undisturbed(d)` says that a step leaves the state and both ends of `d`
  alone, or only takes an item that an attempt before had left behind, and every
  handler is shown to leave all connections but its own undisturbed. `Leads` are the
  pairs of states that a handler may lead through, and `EndedInv` that no item is
  left with a connection that is over. `ReferencesAreExact`: `references` is what
  registered descriptors lead to a struct, and nothing else. `CountInv` has it by
  cases: none without a connection, one while only the client is there, two once an
  origin is registered, and during an attempt that has another address to fall back
  on, nothing is registered or nothing has failed yet. This is where `MaxAddrs <= 2`
  is used: on a third address `connection()` registers a number that it has
  registered before and counts it again (section 5). `AttemptsRunOut` has no such bound:
  in `REQUEST_CONNECTING` nothing gives a connection more addresses - other connections'
  handlers touch its references at most (`HandlersRelease`), and its resolver is over -
  and each `connecting_write` that stays there leaves it fewer.
* **ManagementProofs**: the safety properties of run `management`, for any number
  of users and of connections. `TableInv` (each entry of the table in use holds its
  own allocated block, and every allocated block has an entry) is inductive
  through `WithoutEntry` because the entries move down together. `ConnectionInv`
  says of each state of a management connection which interest, verdict and buffer
  it has, which is why an event finds a handler and why the requests come after the
  credentials. `MetricsInv` is a count: the metric is at least the number of
  connections that were counted and not yet uncounted (`Counted`), so the steps that take one connection out of the relay
  or out of its answer are proved with the cardinality of a set less one element.
  `ManagementImplementsAccounts` is the refinement. The list is read through pointers, so a
  change of one block or of one slot could change any account: `AddAppends` and
  `DeleteRemoves` use `TableInv` to show that the block that `malloc` returns or `free`
  takes is that of no other entry, and that the shifted slots are the list
  without the first account of the name. Every other handler is quiet (`QuietStep`): it
  asks for a change, is in the middle of one, or gives one up. That a user is let in as
  somebody only once needs `HolderInv`, by which nobody is anybody before
  `checkCredentials`. `StatusTellsTheTruth` says the same of the counter alone.
  `PatientRequestIsWoken` is the safety half of `RequestsAreAnswered`. A byte that was received
  early would sit in `read_buffer`, of which no event tells, while the proxy polls a
  socket with nothing more to come; `mng_request_index_read` receives one byte so that
  the parameters stay in the socket. `TurnInv` says, state by state, how much a client
  that waits for its replies has sent and how much of it was received; on the other side
  the reply of each state fits because the buffer is empty when the state is reached.
  `ManagementTypes` are the types: the room that the list of users takes is a natural
  number because it is the value of a recursive function over the slots, by an
  induction of its own.
* **HandshakeProofs**, first part: the dissector of passwords is memory-safe, for words
  of any lengths and any bytes (`DissectorIsSafe`). `DissectorInv` says of each block that
  its size is a multiple of `BUFFER_SIZE` above what is stored in it while the
  dissector may store there, and that a block which was freed is not used in the
  state that follows. A handler passes several bytes to the dissector at once: the
  induction over them is over the fold that `Dissector` uses, one byte more each time
  (`ConsumeIsSound`).
* **HandshakeProofs**, second part: what the parsers understand is what was sent
  (`MethodWasOffered`, `FieldsWereSent`, `DestinationWasAsked`), for messages, strings and
  addresses of any lengths, whatever pieces they come in. The properties speak of a
  parser that is done; the invariant speaks of one that is not: `ParserInv(g, p, t)` says,
  for each of the seven grammars, that the struct `p` is the one that the bytes `t` taken
  so far lead to (`HelloInv`; `ByteInv`, `StringsInv` and `CredentialsInv` for the tables
  of `new_parser.c`, where the index of the table says which lengths have been read and
  `remaining` how many bytes of a string are missing; `RequestInv`, a disjunct for each
  part of a request). `FeedKeeps` takes one byte, grammar by grammar. `ConsumeKeeps` takes
  the bytes of a buffer: that the recursive function of `Consume` exists is an induction
  over its domain (`AfterEachByte`), and the run over it another. `RecvIsUnderstood`
  joins it to `recv`: what was left of the last piece and a new one of any length are put
  in `read_buffer`, and what the parser takes of it is appended to `taken`. `ClientInv` ties
  the grammar to the state of the connection, and is kept by one lemma per handler.
  After a name of no bytes, which no format allows, the request's parser takes a byte
  too many (section 5); the invariant says nothing of the fields then, and
  `DestinationIsTheOneAsked` leaves it out too.
* **HandshakeProofs**, third part: `DialogueTypes`. The buffers are queues of bytes that fit
  after every reply because the marshalling functions test the room first.
* **HandshakeProofs**, fourth part: a client that sends a message only when the proxy is
  ready for it finds room (`PatientClientHasRoom`, the safety half of
  `PatientClientIsServed`). A parser that is not done has taken
  every byte, so `read_buffer` can only be short of room for what one message left of the
  next; `PatientInv` follows the message of the client through its four pieces - taken, in
  `read_buffer`, arrived, not sent - whose concatenation never changes (`RecvMovesBytes`).
  The theorem has a hypothesis, `MessagesEnd`: a prefix of a greeting or of credentials that
  is complete is all of it. Without it the bytes after the end of a message are ahead of
  their time and may fill the buffer, as in section 5. `MCDialogue` assumes it of the
  messages of the run, and TLC evaluates it.
* **DialogueProofs**: the relay implements `Channels`, for buffers of any size and
  any bytes (`RelayImplementsChannels`). `DialogueInv` says that the buffers
  are queues of the form `buffer.c` keeps, that interests are those that masks and
  buffers call for, and that the two ends of a direction are shut together. The
  handshake and the relay use the same buffers: the refinement needs that nothing
  of a reply is left in `write_buffer` when the relay starts (`EstablishStep`,
  for `request_write`), while bytes in `read_buffer` are the client's own.
* **PoolProofs**: the four properties of run `pool`. `HeapInv` relates each struct's
  references to the number of descriptors that lead to it: equal, or more for a
  struct that is overcounted; free and pooled structs have none, and no list has a
  struct twice. One lemma per operation of the heap keeps it, so
  that `socksv5_done`, which destroys twice, goes by applying one of them twice.
  `SelectorInv` says that no item below the index of `selector_destroy`'s loop is
  in use, from which with `LastInv` it follows that only pooled and overcounted
  structs are left for the pools to free.

**Model-checked only**: the liveness properties (`JobsDelivered`,
`ConnectingEnds`, `EveryRequestIsAnswered`, `RequestsAreAnswered`,
`PatientClientIsServed`, `QueuedBytesMove`) - fairness and ENABLED are outside the
prover's reach. What they rest on is proved where it is a safety property:

| liveness, model-checked | its safety half, proved |
|---|---|
| `JobsDelivered` | `NoWakeupIsLost`: whoever sleeps on a result is woken |
| `ConnectingEnds` | `AttemptsRunOut`, a variant, and `FailureReachesClient`: an attempt is under way, or the client's descriptor is polled |
| `EveryRequestIsAnswered` | the same two; the reply in the buffer is `FailureReachesClient`'s |
| `RequestsAreAnswered` | `PatientRequestIsWoken`: there is work, and it is polled for |
| `PatientClientIsServed` | `PatientClientHasRoom`: the buffer has room for what the client sends |
| `QueuedBytesMove` | `RelayIsWatched`: each end of the relay is polled for what its buffers call for |

Every invariant and every action property that a passing run checks is
a theorem.

## 5. Where the code and its documentation disagree

1. `stale_event`: an event reported for a closed descriptor is delivered to the
   new owner of its number; a handshake still under way is reported as success.
2. `zombie`: the second failed attempt to register an origin closes it and
   leaves its item behind: a registered number that is not open.
3. `retry`: `orig.conn.status` keeps the failure of the address before; an
   address that accepts is given up.
4. `unanswered`: a request with an unknown command or address type, for which
   `request.h` lists replies, is never answered.
5. `misnamed_log`: the access log prints the name at an index into the table of
   users that a deletion has changed since. The shortest trace deletes the user
   itself and prints a `NULL` name.

Each is a run whose property quotes what the code's comments say; `findings` in
`PROJECT.json` has the lines.

More that the models reach, without a run of its own:

* a connect that fails at once is answered twice: `connection()` marshals a reply
  (`connecting.c:213`) and `connecting_write` another (`connecting.c:73`);
* when the third address of a name is tried on a descriptor that is registered
  already, `references` has gone up for nothing (`connecting.c:236`) and the struct
  is never given back: `overcounted` in `Pool`;
* `pool_size` goes up and never down (`socks5nio.c:108-112`, `management.c:90-93`):
  after `max_pool` structs have been given back in all, the pool refuses every
  further one although it is empty;
* resolver threads are detached and nobody waits for them: after a signal
  `selector_destroy` and the pools free the structs, and the mutex, that a thread
  may be about to use (`selector.c:287`, `resolv.c:46`);
* a client that sends ahead can fill `read_buffer` in a handshake state, where recv
  with no room is taken for the end of the input (`hello.c:161`), and a message that
  came with the one before it waits until more bytes come (`hello.c:160`);
* a name of no bytes in a request writes `host[-1]` and takes the first byte of the
  port for the name (`request_parser.c:173`);
* the list of users can run past the write buffer, because the test that it fits
  leaves out the length bytes (`management_request.c:512`);
* deleting a user that came from `-u` frees a pointer into `argv`
  (`management_request.c:394`);
* `metrics_concurrent_connections` stays high after a connection that is counted
  and ends in `request_write` (`connecting.c:97`, `copy.c:133`).

## 6. Not modelled

* **Start-up** (`args.c`, most of `main.c`): straight-line code over strings and
  socket options that runs before there is a connection or a thread. What it leaves
  behind, the users of the command line, is `Init` of `Management`.
* **Growth of the selector's table** (`ensure_capacity`): never reached. `main` asks
  for 1024 elements, `next_capacity` makes that 1025, and `INVALID_FD` refuses
  descriptors of 1024 and more.
* **Failures of `malloc`** other than that of a connection's struct, and of `fcntl`.
* **Metrics that only grow** (bytes, averages, historic connections): each is one
  addition with no reader but a report.
* **netutils.c, address_utils.c, socket_utils.c**: formatting and set-up without
  state.
* **The client** (`client.c`, `client_utils.c`, `client_args.c`, `metrics.c`): a
  sequential program around `scanf` and `printf`, in another process.
* **server.c, parser.c, parser_utils.c, logger.c, util.c, tcpClientUtil.c**: not in
  the server's build, or not reached from its `main`.
