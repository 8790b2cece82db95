----------------------------- MODULE Management -----------------------------
(***************************************************************************)
(* The management protocol (management.c, management_request.c and the     *)
(* handlers of hello.c and authentication.c it shares with the proxy), the *)
(* table of users that it edits, and what the connections of the proxy     *)
(* (authentication.c, connecting.c, copy.c) keep of that table and of the  *)
(* metrics that it reports.                                                *)
(*                                                                         *)
(* Input is counted in pieces: the hello, the credentials and the          *)
(* parameters of a request come in Pieces parts each, the index is one     *)
(* byte.  Replies are counted in bytes.  The table is modelled down to its *)
(* pointers: a slot of users[] holds a block, and the heap says whether    *)
(* that block is allocated and what it contains.                           *)
(***************************************************************************)
EXTENDS Integers, FiniteSets, Buffer, FiniteSetsExt

CONSTANTS
  Admins,        \* the struct socks5 objects of management connections
  Sessions,      \* the struct socks5 objects of proxy connections
  Names, Passwords,
  NameLength,    \* strlen of each name
  MAX_USERS,
  Blocks,        \* what malloc can return for a name and its password
  ArgvBlocks,    \* the -u arguments of the command line
  Pieces,        \* recv calls that a message may take
  MaxConcurrent  \* bound of the metrics

ASSUME ManagementAssumption ==
  /\ NameLength \in [Names -> Nat]
  /\ MAX_USERS \in Nat \ {0}
  /\ Blocks \cap ArgvBlocks = {}
  /\ IsFiniteSet(Blocks) /\ Cardinality(Blocks) >= MAX_USERS
  /\ IsFiniteSet(ArgvBlocks) /\ Cardinality(ArgvBlocks) <= MAX_USERS
  /\ Pieces \in Nat \ {0}
  /\ BufferSize >= 5
  /\ MaxConcurrent \in Nat
  /\ IsFiniteSet(Sessions)

Slots == 0..(MAX_USERS - 1)
Credentials == [name : Names, pass : Passwords]
NULL == "null"
FreedName == "freed memory"
Freed == [name |-> FreedName, pass |-> FreedName]
ASSUME NullAssumption ==
  /\ NULL \notin Blocks \cup ArgvBlocks
  /\ {NULL, FreedName} \cap Names = {}

VARIABLES
  users,        \* users[]: the block of each slot
  nusers,
  heap,         \* what each block holds
  auth_method, password_dissectors,
  mng,          \* the management connections
  session,      \* the proxy connections
  metrics,      \* metrics_concurrent_connections, metrics_max_concurrent_connections
  crashed       \* the process died, or wrote where it should not

table == <<users, nusers, heap>>
settings == <<auth_method, password_dissectors>>
vars == <<users, nusers, heap, auth_method, password_dissectors, mng, session, metrics, crashed>>

\* Indexes by what the handlers do with them: "retrieve" is 0x00 and 0x02 to
\* 0x09, "unsupported" what checkIndex rejects.
WithParams == {"add_user", "delete_user", "disable_auth", "disable_password_disectors"}
Indexes == WithParams \cup {"retrieve", "list_users", "unsupported"}

MngStates == {"closed", "HELLO_READ", "HELLO_WRITE", "USERPASS_READ", "USERPASS_WRITE",
              "REQUEST_READ_INDEX", "REQUEST_READ", "REQUEST_WRITE"}

\* Pieces of input that have been parsed when a reading state is over.
Read(state) ==
  CASE state = "HELLO_READ"         -> Pieces
    [] state = "USERPASS_READ"      -> 2 * Pieces
    [] state = "REQUEST_READ_INDEX" -> 2 * Pieces + 1
    [] state = "REQUEST_READ"       -> 3 * Pieces + 1
    [] OTHER                        -> 0

MaxPieces == 3 * Pieces + 1

MngConnections ==
  [state : MngStates,
   interest : {"READ", "WRITE"},
   eager : BOOLEAN,                            \* the client does not wait for replies
   total : 0..MaxPieces,                       \* pieces the client means to send,
   sent : 0..MaxPieces,                        \* has sent,
   received : 0..MaxPieces,                    \* the proxy has in read_buffer or had,
   parsed : 0..MaxPieces,                      \* its parsers took
   method : {"none", "userpass"},              \* hello.method
   authentication : {0, 1},
   accepted : BOOLEAN,                         \* history: checkMngCredentials found the administrator
   index : Indexes,                            \* mng_request.index
   status : {"none", "succeeded", "index_not_supported", "max_users_reached"},   \* in the reply
   write_buffer : Cursors,
   outcome : {"none", "answered", "no_room", "dropped"}]   \* history: how the last connection ended

SessionStates == {"closed", "USERPASS", "REQUEST", "REQUEST_WRITE", "COPY"}

ProxyConnections ==
  [state : SessionStates,
   userIndex : Slots,
   user : Names \cup {NULL},                   \* history: who authenticated
   succeeded : BOOLEAN]                        \* orig.conn.status, from connecting_write on

TypeOK ==
  /\ users \in [Slots -> Blocks \cup ArgvBlocks \cup {NULL}]
  /\ nusers \in 0..MAX_USERS
  /\ heap \in [Blocks \cup ArgvBlocks -> Credentials \cup {Freed}]
  /\ auth_method \in {"no_auth", "userpass"}
  /\ password_dissectors \in BOOLEAN
  /\ mng \in [Admins -> MngConnections]
  /\ session \in [Sessions -> ProxyConnections]
  /\ metrics \in [concurrent : 0..MaxConcurrent, max_concurrent : 0..MaxConcurrent]
  /\ crashed \in BOOLEAN

ClosedMng(outcome) ==
  [state |-> "closed", interest |-> "READ", eager |-> FALSE,
   total |-> 0, sent |-> 0, received |-> 0, parsed |-> 0,
   method |-> "none", authentication |-> 0, accepted |-> FALSE, index |-> "unsupported",
   status |-> "none", write_buffer |-> buffer_reset, outcome |-> outcome]

\* mng_new: memset to zero, then the fields that are not zero.
mng_new(eager, total) ==
  [ClosedMng("none") EXCEPT !.state = "HELLO_READ", !.eager = eager, !.total = total]

ClosedSession ==
  [state |-> "closed", userIndex |-> 0, user |-> NULL, succeeded |-> FALSE]

\* Users of the command line stay where argv has them (args.c).
Init ==
  /\ \E a \in SUBSET ArgvBlocks : \E order \in [0..(Cardinality(a) - 1) -> a] :
       /\ \A i, j \in DOMAIN order : i # j => order[i] # order[j]
       /\ nusers = Cardinality(a)
       /\ users = [i \in Slots |-> IF i < nusers THEN order[i] ELSE NULL]
       /\ \E creds \in [a -> Credentials] :
            heap = [b \in Blocks \cup ArgvBlocks |-> IF b \in a THEN creds[b] ELSE Freed]
  /\ auth_method = "userpass"
  /\ password_dissectors \in BOOLEAN
  /\ mng = [m \in Admins |-> ClosedMng("none")]
  /\ session = [s \in Sessions |-> ClosedSession]
  /\ metrics = [concurrent |-> 0, max_concurrent |-> 0]
  /\ crashed = FALSE
-----------------------------------------------------------------------------
(* The table of users. *)

Entries == 0..(nusers - 1)
EntryName(i) == heap[users[i]].name

\* Who can authenticate to the proxy.
Access == {heap[users[i]] : i \in {j \in Entries : users[j] # NULL}}

\* checkCredentials: the indices it may return, of which it takes the first.
Matches(c) == {i \in Entries : heap[users[i]] = c}

\* A mutated form: the last slot is never used.
addUser_OneLess(c) ==
  IF nusers >= MAX_USERS - 1 THEN UNCHANGED table
  ELSE \E b \in Blocks :
         /\ heap[b] = Freed
         /\ heap' = [heap EXCEPT ![b] = c]
         /\ users' = [users EXCEPT ![nusers] = b]
         /\ nusers' = nusers + 1

addUser(c) ==
  IF nusers >= MAX_USERS THEN UNCHANGED table
  ELSE \E b \in Blocks :
         /\ heap[b] = Freed
         /\ heap' = [heap EXCEPT ![b] = c]
         /\ users' = [users EXCEPT ![nusers] = b]
         /\ nusers' = nusers + 1

\* A mutated form: the entry after the deleted one is not moved.
WithoutEntry_ShiftsLate(k) ==
  [i \in Slots |-> IF i > k /\ i < nusers - 1 THEN users[i + 1]
                   ELSE IF i = k THEN NULL ELSE users[i]]

\* The slots after deleteUser's loop.  The last slot keeps the pointer that was
\* copied out of it, unless it is the one that was deleted.
WithoutEntry(k) ==
  [i \in Slots |-> IF i >= k /\ i < nusers - 1 THEN users[i + 1]
                   ELSE IF i = k THEN NULL ELSE users[i]]

Named(name) == {i \in Entries : EntryName(i) = name}

\* free() of a name that malloc did not return aborts.
FreesArgv(name) == Named(name) # {} /\ users[Min(Named(name))] \in ArgvBlocks

\* A mutated form: the count is left as it was.
deleteUser_KeepsCount(name) ==
  IF Named(name) = {} THEN UNCHANGED table
  ELSE LET k == Min(Named(name)) IN
         /\ heap' = [heap EXCEPT ![users[k]] = Freed]
         /\ users' = WithoutEntry(k)
         /\ UNCHANGED nusers

deleteUser(name) ==
  IF Named(name) = {} THEN UNCHANGED table
  ELSE LET k == Min(Named(name)) IN
         /\ heap' = [heap EXCEPT ![users[k]] = Freed]
         /\ users' = WithoutEntry(k)
         /\ nusers' = nusers - 1
-----------------------------------------------------------------------------
(* Input and output of a management connection. *)

\* The sum of the lengths that list_users_mng_request_marshall adds up.
NamesLength == MapThenSumSet(LAMBDA i : NameLength[EntryName(i)], Entries)

\* What r may become by a recv of at most `most` pieces and the parser's run over
\* the read buffer, which stops at the end of the message.
AfterRecv(r, most) ==
  {[r EXCEPT !.received = @ + n, !.parsed = Min({r.received + n, Read(r.state)})] :
     n \in 1..Min({most, r.sent - r.received})}

AllThereIs == MaxPieces
MessageDone(r) == r.parsed = Read(r.state)

\* A mutated form: the reply is written whether it fits or not.
Marshal_NoRoomCheck(r, n) == [r EXCEPT !.write_buffer = buffer_write_adv(@, n)]

Marshal(r, n) ==
  IF WritableBytes(r.write_buffer) < n THEN r
  ELSE [r EXCEPT !.write_buffer = buffer_write_adv(@, n)]

Closes(m, outcome) == mng' = [mng EXCEPT ![m] = ClosedMng(outcome)]

\* Something the language leaves undefined: the process dies, as built.
Crashes == crashed' = TRUE /\ UNCHANGED <<table, settings, mng>>

\* stm_handler_read, stm_handler_write: the handler of the state.
mng_read(m, state) == ~crashed /\ mng[m].state = state /\ mng[m].interest = "READ"
mng_write(m, state) == ~crashed /\ mng[m].state = state /\ mng[m].interest = "WRITE"

MovesTo(r, state, op) == [r EXCEPT !.state = state, !.interest = op]

mng_passive_accept(m) ==
  /\ ~crashed /\ mng[m].state = "closed"
  /\ \E eager \in BOOLEAN, total \in {2 * Pieces + 1, MaxPieces} :
       mng' = [mng EXCEPT ![m] = mng_new(eager, total)]
  /\ UNCHANGED <<table, settings, session, metrics, crashed>>

\* What a client that waits for replies has to say in each state.
MaySend(r) ==
  IF r.eager \/ r.state = "REQUEST_READ_INDEX" THEN r.total
  ELSE Min({r.total, Read(r.state)})

ClientSends(m) ==
  /\ ~crashed /\ mng[m].sent < MaySend(mng[m])
  /\ mng' = [mng EXCEPT ![m].sent = @ + 1]
  /\ UNCHANGED <<table, settings, session, metrics, crashed>>

\* End of file, a failed recv or send, a hello of another version: every
\* handler answers with the error state, and mng_done closes.
mng_done(m) ==
  /\ ~crashed /\ mng[m].state # "closed"
  /\ Closes(m, "dropped")
  /\ UNCHANGED <<table, settings, session, metrics, crashed>>

hello_read(m) ==
  /\ mng_read(m, "HELLO_READ")
  /\ \E r \in AfterRecv(mng[m], AllThereIs), method \in {"none", "userpass"} :
       mng' = [mng EXCEPT ![m] =
                 IF MessageDone(r)
                   THEN MovesTo(Marshal([r EXCEPT !.method = method], 2), "HELLO_WRITE", "WRITE")
                   ELSE r]
  /\ UNCHANGED <<table, settings, session, metrics, crashed>>

\* send of a part of the write buffer, or all: what becomes of r.
AfterSend(r) ==
  {[r EXCEPT !.write_buffer = buffer_read_adv(@, k)] : k \in 1..ReadableBytes(r.write_buffer)}
AllSent(r) == ~buffer_can_read(r.write_buffer)

hello_write(m) ==
  /\ mng_write(m, "HELLO_WRITE")
  /\ \E r \in AfterSend(mng[m]) :
       \/ ~AllSent(r) /\ mng' = [mng EXCEPT ![m] = r]
       \/ AllSent(r) /\ r.method = "none" /\ Closes(m, "answered")
       \/ /\ AllSent(r) /\ r.method = "userpass"
          /\ mng' = [mng EXCEPT ![m] = MovesTo(r, "USERPASS_READ", "READ")]
  /\ UNCHANGED <<table, settings, session, metrics, crashed>>

auth_read(m) ==
  /\ mng_read(m, "USERPASS_READ")
  /\ \E r \in AfterRecv(mng[m], AllThereIs) :
       \/ /\ ~MessageDone(r)
          /\ mng' = [mng EXCEPT ![m] = r]
          /\ UNCHANGED <<table, settings, crashed>>
       \/ /\ MessageDone(r)
          /\ \E found \in BOOLEAN :
               mng' = [mng EXCEPT ![m] =
                         MovesTo([r EXCEPT !.authentication = IF found THEN 0 ELSE 1,
                                           !.accepted = found], "USERPASS_WRITE", "WRITE")]
          /\ UNCHANGED <<table, settings, crashed>>
       \/ Crashes                               \* wrong version: no name was read
  /\ UNCHANGED <<session, metrics>>

\* A mutated form: the verdict is sent and forgotten.
auth_write_NoVerdict(m) ==
  /\ mng_write(m, "USERPASS_WRITE")
  /\ \E r \in AfterSend(Marshal(mng[m], 2)) :
       mng' = [mng EXCEPT ![m] =
                 IF AllSent(r) THEN MovesTo(r, "REQUEST_READ_INDEX", "READ") ELSE r]
  /\ UNCHANGED <<table, settings, session, metrics, crashed>>

\* The verdict is marshalled on every call.
auth_write(m) ==
  /\ mng_write(m, "USERPASS_WRITE")
  /\ \E r \in AfterSend(Marshal(mng[m], 2)) :
       \/ ~AllSent(r) /\ mng' = [mng EXCEPT ![m] = r]
       \/ AllSent(r) /\ r.authentication # 0 /\ Closes(m, "answered")
       \/ /\ AllSent(r) /\ r.authentication = 0
          /\ mng' = [mng EXCEPT ![m] = MovesTo(r, "REQUEST_READ_INDEX", "READ")]
  /\ UNCHANGED <<table, settings, session, metrics, crashed>>
-----------------------------------------------------------------------------
(* Requests. *)

\* A mutated form: the interest is not changed.
Replies_StillReading(m, r, status, n) ==
  mng' = [mng EXCEPT ![m] =
            MovesTo(Marshal([r EXCEPT !.status = status], n), "REQUEST_WRITE", "READ")]

Replies(m, r, status, n) ==
  mng' = [mng EXCEPT ![m] =
            MovesTo(Marshal([r EXCEPT !.status = status], n), "REQUEST_WRITE", "WRITE")]

\* The check leaves out the byte that tells the length of each name.
list_users_mng_request_marshall(m, r) ==
  LET room == WritableBytes(r.write_buffer)
      size == 2 + nusers + NamesLength IN
  \/ /\ NamesLength > room - 2                            \* nothing is written
     /\ Replies(m, r, "none", 0)
     /\ UNCHANGED <<table, settings, crashed>>
  \/ /\ NamesLength <= room - 2 /\ size <= room
     /\ Replies(m, r, "succeeded", size)
     /\ UNCHANGED <<table, settings, crashed>>
  \/ NamesLength <= room - 2 /\ size > room /\ Crashes    \* past the end of raw_buff_b

process_mng_index(m, r) ==
  \/ r.index = "retrieve" /\ Replies(m, r, "succeeded", 5)
       /\ UNCHANGED <<table, settings, crashed>>
  \/ r.index = "list_users" /\ list_users_mng_request_marshall(m, r)
  \/ r.index \in WithParams
       /\ mng' = [mng EXCEPT ![m] = MovesTo(r, "REQUEST_READ", "READ")]
       /\ UNCHANGED <<table, settings, crashed>>

\* What the client's input can have for an index.
IndexesOf(r) == IF r.total = MaxPieces THEN WithParams ELSE Indexes \ WithParams

\* A mutated form: recv as in the other states.
OneByte_All == AllThereIs

\* One byte is received whatever the socket holds, so that the parameters stay there.
OneByte == 1

mng_request_index_read(m) ==
  /\ mng_read(m, "REQUEST_READ_INDEX")
  /\ \E r \in AfterRecv(mng[m], OneByte), index \in IndexesOf(mng[m]) :
       \/ /\ index = "unsupported"
          /\ Replies(m, r, "index_not_supported", 1)
          /\ UNCHANGED <<table, settings, crashed>>
       \/ /\ index # "unsupported"
          /\ process_mng_index(m, [r EXCEPT !.index = index])
  /\ UNCHANGED <<session, metrics>>

process_mng_params_request(m, r) ==
  \/ /\ r.index = "add_user" /\ nusers = MAX_USERS
     /\ Replies(m, r, "max_users_reached", 1)
     /\ UNCHANGED <<table, settings, crashed>>
  \/ /\ r.index = "add_user" /\ nusers # MAX_USERS
     /\ \E c \in Credentials : addUser(c)
     /\ Replies(m, r, "succeeded", 1)
     /\ UNCHANGED <<settings, crashed>>
  \/ /\ r.index = "delete_user"
     /\ \E name \in Names :
          \/ /\ ~FreesArgv(name) /\ deleteUser(name)
             /\ Replies(m, r, "succeeded", 1)
             /\ UNCHANGED <<settings, crashed>>
          \/ FreesArgv(name) /\ Crashes
  \/ /\ r.index = "disable_auth"
     /\ auth_method' \in {"no_auth", "userpass"}
     /\ Replies(m, r, "succeeded", 1)
     /\ UNCHANGED <<table, password_dissectors, crashed>>
  \/ /\ r.index = "disable_password_disectors"
     /\ password_dissectors' \in BOOLEAN
     /\ Replies(m, r, "succeeded", 1)
     /\ UNCHANGED <<table, auth_method, crashed>>

mng_request_read(m) ==
  /\ mng_read(m, "REQUEST_READ")
  /\ \E r \in AfterRecv(mng[m], AllThereIs) :
       \/ /\ ~MessageDone(r)
          /\ mng' = [mng EXCEPT ![m] = r]
          /\ UNCHANGED <<table, settings, crashed>>
       \/ MessageDone(r) /\ process_mng_params_request(m, r)
  /\ UNCHANGED <<session, metrics>>

\* A reply that had no room is a send of no bytes.
mng_request_write(m) ==
  /\ mng_write(m, "REQUEST_WRITE")
  /\ \/ AllSent(mng[m]) /\ Closes(m, "no_room")
     \/ \E r \in AfterSend(mng[m]) :
          \/ ~AllSent(r) /\ mng' = [mng EXCEPT ![m] = r]
          \/ AllSent(r) /\ Closes(m, "answered")
  /\ UNCHANGED <<table, settings, session, metrics, crashed>>
-----------------------------------------------------------------------------
(* The connections of the proxy, as far as they use the table and the metrics. *)

ProxyStep(s, state) == ~crashed /\ session[s].state = state
Becomes(s, r) == session' = [session EXCEPT ![s] = r]

\* socksv5_passive_accept and the method negotiation; userIndex is 0 from memset.
socks_hello(s) ==
  /\ ProxyStep(s, "closed")
  /\ Becomes(s, [ClosedSession EXCEPT !.state = IF auth_method = "no_auth" THEN "REQUEST" ELSE "USERPASS"])
  /\ UNCHANGED <<table, settings, mng, metrics, crashed>>

\* checkCredentials takes the first entry that matches.
auth_process(s) ==
  /\ ProxyStep(s, "USERPASS")
  /\ \E c \in Credentials :
       \/ Matches(c) = {} /\ Becomes(s, ClosedSession)
       \/ /\ Matches(c) # {}
          /\ Becomes(s, [session[s] EXCEPT !.state = "REQUEST", !.userIndex = Min(Matches(c)),
                                           !.user = c.name])
  /\ UNCHANGED <<table, settings, mng, metrics, crashed>>

\* The connection ends where only socksv5_done sees it.
socksv5_done(s) ==
  /\ ~crashed /\ session[s].state \in {"USERPASS", "REQUEST", "REQUEST_WRITE"}
  /\ Becomes(s, ClosedSession)
  /\ UNCHANGED <<table, settings, mng, metrics, crashed>>

\* A mutated form: the maximum is compared before the connection is counted.
CountConnection_MaxFirst(k) ==
  [concurrent |-> k.concurrent + 1,
   max_concurrent |-> IF k.concurrent > k.max_concurrent THEN k.concurrent ELSE k.max_concurrent]

CountConnection(k) ==
  [concurrent |-> k.concurrent + 1,
   max_concurrent |-> IF k.concurrent + 1 > k.max_concurrent THEN k.concurrent + 1 ELSE k.max_concurrent]

\* The attempts are over, with success or without, and the access log gets a line.
connecting_write(s) ==
  /\ ProxyStep(s, "REQUEST")
  /\ \/ /\ metrics.concurrent < MaxConcurrent
        /\ metrics' = CountConnection(metrics)
        /\ Becomes(s, [session[s] EXCEPT !.state = "REQUEST_WRITE", !.succeeded = TRUE])
     \/ /\ Becomes(s, [session[s] EXCEPT !.state = "REQUEST_WRITE"])
        /\ UNCHANGED metrics
  /\ UNCHANGED <<table, settings, mng, crashed>>

request_write(s) ==
  /\ ProxyStep(s, "REQUEST_WRITE")
  /\ Becomes(s, IF session[s].succeeded THEN [session[s] EXCEPT !.state = "COPY"] ELSE ClosedSession)
  /\ UNCHANGED <<table, settings, mng, metrics, crashed>>

\* copy_read and copy_write, when nothing is left to relay.
copy_done(s) ==
  /\ ProxyStep(s, "COPY")
  /\ metrics' = [metrics EXCEPT !.concurrent = @ - 1]
  /\ Becomes(s, ClosedSession)
  /\ UNCHANGED <<table, settings, mng, crashed>>
-----------------------------------------------------------------------------
Handlers(m) ==
  \/ hello_read(m) \/ hello_write(m) \/ auth_read(m) \/ auth_write(m)
  \/ mng_request_index_read(m) \/ mng_request_read(m) \/ mng_request_write(m)

Next ==
  \/ \E m \in Admins : mng_passive_accept(m) \/ ClientSends(m) \/ mng_done(m) \/ Handlers(m)
  \/ \E s \in Sessions :
       \/ socks_hello(s) \/ auth_process(s) \/ socksv5_done(s) \/ connecting_write(s)
       \/ request_write(s) \/ copy_done(s)

\* The main loop runs selector_select for ever, and handle_iteration calls the
\* handler of every descriptor that is ready: a handler that can go on does.
\* Clients promise nothing.
Fairness == \A m \in Admins : WF_vars(Handlers(m))

Spec == Init /\ [][Next]_vars /\ Fairness
-----------------------------------------------------------------------------
(* Every event has a handler: a connection is polled for reading exactly in the
   states whose row of client_mng[] has on_read_ready, else stm_handler_read or
   stm_handler_write aborts the process. *)
EveryEventHasAHandler ==
  \A m \in Admins :
    mng[m].state # "closed" =>
      (mng[m].interest = "READ" <=>
         mng[m].state \in {"HELLO_READ", "USERPASS_READ", "REQUEST_READ_INDEX", "REQUEST_READ"})

(* The entries of the table are allocated, no block is in two of them, and no
   block is lost: otherwise a later deleteUser frees twice or checkCredentials
   reads freed memory. *)
TableIsSound ==
  /\ \A i \in Entries : users[i] # NULL /\ heap[users[i]] # Freed
  /\ \A i, j \in Entries : users[i] = users[j] => i = j
  /\ \A b \in Blocks : heap[b] # Freed => \E i \in Entries : users[i] = b

(* Nobody gets to a request, and so to its reply, without the credentials of an
   administrator. *)
AuthenticatedFirst ==
  \A m \in Admins :
    mng[m].state \in {"REQUEST_READ_INDEX", "REQUEST_READ", "REQUEST_WRITE"} => mng[m].accepted

\* The step is m's request `index`, from an authenticated administrator.
Requests(m, index) ==
  /\ mng[m].accepted /\ mng[m].state = "REQUEST_READ" /\ mng[m].index = index
  /\ mng'[m].state = "REQUEST_WRITE"

(* Who can use the proxy changes only by a request to add or delete a user, and
   by one user at a time: the shifting in deleteUser neither drops a neighbour
   nor brings one back. *)
AccessChangesOnRequest ==
  [][/\ Access' \ Access # {} => \E m \in Admins : Requests(m, "add_user")
     /\ Access \ Access' # {} => \E m \in Admins : Requests(m, "delete_user")
     /\ Cardinality(Access' \ Access) + Cardinality(Access \ Access') <= 1]_vars

Counted == {s \in Sessions : session[s].state \in {"REQUEST_WRITE", "COPY"} /\ session[s].succeeded}

(* metrics_concurrent_connections, an unsigned number, never wraps below zero
   and never misses a connection that is open; the maximum is one. *)
MetricsCoverConnections ==
  Cardinality(Counted) <= metrics.concurrent /\ metrics.concurrent <= metrics.max_concurrent

\* An entry of the table, read through its pointer.
AccountAt(i) == IF users[i] = NULL THEN Freed ELSE heap[users[i]]

\* What a connection asks for, if an administrator is behind it.
PendingChange(r) ==
  IF r.accepted /\ r.state = "REQUEST_READ" /\ r.index \in {"add_user", "delete_user"}
    THEN r.index ELSE "none"

Listed == [i \in 1..nusers |-> AccountAt(i - 1)]
Pending == [m \in Admins |-> PendingChange(mng[m])]
Answer == [m \in Admins |-> mng[m].status]
Holder == [s \in Sessions |-> session[s].user]

UserList ==
  INSTANCE Accounts WITH
    Room <- MAX_USERS, Nobody <- NULL,
    accounts <- Listed, pending <- Pending, answer <- Answer, holder <- Holder

(* users[] is a list of accounts: addUser appends, deleteUser takes out the first
   entry with the name and keeps the order of the others, whose contents no free
   or malloc disturbs; nothing else changes it.  Each change is the pending request
   of an administrator, and its reply says what became of it, though addUser and
   its caller look at the limit separately.  checkCredentials lets in who is in the
   list at that moment. *)
ImplementsAccounts == UserList!Spec

(* A client that waits for the replies of the negotiation and then sends its
   request, index and parameters together or in parts, is answered, unless the
   connection fails or the reply does not fit: no part of the request is left
   in read_buffer with nothing more to come from the socket. *)
RequestsAreAnswered ==
  \A m \in Admins :
    (mng[m].total > 0 /\ mng[m].sent = mng[m].total /\ ~mng[m].eager)
      ~> (mng[m].outcome # "none" \/ crashed)

\* What printing users[i].name shows.
NameAt(i) == IF users[i] = NULL THEN NULL ELSE EntryName(i)

(* The access log names the user who made the request: the name that
   connecting_write prints, users[userIndex].name, is the one that checkCredentials
   found when it took the index. *)
RegisterNamesTheUser ==
  [][\A s \in Sessions :
       session[s].user # NULL /\ session[s].state = "REQUEST" /\ session'[s].state = "REQUEST_WRITE"
         => NameAt(session[s].userIndex) = session[s].user]_vars
=============================================================================
