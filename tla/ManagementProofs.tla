-------------------------- MODULE ManagementProofs --------------------------
(***************************************************************************)
(* Proofs about Management, for any number of connections, users, names    *)
(* and blocks of memory: the table of users stays sound, only an           *)
(* administrator's request changes who has access, the metrics cover the   *)
(* connections, and the table is a list of accounts (Accounts).            *)
(***************************************************************************)
EXTENDS Management, FiniteSetTheorems, SequenceTheorems, WellFoundedInduction, TLAPS

(* The first entry that checkCredentials and deleteUser look for. *)
LEMMA FirstExists ==
  ASSUME NEW U \in SUBSET Nat, U # {}
  PROVE  Min(U) \in U /\ \A i \in U : Min(U) <= i
<1>1. PICK x \in U : \A y \in U : ~(<<y, x>> \in OpToRel(<, Nat))
  BY NatLessThanWellFounded, WFMin, Zenon
<1>2. \A y \in U : ~(y < x)
  BY <1>1 DEF OpToRel
<1>3. \A y \in U : x <= y
  BY <1>2
<1> QED
  BY <1>1, <1>3 DEF Min
-----------------------------------------------------------------------------
(* The table of users. *)

AllBlocks == Blocks \cup ArgvBlocks

TableTypes ==
  /\ users \in [Slots -> AllBlocks \cup {NULL}]
  /\ nusers \in 0..MAX_USERS
  /\ heap \in [AllBlocks -> Credentials \cup {Freed}]

TableInv == TableTypes /\ TableIsSound

LEMMA FreedIsNoCredential ==
  /\ Freed \notin Credentials
  /\ NULL \notin AllBlocks
BY NullAssumption DEF Freed, Credentials, AllBlocks

LEMMA InitTable == Init => TableInv
<1> SUFFICES ASSUME Init PROVE TableInv
  OBVIOUS
<1>0. PICK a \in SUBSET ArgvBlocks : \E order \in [0..(Cardinality(a) - 1) -> a] :
        /\ \A i, j \in DOMAIN order : i # j => order[i] # order[j]
        /\ nusers = Cardinality(a)
        /\ users = [i \in Slots |-> IF i < nusers THEN order[i] ELSE NULL]
        /\ \E creds \in [a -> Credentials] :
             heap = [b \in Blocks \cup ArgvBlocks |-> IF b \in a THEN creds[b] ELSE Freed]
  BY Zenon DEF Init
<1>1. PICK order \in [0..(Cardinality(a) - 1) -> a] :
        /\ \A i, j \in DOMAIN order : i # j => order[i] # order[j]
        /\ nusers = Cardinality(a)
        /\ users = [i \in Slots |-> IF i < nusers THEN order[i] ELSE NULL]
        /\ \E creds \in [a -> Credentials] :
             heap = [b \in Blocks \cup ArgvBlocks |-> IF b \in a THEN creds[b] ELSE Freed]
  BY <1>0, Zenon
<1>2. PICK creds \in [a -> Credentials] :
        heap = [b \in Blocks \cup ArgvBlocks |-> IF b \in a THEN creds[b] ELSE Freed]
  BY <1>1
<1>3. nusers \in 0..MAX_USERS /\ MAX_USERS \in Nat
  <2>1. IsFiniteSet(a) /\ Cardinality(a) <= Cardinality(ArgvBlocks)
    BY ManagementAssumption, FS_Subset
  <2>2. Cardinality(a) \in Nat /\ Cardinality(ArgvBlocks) \in Nat
    BY <2>1, ManagementAssumption, FS_CardinalityType
  <2> QED
    BY <1>1, <2>1, <2>2, ManagementAssumption
<1>4. Entries \subseteq Slots /\ \A i \in Entries : i < nusers /\ i \in DOMAIN order
  BY <1>1, <1>3 DEF Entries, Slots
<1>5. \A i \in Entries : users[i] = order[i] /\ order[i] \in a
  BY <1>1, <1>4
<1>6. TableTypes
  <2>1. \A i \in Slots : i < nusers => order[i] \in a
    BY <1>1, <1>3 DEF Slots
  <2>2. users \in [Slots -> AllBlocks \cup {NULL}]
    BY <1>1, <2>1 DEF AllBlocks
  <2>3. heap \in [AllBlocks -> Credentials \cup {Freed}]
    BY <1>2 DEF AllBlocks
  <2> QED
    BY <1>3, <2>2, <2>3 DEF TableTypes
<1>7. \A i \in Entries : users[i] # NULL /\ heap[users[i]] # Freed
  BY <1>2, <1>5, FreedIsNoCredential DEF AllBlocks
<1>8. \A i, j \in Entries : users[i] = users[j] => i = j
  BY <1>1, <1>4, <1>5
<1>9. \A b \in Blocks : heap[b] = Freed
  BY <1>2, ManagementAssumption
<1> QED
  BY <1>6, <1>7, <1>8, <1>9 DEF TableInv, TableIsSound

LEMMA AddKeepsTable ==
  ASSUME TableInv, NEW c \in Credentials, addUser(c)
  PROVE  /\ TableInv'
         /\ nusers # MAX_USERS => nusers' = nusers + 1
         /\ Access \subseteq Access' /\ Access' \subseteq Access \cup {c}
<1>1. CASE nusers >= MAX_USERS
  <2>1. UNCHANGED table /\ nusers = MAX_USERS
    BY <1>1, ManagementAssumption DEF addUser, TableInv, TableTypes
  <2> QED
    BY <2>1 DEF table, TableInv, TableTypes, TableIsSound, Entries, Access
<1>2. CASE ~(nusers >= MAX_USERS)
  <2>1. PICK b \in Blocks : /\ heap[b] = Freed
                            /\ heap' = [heap EXCEPT ![b] = c]
                            /\ users' = [users EXCEPT ![nusers] = b]
                            /\ nusers' = nusers + 1
    BY <1>2 DEF addUser
  <2>2. nusers \in Slots /\ nusers \in Nat /\ nusers' \in 0..MAX_USERS
    BY <1>2, <2>1, ManagementAssumption DEF TableInv, TableTypes, Slots
  <2>3. Entries \subseteq Slots /\ Entries' = Entries \cup {nusers} /\ nusers \notin Entries
    BY <1>2, <2>1, <2>2, ManagementAssumption DEF Entries, Slots, TableInv, TableTypes
  <2>4. b \in AllBlocks /\ c # Freed
    BY FreedIsNoCredential DEF AllBlocks
  <2>5. \A i \in Entries : users[i] \in AllBlocks /\ users[i] # b
    BY <2>1, <2>3 DEF TableInv, TableTypes, TableIsSound
  <2>6. /\ \A i \in Entries : users'[i] = users[i] /\ heap'[users'[i]] = heap[users[i]]
        /\ users'[nusers] = b /\ heap'[b] = c
    BY <2>1, <2>2, <2>3, <2>4, <2>5 DEF TableInv, TableTypes
  <2>7. TableTypes'
    BY <2>1, <2>2, <2>4 DEF TableInv, TableTypes
  <2>8. \A i \in Entries' : users'[i] # NULL /\ heap'[users'[i]] # Freed
    BY <2>3, <2>4, <2>5, <2>6, FreedIsNoCredential DEF TableInv, TableIsSound
  <2>9. \A i, j \in Entries' : users'[i] = users'[j] => i = j
    BY <2>3, <2>5, <2>6 DEF TableInv, TableIsSound
  <2>10. \A d \in Blocks : heap'[d] # Freed => \E i \in Entries' : users'[i] = d
    <3>1. ASSUME NEW d \in Blocks, heap'[d] # Freed, d # b
          PROVE  \E i \in Entries' : users'[i] = d
      <4>1. heap[d] # Freed
        BY <2>1, <3>1 DEF TableInv, TableTypes, AllBlocks
      <4> QED
        BY <3>1, <4>1, <2>3, <2>6 DEF TableInv, TableIsSound
    <3> QED
      BY <3>1, <2>3, <2>6
  <2>11. Access \subseteq Access'
    BY <2>3, <2>5, <2>6, FreedIsNoCredential DEF Access
  <2>12. Access' \subseteq Access \cup {c}
    BY <2>3, <2>5, <2>6, FreedIsNoCredential DEF Access
  <2> QED
    BY <2>1, <2>7, <2>8, <2>9, <2>10, <2>11, <2>12 DEF TableInv, TableIsSound
<1> QED
  BY <1>1, <1>2

LEMMA DeleteKeepsTable ==
  ASSUME TableInv, NEW name \in Names, deleteUser(name)
  PROVE  /\ TableInv'
         /\ Access' \subseteq Access
         /\ \E c : Access \ Access' \subseteq {c}
<1>1. CASE Named(name) = {}
  <2>1. UNCHANGED table
    BY <1>1 DEF deleteUser
  <2> QED
    BY <2>1 DEF table, TableInv, TableTypes, TableIsSound, Entries, Access
<1>2. CASE Named(name) # {}
  <2> DEFINE k == Min(Named(name))
  <2>1. /\ heap' = [heap EXCEPT ![users[k]] = Freed]
        /\ users' = WithoutEntry(k)
        /\ nusers' = nusers - 1
    BY <1>2 DEF deleteUser
  <2>2. nusers \in 0..MAX_USERS /\ MAX_USERS \in Nat
    BY ManagementAssumption DEF TableInv, TableTypes
  <2>3. Entries \subseteq Slots /\ Entries \subseteq Nat
    BY <2>2 DEF Entries, Slots
  <2>4. k \in Entries
    <3>1. Named(name) \subseteq Entries
      BY DEF Named
    <3>2. k \in Named(name)
      BY <1>2, <2>3, <3>1, FirstExists
    <3> QED
      BY <3>1, <3>2
  <2> HIDE DEF k
  <2>5. /\ Entries' = {i \in Entries : i < nusers - 1}
        /\ \A i \in Entries' : i + 1 \in Entries
    BY <2>1, <2>2 DEF Entries
  <2>6. \A i \in Entries' : users'[i] = IF i >= k THEN users[i + 1] ELSE users[i]
    BY <2>1, <2>3, <2>4, <2>5 DEF WithoutEntry
  <2> DEFINE from(i) == IF i >= k THEN i + 1 ELSE i
  <2>7. \A i \in Entries' : from(i) \in Entries \ {k} /\ users'[i] = users[from(i)]
    <3>1. ASSUME NEW i \in Entries', i >= k
          PROVE  from(i) \in Entries \ {k} /\ users'[i] = users[from(i)]
      BY <3>1, <2>3, <2>4, <2>5, <2>6
    <3>2. ASSUME NEW i \in Entries', ~(i >= k)
          PROVE  from(i) \in Entries \ {k} /\ users'[i] = users[from(i)]
      BY <3>2, <2>3, <2>4, <2>5, <2>6
    <3> QED
      BY <3>1, <3>2
  <2>8. \A i, j \in Entries' : from(i) = from(j) => i = j
    BY <2>3, <2>4, <2>5
  <2>9. \A j \in Entries \ {k} : \E i \in Entries' : j = from(i)
    <3>1. ASSUME NEW j \in Entries, j < k
          PROVE  j \in Entries' /\ from(j) = j
      BY <3>1, <2>2, <2>3, <2>4, <2>5 DEF Entries
    <3>2. ASSUME NEW j \in Entries, j > k
          PROVE  j - 1 \in Entries' /\ from(j - 1) = j
      BY <3>2, <2>2, <2>3, <2>4, <2>5 DEF Entries
    <3>3. ASSUME NEW j \in Entries \ {k}
          PROVE  \E i \in Entries' : j = from(i)
      <4>1. j < k \/ j > k
        BY <2>3, <2>4, <3>3
      <4> HIDE DEF from
      <4> QED
        BY <3>1, <3>2, <3>3, <4>1
    <3> QED
      BY <3>3
  <2> HIDE DEF from
  <2>10. \A i \in Entries : users[i] \in AllBlocks /\ heap[users[i]] # Freed
    BY <2>3 DEF TableInv, TableTypes, TableIsSound
  <2>11. \A i \in Entries \ {k} : users[i] # users[k] /\ heap'[users[i]] = heap[users[i]]
    BY <2>1, <2>4, <2>10 DEF TableInv, TableTypes, TableIsSound
  <2>12. TableTypes'
    <3>1. \A i \in Slots : i >= k /\ i < nusers - 1 => i + 1 \in Slots
      BY <2>2 DEF Slots
    <3>2. users' \in [Slots -> AllBlocks \cup {NULL}]
      BY <2>1, <3>1 DEF WithoutEntry, TableInv, TableTypes
    <3>3. heap' \in [AllBlocks -> Credentials \cup {Freed}]
      BY <2>1 DEF TableInv, TableTypes
    <3>4. nusers' \in 0..MAX_USERS
      BY <2>1, <2>2, <2>4 DEF Entries
    <3> QED
      BY <3>2, <3>3, <3>4 DEF TableTypes
  <2>13. \A i \in Entries' : users'[i] # NULL /\ heap'[users'[i]] # Freed
    BY <2>7, <2>10, <2>11, FreedIsNoCredential
  <2>14. \A i, j \in Entries' : users'[i] = users'[j] => i = j
    BY <2>7, <2>8 DEF TableInv, TableIsSound
  <2>15. \A b \in Blocks : heap'[b] # Freed => \E i \in Entries' : users'[i] = b
    <3>1. ASSUME NEW b \in Blocks, heap'[b] # Freed
          PROVE  \E j \in Entries \ {k} : users[j] = b
      <4>1. b # users[k] /\ heap[b] # Freed
        BY <2>1, <2>4, <2>10, <3>1 DEF TableInv, TableTypes, AllBlocks
      <4> QED
        BY <3>1, <4>1 DEF TableInv, TableIsSound
    <3> QED
      BY <3>1, <2>7, <2>9
  <2>16. Access = {heap[users[i]] : i \in Entries}
    BY <2>10, FreedIsNoCredential DEF Access
  <2>17. Access' = {heap'[users'[i]] : i \in Entries'}
    BY <2>13 DEF Access
  <2>18. Access' = {heap[users[j]] : j \in Entries \ {k}}
    <3>1. Access' \subseteq {heap[users[j]] : j \in Entries \ {k}}
      BY <2>7, <2>11, <2>17
    <3>2. \A j \in Entries \ {k} : heap[users[j]] \in Access'
      BY <2>7, <2>9, <2>11, <2>17
    <3> QED
      BY <3>1, <3>2
  <2>19. Access' \subseteq Access /\ Access \ Access' \subseteq {heap[users[k]]}
    BY <2>16, <2>18
  <2> QED
    BY <2>12, <2>13, <2>14, <2>15, <2>19 DEF TableInv, TableIsSound
<1> QED
  BY <1>1, <1>2


\* What a step may do to the table.
TableStep ==
  \/ UNCHANGED table
  \/ \E c \in Credentials : addUser(c)
  \/ \E name \in Names : deleteUser(name)

LEMMA ParamsOnTable ==
  ASSUME NEW m, NEW r, process_mng_params_request(m, r)
  PROVE  TableStep
BY DEF process_mng_params_request, Crashes, TableStep

LEMMA IndexOnTable ==
  ASSUME NEW m, NEW r, process_mng_index(m, r)
  PROVE  UNCHANGED table
BY DEF process_mng_index, list_users_mng_request_marshall, Crashes

LEMMA HandlersOnTable ==
  ASSUME NEW m, Handlers(m)
  PROVE  TableStep
<1>1. CASE hello_read(m) \/ hello_write(m) \/ auth_write(m) \/ mng_request_write(m)
  BY <1>1 DEF hello_read, hello_write, auth_write, mng_request_write, TableStep
<1>2. CASE auth_read(m)
  BY <1>2 DEF auth_read, Crashes, TableStep
<1>3. CASE mng_request_index_read(m)
  BY <1>3, IndexOnTable DEF mng_request_index_read, TableStep
<1>4. CASE mng_request_read(m)
  BY <1>4, ParamsOnTable DEF mng_request_read, TableStep
<1> QED
  BY <1>1, <1>2, <1>3, <1>4 DEF Handlers

LEMMA StepOnTable == [Next]_vars => TableStep
<1> SUFFICES ASSUME [Next]_vars PROVE TableStep
  OBVIOUS
<1>1. CASE \E m \in Admins : mng_passive_accept(m) \/ ClientSends(m) \/ mng_done(m)
  BY <1>1 DEF mng_passive_accept, ClientSends, mng_done, TableStep
<1>2. CASE \E m \in Admins : Handlers(m)
  BY <1>2, HandlersOnTable
<1>3. CASE \E s \in Sessions :
             \/ socks_hello(s) \/ auth_process(s) \/ socksv5_done(s) \/ connecting_write(s)
             \/ request_write(s) \/ copy_done(s)
  BY <1>3 DEF socks_hello, auth_process, socksv5_done, connecting_write, request_write,
              copy_done, TableStep
<1>4. CASE UNCHANGED vars
  BY <1>4 DEF vars, table, TableStep
<1> QED
  BY <1>1, <1>2, <1>3, <1>4 DEF Next

LEMMA NextTable == TableInv /\ [Next]_vars => TableInv'
<1> SUFFICES ASSUME TableInv, TableStep PROVE TableInv'
  BY StepOnTable
<1>1. CASE UNCHANGED table
  BY <1>1 DEF table, TableInv, TableTypes, TableIsSound, Entries
<1> QED
  BY <1>1, AddKeepsTable, DeleteKeepsTable DEF TableStep

(* The table of users holds each allocated block once and nothing else, whatever
   sequence of additions and deletions the administrators ask for. *)
THEOREM TableStaysSound == Spec => []TableIsSound
<1>1. Spec => []TableInv
  BY InitTable, NextTable, PTL DEF Spec
<1> QED
  BY <1>1, PTL DEF TableInv
-----------------------------------------------------------------------------
(* The management connections. *)

ReadingStates == {"HELLO_READ", "USERPASS_READ", "REQUEST_READ_INDEX", "REQUEST_READ"}
RequestStates == {"REQUEST_READ_INDEX", "REQUEST_READ", "REQUEST_WRITE"}

\* A record with the fields of a connection, whatever is in them.
Shape(r) ==
  r = [state |-> r.state, interest |-> r.interest, eager |-> r.eager,
       total |-> r.total, sent |-> r.sent, received |-> r.received, parsed |-> r.parsed,
       method |-> r.method, authentication |-> r.authentication, accepted |-> r.accepted,
       index |-> r.index, status |-> r.status, write_buffer |-> r.write_buffer,
       outcome |-> r.outcome]

\* The same but for the bytes.
Like(q, r) ==
  /\ Shape(q)
  /\ q.state = r.state /\ q.interest = r.interest
  /\ q.authentication = r.authentication /\ q.accepted = r.accepted
  /\ q.index = r.index /\ q.status = r.status

ConnectionInv(r) ==
  /\ Shape(r)
  /\ r.state # "closed" => (r.interest = "READ" <=> r.state \in ReadingStates)
  /\ r.state = "USERPASS_WRITE" /\ r.authentication = 0 => r.accepted
  /\ r.state \in RequestStates => r.accepted

MngInv ==
  /\ mng = [m \in Admins |-> mng[m]]
  /\ \A m \in Admins : ConnectionInv(mng[m])

LEMMA RecvIsLike ==
  ASSUME NEW r, Shape(r), NEW most, NEW q \in AfterRecv(r, most)
  PROVE  Like(q, r)
<1>1. PICK n \in 1..Min({most, r.sent - r.received}) :
        q = [r EXCEPT !.received = @ + n, !.parsed = Min({r.received + n, Read(r.state)})]
  BY DEF AfterRecv
<1> QED
  BY <1>1 DEF Shape, Like

LEMMA SendIsLike ==
  ASSUME NEW r, Shape(r), NEW q \in AfterSend(r)
  PROVE  Like(q, r)
<1>1. PICK k \in 1..ReadableBytes(r.write_buffer) :
        q = [r EXCEPT !.write_buffer = buffer_read_adv(@, k)]
  BY DEF AfterSend
<1> QED
  BY <1>1 DEF Shape, Like

LEMMA MarshalIsLike ==
  ASSUME NEW r, Shape(r), NEW n
  PROVE  Like(Marshal(r, n), r)
BY DEF Marshal, Shape, Like

LEMMA MovesToFields ==
  ASSUME NEW r, Shape(r), NEW state, NEW op, NEW q, q = MovesTo(r, state, op)
  PROVE  /\ Shape(q) /\ q.state = state /\ q.interest = op
         /\ q.authentication = r.authentication /\ q.accepted = r.accepted
         /\ q.index = r.index /\ q.status = r.status
<1>1. q = [r EXCEPT !.state = state, !.interest = op]
  BY DEF MovesTo
<1> QED
  BY <1>1 DEF Shape

LEMMA ClosedInv == ASSUME NEW outcome PROVE ConnectionInv(ClosedMng(outcome))
BY DEF ClosedMng, ConnectionInv, Shape, RequestStates

\* A connection that moves by itself.
LEMMA OneMoves ==
  ASSUME MngInv, NEW m \in Admins, NEW r, ConnectionInv(r), mng' = [mng EXCEPT ![m] = r]
  PROVE  MngInv' /\ mng'[m] = r /\ \A n \in Admins \ {m} : mng'[n] = mng[n]
<1> DEFINE old == mng
           new == mng'
<1>1. old = [n \in Admins |-> old[n]] /\ new = [old EXCEPT ![m] = r]
  BY DEF MngInv
<1> HIDE DEF old, new
<1>2. DOMAIN old = Admins
  BY <1>1
<1>3. new = [n \in Admins |-> IF n = m THEN r ELSE old[n]]
  BY <1>1, <1>2
<1>4. new[m] = r /\ \A n \in Admins \ {m} : new[n] = old[n]
  BY <1>3
<1>5. new = [n \in Admins |-> new[n]]
  BY <1>3
<1>6. \A n \in Admins : ConnectionInv(new[n])
  BY <1>4 DEF MngInv, old
<1> QED
  BY <1>4, <1>5, <1>6 DEF MngInv, ConnectionInv, Shape, old, new


\* Connection m goes on as r.
Goes(m, r) == ConnectionInv(r) /\ mng' = [mng EXCEPT ![m] = r]

LEMMA CloseGoes ==
  ASSUME NEW m \in Admins, NEW outcome, Closes(m, outcome)
  PROVE  \E r : Goes(m, r)
BY ClosedInv DEF Closes, Goes

LEMMA LikeInv ==
  ASSUME NEW r, ConnectionInv(r), NEW q, Like(q, r)
  PROVE  ConnectionInv(q)
BY DEF ConnectionInv, Like

LEMMA MethodKeepsShape ==
  ASSUME NEW r, Shape(r), NEW x
  PROVE  Shape([r EXCEPT !.method = x])
BY DEF Shape

LEMMA StatusKeepsShape ==
  ASSUME NEW r, Shape(r), NEW x, NEW q, q = [r EXCEPT !.status = x]
  PROVE  Shape(q) /\ q.accepted = r.accepted /\ q.index = r.index /\ q.status = x
BY DEF Shape

LEMMA IndexKeepsShape ==
  ASSUME NEW r, Shape(r), NEW x, NEW q, q = [r EXCEPT !.index = x]
  PROVE  Shape(q) /\ q.accepted = r.accepted /\ q.index = x
BY DEF Shape

LEMMA VerdictInv ==
  ASSUME NEW p, Shape(p), p.authentication = 0 => p.accepted
  PROVE  ConnectionInv(MovesTo(p, "USERPASS_WRITE", "WRITE"))
<1> DEFINE q == MovesTo(p, "USERPASS_WRITE", "WRITE")
<1>1. /\ Shape(q) /\ q.state = "USERPASS_WRITE" /\ q.interest = "WRITE"
      /\ q.authentication = p.authentication /\ q.accepted = p.accepted
  BY MovesToFields
<1> HIDE DEF q
<1>2. ConnectionInv(q)
  BY <1>1 DEF ConnectionInv, ReadingStates, RequestStates
<1> QED
  BY <1>2 DEF q

LEMMA AcceptedShape ==
  ASSUME NEW r, Shape(r), NEW p, p = [r EXCEPT !.authentication = 0, !.accepted = TRUE]
  PROVE  Shape(p) /\ p.accepted
BY DEF Shape

LEMMA RejectedShape ==
  ASSUME NEW r, Shape(r), NEW p, p = [r EXCEPT !.authentication = 1, !.accepted = FALSE]
  PROVE  Shape(p) /\ p.authentication = 1
BY DEF Shape

LEMMA HelloReadGoes ==
  ASSUME MngInv, NEW m \in Admins, hello_read(m)
  PROVE  \E r : Goes(m, r)
<1>1. mng[m].state = "HELLO_READ" /\ ConnectionInv(mng[m]) /\ Shape(mng[m])
  BY DEF hello_read, mng_read, MngInv, ConnectionInv
<1>2. PICK r \in AfterRecv(mng[m], AllThereIs) : \E method \in {"none", "userpass"} :
        mng' = [mng EXCEPT ![m] =
                 IF MessageDone(r)
                   THEN MovesTo(Marshal([r EXCEPT !.method = method], 2), "HELLO_WRITE", "WRITE")
                   ELSE r]
  BY DEF hello_read
<1>3. Like(r, mng[m]) /\ Shape(r)
  BY <1>1, RecvIsLike DEF Like
<1>4. ConnectionInv(r)
  BY <1>1, <1>3, LikeInv
<1>5. ASSUME NEW method
      PROVE  ConnectionInv(MovesTo(Marshal([r EXCEPT !.method = method], 2), "HELLO_WRITE", "WRITE"))
  <2> DEFINE p == Marshal([r EXCEPT !.method = method], 2)
             q == MovesTo(p, "HELLO_WRITE", "WRITE")
  <2>1. Shape(p)
    BY <1>3, MethodKeepsShape, MarshalIsLike DEF Like
  <2> HIDE DEF p
  <2>2. Shape(q) /\ q.state = "HELLO_WRITE" /\ q.interest = "WRITE"
    BY <2>1, MovesToFields
  <2> HIDE DEF q
  <2>3. ConnectionInv(q)
    BY <2>2 DEF ConnectionInv, ReadingStates, RequestStates
  <2> QED
    BY <2>3 DEF q, p
<1> QED
  BY <1>2, <1>4, <1>5 DEF Goes

LEMMA HelloWriteGoes ==
  ASSUME MngInv, NEW m \in Admins, hello_write(m)
  PROVE  \E r : Goes(m, r)
<1>1. mng[m].state = "HELLO_WRITE" /\ ConnectionInv(mng[m]) /\ Shape(mng[m])
  BY DEF hello_write, mng_write, MngInv, ConnectionInv
<1>2. PICK r \in AfterSend(mng[m]) :
        \/ mng' = [mng EXCEPT ![m] = r]
        \/ Closes(m, "answered")
        \/ mng' = [mng EXCEPT ![m] = MovesTo(r, "USERPASS_READ", "READ")]
  BY DEF hello_write
<1>3. Like(r, mng[m]) /\ Shape(r)
  BY <1>1, SendIsLike DEF Like
<1>4. ConnectionInv(r)
  BY <1>1, <1>3, LikeInv
<1>5. ConnectionInv(MovesTo(r, "USERPASS_READ", "READ"))
  BY <1>3, MovesToFields DEF ConnectionInv, ReadingStates, RequestStates
<1> QED
  BY <1>2, <1>4, <1>5, CloseGoes DEF Goes

LEMMA AuthReadGoes ==
  ASSUME MngInv, NEW m \in Admins, auth_read(m)
  PROVE  UNCHANGED mng \/ \E r : Goes(m, r)
<1>1. mng[m].state = "USERPASS_READ" /\ ConnectionInv(mng[m]) /\ Shape(mng[m])
  BY DEF auth_read, mng_read, MngInv, ConnectionInv
<1>2. CASE Crashes
  BY <1>2 DEF Crashes
<1>3. ASSUME NEW r \in AfterRecv(mng[m], AllThereIs)
      PROVE  /\ ConnectionInv(r)
             /\ Shape(r)
  BY <1>1, <1>3, RecvIsLike, LikeInv DEF Like
<1>4. ASSUME NEW r \in AfterRecv(mng[m], AllThereIs), NEW found \in BOOLEAN,
             mng' = [mng EXCEPT ![m] =
                       MovesTo([r EXCEPT !.authentication = IF found THEN 0 ELSE 1,
                                         !.accepted = found], "USERPASS_WRITE", "WRITE")]
      PROVE  \E q : Goes(m, q)
  <2>1. CASE found = TRUE
    <3> DEFINE p == [r EXCEPT !.authentication = 0, !.accepted = TRUE]
    <3>1. mng' = [mng EXCEPT ![m] = MovesTo(p, "USERPASS_WRITE", "WRITE")]
      BY <1>4, <2>1
    <3>2. p.authentication = 0 => p.accepted
      BY <1>3, AcceptedShape
    <3>3. Shape(p)
      BY <1>3, AcceptedShape
    <3>4. ConnectionInv(MovesTo(p, "USERPASS_WRITE", "WRITE"))
      BY <3>2, <3>3, VerdictInv
    <3> QED
      BY <3>1, <3>4 DEF Goes
  <2>2. CASE found = FALSE
    <3> DEFINE p == [r EXCEPT !.authentication = 1, !.accepted = FALSE]
    <3>1. mng' = [mng EXCEPT ![m] = MovesTo(p, "USERPASS_WRITE", "WRITE")]
      BY <1>4, <2>2
    <3>2. p.authentication = 1 /\ Shape(p)
      <4>1. Shape(r)
        BY <1>3
      <4>2. \A q : q = p => Shape(q) /\ q.authentication = 1
        BY <4>1, RejectedShape
      <4> QED
        BY <4>2
    <3>3. 1 # 0
      OBVIOUS
    <3>4. p.authentication = 0 => p.accepted
      BY <3>2, <3>3, Zenon
    <3>5. ConnectionInv(MovesTo(p, "USERPASS_WRITE", "WRITE"))
      BY <3>2, <3>4, VerdictInv
    <3> QED
      BY <3>1, <3>5 DEF Goes
  <2> QED
    BY <2>1, <2>2
<1> QED
  BY <1>2, <1>3, <1>4 DEF auth_read, Goes

LEMMA AuthWriteGoes ==
  ASSUME MngInv, NEW m \in Admins, auth_write(m)
  PROVE  \E r : Goes(m, r)
<1>1. mng[m].state = "USERPASS_WRITE" /\ ConnectionInv(mng[m]) /\ Shape(mng[m])
  BY DEF auth_write, mng_write, MngInv, ConnectionInv
<1>2. PICK r \in AfterSend(Marshal(mng[m], 2)) :
        \/ mng' = [mng EXCEPT ![m] = r]
        \/ Closes(m, "answered")
        \/ r.authentication = 0 /\ mng' = [mng EXCEPT ![m] = MovesTo(r, "REQUEST_READ_INDEX", "READ")]
  BY DEF auth_write
<1>3. Like(Marshal(mng[m], 2), mng[m])
  BY <1>1, MarshalIsLike
<1>4. Like(r, Marshal(mng[m], 2)) /\ Shape(r)
  BY <1>3, SendIsLike DEF Like
<1>5. Like(r, mng[m])
  BY <1>3, <1>4 DEF Like
<1>6. ConnectionInv(r)
  BY <1>1, <1>5, LikeInv
<1>7. r.authentication = 0 => ConnectionInv(MovesTo(r, "REQUEST_READ_INDEX", "READ"))
  <2>1. r.authentication = 0 => r.accepted
    BY <1>1, <1>5 DEF Like, ConnectionInv
  <2> QED
    BY <1>4, <2>1, MovesToFields DEF ConnectionInv, ReadingStates, RequestStates
<1> QED
  BY <1>2, <1>6, <1>7, CloseGoes DEF Goes

LEMMA ReplyFields ==
  ASSUME NEW r, Shape(r), NEW status, NEW n,
         NEW q, q = MovesTo(Marshal([r EXCEPT !.status = status], n), "REQUEST_WRITE", "WRITE")
  PROVE  Shape(q) /\ q.state = "REQUEST_WRITE" /\ q.interest = "WRITE" /\ q.accepted = r.accepted
<1> DEFINE told == [r EXCEPT !.status = status]
           p == Marshal(told, n)
<1>1. Shape(told) /\ told.accepted = r.accepted
  BY StatusKeepsShape
<1>2. q = MovesTo(p, "REQUEST_WRITE", "WRITE")
  OBVIOUS
<1> HIDE DEF told
<1>3. Shape(p) /\ p.accepted = r.accepted
  BY <1>1, MarshalIsLike DEF Like
<1> HIDE DEF p
<1> QED
  BY <1>2, <1>3, MovesToFields

LEMMA ReplySays ==
  ASSUME NEW r, Shape(r), NEW status, NEW n,
         NEW q, q = MovesTo(Marshal([r EXCEPT !.status = status], n), "REQUEST_WRITE", "WRITE")
  PROVE  q.state = "REQUEST_WRITE" /\ q.status = status
<1> DEFINE told == [r EXCEPT !.status = status]
           p == Marshal(told, n)
<1>1. Shape(told) /\ told.status = status
  BY StatusKeepsShape
<1>2. q = MovesTo(p, "REQUEST_WRITE", "WRITE")
  OBVIOUS
<1> HIDE DEF told
<1>3. Shape(p) /\ p.status = status
  BY <1>1, MarshalIsLike DEF Like
<1> HIDE DEF p
<1> QED
  BY <1>2, <1>3, MovesToFields

LEMMA RepliesGoes ==
  ASSUME NEW m \in Admins, NEW r, Shape(r), r.accepted, NEW status, NEW n,
         Replies(m, r, status, n)
  PROVE  \E q : Goes(m, q)
<1> DEFINE q == MovesTo(Marshal([r EXCEPT !.status = status], n), "REQUEST_WRITE", "WRITE")
<1>1. mng' = [mng EXCEPT ![m] = q]
  BY DEF Replies
<1>2. Shape(q) /\ q.state = "REQUEST_WRITE" /\ q.interest = "WRITE" /\ q.accepted = r.accepted
  BY ReplyFields, Zenon
<1> HIDE DEF q
<1>3. ConnectionInv(q)
  BY <1>2 DEF ConnectionInv, ReadingStates, RequestStates
<1> QED
  BY <1>1, <1>3 DEF Goes

LEMMA IndexGoes ==
  ASSUME NEW m \in Admins, NEW r, Shape(r), r.accepted, process_mng_index(m, r)
  PROVE  UNCHANGED mng \/ \E q : Goes(m, q)
<1>1. CASE \E status, n : Replies(m, r, status, n)
  BY <1>1, RepliesGoes
<1>2. CASE list_users_mng_request_marshall(m, r)
  BY <1>2, RepliesGoes DEF list_users_mng_request_marshall, Crashes
<1>3. CASE mng' = [mng EXCEPT ![m] = MovesTo(r, "REQUEST_READ", "READ")]
  <2>1. ConnectionInv(MovesTo(r, "REQUEST_READ", "READ"))
    BY MovesToFields DEF ConnectionInv, ReadingStates, RequestStates
  <2> QED
    BY <1>3, <2>1 DEF Goes
<1> QED
  BY <1>1, <1>2, <1>3 DEF process_mng_index

LEMMA IndexReadGoes ==
  ASSUME MngInv, NEW m \in Admins, mng_request_index_read(m)
  PROVE  UNCHANGED mng \/ \E r : Goes(m, r)
<1>1. /\ mng[m].state = "REQUEST_READ_INDEX" /\ ConnectionInv(mng[m]) /\ Shape(mng[m])
      /\ mng[m].accepted
  BY DEF mng_request_index_read, mng_read, MngInv, ConnectionInv, RequestStates
<1>2. PICK r \in AfterRecv(mng[m], OneByte), index \in IndexesOf(mng[m]) :
        \/ Replies(m, r, "index_not_supported", 1)
        \/ process_mng_index(m, [r EXCEPT !.index = index])
  BY DEF mng_request_index_read
<1>3. Like(r, mng[m])
  BY <1>1, RecvIsLike, Zenon
<1>4. Shape(r) /\ r.accepted
  BY <1>1, <1>3, Zenon DEF Like
<1>5. CASE Replies(m, r, "index_not_supported", 1)
  BY <1>4, <1>5, RepliesGoes
<1>6. CASE process_mng_index(m, [r EXCEPT !.index = index])
  <2> DEFINE p == [r EXCEPT !.index = index]
  <2>1. Shape(p) /\ p.accepted = r.accepted
    BY <1>4, IndexKeepsShape
  <2>2. process_mng_index(m, p)
    BY <1>6
  <2> HIDE DEF p
  <2>3. p.accepted
    BY <1>4, <2>1
  <2> QED
    BY <2>1, <2>2, <2>3, IndexGoes
<1> QED
  BY <1>2, <1>5, <1>6

LEMMA ParamsGoes ==
  ASSUME NEW m \in Admins, NEW r, Shape(r), r.accepted, process_mng_params_request(m, r)
  PROVE  UNCHANGED mng \/ \E q : Goes(m, q)
<1>1. UNCHANGED mng \/ \E status, n : Replies(m, r, status, n)
  BY DEF process_mng_params_request, Crashes
<1> QED
  BY <1>1, RepliesGoes

LEMMA RequestReadGoes ==
  ASSUME MngInv, NEW m \in Admins, mng_request_read(m)
  PROVE  UNCHANGED mng \/ \E r : Goes(m, r)
<1>1. /\ mng[m].state = "REQUEST_READ" /\ ConnectionInv(mng[m]) /\ Shape(mng[m])
      /\ mng[m].accepted
  BY DEF mng_request_read, mng_read, MngInv, ConnectionInv, RequestStates
<1>2. PICK r \in AfterRecv(mng[m], AllThereIs) :
        mng' = [mng EXCEPT ![m] = r] \/ process_mng_params_request(m, r)
  BY DEF mng_request_read
<1>3. Like(r, mng[m])
  BY <1>1, RecvIsLike, Zenon
<1>4. Shape(r) /\ r.accepted
  BY <1>1, <1>3, Zenon DEF Like
<1>5. ConnectionInv(r)
  BY <1>1, <1>3, LikeInv
<1> QED
  BY <1>2, <1>4, <1>5, ParamsGoes DEF Goes

LEMMA RequestWriteGoes ==
  ASSUME MngInv, NEW m \in Admins, mng_request_write(m)
  PROVE  \E r : Goes(m, r)
<1>1. ConnectionInv(mng[m]) /\ Shape(mng[m])
  BY DEF MngInv, ConnectionInv
<1>2. \A r \in AfterSend(mng[m]) : ConnectionInv(r)
  BY <1>1, SendIsLike, LikeInv
<1> QED
  BY <1>2, CloseGoes DEF mng_request_write, Goes

LEMMA NewFields ==
  ASSUME NEW eager, NEW total, NEW c, Shape(c), c = ClosedMng("none"),
         NEW q, q = mng_new(eager, total)
  PROVE  Shape(q) /\ q.state = "HELLO_READ" /\ q.interest = c.interest
<1>1. q = [c EXCEPT !.state = "HELLO_READ", !.eager = eager, !.total = total]
  BY DEF mng_new
<1> QED
  BY <1>1 DEF Shape

LEMMA ClosedFields ==
  ASSUME NEW outcome
  PROVE  Shape(ClosedMng(outcome)) /\ ClosedMng(outcome).interest = "READ"
BY DEF ClosedMng, Shape

LEMMA NewInv ==
  ASSUME NEW eager, NEW total
  PROVE  ConnectionInv(mng_new(eager, total))
<1>1. PICK closed : closed = ClosedMng("none")
  OBVIOUS
<1>2. PICK r : r = mng_new(eager, total)
  OBVIOUS
<1>3. Shape(r) /\ r.state = "HELLO_READ" /\ r.interest = "READ"
  BY <1>1, <1>2, ClosedFields, NewFields
<1>4. ConnectionInv(r)
  BY <1>3 DEF ConnectionInv, ReadingStates, RequestStates
<1> QED
  BY <1>2, <1>4

LEMMA AcceptGoes ==
  ASSUME NEW m \in Admins, mng_passive_accept(m)
  PROVE  \E r : Goes(m, r)
BY NewInv DEF mng_passive_accept, Goes

LEMMA SendsGoes ==
  ASSUME MngInv, NEW m \in Admins, ClientSends(m)
  PROVE  \E r : Goes(m, r)
<1> DEFINE r == [mng[m] EXCEPT !.sent = @ + 1]
<1>1. mng' = [mng EXCEPT ![m] = r]
  BY DEF ClientSends
<1>2. Shape(mng[m]) /\ ConnectionInv(mng[m])
  BY DEF MngInv, ConnectionInv
<1>3. Like(r, mng[m])
  BY <1>2 DEF Like, Shape
<1>4. ConnectionInv(r)
  BY <1>2, <1>3, LikeInv
<1> QED
  BY <1>1, <1>4 DEF Goes

\* What a step may do to the management connections: one of them moves.
LEMMA StepOnMng ==
  ASSUME MngInv, [Next]_vars
  PROVE  UNCHANGED mng \/ \E m \in Admins : \E r : Goes(m, r)
<1>1. CASE \E m \in Admins : mng_passive_accept(m)
  BY <1>1, AcceptGoes
<1>2. CASE \E m \in Admins : ClientSends(m)
  BY <1>2, SendsGoes
<1>3. CASE \E m \in Admins : mng_done(m)
  BY <1>3, CloseGoes DEF mng_done
<1>4. CASE \E m \in Admins : Handlers(m)
  BY <1>4, HelloReadGoes, HelloWriteGoes, AuthReadGoes, AuthWriteGoes, IndexReadGoes,
     RequestReadGoes, RequestWriteGoes DEF Handlers
<1>5. CASE \E s \in Sessions :
             \/ socks_hello(s) \/ auth_process(s) \/ socksv5_done(s) \/ connecting_write(s)
             \/ request_write(s) \/ copy_done(s)
  BY <1>5 DEF socks_hello, auth_process, socksv5_done, connecting_write, request_write, copy_done
<1>6. CASE UNCHANGED vars
  BY <1>6 DEF vars
<1> QED
  BY <1>1, <1>2, <1>3, <1>4, <1>5, <1>6 DEF Next

LEMMA InitMng == Init => MngInv
<1> SUFFICES ASSUME Init PROVE MngInv
  OBVIOUS
<1>1. mng = [m \in Admins |-> ClosedMng("none")]
  BY DEF Init
<1>2. \A m \in Admins : mng[m] = ClosedMng("none")
  BY <1>1
<1>3. \A m \in Admins : ConnectionInv(mng[m])
  BY <1>2, ClosedInv
<1>4. mng = [m \in Admins |-> mng[m]]
  BY <1>1
<1> QED
  BY <1>3, <1>4 DEF MngInv

LEMMA NextMng == MngInv /\ [Next]_vars => MngInv'
<1> SUFFICES ASSUME MngInv, [Next]_vars PROVE MngInv'
  OBVIOUS
<1>1. CASE UNCHANGED mng
  BY <1>1 DEF MngInv, ConnectionInv, Shape
<1>2. CASE \E m \in Admins : \E r : Goes(m, r)
  BY <1>2, OneMoves DEF Goes
<1> QED
  BY <1>1, <1>2, StepOnMng

LEMMA MngIsAlwaysSo == Spec => []MngInv
BY InitMng, NextMng, PTL DEF Spec

(* stm_handler_read and stm_handler_write find a handler in the row of the
   state, whatever events the peers cause. *)
THEOREM EventsHaveHandlers == Spec => []EveryEventHasAHandler
<1>1. MngInv => EveryEventHasAHandler
  BY DEF MngInv, ConnectionInv, ReadingStates, EveryEventHasAHandler
<1> QED
  BY <1>1, MngIsAlwaysSo, PTL

(* No sequence of partial receptions and sends leads to a request without the
   credentials of an administrator. *)
THEOREM RequestsAreAuthenticated == Spec => []AuthenticatedFirst
<1>1. MngInv => AuthenticatedFirst
  BY DEF MngInv, ConnectionInv, RequestStates, AuthenticatedFirst
<1> QED
  BY <1>1, MngIsAlwaysSo, PTL
-----------------------------------------------------------------------------
(* Requests and the table. *)

LEMMA ReplyIsWritten ==
  ASSUME MngInv, NEW m \in Admins, NEW r, Shape(r), NEW status, NEW n, Replies(m, r, status, n)
  PROVE  mng'[m].state = "REQUEST_WRITE" /\ mng'[m].status = status
<1> DEFINE q == MovesTo(Marshal([r EXCEPT !.status = status], n), "REQUEST_WRITE", "WRITE")
<1>1. mng' = [mng EXCEPT ![m] = q]
  BY DEF Replies
<1>2. q.state = "REQUEST_WRITE" /\ q.status = status
  BY ReplySays
<1> HIDE DEF q
<1>3. DOMAIN mng = Admins
  BY DEF MngInv
<1> QED
  BY <1>1, <1>2, <1>3

\* What the request of m does to the table, and what its reply says.
LEMMA RequestOnTable ==
  ASSUME TableInv, MngInv, NEW m \in Admins, mng_request_read(m)
  PROVE  \/ UNCHANGED table /\ mng'[m].state # "REQUEST_WRITE"
         \/ /\ UNCHANGED table
            /\ mng[m].index = "add_user" => mng'[m].status # "succeeded"
         \/ /\ \E c \in Credentials : addUser(c)
            /\ nusers' = nusers + 1
            /\ Requests(m, "add_user") /\ mng'[m].status = "succeeded"
         \/ /\ \E name \in Names : deleteUser(name)
            /\ mng[m].index = "delete_user"
            /\ Requests(m, "delete_user")
<1>1. /\ mng[m].state = "REQUEST_READ" /\ ConnectionInv(mng[m]) /\ Shape(mng[m])
      /\ mng[m].accepted
  BY DEF mng_request_read, mng_read, MngInv, ConnectionInv, RequestStates
<1>2. PICK r \in AfterRecv(mng[m], AllThereIs) :
        \/ mng' = [mng EXCEPT ![m] = r] /\ UNCHANGED table
        \/ process_mng_params_request(m, r)
  BY DEF mng_request_read
<1>3. Shape(r) /\ r.state = "REQUEST_READ" /\ r.index = mng[m].index
  BY <1>1, RecvIsLike DEF Like
<1>4. CASE mng' = [mng EXCEPT ![m] = r] /\ UNCHANGED table
  <2>1. DOMAIN mng = Admins
    BY DEF MngInv
  <2>2. mng'[m] = r
    BY <1>4, <2>1
  <2> QED
    BY <1>3, <1>4, <2>2
<1>5. CASE UNCHANGED mng /\ UNCHANGED table
  BY <1>1, <1>5
<1>6. CASE r.index = "add_user" /\ Replies(m, r, "max_users_reached", 1) /\ UNCHANGED table
  BY <1>3, <1>6, ReplyIsWritten
<1>7. CASE /\ r.index = "add_user" /\ nusers # MAX_USERS /\ Replies(m, r, "succeeded", 1)
           /\ \E c \in Credentials : addUser(c)
  <2>1. mng'[m].state = "REQUEST_WRITE" /\ mng'[m].status = "succeeded"
    BY <1>3, <1>7, ReplyIsWritten
  <2>2. nusers' = nusers + 1
    BY <1>7, AddKeepsTable
  <2>3. Requests(m, "add_user")
    BY <1>1, <1>3, <1>7, <2>1 DEF Requests
  <2> QED
    BY <1>7, <2>1, <2>2, <2>3
<1>8. CASE /\ r.index = "delete_user" /\ Replies(m, r, "succeeded", 1)
           /\ \E name \in Names : deleteUser(name)
  <2>1. mng'[m].state = "REQUEST_WRITE"
    BY <1>3, <1>8, ReplyIsWritten
  <2>2. Requests(m, "delete_user")
    BY <1>1, <1>3, <1>8, <2>1 DEF Requests
  <2> QED
    BY <1>3, <1>8, <2>2
<1>9. CASE r.index \in {"disable_auth", "disable_password_disectors"} /\ UNCHANGED table
  BY <1>3, <1>9
<1> QED
  <2>1. CASE process_mng_params_request(m, r)
    BY <2>1, <1>5, <1>6, <1>7, <1>8, <1>9 DEF process_mng_params_request, Crashes
  <2> QED
    BY <1>2, <1>4, <2>1

\* Only the request of a connection moves the table, and only it answers.
LEMMA WhoMovesTheTable ==
  ASSUME [Next]_vars
  PROVE  UNCHANGED table \/ \E m \in Admins : mng_request_read(m)
<1>1. CASE \E m \in Admins : mng_passive_accept(m) \/ ClientSends(m) \/ mng_done(m)
  BY <1>1 DEF mng_passive_accept, ClientSends, mng_done
<1>2. CASE \E m \in Admins : Handlers(m)
  BY <1>2, IndexOnTable
  DEF Handlers, hello_read, hello_write, auth_read, auth_write, Crashes,
      mng_request_index_read, mng_request_write
<1>3. CASE \E s \in Sessions :
             \/ socks_hello(s) \/ auth_process(s) \/ socksv5_done(s) \/ connecting_write(s)
             \/ request_write(s) \/ copy_done(s)
  BY <1>3 DEF socks_hello, auth_process, socksv5_done, connecting_write, request_write, copy_done
<1>4. CASE UNCHANGED vars
  BY <1>4 DEF vars, table
<1> QED
  BY <1>1, <1>2, <1>3, <1>4 DEF Next

LEMMA WhoAnswers ==
  ASSUME MngInv, [Next]_vars, NEW m \in Admins,
         mng[m].state = "REQUEST_READ", mng'[m].state = "REQUEST_WRITE"
  PROVE  mng_request_read(m)
<1>1. ~UNCHANGED mng
  OBVIOUS
<1>2. ASSUME NEW n \in Admins,
             mng_passive_accept(n) \/ ClientSends(n) \/ mng_done(n) \/ Handlers(n)
      PROVE  n = m
  <2>1. \E r : Goes(n, r)
    BY <1>1, <1>2, AcceptGoes, SendsGoes, CloseGoes, HelloReadGoes, HelloWriteGoes, AuthReadGoes,
       AuthWriteGoes, IndexReadGoes, RequestReadGoes, RequestWriteGoes DEF mng_done, Handlers
  <2> QED
    BY <2>1, OneMoves DEF Goes
<1>3. ~mng_passive_accept(m)
  BY DEF mng_passive_accept
<1>4. ~ClientSends(m)
  <2>1. Shape(mng[m]) /\ DOMAIN mng = Admins
    BY DEF MngInv, ConnectionInv
  <2>2. [mng[m] EXCEPT !.sent = @ + 1].state = mng[m].state
    BY <2>1 DEF Shape
  <2> QED
    BY <2>1, <2>2 DEF ClientSends
<1>5. ~mng_done(m)
  <2>1. DOMAIN mng = Admins
    BY DEF MngInv
  <2> QED
    BY <2>1 DEF mng_done, Closes, ClosedMng
<1>6. Handlers(m) => mng_request_read(m)
  BY DEF Handlers, hello_read, hello_write, auth_read, auth_write, mng_request_index_read,
         mng_request_write, mng_read, mng_write
<1>7. CASE \E s \in Sessions :
             \/ socks_hello(s) \/ auth_process(s) \/ socksv5_done(s) \/ connecting_write(s)
             \/ request_write(s) \/ copy_done(s)
  BY <1>1, <1>7
  DEF socks_hello, auth_process, socksv5_done, connecting_write, request_write, copy_done
<1>8. CASE UNCHANGED vars
  BY <1>1, <1>8 DEF vars
<1> QED
  BY <1>2, <1>3, <1>4, <1>5, <1>6, <1>7, <1>8 DEF Next

LEMMA SmallSets ==
  ASSUME NEW S, NEW c, S \subseteq {c}
  PROVE  Cardinality(S) \in {0, 1}
<1>1. S = {} \/ S = {c}
  OBVIOUS
<1> QED
  BY <1>1, FS_EmptySet, FS_Singleton

(* Who may use the proxy changes only by the request of an administrator, by one
   user, and in the way that was asked. *)
THEOREM AccessIsAdministered == Spec => AccessChangesOnRequest
<1> DEFINE A == /\ Access' \ Access # {} => \E m \in Admins : Requests(m, "add_user")
                /\ Access \ Access' # {} => \E m \in Admins : Requests(m, "delete_user")
                /\ Cardinality(Access' \ Access) + Cardinality(Access \ Access') <= 1
<1>1. ASSUME TableInv, MngInv, [Next]_vars
      PROVE  A
  <2>1. CASE UNCHANGED table
    <3>1. Access' = Access
      BY <2>1 DEF table, Access, Entries
    <3>2. Cardinality({}) = 0
      BY FS_EmptySet
    <3> QED
      BY <3>1, <3>2
  <2>2. ASSUME NEW m \in Admins, NEW c \in Credentials, addUser(c), Requests(m, "add_user")
        PROVE  A
    <3>1. Access \ Access' = {} /\ Access' \ Access \subseteq {c}
      BY <1>1, <2>2, AddKeepsTable
    <3>2. Cardinality(Access \ Access') = 0 /\ Cardinality(Access' \ Access) \in {0, 1}
      BY <3>1, SmallSets, FS_EmptySet
    <3> QED
      BY <2>2, <3>1, <3>2
  <2>3. ASSUME NEW m \in Admins, NEW name \in Names, deleteUser(name), Requests(m, "delete_user")
        PROVE  A
    <3>1. PICK c : Access \ Access' \subseteq {c}
      BY <1>1, <2>3, DeleteKeepsTable
    <3>2. Access' \ Access = {}
      BY <1>1, <2>3, DeleteKeepsTable
    <3>3. Cardinality(Access' \ Access) = 0 /\ Cardinality(Access \ Access') \in {0, 1}
      BY <3>1, <3>2, SmallSets, FS_EmptySet
    <3> QED
      BY <2>3, <3>2, <3>3
  <2>4. CASE \E m \in Admins : mng_request_read(m)
    BY <1>1, <2>1, <2>2, <2>3, <2>4, RequestOnTable
  <2> QED
    BY <1>1, <2>1, <2>4, WhoMovesTheTable
<1>2. TableInv /\ MngInv /\ [Next]_vars => [A]_vars
  BY <1>1
<1>3. Spec => [](TableInv /\ MngInv)
  BY InitTable, NextTable, InitMng, NextMng, PTL DEF Spec
<1> QED
  BY <1>2, <1>3, PTL DEF Spec, AccessChangesOnRequest

(* The status that answers add_user tells the truth in every interleaving of
   administrators, though addUser and its caller look at the limit separately. *)
THEOREM StatusTellsTheTruth ==
  Spec => [][\A m \in Admins : Requests(m, "add_user") =>
               (mng'[m].status = "succeeded" <=> nusers' = nusers + 1)]_vars
<1> DEFINE A == \A m \in Admins : Requests(m, "add_user") =>
                  (mng'[m].status = "succeeded" <=> nusers' = nusers + 1)
<1>1. ASSUME TableInv, MngInv, [Next]_vars, NEW m \in Admins, Requests(m, "add_user")
      PROVE  mng'[m].status = "succeeded" <=> nusers' = nusers + 1
  <2>1. mng_request_read(m)
    BY <1>1, WhoAnswers DEF Requests
  <2>2. mng'[m].state = "REQUEST_WRITE" /\ mng[m].index = "add_user" /\ nusers \in Nat
    BY <1>1, ManagementAssumption DEF Requests, TableInv, TableTypes
  <2>3. \/ UNCHANGED table /\ mng'[m].status # "succeeded"
        \/ nusers' = nusers + 1 /\ mng'[m].status = "succeeded"
    BY <1>1, <2>1, <2>2, RequestOnTable
  <2> QED
    BY <2>2, <2>3 DEF table
<1>2. TableInv /\ MngInv /\ [Next]_vars => [A]_vars
  BY <1>1
<1>3. Spec => [](TableInv /\ MngInv)
  BY InitTable, NextTable, InitMng, NextMng, PTL DEF Spec
<1> QED
  BY <1>2, <1>3, PTL DEF Spec
-----------------------------------------------------------------------------
(* The connections of the proxy and the metrics. *)

\* A connection has succeeded once connecting_write has counted it.
IsCounted(r) == r.state \in {"REQUEST_WRITE", "COPY"} /\ r.succeeded
SessionOK(r) ==
  /\ r \in ProxyConnections
  /\ r.state \in {"closed", "USERPASS", "REQUEST"} => ~r.succeeded
  /\ r.state = "COPY" => r.succeeded

SessionInv ==
  /\ session \in [Sessions -> ProxyConnections]
  /\ \A s \in Sessions : SessionOK(session[s])

MetricsInv ==
  /\ metrics \in [concurrent : Int, max_concurrent : Int]
  /\ MetricsCoverConnections

LEMMA CountedSessions == Counted = {s \in Sessions : IsCounted(session[s])}
BY DEF Counted, IsCounted

LEMMA ClosedSessionOK == SessionOK(ClosedSession) /\ ~IsCounted(ClosedSession)
BY ManagementAssumption DEF ClosedSession, SessionOK, IsCounted, ProxyConnections, SessionStates, Slots

\* One connection moves, and with it at most itself in what is counted.
LEMMA OneSession ==
  ASSUME SessionInv, NEW s \in Sessions, NEW r, SessionOK(r), Becomes(s, r)
  PROVE  /\ SessionInv'
         /\ Counted' = IF IsCounted(r) THEN Counted \cup {s} ELSE Counted \ {s}
<1>1. session' = [session EXCEPT ![s] = r]
  BY DEF Becomes
<1>2. session' \in [Sessions -> ProxyConnections]
  BY <1>1 DEF SessionInv, SessionOK
<1>3. session'[s] = r /\ \A t \in Sessions \ {s} : session'[t] = session[t]
  BY <1>1 DEF SessionInv
<1>4. SessionInv'
  BY <1>2, <1>3 DEF SessionInv, SessionOK
<1>5. Counted' = {t \in Sessions : IsCounted(session'[t])}
  BY Zenon DEF Counted, IsCounted
<1>6. \A t \in Sessions \ {s} : IsCounted(session'[t]) <=> IsCounted(session[t])
  BY <1>3
<1>7. IsCounted(session'[s]) <=> IsCounted(r)
  BY <1>3
<1>8. ASSUME IsCounted(r) PROVE Counted' = Counted \cup {s}
  BY <1>5, <1>6, <1>7, <1>8, CountedSessions
<1>9. ASSUME ~IsCounted(r) PROVE Counted' = Counted \ {s}
  BY <1>5, <1>6, <1>7, <1>9, CountedSessions
<1> QED
  BY <1>4, <1>8, <1>9

\* What the count of a set does when an element comes or goes.
LEMMA CountedIsFinite ==
  /\ IsFiniteSet(Counted) /\ Cardinality(Counted) \in Nat
  /\ \A s : /\ Cardinality(Counted \ {s}) <= Cardinality(Counted)
            /\ s \in Counted => Cardinality(Counted \ {s}) = Cardinality(Counted) - 1
            /\ s \notin Counted => Cardinality(Counted \cup {s}) = Cardinality(Counted) + 1
            /\ s \in Counted => Cardinality(Counted \cup {s}) = Cardinality(Counted)
<1>1. IsFiniteSet(Counted)
  BY ManagementAssumption, FS_Subset, CountedSessions
<1>2. Cardinality(Counted) \in Nat
  BY <1>1, FS_CardinalityType
<1>3. ASSUME NEW s
      PROVE  /\ Cardinality(Counted \ {s}) <= Cardinality(Counted)
             /\ s \in Counted => Cardinality(Counted \ {s}) = Cardinality(Counted) - 1
             /\ s \notin Counted => Cardinality(Counted \cup {s}) = Cardinality(Counted) + 1
             /\ s \in Counted => Cardinality(Counted \cup {s}) = Cardinality(Counted)
  <2>1. Cardinality(Counted \ {s}) = IF s \in Counted THEN Cardinality(Counted) - 1
                                                      ELSE Cardinality(Counted)
    BY <1>1, FS_RemoveElement
  <2>2. Cardinality(Counted \cup {s}) = IF s \in Counted THEN Cardinality(Counted)
                                                         ELSE Cardinality(Counted) + 1
    BY <1>1, FS_AddElement
  <2> QED
    BY <1>2, <2>1, <2>2
<1> QED
  BY <1>1, <1>2, <1>3, Zenon

\* A connection that is not counted after its step leaves the metrics as they are.
LEMMA Uncounted ==
  ASSUME SessionInv, MetricsInv, NEW s \in Sessions, NEW r, SessionOK(r), Becomes(s, r),
         ~IsCounted(r), UNCHANGED metrics
  PROVE  SessionInv' /\ MetricsInv'
<1>1. SessionInv' /\ Counted' = Counted \ {s}
  BY OneSession
<1>2. Cardinality(Counted') <= Cardinality(Counted) /\ Cardinality(Counted') \in Nat
  <2>1. Cardinality(Counted \ {s}) <= Cardinality(Counted)
    BY CountedIsFinite
  <2>2. Cardinality(Counted \ {s}) \in Nat
    BY CountedIsFinite, FS_Subset, FS_CardinalityType
  <2> QED
    BY <1>1, <2>1, <2>2
<1>3. Cardinality(Counted) \in Nat
  BY CountedIsFinite
<1> QED
  BY <1>1, <1>2, <1>3 DEF MetricsInv, MetricsCoverConnections

LEMMA HelloCounts ==
  ASSUME SessionInv, MetricsInv, NEW s \in Sessions, socks_hello(s)
  PROVE  SessionInv' /\ MetricsInv'
<1> DEFINE state == IF auth_method = "no_auth" THEN "REQUEST" ELSE "USERPASS"
           r == [ClosedSession EXCEPT !.state = state]
<1>1. Becomes(s, r) /\ UNCHANGED metrics
  BY DEF socks_hello
<1>2. state \in {"REQUEST", "USERPASS"}
  OBVIOUS
<1>3. PICK new \in {"REQUEST", "USERPASS"} : r = [ClosedSession EXCEPT !.state = new]
  BY <1>2
<1> HIDE DEF state, r
<1>4. ClosedSession.state = "closed"
  BY DEF ClosedSession
<1>5. SessionOK(r) /\ ~IsCounted(r)
  BY <1>3, <1>4, ClosedSessionOK DEF SessionOK, IsCounted, ProxyConnections, SessionStates
<1> QED
  BY <1>1, <1>5, Uncounted

LEMMA AuthCounts ==
  ASSUME TableInv, SessionInv, MetricsInv, NEW s \in Sessions, auth_process(s)
  PROVE  SessionInv' /\ MetricsInv'
<1>1. SessionOK(session[s]) /\ session[s].state = "USERPASS" /\ UNCHANGED metrics
  BY DEF auth_process, ProxyStep, SessionInv
<1>2. PICK c \in Credentials :
        \/ Becomes(s, ClosedSession)
        \/ /\ Matches(c) # {}
           /\ Becomes(s, [session[s] EXCEPT !.state = "REQUEST", !.userIndex = Min(Matches(c)),
                                            !.user = c.name])
  BY DEF auth_process
<1>3. CASE Becomes(s, ClosedSession)
  BY <1>1, <1>3, ClosedSessionOK, Uncounted
<1>4. CASE Matches(c) # {} /\ ~Becomes(s, ClosedSession)
  <2> DEFINE k == Min(Matches(c))
             r == [session[s] EXCEPT !.state = "REQUEST", !.userIndex = k, !.user = c.name]
  <2>1. k \in Slots
    <3>1. Matches(c) \subseteq Slots /\ Matches(c) \subseteq Nat
      BY ManagementAssumption DEF Matches, Entries, Slots, TableInv, TableTypes
    <3> QED
      BY <1>4, <3>1, FirstExists
  <2>2. c.name \in Names
    BY DEF Credentials
  <2>3. Becomes(s, r)
    BY <1>2, <1>4
  <2> HIDE DEF k
  <2>4. SessionOK(r) /\ ~IsCounted(r)
    BY <1>1, <2>1, <2>2 DEF SessionOK, IsCounted, ProxyConnections, SessionStates
  <2> HIDE DEF r
  <2> QED
    BY <1>1, <2>3, <2>4, Uncounted
<1> QED
  BY <1>2, <1>3, <1>4

LEMMA ConnectingCounts ==
  ASSUME SessionInv, MetricsInv, NEW s \in Sessions, connecting_write(s)
  PROVE  SessionInv' /\ MetricsInv'
<1>1. SessionOK(session[s]) /\ session[s].state = "REQUEST"
  BY DEF connecting_write, ProxyStep, SessionInv
<1>2. CASE /\ metrics' = CountConnection(metrics)
           /\ Becomes(s, [session[s] EXCEPT !.state = "REQUEST_WRITE", !.succeeded = TRUE])
  <2> DEFINE r == [session[s] EXCEPT !.state = "REQUEST_WRITE", !.succeeded = TRUE]
  <2>1. SessionOK(r) /\ IsCounted(r)
    BY <1>1 DEF SessionOK, IsCounted, ProxyConnections, SessionStates
  <2>2. Becomes(s, r)
    BY <1>2
  <2> HIDE DEF r
  <2>3. SessionInv' /\ Counted' = Counted \cup {s}
    BY <2>1, <2>2, OneSession
  <2>4. s \notin Counted
    BY <1>1 DEF Counted
  <2>5. Cardinality(Counted') = Cardinality(Counted) + 1 /\ Cardinality(Counted) \in Nat
    BY <2>3, <2>4, CountedIsFinite
  <2> QED
    BY <1>2, <2>3, <2>5 DEF MetricsInv, MetricsCoverConnections, CountConnection
<1>3. CASE Becomes(s, [session[s] EXCEPT !.state = "REQUEST_WRITE"]) /\ UNCHANGED metrics
  <2> DEFINE r == [session[s] EXCEPT !.state = "REQUEST_WRITE"]
  <2>1. SessionOK(r) /\ ~IsCounted(r)
    BY <1>1 DEF SessionOK, IsCounted, ProxyConnections, SessionStates
  <2>2. Becomes(s, r)
    BY <1>3
  <2> HIDE DEF r
  <2> QED
    BY <1>3, <2>1, <2>2, Uncounted
<1> QED
  BY <1>2, <1>3 DEF connecting_write

LEMMA RequestWriteCounts ==
  ASSUME SessionInv, MetricsInv, NEW s \in Sessions, request_write(s)
  PROVE  SessionInv' /\ MetricsInv'
<1>1. SessionOK(session[s]) /\ session[s].state = "REQUEST_WRITE" /\ UNCHANGED metrics
  BY DEF request_write, ProxyStep, SessionInv
<1>2. CASE session[s].succeeded
  <2> DEFINE r == [session[s] EXCEPT !.state = "COPY"]
  <2>1. SessionOK(r) /\ IsCounted(r)
    BY <1>1, <1>2 DEF SessionOK, IsCounted, ProxyConnections, SessionStates
  <2>2. Becomes(s, r)
    BY <1>2 DEF request_write
  <2> HIDE DEF r
  <2>3. SessionInv' /\ Counted' = Counted \cup {s}
    BY <2>1, <2>2, OneSession
  <2>4. s \in Counted
    BY <1>1, <1>2 DEF Counted
  <2>5. Counted' = Counted
    BY <2>3, <2>4
  <2> QED
    BY <1>1, <2>3, <2>5 DEF MetricsInv, MetricsCoverConnections
<1>3. CASE ~session[s].succeeded
  <2>1. Becomes(s, ClosedSession)
    BY <1>3 DEF request_write
  <2> QED
    BY <1>1, <2>1, ClosedSessionOK, Uncounted
<1> QED
  BY <1>2, <1>3

LEMMA CopyCounts ==
  ASSUME SessionInv, MetricsInv, NEW s \in Sessions, copy_done(s)
  PROVE  SessionInv' /\ MetricsInv'
<1>1. SessionOK(session[s]) /\ session[s].state = "COPY"
  BY DEF copy_done, ProxyStep, SessionInv
<1>2. s \in Counted
  BY <1>1 DEF SessionOK, Counted
<1>3. /\ metrics' = [metrics EXCEPT !.concurrent = @ - 1]
      /\ Becomes(s, ClosedSession)
  BY DEF copy_done
<1>4. SessionInv' /\ Counted' = Counted \ {s}
  BY <1>3, ClosedSessionOK, OneSession
<1>5. Cardinality(Counted') = Cardinality(Counted) - 1 /\ Cardinality(Counted) \in Nat
  BY <1>2, <1>4, CountedIsFinite
<1> QED
  BY <1>3, <1>4, <1>5 DEF MetricsInv, MetricsCoverConnections

LEMMA InitCounts == Init => SessionInv /\ MetricsInv
<1> SUFFICES ASSUME Init PROVE SessionInv /\ MetricsInv
  OBVIOUS
<1>1. session = [s \in Sessions |-> ClosedSession] /\ metrics = [concurrent |-> 0, max_concurrent |-> 0]
  BY DEF Init
<1>2. SessionInv
  BY <1>1, ClosedSessionOK DEF SessionInv, SessionOK
<1>3. Counted = {}
  BY <1>1, ClosedSessionOK DEF Counted, IsCounted
<1>4. Cardinality(Counted) = 0
  BY <1>3, FS_EmptySet
<1> QED
  BY <1>1, <1>2, <1>4 DEF MetricsInv, MetricsCoverConnections

LEMMA NextCounts == TableInv /\ SessionInv /\ MetricsInv /\ [Next]_vars => SessionInv' /\ MetricsInv'
<1> SUFFICES ASSUME TableInv, SessionInv, MetricsInv, [Next]_vars PROVE SessionInv' /\ MetricsInv'
  OBVIOUS
<1>1. CASE UNCHANGED <<session, metrics>>
  BY <1>1 DEF SessionInv, MetricsInv, MetricsCoverConnections, Counted
<1>2. CASE \E m \in Admins : mng_passive_accept(m) \/ ClientSends(m) \/ mng_done(m) \/ Handlers(m)
  <2>1. UNCHANGED <<session, metrics>>
    BY <1>2 DEF mng_passive_accept, ClientSends, mng_done, Handlers, hello_read, hello_write,
                auth_read, auth_write, mng_request_index_read, mng_request_read, mng_request_write
  <2> QED
    BY <1>1, <2>1
<1>3. CASE \E s \in Sessions : socks_hello(s)
  BY <1>3, HelloCounts
<1>4. CASE \E s \in Sessions : auth_process(s)
  BY <1>4, AuthCounts
<1>5. CASE \E s \in Sessions : socksv5_done(s)
  BY <1>5, ClosedSessionOK, Uncounted DEF socksv5_done
<1>6. CASE \E s \in Sessions : connecting_write(s)
  BY <1>6, ConnectingCounts
<1>7. CASE \E s \in Sessions : request_write(s)
  BY <1>7, RequestWriteCounts
<1>8. CASE \E s \in Sessions : copy_done(s)
  BY <1>8, CopyCounts
<1>9. CASE UNCHANGED vars
  BY <1>1, <1>9 DEF vars
<1> QED
  BY <1>2, <1>3, <1>4, <1>5, <1>6, <1>7, <1>8, <1>9 DEF Next

(* metrics_concurrent_connections, an unsigned int, is never decremented below
   the connections that are counted, so it never wraps. *)
THEOREM MetricsStayTrue == Spec => []MetricsCoverConnections
<1>1. Spec => [](SessionInv /\ MetricsInv)
  BY InitTable, NextTable, InitCounts, NextCounts, PTL DEF Spec
<1> QED
  BY <1>1, PTL DEF MetricsInv
-----------------------------------------------------------------------------
(* Types. *)

\* Induction, for the sums and the functions on sequences.
LEMMA Naturals ==
  ASSUME NEW U, 0 \in U, \A n \in Nat : n \in U => n + 1 \in U
  PROVE  Nat \subseteq U
<1> SUFFICES ASSUME Nat \ U # {} PROVE FALSE
  OBVIOUS
<1>1. PICK x \in Nat \ U : \A y \in Nat \ U : x <= y
  BY FirstExists
<1>2. x # 0 /\ x - 1 \in Nat /\ ~(x <= x - 1)
  BY <1>1
<1>3. x - 1 \in U /\ (x - 1) + 1 = x
  BY <1>1, <1>2
<1> QED BY <1>1, <1>2, <1>3

\* list_users_mng_request_marshall: the lengths add up, whatever the order.
LEMMA NamesLengthIsNat ==
  ASSUME IsFiniteSet(Entries), \A i \in Entries : NameLength[EntryName(i)] \in Nat
  PROVE  NamesLength \in Nat
<1> DEFINE len(i) == NameLength[EntryName(i)]
           first(s) == CHOOSE x \in s : TRUE
           Sum(f) == [s \in SUBSET Entries |->
                        IF s = {} THEN 0 ELSE len(first(s)) + f[s \ {first(s)}]]
           sum == CHOOSE f : f = Sum(f)
<1>1. NamesLength = sum[Entries]
  BY DEF NamesLength, MapThenSumSet, MapThenFoldSet
<1>2. ASSUME NEW s \in SUBSET Entries
      PROVE  /\ Cardinality(s) \in Nat /\ (s = {} <=> Cardinality(s) = 0)
             /\ s # {} => /\ first(s) \in Entries /\ s \ {first(s)} \in SUBSET Entries
                          /\ Cardinality(s \ {first(s)}) = Cardinality(s) - 1
             /\ Cardinality(s) <= Cardinality(Entries)
  <2>1. IsFiniteSet(s)
    BY FS_Subset
  <2>2. s # {} => first(s) \in s
    OBVIOUS
  <2> HIDE DEF first
  <2> QED BY <2>1, <2>2, FS_Subset, FS_CardinalityType, FS_EmptySet, FS_RemoveElement
<1> HIDE DEF first, len
<1>2a. \A s \in SUBSET Entries : Cardinality(s) \in Nat /\ (s = {} <=> Cardinality(s) = 0)
  BY <1>2
<1> DEFINE Upto(n) == {s \in SUBSET Entries : Cardinality(s) <= n}
           SumUpto(n, g) == g = [s \in Upto(n) |->
                                   IF s = {} THEN 0 ELSE len(first(s)) + g[s \ {first(s)}]]
<1>3. \A n \in Nat : \E g : SumUpto(n, g)
  <2> DEFINE U == {n \in Nat : \E g : SumUpto(n, g)}
  <2>1. 0 \in U
    <3>1. \A s \in Upto(0) : s = {}
      <4>1. SUFFICES ASSUME NEW s \in SUBSET Entries, Cardinality(s) <= 0 PROVE s = {}
        OBVIOUS
      <4>2. Cardinality(s) \in Nat /\ (s = {} <=> Cardinality(s) = 0)
        BY <1>2a
      <4>3. Cardinality(s) = 0
        BY <4>1, <4>2
      <4> QED BY <4>2, <4>3, Zenon
    <3> DEFINE h == [s \in Upto(0) |-> 0]
    <3>2. \A s \in Upto(0) :
            h[s] = IF s = {} THEN 0 ELSE len(first(s)) + h[s \ {first(s)}]
      BY <3>1
    <3>3. SumUpto(0, h)
      BY <3>2, Zenon
    <3> QED BY <3>3, Zenon
  <2>2. ASSUME NEW n \in Nat, n \in U PROVE n + 1 \in U
    <3>1. PICK g : SumUpto(n, g)
      BY <2>2
    <3> DEFINE h == [s \in Upto(n + 1) |-> IF s = {} THEN 0 ELSE len(first(s)) + g[s \ {first(s)}]]
    <3>2. \A s \in Upto(n) : s \in Upto(n + 1) /\ h[s] = g[s]
      <4>1. ASSUME NEW s \in Upto(n) PROVE s \in Upto(n + 1)
        <5>1. Cardinality(s) \in Nat /\ Cardinality(s) <= n
          BY <1>2a
        <5>2. Cardinality(s) <= n + 1
          BY <5>1
        <5> QED BY <5>2
      <4>2. ASSUME NEW s \in Upto(n) PROVE h[s] = g[s]
        <5>1. h[s] = IF s = {} THEN 0 ELSE len(first(s)) + g[s \ {first(s)}]
          BY <4>1, <4>2
        <5>2. g[s] = IF s = {} THEN 0 ELSE len(first(s)) + g[s \ {first(s)}]
          BY <3>1, <4>2
        <5> QED BY <5>1, <5>2
      <4> QED BY <4>1, <4>2
    <3>3. ASSUME NEW s \in SUBSET Entries, Cardinality(s) <= n + 1, s # {}
          PROVE  s \ {first(s)} \in Upto(n)
      <4>1. Cardinality(s) \in Nat /\ Cardinality(s \ {first(s)}) = Cardinality(s) - 1
        BY <1>2, <3>3
      <4>2. Cardinality(s \ {first(s)}) <= n
        BY <3>3, <4>1
      <4> QED BY <4>2
    <3>4. SumUpto(n + 1, h)
      <4>1. \A s \in Upto(n + 1) :
              h[s] = IF s = {} THEN 0 ELSE len(first(s)) + h[s \ {first(s)}]
        <5>1. SUFFICES ASSUME NEW s \in Upto(n + 1)
                       PROVE  h[s] = IF s = {} THEN 0 ELSE len(first(s)) + h[s \ {first(s)}]
          OBVIOUS
        <5>2. h[s] = IF s = {} THEN 0 ELSE len(first(s)) + g[s \ {first(s)}]
          OBVIOUS
        <5>3. s # {} => h[s \ {first(s)}] = g[s \ {first(s)}]
          BY <3>2, <3>3
        <5> HIDE DEF h
        <5>4. CASE s = {}
          BY <5>2, <5>4
        <5>5. CASE s # {}
          BY <5>2, <5>3, <5>5
        <5> QED BY <5>4, <5>5
      <4> QED BY <4>1, Zenon
    <3> HIDE DEF h, SumUpto
    <3>5. \E f : SumUpto(n + 1, f)
      BY <3>4
    <3> QED BY <3>5
  <2> HIDE DEF U
  <2>3. Nat \subseteq U
    BY <2>1, <2>2, Naturals
  <2> QED BY <2>3 DEF U
<1>4. \E f : f = Sum(f)
  <2>1. Upto(Cardinality(Entries)) = SUBSET Entries /\ Cardinality(Entries) \in Nat
    BY <1>2
  <2> QED BY <1>3, <2>1
<1>5. sum = Sum(sum)
  BY <1>4
<1> HIDE DEF sum
<1>6. \A s \in SUBSET Entries : sum[s] = IF s = {} THEN 0 ELSE len(first(s)) + sum[s \ {first(s)}]
  BY <1>5
<1>7. \A i \in Entries : len(i) \in Nat
  BY DEF len
<1> DEFINE V == {n \in Nat : \A s \in SUBSET Entries : Cardinality(s) = n => sum[s] \in Nat}
<1>8. Nat \subseteq V
  <2>1. 0 \in V
    BY <1>2, <1>6
  <2>2. ASSUME NEW n \in Nat, n \in V PROVE n + 1 \in V
    <3>1. ASSUME NEW s \in SUBSET Entries, Cardinality(s) = n + 1 PROVE sum[s] \in Nat
      <4>1. s # {} /\ first(s) \in Entries /\ sum[s \ {first(s)}] \in Nat
        BY <1>2, <2>2, <3>1
      <4> QED BY <1>6, <1>7, <4>1
    <3> QED BY <3>1
  <2> HIDE DEF V
  <2> QED BY <2>1, <2>2, Naturals
<1>9. Entries \in SUBSET Entries /\ Cardinality(Entries) \in Nat
  BY <1>2
<1> QED BY <1>1, <1>8, <1>9


Typed(r) ==
  /\ r \in MngConnections
  /\ r.received <= r.sent
  /\ WellFormed(r.write_buffer)

MngTypes == \A m \in Admins : Typed(mng[m])

LEMMA BufferIsTyped ==
  /\ WellFormed(buffer_reset)
  /\ \A b : \A k \in 1..ReadableBytes(b) : WellFormed(b) => WellFormed(buffer_read_adv(b, k))
  /\ \A b : \A n \in Nat : WellFormed(b) /\ ~(WritableBytes(b) < n)
              => WellFormed(buffer_write_adv(b, n))
<1> USE BufferSizeAssumption
<1>1. WellFormed(buffer_reset)
  BY DEF WellFormed, buffer_reset, Cursors
<1>2. ASSUME NEW b, NEW k \in 1..ReadableBytes(b), WellFormed(b)
      PROVE  WellFormed(buffer_read_adv(b, k))
  BY <1>2 DEF WellFormed, ReadableBytes, Cursors, buffer_read_adv, buffer_compact
<1>3. ASSUME NEW b, NEW n \in Nat, WellFormed(b), ~(WritableBytes(b) < n)
      PROVE  WellFormed(buffer_write_adv(b, n))
  BY <1>3 DEF WellFormed, WritableBytes, Cursors, buffer_write_adv
<1> QED
  BY <1>1, <1>2, <1>3

LEMMA ReadIsPieces ==
  /\ MaxPieces \in Nat
  /\ \A state : Read(state) \in 0..MaxPieces
BY ManagementAssumption DEF Read, MaxPieces

LEMMA RecvIsTyped ==
  ASSUME NEW r, Typed(r), NEW most \in Nat, NEW q \in AfterRecv(r, most)
  PROVE  Typed(q)
<1> DEFINE room == Min({most, r.sent - r.received})
<1>1. PICK n \in 1..room :
        q = [r EXCEPT !.received = @ + n, !.parsed = Min({r.received + n, Read(r.state)})]
  BY DEF AfterRecv
<1>2. r.sent \in 0..MaxPieces /\ r.received \in 0..MaxPieces /\ r.received <= r.sent
  BY DEF Typed, MngConnections
<1>3. room \in {most, r.sent - r.received} /\ room <= r.sent - r.received
  BY <1>2, FirstExists, ReadIsPieces
<1> HIDE DEF room
<1>4. r.received + n \in 0..MaxPieces /\ r.received + n <= r.sent
  BY <1>2, <1>3, ReadIsPieces
<1> DEFINE parsed == Min({r.received + n, Read(r.state)})
<1>5. parsed \in 0..MaxPieces
  BY <1>4, FirstExists, ReadIsPieces
<1> HIDE DEF parsed
<1>6. q = [r EXCEPT !.received = r.received + n, !.parsed = parsed]
  BY <1>1 DEF parsed, Typed, MngConnections
<1> QED
  BY <1>4, <1>5, <1>6 DEF Typed, MngConnections

LEMMA BufferFieldTyped ==
  ASSUME NEW r, Typed(r), NEW b, WellFormed(b)
  PROVE  Typed([r EXCEPT !.write_buffer = b])
BY DEF Typed, MngConnections, WellFormed

LEMMA SendIsTyped ==
  ASSUME NEW r, Typed(r), NEW q \in AfterSend(r)
  PROVE  Typed(q)
<1>1. PICK k \in 1..ReadableBytes(r.write_buffer) :
        q = [r EXCEPT !.write_buffer = buffer_read_adv(r.write_buffer, k)]
  BY DEF AfterSend
<1>2. WellFormed(buffer_read_adv(r.write_buffer, k))
  BY BufferIsTyped DEF Typed
<1> QED
  BY <1>1, <1>2, BufferFieldTyped

LEMMA MarshalIsTyped ==
  ASSUME NEW r, Typed(r), NEW n \in Nat
  PROVE  Typed(Marshal(r, n))
<1>1. CASE WritableBytes(r.write_buffer) < n
  BY <1>1 DEF Marshal
<1>2. CASE ~(WritableBytes(r.write_buffer) < n)
  <2>1. Marshal(r, n) = [r EXCEPT !.write_buffer = buffer_write_adv(r.write_buffer, n)]
    BY <1>2 DEF Marshal
  <2>2. WellFormed(buffer_write_adv(r.write_buffer, n))
    BY <1>2, BufferIsTyped DEF Typed
  <2> QED
    BY <2>1, <2>2, BufferFieldTyped
<1> QED
  BY <1>1, <1>2

\* The fields that the handlers set to a value of their own.
LEMMA FieldsAreTyped ==
  ASSUME NEW r, Typed(r)
  PROVE  /\ \A state \in MngStates, op \in {"READ", "WRITE"} : Typed(MovesTo(r, state, op))
         /\ \A method \in {"none", "userpass"} : Typed([r EXCEPT !.method = method])
         /\ \A authentication \in {0, 1}, accepted \in BOOLEAN :
              Typed([r EXCEPT !.authentication = authentication, !.accepted = accepted])
         /\ \A index \in Indexes : Typed([r EXCEPT !.index = index])
         /\ \A status \in {"none", "succeeded", "index_not_supported", "max_users_reached"} :
              Typed([r EXCEPT !.status = status])
         /\ r.sent < r.total => Typed([r EXCEPT !.sent = @ + 1])
<1>1. ASSUME NEW state \in MngStates, NEW op \in {"READ", "WRITE"} PROVE Typed(MovesTo(r, state, op))
  BY DEF Typed, MngConnections, MovesTo
<1>2. ASSUME NEW method \in {"none", "userpass"} PROVE Typed([r EXCEPT !.method = method])
  BY DEF Typed, MngConnections
<1>3. ASSUME NEW authentication \in {0, 1}, NEW accepted \in BOOLEAN
      PROVE  Typed([r EXCEPT !.authentication = authentication, !.accepted = accepted])
  BY DEF Typed, MngConnections
<1>4. ASSUME NEW index \in Indexes PROVE Typed([r EXCEPT !.index = index])
  BY DEF Typed, MngConnections
<1>5. ASSUME NEW status \in {"none", "succeeded", "index_not_supported", "max_users_reached"}
      PROVE  Typed([r EXCEPT !.status = status])
  BY DEF Typed, MngConnections
<1>6. ASSUME r.sent < r.total PROVE Typed([r EXCEPT !.sent = @ + 1])
  <2>0. /\ MaxPieces \in Nat /\ r.sent \in 0..MaxPieces /\ r.received \in 0..MaxPieces
        /\ r.total \in 0..MaxPieces /\ r.received <= r.sent
    BY ReadIsPieces DEF Typed, MngConnections
  <2>1. r.sent + 1 \in 0..MaxPieces /\ r.received <= r.sent + 1
    BY <1>6, <2>0
  <2>2. [r EXCEPT !.sent = @ + 1] = [r EXCEPT !.sent = r.sent + 1]
    OBVIOUS
  <2> QED
    BY <2>1, <2>2 DEF Typed, MngConnections
<1> QED
  BY <1>1, <1>2, <1>3, <1>4, <1>5, <1>6

LEMMA ClosedIsTyped ==
  ASSUME NEW outcome \in {"none", "answered", "no_room", "dropped"}
  PROVE  Typed(ClosedMng(outcome))
<1>1. PICK b : b = buffer_reset /\ b \in Cursors /\ WellFormed(b)
  BY BufferIsTyped DEF WellFormed
<1>2. PICK r : r = ClosedMng(outcome)
  OBVIOUS
<1>3. r \in MngConnections
  <2>0. MaxPieces \in Nat
    BY ReadIsPieces
  <2>1. 0 \in 0..MaxPieces
    BY <2>0
  <2>2. r = [state |-> "closed", interest |-> "READ", eager |-> FALSE,
             total |-> 0, sent |-> 0, received |-> 0, parsed |-> 0,
             method |-> "none", authentication |-> 0, accepted |-> FALSE, index |-> "unsupported",
             status |-> "none", write_buffer |-> b, outcome |-> outcome]
    BY <1>1, <1>2 DEF ClosedMng
  <2>3. "unsupported" \in Indexes /\ "closed" \in MngStates /\ b \in Cursors
    BY <1>1 DEF MngStates, Indexes
  <2> QED
    BY <2>1, <2>2, <2>3 DEF MngConnections
<1>4. r.received = 0 /\ r.sent = 0 /\ r.write_buffer = buffer_reset
  BY <1>2 DEF ClosedMng
<1>5. 0 <= 0
  OBVIOUS
<1>6. Typed(r)
  BY <1>1, <1>3, <1>4, <1>5 DEF Typed
<1> QED
  BY <1>2, <1>6

LEMMA NewIsTyped ==
  ASSUME NEW eager \in BOOLEAN, NEW total \in {2 * Pieces + 1, MaxPieces}
  PROVE  Typed(mng_new(eager, total))
<1>1. PICK c : c = ClosedMng("none") /\ Typed(c)
  BY ClosedIsTyped
<1>2. mng_new(eager, total) = [c EXCEPT !.state = "HELLO_READ", !.eager = eager, !.total = total]
  BY <1>1 DEF mng_new
<1>3. Pieces \in Nat
  BY ManagementAssumption
<1>4. total \in 0..MaxPieces
  BY <1>3 DEF MaxPieces
<1>5. PICK q : q = [c EXCEPT !.state = "HELLO_READ", !.eager = eager, !.total = total]
  OBVIOUS
<1>6. q \in MngConnections
  <2>1. "HELLO_READ" \in MngStates
    BY DEF MngStates
  <2>2. c \in MngConnections
    BY <1>1 DEF Typed
  <2> QED
    BY <1>4, <1>5, <2>1, <2>2 DEF MngConnections
<1>7. q.received = c.received /\ q.sent = c.sent /\ q.write_buffer = c.write_buffer
  BY <1>1, <1>5 DEF Typed, MngConnections
<1> QED
  BY <1>1, <1>2, <1>5, <1>6, <1>7 DEF Typed

\* Connection m goes on as a record of the right type, or nobody moves.
GoesTyped(m) == UNCHANGED mng \/ \E r : Typed(r) /\ mng' = [mng EXCEPT ![m] = r]

LEMMA CloseTyped ==
  ASSUME NEW m \in Admins, NEW outcome \in {"none", "answered", "no_room", "dropped"},
         Closes(m, outcome)
  PROVE  GoesTyped(m)
BY ClosedIsTyped DEF Closes, GoesTyped

LEMMA RepliesTyped ==
  ASSUME NEW m \in Admins, NEW r, Typed(r), NEW n \in Nat,
         NEW status \in {"none", "succeeded", "index_not_supported", "max_users_reached"},
         Replies(m, r, status, n)
  PROVE  GoesTyped(m)
<1> DEFINE told == [r EXCEPT !.status = status]
           p == Marshal(told, n)
           q == MovesTo(p, "REQUEST_WRITE", "WRITE")
<1>1. mng' = [mng EXCEPT ![m] = q]
  BY DEF Replies
<1>2. Typed(told)
  BY FieldsAreTyped
<1> HIDE DEF told
<1>3. Typed(p)
  BY <1>2, MarshalIsTyped
<1> HIDE DEF p
<1>4. "REQUEST_WRITE" \in MngStates
  BY DEF MngStates
<1>5. Typed(q)
  BY <1>3, <1>4, FieldsAreTyped
<1> HIDE DEF q
<1> QED
  BY <1>1, <1>5 DEF GoesTyped

LEMMA HelloReadTyped ==
  ASSUME NEW m \in Admins, Typed(mng[m]), hello_read(m)
  PROVE  GoesTyped(m)
<1>1. PICK r \in AfterRecv(mng[m], AllThereIs), method \in {"none", "userpass"} :
        mng' = [mng EXCEPT ![m] =
                 IF MessageDone(r)
                   THEN MovesTo(Marshal([r EXCEPT !.method = method], 2), "HELLO_WRITE", "WRITE")
                   ELSE r]
  BY DEF hello_read
<1>2. Typed(r)
  BY RecvIsTyped, ReadIsPieces DEF AllThereIs
<1> DEFINE named == [r EXCEPT !.method = method]
           p == Marshal(named, 2)
           q == MovesTo(p, "HELLO_WRITE", "WRITE")
<1>3. Typed(named)
  BY <1>2, FieldsAreTyped
<1>4. mng' = [mng EXCEPT ![m] = IF MessageDone(r) THEN q ELSE r]
  BY <1>1
<1> HIDE DEF named
<1>5. Typed(p)
  BY <1>3, MarshalIsTyped
<1> HIDE DEF p
<1>6. "HELLO_WRITE" \in MngStates
  BY DEF MngStates
<1>7. Typed(q)
  BY <1>5, <1>6, FieldsAreTyped
<1> HIDE DEF q
<1> QED
  BY <1>2, <1>4, <1>7 DEF GoesTyped

LEMMA HelloWriteTyped ==
  ASSUME NEW m \in Admins, Typed(mng[m]), hello_write(m)
  PROVE  GoesTyped(m)
<1>1. PICK r \in AfterSend(mng[m]) :
        \/ mng' = [mng EXCEPT ![m] = r]
        \/ Closes(m, "answered")
        \/ mng' = [mng EXCEPT ![m] = MovesTo(r, "USERPASS_READ", "READ")]
  BY DEF hello_write
<1>2. Typed(r)
  BY SendIsTyped
<1>3. "USERPASS_READ" \in MngStates
  BY DEF MngStates
<1>4. Typed(MovesTo(r, "USERPASS_READ", "READ"))
  BY <1>2, <1>3, FieldsAreTyped
<1> QED
  BY <1>1, <1>2, <1>4, CloseTyped DEF GoesTyped

LEMMA AuthReadTyped ==
  ASSUME NEW m \in Admins, Typed(mng[m]), auth_read(m)
  PROVE  GoesTyped(m)
<1>1. CASE Crashes
  BY <1>1 DEF Crashes, GoesTyped
<1>2. ASSUME NEW r \in AfterRecv(mng[m], AllThereIs)
      PROVE  Typed(r)
  BY RecvIsTyped, ReadIsPieces DEF AllThereIs
<1>3. ASSUME NEW r \in AfterRecv(mng[m], AllThereIs), NEW found \in BOOLEAN,
             mng' = [mng EXCEPT ![m] =
                       MovesTo([r EXCEPT !.authentication = IF found THEN 0 ELSE 1,
                                         !.accepted = found], "USERPASS_WRITE", "WRITE")]
      PROVE  GoesTyped(m)
  <2>1. PICK verdict \in {0, 1} : verdict = IF found THEN 0 ELSE 1
    OBVIOUS
  <2> DEFINE p == [r EXCEPT !.authentication = verdict, !.accepted = found]
             q == MovesTo(p, "USERPASS_WRITE", "WRITE")
  <2>2. mng' = [mng EXCEPT ![m] = q]
    BY <1>3, <2>1
  <2>3. Typed(p)
    BY <1>2, FieldsAreTyped
  <2> HIDE DEF p
  <2>4. "USERPASS_WRITE" \in MngStates
    BY DEF MngStates
  <2>5. Typed(q)
    BY <2>3, <2>4, FieldsAreTyped
  <2> HIDE DEF q
  <2> QED
    BY <2>2, <2>5 DEF GoesTyped
<1> QED
  BY <1>1, <1>2, <1>3 DEF auth_read, GoesTyped

LEMMA AuthWriteTyped ==
  ASSUME NEW m \in Admins, Typed(mng[m]), auth_write(m)
  PROVE  GoesTyped(m)
<1>1. PICK r \in AfterSend(Marshal(mng[m], 2)) :
        \/ mng' = [mng EXCEPT ![m] = r]
        \/ Closes(m, "answered")
        \/ mng' = [mng EXCEPT ![m] = MovesTo(r, "REQUEST_READ_INDEX", "READ")]
  BY DEF auth_write
<1>2. Typed(Marshal(mng[m], 2))
  BY MarshalIsTyped
<1>3. Typed(r)
  BY <1>2, SendIsTyped
<1>4. "REQUEST_READ_INDEX" \in MngStates
  BY DEF MngStates
<1>5. Typed(MovesTo(r, "REQUEST_READ_INDEX", "READ"))
  BY <1>3, <1>4, FieldsAreTyped
<1> QED
  BY <1>1, <1>3, <1>5, CloseTyped DEF GoesTyped

\* The size of the list that is marshalled is a number: the entries are
\* allocated, so each has a name and each name a length.
LEMMA ListSizeIsNat ==
  ASSUME TableInv
  PROVE  2 + nusers + NamesLength \in Nat
<1>1. IsFiniteSet(Entries) /\ nusers \in Nat
  BY FS_Interval, ManagementAssumption DEF Entries, TableInv, TableTypes
<1>2. ASSUME NEW i \in Entries PROVE NameLength[EntryName(i)] \in Nat
  <2>1. i \in Slots
    BY ManagementAssumption DEF Entries, Slots, TableInv, TableTypes
  <2>2. users[i] \in AllBlocks /\ heap[users[i]] # Freed
    BY <2>1 DEF TableInv, TableTypes, TableIsSound
  <2>3. heap[users[i]] \in Credentials
    BY <2>2 DEF TableInv, TableTypes
  <2>4. EntryName(i) \in Names
    BY <2>3 DEF EntryName, Credentials
  <2> QED
    BY <2>4, ManagementAssumption
<1>3. NamesLength \in Nat
  BY <1>1, <1>2, NamesLengthIsNat
<1> QED
  BY <1>1, <1>3

LEMMA IndexTyped ==
  ASSUME TableInv, NEW m \in Admins, NEW r, Typed(r), process_mng_index(m, r)
  PROVE  GoesTyped(m)
<1>1. CASE r.index = "retrieve" /\ Replies(m, r, "succeeded", 5)
  BY <1>1, RepliesTyped
<1>2. CASE list_users_mng_request_marshall(m, r)
  <2>1. CASE Replies(m, r, "none", 0)
    BY <2>1, RepliesTyped
  <2>2. CASE Replies(m, r, "succeeded", 2 + nusers + NamesLength)
    BY <2>2, RepliesTyped, ListSizeIsNat
  <2>3. CASE Crashes
    BY <2>3 DEF Crashes, GoesTyped
  <2> QED
    BY <1>2, <2>1, <2>2, <2>3 DEF list_users_mng_request_marshall
<1>3. CASE mng' = [mng EXCEPT ![m] = MovesTo(r, "REQUEST_READ", "READ")]
  <2>1. "REQUEST_READ" \in MngStates
    BY DEF MngStates
  <2>2. Typed(MovesTo(r, "REQUEST_READ", "READ"))
    BY <2>1, FieldsAreTyped
  <2> QED
    BY <1>3, <2>2 DEF GoesTyped
<1> QED
  BY <1>1, <1>2, <1>3 DEF process_mng_index

LEMMA IndexReadTyped ==
  ASSUME TableInv, NEW m \in Admins, Typed(mng[m]), mng_request_index_read(m)
  PROVE  GoesTyped(m)
<1>1. PICK r \in AfterRecv(mng[m], OneByte), index \in IndexesOf(mng[m]) :
        \/ Replies(m, r, "index_not_supported", 1)
        \/ process_mng_index(m, [r EXCEPT !.index = index])
  BY DEF mng_request_index_read
<1>2. Typed(r)
  BY RecvIsTyped DEF OneByte
<1>3. index \in Indexes
  BY DEF IndexesOf, Indexes
<1> DEFINE p == [r EXCEPT !.index = index]
<1>4. Typed(p)
  BY <1>2, <1>3, FieldsAreTyped
<1>5. Replies(m, r, "index_not_supported", 1) \/ process_mng_index(m, p)
  BY <1>1
<1> HIDE DEF p
<1> QED
  BY <1>2, <1>4, <1>5, RepliesTyped, IndexTyped

LEMMA RequestReadTyped ==
  ASSUME NEW m \in Admins, Typed(mng[m]), mng_request_read(m)
  PROVE  GoesTyped(m)
<1>1. PICK r \in AfterRecv(mng[m], AllThereIs) :
        mng' = [mng EXCEPT ![m] = r] \/ process_mng_params_request(m, r)
  BY DEF mng_request_read
<1>2. Typed(r)
  BY RecvIsTyped, ReadIsPieces DEF AllThereIs
<1>3. process_mng_params_request(m, r) =>
        \/ UNCHANGED mng
        \/ Replies(m, r, "succeeded", 1)
        \/ Replies(m, r, "max_users_reached", 1)
  BY DEF process_mng_params_request, Crashes
<1>4. Replies(m, r, "succeeded", 1) \/ Replies(m, r, "max_users_reached", 1) => GoesTyped(m)
  BY <1>2, RepliesTyped
<1> QED
  BY <1>1, <1>2, <1>3, <1>4 DEF GoesTyped

LEMMA RequestWriteTyped ==
  ASSUME NEW m \in Admins, Typed(mng[m]), mng_request_write(m)
  PROVE  GoesTyped(m)
<1>1. \A r \in AfterSend(mng[m]) : Typed(r)
  BY SendIsTyped
<1> QED
  BY <1>1, CloseTyped DEF mng_request_write, GoesTyped

LEMMA SendsTyped ==
  ASSUME NEW m \in Admins, Typed(mng[m]), ClientSends(m)
  PROVE  GoesTyped(m)
<1> DEFINE r == mng[m]
<1>1. MaySend(r) <= r.total
  <2>1. r.total \in Nat /\ Read(r.state) \in Nat
    BY ReadIsPieces DEF Typed, MngConnections
  <2>2. Min({r.total, Read(r.state)}) <= r.total
    BY <2>1, FirstExists
  <2> QED
    BY <2>1, <2>2 DEF MaySend
<1>2. r.sent \in Nat /\ r.total \in Nat /\ MaySend(r) \in Int
  <2>1. r.total \in Nat /\ r.sent \in Nat /\ Read(r.state) \in Nat
    BY ReadIsPieces DEF Typed, MngConnections
  <2>2. Min({r.total, Read(r.state)}) \in Nat
    BY <2>1, FirstExists
  <2> QED
    BY <2>1, <2>2 DEF MaySend
<1>3. r.sent < r.total
  BY <1>1, <1>2 DEF ClientSends
<1>4. Typed([r EXCEPT !.sent = @ + 1])
  BY <1>3, FieldsAreTyped
<1>5. mng' = [mng EXCEPT ![m] = [r EXCEPT !.sent = @ + 1]]
  BY DEF ClientSends
<1> QED
  BY <1>4, <1>5 DEF GoesTyped

LEMMA StepTyped ==
  ASSUME TableInv, MngTypes, [Next]_vars
  PROVE  UNCHANGED mng \/ \E m \in Admins : GoesTyped(m)
<1> USE DEF MngTypes
<1>1. ASSUME NEW m \in Admins, mng_passive_accept(m) PROVE GoesTyped(m)
  BY <1>1, NewIsTyped DEF mng_passive_accept, GoesTyped
<1>2. ASSUME NEW m \in Admins, ClientSends(m) PROVE GoesTyped(m)
  BY <1>2, SendsTyped
<1>3. ASSUME NEW m \in Admins, mng_done(m) PROVE GoesTyped(m)
  BY <1>3, CloseTyped DEF mng_done
<1>4. ASSUME NEW m \in Admins, Handlers(m) PROVE GoesTyped(m)
  BY <1>4, HelloReadTyped, HelloWriteTyped, AuthReadTyped, AuthWriteTyped, IndexReadTyped,
     RequestReadTyped, RequestWriteTyped DEF Handlers
<1>5. CASE \E s \in Sessions :
             \/ socks_hello(s) \/ auth_process(s) \/ socksv5_done(s) \/ connecting_write(s)
             \/ request_write(s) \/ copy_done(s)
  BY <1>5 DEF socks_hello, auth_process, socksv5_done, connecting_write, request_write, copy_done
<1>6. CASE UNCHANGED vars
  BY <1>6 DEF vars
<1> QED
  BY <1>1, <1>2, <1>3, <1>4, <1>5, <1>6 DEF Next

LEMMA NextTypes == TableInv /\ MngInv /\ MngTypes /\ [Next]_vars => MngTypes'
<1> SUFFICES ASSUME TableInv, MngInv, MngTypes, [Next]_vars PROVE MngTypes'
  OBVIOUS
<1>1. CASE UNCHANGED mng
  BY <1>1 DEF MngTypes, Typed
<1>2. ASSUME NEW m \in Admins, NEW r, Typed(r), mng' = [mng EXCEPT ![m] = r] PROVE MngTypes'
  <2>1. DOMAIN mng = Admins
    BY DEF MngInv
  <2>2. mng'[m] = r /\ \A n \in Admins \ {m} : mng'[n] = mng[n]
    BY <1>2, <2>1
  <2> QED
    BY <1>2, <2>2 DEF MngTypes, Typed
<1> QED
  BY <1>1, <1>2, StepTyped DEF GoesTyped

LEMMA InitTypes == Init => MngTypes
<1> SUFFICES ASSUME Init PROVE MngTypes
  OBVIOUS
<1>1. \A m \in Admins : mng[m] = ClosedMng("none")
  BY DEF Init
<1>2. Typed(ClosedMng("none"))
  BY ClosedIsTyped
<1> QED
  BY <1>1, <1>2 DEF MngTypes

\* What is a number, a setting or a flag, beyond what the other invariants say.
RestTypes ==
  /\ auth_method \in {"no_auth", "userpass"}
  /\ password_dissectors \in BOOLEAN
  /\ crashed \in BOOLEAN
  /\ metrics.max_concurrent <= MaxConcurrent

LEMMA InitRest == Init => RestTypes
<1> SUFFICES ASSUME Init PROVE RestTypes
  OBVIOUS
<1>1. metrics.max_concurrent = 0 /\ 0 <= MaxConcurrent
  BY ManagementAssumption DEF Init
<1> QED
  BY <1>1 DEF Init, RestTypes

LEMMA NextRest == RestTypes /\ MetricsInv /\ [Next]_vars => RestTypes'
<1> SUFFICES ASSUME RestTypes, MetricsInv, [Next]_vars PROVE RestTypes'
  OBVIOUS
<1>1. CASE UNCHANGED <<settings, metrics, crashed>>
  BY <1>1 DEF settings, RestTypes
<1>2. CASE \E m \in Admins : mng_passive_accept(m) \/ ClientSends(m) \/ mng_done(m) \/ Handlers(m)
  <2>1. PICK m \in Admins : mng_passive_accept(m) \/ ClientSends(m) \/ mng_done(m) \/ Handlers(m)
    BY <1>2
  <2>2. CASE mng_passive_accept(m) \/ ClientSends(m) \/ mng_done(m) \/ hello_read(m)
               \/ hello_write(m) \/ auth_write(m) \/ mng_request_write(m)
    BY <1>1, <2>2 DEF mng_passive_accept, ClientSends, mng_done, hello_read, hello_write,
                      auth_write, mng_request_write
  <2>3. CASE auth_read(m)
    BY <2>3 DEF auth_read, Crashes, settings, RestTypes
  <2>4. CASE mng_request_index_read(m)
    BY <2>4 DEF mng_request_index_read, process_mng_index, list_users_mng_request_marshall,
                Crashes, settings, RestTypes
  <2>5. CASE mng_request_read(m)
    BY <2>5 DEF mng_request_read, process_mng_params_request, Crashes, settings, RestTypes
  <2> QED
    BY <2>1, <2>2, <2>3, <2>4, <2>5 DEF Handlers
<1>3. CASE \E s \in Sessions :
             \/ socks_hello(s) \/ auth_process(s) \/ socksv5_done(s) \/ request_write(s)
  BY <1>1, <1>3 DEF socks_hello, auth_process, socksv5_done, request_write
<1>4. CASE \E s \in Sessions : connecting_write(s)
  <2>1. UNCHANGED metrics \/ (metrics.concurrent < MaxConcurrent /\ metrics' = CountConnection(metrics))
    BY <1>4 DEF connecting_write
  <2>2. metrics'.max_concurrent <= MaxConcurrent
    BY <2>1, ManagementAssumption DEF RestTypes, MetricsInv, CountConnection
  <2> QED
    BY <1>4, <2>2 DEF connecting_write, settings, RestTypes
<1>5. CASE \E s \in Sessions : copy_done(s)
  <2>1. metrics'.max_concurrent = metrics.max_concurrent
    BY <1>5 DEF copy_done, MetricsInv
  <2> QED
    BY <1>5, <2>1 DEF copy_done, settings, RestTypes
<1>6. CASE UNCHANGED vars
  BY <1>1, <1>6 DEF vars, settings
<1> QED
  BY <1>2, <1>3, <1>4, <1>5, <1>6 DEF Next

(* Every variable of the management model has its type, in particular the
   cursors of the write buffer stay inside it whatever is marshalled, the count
   of users inside users[], and the metrics are never negative. *)
THEOREM ManagementTypes == Spec => []TypeOK
<1>1. TableInv /\ MngInv /\ MngTypes /\ SessionInv /\ MetricsInv /\ RestTypes => TypeOK
  <2> SUFFICES ASSUME TableInv, MngInv, MngTypes, SessionInv, MetricsInv, RestTypes PROVE TypeOK
    OBVIOUS
  <2>1. mng \in [Admins -> MngConnections]
    BY DEF MngInv, MngTypes, Typed
  <2>2. metrics \in [concurrent : 0..MaxConcurrent, max_concurrent : 0..MaxConcurrent]
    <3>1. Cardinality(Counted) \in Nat
      BY CountedIsFinite
    <3>2. /\ metrics.concurrent \in 0..MaxConcurrent
          /\ metrics.max_concurrent \in 0..MaxConcurrent
      BY <3>1, ManagementAssumption DEF MetricsInv, MetricsCoverConnections, RestTypes
    <3> QED
      BY <3>2 DEF MetricsInv
  <2>3. /\ users \in [Slots -> Blocks \cup ArgvBlocks \cup {NULL}]
        /\ nusers \in 0..MAX_USERS
        /\ heap \in [Blocks \cup ArgvBlocks -> Credentials \cup {Freed}]
    BY DEF TableInv, TableTypes, AllBlocks
  <2> QED
    BY <2>1, <2>2, <2>3 DEF TypeOK, SessionInv, RestTypes
<1>2. Spec => [](TableInv /\ MngInv /\ MngTypes /\ SessionInv /\ MetricsInv /\ RestTypes)
  BY InitTable, NextTable, InitMng, NextMng, InitTypes, NextTypes, InitCounts, NextCounts,
     InitRest, NextRest, PTL DEF Spec
<1> QED
  BY <1>1, <1>2, PTL
-----------------------------------------------------------------------------
(* The table of users as a list of accounts: Management implements Accounts. *)

\* What the entries of a table stand for, with u, n and h for its variables.
ListOf(u, n, h) == [i \in 1..n |-> IF u[i - 1] = NULL THEN Freed ELSE h[u[i - 1]]]

LEMMA ListOfEntries ==
  ASSUME NEW u \in [Slots -> AllBlocks \cup {NULL}], NEW n \in 0..MAX_USERS,
         NEW h \in [AllBlocks -> Credentials \cup {Freed}],
         \A i \in 0..(n - 1) : u[i] # NULL /\ h[u[i]] # Freed,
         NEW l, l = ListOf(u, n, h)
  PROVE  /\ n \in Nat /\ n <= MAX_USERS
         /\ l \in Seq(Credentials) /\ Len(l) = n /\ DOMAIN l = 1..n
         /\ \A i \in 1..n : l[i] = h[u[i - 1]] /\ i - 1 \in 0..(n - 1)
<1>1. MAX_USERS \in Nat /\ n \in Nat
  BY ManagementAssumption
<1>2. ASSUME NEW i \in 1..n
      PROVE  /\ i - 1 \in 0..(n - 1) /\ u[i - 1] # NULL
             /\ h[u[i - 1]] \in Credentials
  <2>1. i - 1 \in 0..(n - 1) /\ i - 1 \in Slots
    BY <1>1 DEF Slots
  <2>2. u[i - 1] # NULL /\ h[u[i - 1]] # Freed /\ u[i - 1] \in AllBlocks \cup {NULL}
    BY <2>1
  <2> QED
    BY <2>1, <2>2
<1>3. l \in [1..n -> Credentials]
  BY <1>2 DEF ListOf
<1>4. l \in Seq(Credentials) /\ Len(l) = n /\ DOMAIN l = 1..n
  BY <1>1, <1>3
<1>5. \A i \in 1..n : l[i] = h[u[i - 1]]
  BY <1>2 DEF ListOf
<1> QED
  BY <1>1, <1>2, <1>4, <1>5

LEMMA ListIsSeq ==
  ASSUME TableInv
  PROVE  /\ nusers \in Nat /\ nusers <= MAX_USERS
         /\ Listed \in Seq(Credentials) /\ Len(Listed) = nusers /\ DOMAIN Listed = 1..nusers
         /\ \A i \in 1..nusers : Listed[i] = heap[users[i - 1]] /\ i - 1 \in Entries
<1>1. /\ users \in [Slots -> AllBlocks \cup {NULL}] /\ nusers \in 0..MAX_USERS
      /\ heap \in [AllBlocks -> Credentials \cup {Freed}]
      /\ \A i \in 0..(nusers - 1) : users[i] # NULL /\ heap[users[i]] # Freed
  BY DEF TableInv, TableTypes, TableIsSound, Entries
<1>2. Listed = ListOf(users, nusers, heap)
  BY DEF Listed, AccountAt, ListOf
<1> QED
  BY <1>1, <1>2, ListOfEntries DEF Entries

LEMMA NextListIsSeq ==
  ASSUME TableInv'
  PROVE  /\ nusers' \in Nat
         /\ Listed' \in Seq(Credentials) /\ Len(Listed') = nusers' /\ DOMAIN Listed' = 1..nusers'
         /\ \A i \in 1..nusers' : Listed'[i] = heap'[users'[i - 1]]
<1>1. /\ users' \in [Slots -> AllBlocks \cup {NULL}] /\ nusers' \in 0..MAX_USERS
      /\ heap' \in [AllBlocks -> Credentials \cup {Freed}]
      /\ \A i \in 0..(nusers' - 1) : users'[i] # NULL /\ heap'[users'[i]] # Freed
  BY DEF TableInv, TableTypes, TableIsSound, Entries
<1>2. Listed' = ListOf(users', nusers', heap')
  BY DEF Listed, AccountAt, ListOf
<1>3. PICK u, n, h, l : u = users' /\ n = nusers' /\ h = heap' /\ l = Listed'
  OBVIOUS
<1>4. /\ u \in [Slots -> AllBlocks \cup {NULL}] /\ n \in 0..MAX_USERS
      /\ h \in [AllBlocks -> Credentials \cup {Freed}]
      /\ \A i \in 0..(n - 1) : u[i] # NULL /\ h[u[i]] # Freed
      /\ l = ListOf(u, n, h)
  BY <1>1, <1>2, <1>3
<1>5. /\ n \in Nat
      /\ l \in Seq(Credentials) /\ Len(l) = n /\ DOMAIN l = 1..n
      /\ \A i \in 1..n : l[i] = h[u[i - 1]]
  BY <1>4, ListOfEntries
<1> QED
  BY <1>3, <1>5

LEMMA SameList ==
  ASSUME UNCHANGED table
  PROVE  UNCHANGED Listed
BY DEF table, Listed, AccountAt

\* A new block disturbs no entry of the list.
LEMMA AddAppends ==
  ASSUME TableInv, NEW c \in Credentials, addUser(c), nusers # MAX_USERS
  PROVE  Len(Listed) < MAX_USERS /\ Listed' = Append(Listed, c)
<1>1. /\ nusers \in Nat /\ nusers < MAX_USERS /\ MAX_USERS \in Nat
      /\ Listed \in Seq(Credentials) /\ Len(Listed) = nusers
      /\ \A i \in 1..nusers : Listed[i] = heap[users[i - 1]] /\ i - 1 \in Entries
  BY ListIsSeq, ManagementAssumption
<1>2. PICK b \in Blocks : /\ heap[b] = Freed
                          /\ heap' = [heap EXCEPT ![b] = c]
                          /\ users' = [users EXCEPT ![nusers] = b]
                          /\ nusers' = nusers + 1
  BY <1>1 DEF addUser
<1>3. TableInv'
  BY AddKeepsTable
<1>4. /\ Listed' \in Seq(Credentials) /\ Len(Listed') = nusers + 1
      /\ \A i \in 1..(nusers + 1) : Listed'[i] = heap'[users'[i - 1]]
  <2>1. /\ nusers' \in Nat /\ Listed' \in Seq(Credentials) /\ Len(Listed') = nusers'
        /\ \A i \in 1..nusers' : Listed'[i] = heap'[users'[i - 1]]
    BY <1>3, NextListIsSeq
  <2> QED
    BY <1>2, <2>1
<1>5. ASSUME NEW i \in 1..nusers PROVE Listed'[i] = Listed[i]
  <2>1. i - 1 \in Entries /\ i - 1 \in Slots /\ i - 1 # nusers
    BY <1>1 DEF Entries, Slots
  <2>2. users'[i - 1] = users[i - 1]
    BY <1>2, <2>1 DEF TableInv, TableTypes
  <2>3. users[i - 1] \in AllBlocks /\ users[i - 1] # b
    BY <1>2, <2>1 DEF TableInv, TableTypes, TableIsSound
  <2>4. heap'[users[i - 1]] = heap[users[i - 1]]
    BY <1>2, <2>3 DEF TableInv, TableTypes
  <2>5. i \in 1..(nusers + 1)
    BY <1>1
  <2> QED
    BY <1>1, <1>4, <2>2, <2>4, <2>5
<1>6. Listed'[nusers + 1] = c
  <2>1. nusers + 1 \in 1..(nusers + 1) /\ (nusers + 1) - 1 = nusers /\ nusers \in Slots
    BY <1>1 DEF Slots
  <2>2. users'[nusers] = b /\ heap'[b] = c
    BY <1>2, <2>1 DEF TableInv, TableTypes, AllBlocks
  <2> QED
    BY <1>4, <2>1, <2>2
<1>7. /\ Append(Listed, c) \in Seq(Credentials) /\ Len(Append(Listed, c)) = nusers + 1
      /\ \A i \in 1..nusers : Append(Listed, c)[i] = Listed[i]
      /\ Append(Listed, c)[nusers + 1] = c
  BY <1>1, AppendProperties
<1>8. PICK s, t : s = Listed' /\ t = Append(Listed, c)
  OBVIOUS
<1>9. s \in Seq(Credentials) /\ t \in Seq(Credentials) /\ Len(s) = Len(t)
  BY <1>4, <1>7, <1>8
<1>10. ASSUME NEW i \in 1..Len(s) PROVE s[i] = t[i]
  <2>1. i \in 1..nusers \/ i = nusers + 1
    BY <1>1, <1>4, <1>8
  <2> QED
    BY <1>5, <1>6, <1>7, <1>8, <2>1
<1>11. s = t
  BY <1>9, <1>10, SeqEqual
<1> QED
  BY <1>1, <1>8, <1>11

\* What deleteUser's loop does to the pointers takes one account out of the list: the
\* shifted entries keep their blocks, and none of them is the one that is freed.
LEMMA DeleteRemoves ==
  ASSUME TableInv, NEW name \in Names, deleteUser(name)
  PROVE  \/ UserList!Holding(name) = {} /\ UNCHANGED Listed
         \/ \E k \in DOMAIN Listed : UserList!IsFirst(k, name) /\ Listed' = UserList!Without(k)
<1>1. /\ nusers \in Nat /\ Listed \in Seq(Credentials) /\ Len(Listed) = nusers
      /\ DOMAIN Listed = 1..nusers
      /\ \A i \in 1..nusers : Listed[i] = heap[users[i - 1]] /\ i - 1 \in Entries
  BY ListIsSeq
<1>2. ASSUME NEW i PROVE i \in UserList!Holding(name) <=> i \in 1..nusers /\ i - 1 \in Named(name)
  BY <1>1 DEF UserList!Holding, Named, EntryName
<1>3. ASSUME NEW i \in Named(name) PROVE i \in Nat /\ i < nusers /\ i + 1 \in UserList!Holding(name)
  <2>1. i \in 0..(nusers - 1)
    BY DEF Named, Entries
  <2>2. i + 1 \in 1..nusers /\ (i + 1) - 1 = i /\ i \in Nat /\ i < nusers
    BY <1>1, <2>1
  <2> QED
    BY <1>2, <2>2
<1>4. CASE Named(name) = {}
  <2>1. UNCHANGED table
    BY <1>4 DEF deleteUser
  <2> QED
    BY <1>2, <1>4, <2>1, SameList
<1>5. CASE Named(name) # {}
  <2> DEFINE k == Min(Named(name))
  <2>1. /\ heap' = [heap EXCEPT ![users[k]] = Freed]
        /\ users' = WithoutEntry(k)
        /\ nusers' = nusers - 1
    BY <1>5 DEF deleteUser
  <2>2. k \in Named(name) /\ \A i \in Named(name) : k <= i
    <3>1. Named(name) \in SUBSET Nat
      BY <1>3
    <3> QED
      BY <1>5, <3>1, FirstExists
  <2> HIDE DEF k
  <2>3. k \in Nat /\ k < nusers /\ k + 1 \in UserList!Holding(name) /\ k + 1 \in 1..nusers
    BY <1>1, <1>3, <2>2
  <2>4. UserList!IsFirst(k + 1, name)
    <3>1. ASSUME NEW j \in UserList!Holding(name) PROVE k + 1 <= j
      <4>1. j \in 1..nusers /\ j - 1 \in Named(name)
        BY <1>2
      <4>2. k <= j - 1
        BY <2>2, <4>1
      <4> QED
        BY <2>3, <4>1, <4>2
    <3> QED
      BY <2>3, <3>1 DEF UserList!IsFirst
  <2>5. /\ nusers' \in Nat /\ Listed' \in Seq(Credentials) /\ Len(Listed') = nusers - 1
        /\ DOMAIN Listed' = 1..(nusers - 1)
        /\ \A i \in 1..(nusers - 1) : Listed'[i] = heap'[users'[i - 1]]
    BY <2>1, DeleteKeepsTable, NextListIsSeq
  <2>6. ASSUME NEW i \in 1..(nusers - 1)
        PROVE  Listed'[i] = IF i < k + 1 THEN Listed[i] ELSE Listed[i + 1]
    <3> DEFINE from == IF i < k + 1 THEN i - 1 ELSE i
    <3>1. /\ i - 1 \in Slots /\ from \in Entries /\ from # k /\ k \in Entries
          /\ from + 1 \in 1..nusers /\ (from + 1) - 1 = from
          /\ from + 1 = IF i < k + 1 THEN i ELSE i + 1
      BY <1>1, <2>3, ManagementAssumption, ListIsSeq DEF Slots, Entries
    <3>2. users'[i - 1] = users[from]
      BY <1>1, <2>1, <2>3, <3>1 DEF WithoutEntry
    <3> HIDE DEF from
    <3>3. users[from] \in AllBlocks /\ users[from] # users[k]
      <4>1. from \in Slots
        BY <3>1, ListIsSeq, ManagementAssumption DEF Slots, Entries
      <4> QED
        BY <3>1, <4>1 DEF TableInv, TableTypes, TableIsSound
    <3>4. heap'[users[from]] = heap[users[from]]
      BY <2>1, <3>3 DEF TableInv, TableTypes
    <3>5. Listed[from + 1] = heap[users[from]]
      BY <1>1, <3>1
    <3> QED
      BY <2>5, <3>1, <3>2, <3>4, <3>5
  <2>7. Listed' = UserList!Without(k + 1)
    <3>1. PICK s : s = Listed'
      OBVIOUS
    <3>2. s = [i \in 1..(nusers - 1) |-> s[i]]
      BY <2>5, <3>1
    <3>3. UserList!Without(k + 1) =
            [i \in 1..(nusers - 1) |-> IF i < k + 1 THEN Listed[i] ELSE Listed[i + 1]]
      BY <1>1 DEF UserList!Without
    <3>4. s = [i \in 1..(nusers - 1) |-> IF i < k + 1 THEN Listed[i] ELSE Listed[i + 1]]
      BY <2>6, <3>1, <3>2
    <3> QED
      BY <3>1, <3>3, <3>4
  <2> QED
    BY <1>1, <2>3, <2>4, <2>7
<1> QED
  BY <1>4, <1>5

\* One management connection moves, seen from the list of accounts.
LEMMA OneAsks ==
  ASSUME MngInv, NEW m \in Admins, NEW r, mng' = [mng EXCEPT ![m] = r]
  PROVE  /\ Pending' = [Pending EXCEPT ![m] = PendingChange(r)]
         /\ Answer' = [Answer EXCEPT ![m] = r.status]
         /\ Pending[m] = PendingChange(mng[m]) /\ PendingChange(r) \in UserList!Changes
         /\ mng'[m] = r
<1>1. DOMAIN mng = Admins
  BY DEF MngInv
<1>2. mng'[m] = r /\ \A n \in Admins \ {m} : mng'[n] = mng[n]
  BY <1>1
<1>3. PICK new : new = mng'
  OBVIOUS
<1>4. Pending' = [n \in Admins |-> PendingChange(new[n])] /\ Answer' = [n \in Admins |-> new[n].status]
  BY <1>3 DEF Pending, Answer, PendingChange
<1>5. [n \in Admins |-> PendingChange(new[n])] = [Pending EXCEPT ![m] = PendingChange(r)]
  <2>1. \A n \in Admins : PendingChange(new[n]) = IF n = m THEN PendingChange(r) ELSE Pending[n]
    BY <1>2, <1>3 DEF Pending
  <2>2. [Pending EXCEPT ![m] = PendingChange(r)] =
          [n \in Admins |-> IF n = m THEN PendingChange(r) ELSE Pending[n]]
    BY DEF Pending
  <2> QED
    BY <2>1, <2>2
<1>6. [n \in Admins |-> new[n].status] = [Answer EXCEPT ![m] = r.status]
  <2>1. \A n \in Admins : new[n].status = IF n = m THEN r.status ELSE Answer[n]
    BY <1>2, <1>3 DEF Answer
  <2>2. [Answer EXCEPT ![m] = r.status] = [n \in Admins |-> IF n = m THEN r.status ELSE Answer[n]]
    BY DEF Answer
  <2> QED
    BY <2>1, <2>2
<1>7. Pending[m] = PendingChange(mng[m]) /\ PendingChange(r) \in UserList!Changes
  BY DEF Pending, PendingChange, UserList!Changes
<1> QED
  BY <1>2, <1>4, <1>5, <1>6, <1>7

\* Connection m does nothing to the list: whatever it asks for next, or in the
\* middle of its request, or at its end.
Quiet(m, r) ==
  \/ PendingChange(mng[m]) = "none"
  \/ PendingChange(r) = PendingChange(mng[m]) /\ r.status = mng[m].status
  \/ PendingChange(r) = "none" /\ r.status = "none"

LEMMA QuietStep ==
  ASSUME MngInv, MngTypes', NEW m \in Admins, NEW r, mng' = [mng EXCEPT ![m] = r],
         UNCHANGED Listed, UNCHANGED session, Quiet(m, r)
  PROVE  [UserList!Next]_UserList!vars
<1>1. /\ Pending' = [Pending EXCEPT ![m] = PendingChange(r)]
      /\ Answer' = [Answer EXCEPT ![m] = r.status]
      /\ Pending[m] = PendingChange(mng[m]) /\ PendingChange(r) \in UserList!Changes
      /\ mng'[m] = r
  BY OneAsks
<1>2. UNCHANGED Holder
  BY DEF Holder
<1>3. r.status \in UserList!Answers
  BY <1>1 DEF MngTypes, Typed, MngConnections, UserList!Answers
<1>4. CASE PendingChange(mng[m]) = "none"
  <2>1. UserList!Asks(m, PendingChange(r), r.status)
    BY <1>1, <1>2, <1>4 DEF UserList!Asks
  <2> QED
    BY <1>1, <1>3, <2>1 DEF UserList!Next
<1>5. CASE PendingChange(r) = PendingChange(mng[m]) /\ r.status = mng[m].status
  <2>1. Answer[m] = mng[m].status /\ DOMAIN Answer = Admins /\ DOMAIN Pending = Admins
    BY DEF Answer, Pending
  <2>2. Answer = [n \in Admins |-> Answer[n]] /\ Pending = [n \in Admins |-> Pending[n]]
    BY DEF Answer, Pending
  <2>3. UNCHANGED <<Pending, Answer>>
    BY <1>1, <1>5, <2>1, <2>2
  <2> QED
    BY <1>2, <2>3 DEF UserList!vars
<1>6. CASE PendingChange(r) = "none" /\ r.status = "none"
  <2>1. UserList!GivesUp(m)
    BY <1>1, <1>2, <1>6 DEF UserList!GivesUp, UserList!Answered
  <2> QED
    BY <2>1 DEF UserList!Next
<1> QED
  BY <1>4, <1>5, <1>6 DEF Quiet

LEMMA NobodyMoves ==
  ASSUME UNCHANGED <<Listed, mng, session>>
  PROVE  [UserList!Next]_UserList!vars
BY DEF UserList!vars, Pending, PendingChange, Answer, Holder

LEMMA ClosedIsQuiet ==
  ASSUME NEW m \in Admins, NEW outcome
  PROVE  Quiet(m, ClosedMng(outcome))
BY DEF Quiet, ClosedMng, PendingChange

\* The reply of a request, seen from the list.
LEMMA ReplyAnswers ==
  ASSUME MngInv, NEW m \in Admins, NEW r, Shape(r), NEW status, NEW n, Replies(m, r, status, n)
  PROVE  UserList!Answered(m, status)
<1> DEFINE q == MovesTo(Marshal([r EXCEPT !.status = status], n), "REQUEST_WRITE", "WRITE")
<1>1. mng' = [mng EXCEPT ![m] = q]
  BY DEF Replies
<1>2. q.state = "REQUEST_WRITE" /\ q.status = status
  BY ReplySays
<1> HIDE DEF q
<1>3. PendingChange(q) = "none"
  BY <1>2 DEF PendingChange
<1> QED
  BY <1>1, <1>2, <1>3, OneAsks DEF UserList!Answered

\* Every handler but the one that carries out a request.
LEMMA OthersAreQuiet ==
  ASSUME TableInv, MngInv, MngTypes', NEW m \in Admins,
         \/ mng_passive_accept(m) \/ ClientSends(m) \/ mng_done(m)
         \/ Handlers(m) /\ ~mng_request_read(m)
  PROVE  [UserList!Next]_UserList!vars
<1>1. UNCHANGED table /\ UNCHANGED session
  BY IndexOnTable DEF mng_passive_accept, ClientSends, mng_done, Handlers, hello_read, hello_write,
     auth_read, auth_write, mng_request_index_read, mng_request_write, Crashes
<1>2. UNCHANGED Listed
  BY <1>1, SameList
<1>3. CASE mng_passive_accept(m)
  <2>1. PICK r : Goes(m, r)
    BY <1>3, AcceptGoes
  <2>2. PendingChange(mng[m]) = "none"
    BY <1>3 DEF mng_passive_accept, PendingChange
  <2> QED
    BY <1>1, <1>2, <2>1, <2>2, QuietStep DEF Goes, Quiet
<1>4. CASE ClientSends(m)
  <2>1. PICK r : r = [mng[m] EXCEPT !.sent = @ + 1] /\ mng' = [mng EXCEPT ![m] = r]
    BY <1>4 DEF ClientSends
  <2>2. Shape(mng[m])
    BY DEF MngInv, ConnectionInv
  <2>3. /\ r.state = mng[m].state /\ r.accepted = mng[m].accepted
        /\ r.index = mng[m].index /\ r.status = mng[m].status
    BY <2>1, <2>2 DEF Shape
  <2>4. PendingChange(r) = PendingChange(mng[m])
    BY <2>3 DEF PendingChange
  <2> QED
    BY <1>1, <1>2, <2>1, <2>3, <2>4, QuietStep DEF Quiet
<1>5. CASE mng_done(m)
  BY <1>1, <1>2, <1>5, ClosedIsQuiet, QuietStep DEF mng_done, Closes
<1>6. CASE Handlers(m) /\ ~mng_request_read(m)
  <2>1. UNCHANGED mng \/ \E r : Goes(m, r)
    BY <1>6, HelloReadGoes, HelloWriteGoes, AuthReadGoes, AuthWriteGoes, IndexReadGoes,
       RequestWriteGoes DEF Handlers
  <2>2. mng[m].state # "REQUEST_READ"
    BY <1>6 DEF Handlers, hello_read, hello_write, auth_read, auth_write, mng_request_index_read,
       mng_request_write, mng_read, mng_write
  <2>3. PendingChange(mng[m]) = "none"
    BY <2>2 DEF PendingChange
  <2>4. CASE UNCHANGED mng
    BY <1>1, <1>2, <2>4, NobodyMoves
  <2>5. CASE \E r : Goes(m, r)
    BY <1>1, <1>2, <2>3, <2>5, QuietStep DEF Goes, Quiet
  <2> QED
    BY <2>1, <2>4, <2>5
<1> QED
  BY <1>3, <1>4, <1>5, <1>6

\* The request of connection m is carried out, or is not all there.
LEMMA RequestMaps ==
  ASSUME TableInv, MngInv, MngTypes', NEW m \in Admins, mng_request_read(m)
  PROVE  [UserList!Next]_UserList!vars
<1>1. /\ mng[m].state = "REQUEST_READ" /\ Shape(mng[m]) /\ mng[m].accepted
      /\ UNCHANGED session
  BY DEF mng_request_read, mng_read, MngInv, ConnectionInv, RequestStates
<1>2. PICK r \in AfterRecv(mng[m], AllThereIs) :
        \/ mng' = [mng EXCEPT ![m] = r] /\ UNCHANGED table
        \/ process_mng_params_request(m, r)
  BY DEF mng_request_read
<1>3. Like(r, mng[m])
  BY <1>1, RecvIsLike, Zenon
<1>4. Shape(r) /\ r.index = mng[m].index
  BY <1>3, Zenon DEF Like
<1>5. UNCHANGED Holder
  BY <1>1 DEF Holder
<1>6. r.index \in {"add_user", "delete_user"} => Pending[m] = r.index
  BY <1>1, <1>4 DEF Pending, PendingChange
<1>7. CASE mng' = [mng EXCEPT ![m] = r] /\ UNCHANGED table
  <2>1. PendingChange(r) = PendingChange(mng[m]) /\ r.status = mng[m].status
    BY <1>3, Zenon DEF Like, PendingChange
  <2> QED
    BY <1>1, <1>7, <2>1, SameList, QuietStep DEF Quiet
<1>8. CASE UNCHANGED <<table, mng>>
  <2>1. UNCHANGED Listed
    BY <1>8, SameList DEF table
  <2> QED
    BY <1>1, <1>8, <2>1, NobodyMoves
<1>9. CASE r.index = "add_user" /\ nusers = MAX_USERS /\ UNCHANGED table
             /\ Replies(m, r, "max_users_reached", 1)
  <2>1. UserList!Answered(m, "max_users_reached")
    BY <1>4, <1>9, ReplyAnswers
  <2>2. Len(Listed) = MAX_USERS /\ UNCHANGED Listed
    BY <1>9, ListIsSeq, SameList
  <2>3. \E c : c \in Credentials
    <3>1. Listed \in Seq(Credentials) /\ Len(Listed) \in Nat \ {0}
      BY <2>2, ListIsSeq, ManagementAssumption
    <3>2. Listed[1] \in Credentials
      BY <3>1
    <3> QED
      BY <3>2
  <2>4. PICK c \in Credentials : TRUE
    BY <2>3
  <2>5. UserList!AddsUser(m, c)
    BY <1>5, <1>6, <1>9, <2>1, <2>2 DEF UserList!AddsUser
  <2> QED
    BY <2>5 DEF UserList!Next
<1>10. ASSUME r.index = "add_user", nusers # MAX_USERS, NEW c \in Credentials, addUser(c),
              Replies(m, r, "succeeded", 1)
       PROVE  [UserList!Next]_UserList!vars
  <2>1. UserList!Answered(m, "succeeded")
    BY <1>4, <1>10, ReplyAnswers
  <2>2. Len(Listed) < MAX_USERS /\ Listed' = Append(Listed, c)
    BY <1>10, AddAppends
  <2>3. UserList!AddsUser(m, c)
    BY <1>5, <1>6, <1>10, <2>1, <2>2 DEF UserList!AddsUser
  <2> QED
    BY <2>3 DEF UserList!Next
<1>11. ASSUME r.index = "delete_user", NEW name \in Names, deleteUser(name),
              Replies(m, r, "succeeded", 1)
       PROVE  [UserList!Next]_UserList!vars
  <2>1. UserList!Answered(m, "succeeded")
    BY <1>4, <1>11, ReplyAnswers
  <2>2. \/ UserList!Holding(name) = {} /\ UNCHANGED Listed
        \/ \E k \in DOMAIN Listed : UserList!IsFirst(k, name) /\ Listed' = UserList!Without(k)
    BY <1>11, DeleteRemoves
  <2>3. UserList!DeletesUser(m, name)
    BY <1>5, <1>6, <1>11, <2>1, <2>2 DEF UserList!DeletesUser
  <2> QED
    BY <2>3 DEF UserList!Next
<1>12. ASSUME r.index \notin {"add_user", "delete_user"}, UNCHANGED table, NEW status, NEW n,
              Replies(m, r, status, n)
       PROVE  [UserList!Next]_UserList!vars
  <2> DEFINE q == MovesTo(Marshal([r EXCEPT !.status = status], n), "REQUEST_WRITE", "WRITE")
  <2>1. mng' = [mng EXCEPT ![m] = q]
    BY <1>12 DEF Replies
  <2> HIDE DEF q
  <2>2. PendingChange(mng[m]) = "none"
    BY <1>4, <1>12 DEF PendingChange
  <2> QED
    BY <1>1, <1>12, <2>1, <2>2, SameList, QuietStep DEF Quiet
<1>13. CASE process_mng_params_request(m, r)
  <2>1. \/ UNCHANGED <<table, mng>>
        \/ r.index = "add_user" /\ nusers = MAX_USERS /\ UNCHANGED table
             /\ Replies(m, r, "max_users_reached", 1)
        \/ r.index = "add_user" /\ nusers # MAX_USERS /\ Replies(m, r, "succeeded", 1)
             /\ \E c \in Credentials : addUser(c)
        \/ r.index = "delete_user" /\ Replies(m, r, "succeeded", 1)
             /\ \E name \in Names : deleteUser(name)
        \/ r.index \notin {"add_user", "delete_user"} /\ UNCHANGED table
             /\ Replies(m, r, "succeeded", 1)
    BY <1>13 DEF process_mng_params_request, Crashes
  <2> QED
    BY <2>1, <1>8, <1>9, <1>10, <1>11, <1>12
<1> QED
  BY <1>2, <1>7, <1>13

\* Nobody holds an account before checkCredentials, and one is held until the
\* connection ends.
HolderInv == \A s \in Sessions : session[s].state \in {"closed", "USERPASS"} => session[s].user = NULL

LEMMA OneHolder ==
  ASSUME SessionInv, NEW s \in Sessions, NEW r, Becomes(s, r)
  PROVE  /\ Holder' = [Holder EXCEPT ![s] = r.user]
         /\ Holder[s] = session[s].user /\ DOMAIN Holder = Sessions
         /\ session'[s] = r /\ \A t \in Sessions \ {s} : session'[t] = session[t]
<1>1. DOMAIN session = Sessions
  BY DEF SessionInv
<1>2. session'[s] = r /\ \A t \in Sessions \ {s} : session'[t] = session[t]
  BY <1>1 DEF Becomes
<1>3. Holder' = [t \in Sessions |-> session'[t].user]
  BY DEF Holder
<1>4. \A t \in Sessions : session'[t].user = IF t = s THEN r.user ELSE Holder[t]
  BY <1>2 DEF Holder
<1>5. [Holder EXCEPT ![s] = r.user] = [t \in Sessions |-> IF t = s THEN r.user ELSE Holder[t]]
  BY DEF Holder
<1> QED
  BY <1>2, <1>3, <1>4, <1>5 DEF Holder

\* How a connection of the proxy moves: it keeps who it is, ends, or is let in.
ConnectionMoves(s, r) ==
  /\ Becomes(s, r)
  /\ \/ r.user = NULL
     \/ r.user = session[s].user /\ r.state \notin {"closed", "USERPASS"}
     \/ /\ session[s].state = "USERPASS" /\ r.state = "REQUEST"
        /\ \E k \in DOMAIN Listed : r.user = Listed[k].name

LEMMA SessionsMove ==
  ASSUME TableInv, SessionInv, NEW s \in Sessions,
         \/ socks_hello(s) \/ auth_process(s) \/ socksv5_done(s) \/ connecting_write(s)
         \/ request_write(s) \/ copy_done(s)
  PROVE  \E r : ConnectionMoves(s, r)
<1>1. SessionOK(session[s]) /\ session[s] \in ProxyConnections
  BY DEF SessionInv, SessionOK
<1>2. ClosedSession.user = NULL
  BY DEF ClosedSession
<1>3. ASSUME Becomes(s, ClosedSession) PROVE \E r : ConnectionMoves(s, r)
  BY <1>2, <1>3 DEF ConnectionMoves
<1>4. ASSUME NEW r, Becomes(s, r), r.user = session[s].user, r.state \notin {"closed", "USERPASS"}
      PROVE  \E q : ConnectionMoves(s, q)
  BY <1>4 DEF ConnectionMoves
<1>5. CASE socks_hello(s)
  <2>1. PICK state : Becomes(s, [ClosedSession EXCEPT !.state = state])
    BY <1>5 DEF socks_hello
  <2>2. [ClosedSession EXCEPT !.state = state].user = NULL
    BY DEF ClosedSession
  <2> QED
    BY <2>1, <2>2 DEF ConnectionMoves
<1>6. CASE auth_process(s)
  <2>1. PICK c \in Credentials :
          \/ Becomes(s, ClosedSession)
          \/ /\ Matches(c) # {}
             /\ Becomes(s, [session[s] EXCEPT !.state = "REQUEST", !.userIndex = Min(Matches(c)),
                                              !.user = c.name])
    BY <1>6 DEF auth_process
  <2>2. CASE Matches(c) # {} /\ ~Becomes(s, ClosedSession)
    <3> DEFINE i == Min(Matches(c))
               r == [session[s] EXCEPT !.state = "REQUEST", !.userIndex = i, !.user = c.name]
    <3>1. /\ nusers \in Nat /\ DOMAIN Listed = 1..nusers
          /\ \A k \in 1..nusers : Listed[k] = heap[users[k - 1]]
      BY ListIsSeq
    <3>2. i \in Matches(c)
      <4>1. Matches(c) \subseteq Nat
        BY <3>1 DEF Matches, Entries
      <4> QED
        BY <2>2, <4>1, FirstExists
    <3>3. Becomes(s, r) /\ session[s].state = "USERPASS"
      BY <1>6, <2>1, <2>2 DEF auth_process, ProxyStep
    <3> HIDE DEF i
    <3>4. i + 1 \in 1..nusers /\ (i + 1) - 1 = i /\ heap[users[i]] = c
      BY <3>1, <3>2 DEF Matches, Entries
    <3>5. Listed[i + 1].name = c.name
      BY <3>1, <3>4
    <3>6. r.state = "REQUEST" /\ r.user = c.name
      BY <1>1 DEF ProxyConnections
    <3> HIDE DEF r
    <3> QED
      BY <3>1, <3>3, <3>4, <3>5, <3>6 DEF ConnectionMoves
  <2> QED
    BY <1>3, <2>1, <2>2
<1>7. CASE socksv5_done(s)
  BY <1>3, <1>7 DEF socksv5_done
<1>8. CASE connecting_write(s)
  <2> DEFINE q == [session[s] EXCEPT !.state = "REQUEST_WRITE", !.succeeded = TRUE]
             p == [session[s] EXCEPT !.state = "REQUEST_WRITE"]
  <2>1. /\ q.user = session[s].user /\ q.state = "REQUEST_WRITE"
        /\ p.user = session[s].user /\ p.state = "REQUEST_WRITE"
    BY <1>1 DEF ProxyConnections
  <2>2. Becomes(s, q) \/ Becomes(s, p)
    BY <1>8 DEF connecting_write
  <2> HIDE DEF q, p
  <2> QED
    BY <1>4, <2>1, <2>2
<1>9. CASE request_write(s)
  <2> DEFINE q == [session[s] EXCEPT !.state = "COPY"]
  <2>1. q.user = session[s].user /\ q.state = "COPY"
    BY <1>1 DEF ProxyConnections
  <2>2. Becomes(s, q) \/ Becomes(s, ClosedSession)
    BY <1>9 DEF request_write
  <2> HIDE DEF q
  <2> QED
    BY <1>3, <1>4, <2>1, <2>2
<1>10. CASE copy_done(s)
  BY <1>3, <1>10 DEF copy_done
<1> QED
  BY <1>5, <1>6, <1>7, <1>8, <1>9, <1>10

LEMMA MovesMap ==
  ASSUME SessionInv, HolderInv, NEW s \in Sessions, NEW r, ConnectionMoves(s, r),
         UNCHANGED <<table, mng>>
  PROVE  HolderInv' /\ [UserList!Next]_UserList!vars
<1>1. /\ Holder' = [Holder EXCEPT ![s] = r.user]
      /\ Holder[s] = session[s].user /\ DOMAIN Holder = Sessions
      /\ session'[s] = r /\ \A t \in Sessions \ {s} : session'[t] = session[t]
  BY OneHolder DEF ConnectionMoves
<1>2. UNCHANGED <<Listed, Pending, Answer>>
  BY SameList DEF table, Pending, PendingChange, Answer
<1>3. CASE r.user = NULL
  <2>1. UserList!Leaves(s)
    BY <1>1, <1>2, <1>3 DEF UserList!Leaves
  <2> QED
    BY <1>1, <1>3, <2>1 DEF UserList!Next, HolderInv
<1>4. CASE r.user = session[s].user /\ r.state \notin {"closed", "USERPASS"}
  <2>1. Holder = [t \in Sessions |-> Holder[t]]
    BY DEF Holder
  <2>2. UNCHANGED Holder
    BY <1>1, <1>4, <2>1
  <2> QED
    BY <1>1, <1>2, <1>4, <2>2 DEF HolderInv, UserList!vars
<1>5. CASE /\ session[s].state = "USERPASS" /\ r.state = "REQUEST"
           /\ \E k \in DOMAIN Listed : r.user = Listed[k].name
  <2>1. Holder[s] = NULL
    BY <1>1, <1>5 DEF HolderInv
  <2>2. PICK k \in DOMAIN Listed : UserList!LetsIn(s, k)
    BY <1>1, <1>2, <1>5, <2>1 DEF UserList!LetsIn
  <2> QED
    BY <1>1, <1>5, <2>2 DEF UserList!Next, HolderInv
<1> QED
  BY <1>3, <1>4, <1>5 DEF ConnectionMoves

LEMMA NextMaps ==
  TableInv /\ MngInv /\ MngTypes' /\ SessionInv /\ HolderInv /\ [Next]_vars
    => HolderInv' /\ [UserList!Next]_UserList!vars
<1> SUFFICES ASSUME TableInv, MngInv, MngTypes', SessionInv, HolderInv, [Next]_vars
             PROVE  HolderInv' /\ [UserList!Next]_UserList!vars
  OBVIOUS
<1>1. UNCHANGED session => HolderInv'
  BY DEF HolderInv
<1>2. ASSUME NEW m \in Admins,
             mng_passive_accept(m) \/ ClientSends(m) \/ mng_done(m) \/ Handlers(m)
      PROVE  HolderInv' /\ [UserList!Next]_UserList!vars
  <2>1. UNCHANGED session
    BY <1>2 DEF mng_passive_accept, ClientSends, mng_done, Handlers, hello_read, hello_write,
                auth_read, auth_write, mng_request_index_read, mng_request_read, mng_request_write
  <2>2. CASE mng_request_read(m)
    BY <1>1, <2>1, <2>2, RequestMaps
  <2>3. CASE ~mng_request_read(m)
    BY <1>1, <1>2, <2>1, <2>3, OthersAreQuiet
  <2> QED
    BY <2>2, <2>3
<1>3. ASSUME NEW s \in Sessions,
             \/ socks_hello(s) \/ auth_process(s) \/ socksv5_done(s) \/ connecting_write(s)
             \/ request_write(s) \/ copy_done(s)
      PROVE  HolderInv' /\ [UserList!Next]_UserList!vars
  <2>1. UNCHANGED <<table, mng>>
    BY <1>3 DEF socks_hello, auth_process, socksv5_done, connecting_write, request_write, copy_done
  <2> QED
    BY <1>3, <2>1, SessionsMove, MovesMap
<1>4. CASE UNCHANGED vars
  <2>1. UNCHANGED <<Listed, mng, session>>
    BY <1>4, SameList DEF vars, table
  <2> QED
    BY <1>1, <2>1, NobodyMoves
<1> QED
  BY <1>2, <1>3, <1>4 DEF Next

LEMMA InitMaps == Init => HolderInv /\ UserList!Init
<1> SUFFICES ASSUME Init PROVE HolderInv /\ UserList!Init
  OBVIOUS
<1>1. /\ \A m \in Admins : mng[m] = ClosedMng("none")
      /\ \A s \in Sessions : session[s] = ClosedSession
  BY DEF Init
<1>2. HolderInv /\ Holder = [s \in Sessions |-> NULL]
  BY <1>1 DEF ClosedSession, HolderInv, Holder
<1>3. Pending = [m \in Admins |-> "none"] /\ Answer = [m \in Admins |-> "none"]
  BY <1>1 DEF ClosedMng, Pending, PendingChange, Answer
<1>4. Listed \in Seq(Credentials) /\ Len(Listed) <= MAX_USERS
  BY InitTable, ListIsSeq
<1> QED
  BY <1>2, <1>3, <1>4 DEF UserList!Init

(* The table of pointers with its heap is a list of accounts, whatever the requests,
   the connections that are lost in the middle of one, and the users who come and
   go meanwhile: addUser appends or says that the limit is reached, deleteUser takes
   out the first account of a name and disturbs no other, and checkCredentials lets
   in only who is in the list. *)
THEOREM ManagementImplementsAccounts == Spec => ImplementsAccounts
<1>1. Spec => [](TableInv /\ MngInv /\ MngTypes /\ SessionInv /\ HolderInv)
  <2>1. Spec => [](TableInv /\ MngInv /\ MngTypes /\ SessionInv /\ MetricsInv)
    BY InitTable, NextTable, InitMng, NextMng, InitTypes, NextTypes, InitCounts, NextCounts,
       PTL DEF Spec
  <2> QED
    BY <2>1, InitMaps, NextMaps, PTL DEF Spec
<1> QED
  BY <1>1, InitMaps, NextMaps, PTL DEF Spec, ImplementsAccounts, UserList!Spec
-----------------------------------------------------------------------------
(* The safety half of RequestsAreAnswered. *)

\* What a client that waits its turn has sent, and what recv has taken of it, in each
\* state: nothing beyond the message that the state reads.
TurnInv(r) ==
  /\ r.state = "HELLO_READ" => r.received < Pieces /\ r.sent <= Pieces
  /\ r.state = "HELLO_WRITE" => r.received = Pieces /\ r.sent <= Pieces
  /\ r.state = "USERPASS_READ" => r.received < 2 * Pieces /\ r.sent <= 2 * Pieces
  /\ r.state = "USERPASS_WRITE" => r.received = 2 * Pieces /\ r.sent <= 2 * Pieces
  /\ r.state = "REQUEST_READ_INDEX" => r.received = 2 * Pieces
  /\ r.state = "REQUEST_READ" => r.received < MaxPieces /\ r.total = MaxPieces

ServedInv(r) ==
  /\ r.state # "closed" => r.total \in {2 * Pieces + 1, MaxPieces}
  /\ r.state = "HELLO_READ" => r.write_buffer = buffer_reset
  /\ r.state = "HELLO_WRITE" => buffer_can_read(r.write_buffer)
  /\ ~r.eager => TurnInv(r)

TurnsInv == \A m \in Admins : ServedInv(mng[m])

PiecesFacts == /\ Pieces \in Nat \ {0} /\ MaxPieces = 3 * Pieces + 1
               /\ Read("HELLO_READ") = Pieces /\ Read("USERPASS_READ") = 2 * Pieces
               /\ Read("REQUEST_READ_INDEX") = 2 * Pieces + 1 /\ Read("REQUEST_READ") = MaxPieces
               /\ Read("HELLO_WRITE") = 0 /\ Read("USERPASS_WRITE") = 0

LEMMA Piecewise == PiecesFacts
BY ManagementAssumption DEF PiecesFacts, Read, MaxPieces

\* The same client, having said as much.
SameInput(q, r) ==
  q.eager = r.eager /\ q.total = r.total /\ q.sent = r.sent /\ q.received = r.received

LEMMA MovesKeepsInput ==
  ASSUME NEW r, Typed(r), NEW state, NEW op, NEW q, q = MovesTo(r, state, op)
  PROVE  SameInput(q, r) /\ q.state = state /\ q.write_buffer = r.write_buffer
<1>1. q = [r EXCEPT !.state = state, !.interest = op] /\ r \in MngConnections
  BY DEF MovesTo, Typed
<1> QED
  BY <1>1 DEF MngConnections, SameInput

LEMMA MarshalKeepsInput ==
  ASSUME NEW r, Typed(r), NEW n, NEW q, q = Marshal(r, n)
  PROVE  SameInput(q, r) /\ q.state = r.state
<1>1. r \in MngConnections
  BY DEF Typed
<1>2. q = r \/ \E b : q = [r EXCEPT !.write_buffer = b]
  BY <1>1 DEF Marshal
<1> QED
  BY <1>1, <1>2 DEF MngConnections, SameInput

LEMMA SendKeepsInput ==
  ASSUME NEW r, Typed(r), NEW q \in AfterSend(r)
  PROVE  SameInput(q, r) /\ q.state = r.state
<1>1. PICK b : q = [r EXCEPT !.write_buffer = b]
  BY DEF AfterSend
<1> QED
  BY <1>1 DEF Typed, MngConnections, SameInput

LEMMA FieldsKeepInput ==
  ASSUME NEW r, Typed(r), NEW x, NEW y, NEW q,
         \/ q = [r EXCEPT !.method = x]
         \/ q = [r EXCEPT !.index = x]
         \/ q = [r EXCEPT !.authentication = x, !.accepted = y]
  PROVE  SameInput(q, r) /\ q.write_buffer = r.write_buffer
<1>1. r \in MngConnections
  BY DEF Typed
<1>2. CASE q = [r EXCEPT !.method = x]
  BY <1>1, <1>2 DEF MngConnections, SameInput
<1>3. CASE q = [r EXCEPT !.index = x]
  BY <1>1, <1>3 DEF MngConnections, SameInput
<1>4. CASE q = [r EXCEPT !.authentication = x, !.accepted = y]
  BY <1>1, <1>4 DEF MngConnections, SameInput
<1> QED
  BY <1>2, <1>3, <1>4

\* A recv takes some of what was sent, and what it completes is over.
LEMMA RecvTakes ==
  ASSUME NEW r, Typed(r), NEW most \in Nat, NEW q \in AfterRecv(r, most)
  PROVE  /\ q.eager = r.eager /\ q.total = r.total /\ q.sent = r.sent /\ q.state = r.state
         /\ q.write_buffer = r.write_buffer
         /\ r.received < q.received /\ q.received <= r.received + most /\ q.received <= q.sent
         /\ q.received \in Nat /\ q.sent \in Nat
         /\ MessageDone(q) <=> Read(r.state) <= q.received
<1> DEFINE room == Min({most, r.sent - r.received})
<1>1. PICK n \in 1..room :
        q = [r EXCEPT !.received = @ + n, !.parsed = Min({r.received + n, Read(r.state)})]
  BY DEF AfterRecv
<1>2. r.sent \in Nat /\ r.received \in Nat /\ r.received <= r.sent /\ r \in MngConnections
  BY ReadIsPieces DEF Typed, MngConnections
<1>3. room \in Nat /\ room <= r.sent - r.received /\ room <= most
  BY <1>2, FirstExists
<1> HIDE DEF room
<1>4. n \in Nat /\ 0 < n /\ n <= most /\ r.received + n <= r.sent
  BY <1>2, <1>3
<1> DEFINE parsed == Min({r.received + n, Read(r.state)})
<1>5. /\ parsed \in {r.received + n, Read(r.state)} /\ parsed <= r.received + n
      /\ parsed <= Read(r.state) /\ Read(r.state) \in Nat
  <2>1. Read(r.state) \in Nat
    BY ReadIsPieces
  <2> QED
    BY <1>2, <1>4, <2>1, FirstExists
<1> HIDE DEF parsed
<1>6. q = [r EXCEPT !.received = r.received + n, !.parsed = parsed]
  BY <1>1, <1>2 DEF parsed, MngConnections
<1>7. /\ q.eager = r.eager /\ q.total = r.total /\ q.sent = r.sent /\ q.state = r.state
      /\ q.write_buffer = r.write_buffer /\ q.received = r.received + n /\ q.parsed = parsed
  BY <1>2, <1>6 DEF MngConnections
<1>8. MessageDone(q) <=> Read(r.state) <= q.received
  BY <1>2, <1>4, <1>5, <1>7 DEF MessageDone
<1> QED
  BY <1>2, <1>4, <1>7, <1>8

\* Connection m goes on in its turn, or nobody moves.
GoesServed(m) == UNCHANGED mng \/ \E r : ServedInv(r) /\ mng' = [mng EXCEPT ![m] = r]

LEMMA CloseServed ==
  ASSUME NEW m \in Admins, NEW outcome, Closes(m, outcome)
  PROVE  GoesServed(m)
<1>1. PICK r : r = ClosedMng(outcome) /\ mng' = [mng EXCEPT ![m] = r]
  BY DEF Closes
<1>2. r.state = "closed"
  BY <1>1 DEF ClosedMng
<1>3. ServedInv(r)
  BY <1>2 DEF ServedInv, TurnInv
<1> QED
  BY <1>1, <1>3 DEF GoesServed

\* A reply to a request ends the input.
LEMMA ReplyServed ==
  ASSUME NEW m \in Admins, NEW r, Shape(r), r.total \in {2 * Pieces + 1, MaxPieces},
         NEW status, NEW n, Replies(m, r, status, n)
  PROVE  GoesServed(m)
<1> DEFINE told == [r EXCEPT !.status = status]
           q == MovesTo(Marshal(told, n), "REQUEST_WRITE", "WRITE")
<1>1. mng' = [mng EXCEPT ![m] = q]
  BY DEF Replies
<1>2. q.state = "REQUEST_WRITE"
  BY ReplySays
<1>3. q.total = r.total
  <2>1. Shape(told) /\ told.total = r.total
    BY DEF Shape
  <2> HIDE DEF told
  <2>2. Shape(Marshal(told, n)) /\ Marshal(told, n).total = told.total
    BY <2>1, MarshalIsLike DEF Like, Marshal, Shape
  <2>3. PICK p : p = Marshal(told, n)
    OBVIOUS
  <2>4. [p EXCEPT !.state = "REQUEST_WRITE", !.interest = "WRITE"].total = p.total
    BY <2>2, <2>3 DEF Shape
  <2> QED
    BY <2>1, <2>2, <2>3, <2>4 DEF MovesTo
<1> HIDE DEF q
<1>4. ServedInv(q)
  BY <1>2, <1>3 DEF ServedInv, TurnInv
<1> QED
  BY <1>1, <1>4 DEF GoesServed

LEMMA HelloReadServed ==
  ASSUME NEW m \in Admins, Typed(mng[m]), ServedInv(mng[m]), hello_read(m)
  PROVE  GoesServed(m)
<1>1. PICK r \in AfterRecv(mng[m], AllThereIs), method \in {"none", "userpass"} :
        mng' = [mng EXCEPT ![m] =
                 IF MessageDone(r)
                   THEN MovesTo(Marshal([r EXCEPT !.method = method], 2), "HELLO_WRITE", "WRITE")
                   ELSE r]
  BY DEF hello_read
<1>2. mng[m].state = "HELLO_READ"
  BY DEF hello_read, mng_read
<1>3. /\ Typed(r) /\ r.eager = mng[m].eager /\ r.total = mng[m].total /\ r.sent = mng[m].sent
      /\ r.state = "HELLO_READ" /\ r.write_buffer = buffer_reset
      /\ r.received <= r.sent /\ r.received \in Nat /\ r.sent \in Nat
      /\ MessageDone(r) <=> Read("HELLO_READ") <= r.received
  BY <1>2, RecvTakes, RecvIsTyped, ReadIsPieces DEF AllThereIs, ServedInv
<1>4. CASE ~MessageDone(r)
  <2>1. ServedInv(r)
    BY <1>2, <1>3, <1>4, Piecewise DEF PiecesFacts, ServedInv, TurnInv
  <2> QED
    BY <1>1, <1>4, <2>1 DEF GoesServed
<1>5. CASE MessageDone(r)
  <2> DEFINE named == [r EXCEPT !.method = method]
             p == Marshal(named, 2)
             q == MovesTo(p, "HELLO_WRITE", "WRITE")
  <2>1. mng' = [mng EXCEPT ![m] = q]
    BY <1>1, <1>5
  <2>2. SameInput(named, r) /\ named.write_buffer = r.write_buffer
    BY <1>3, FieldsKeepInput
  <2>3. Typed(named) /\ named \in MngConnections
    BY <1>3, FieldsAreTyped DEF Typed
  <2> HIDE DEF named
  <2>4. Typed(p)
    BY <2>3, MarshalIsTyped
  <2>5. p.write_buffer = buffer_write_adv(buffer_reset, 2)
    <3>1. ~(WritableBytes(buffer_reset) < 2)
      BY ManagementAssumption, BufferSizeAssumption DEF WritableBytes, buffer_reset
    <3>2. p = [named EXCEPT !.write_buffer = buffer_write_adv(buffer_reset, 2)]
      BY <1>3, <2>2, <3>1 DEF Marshal
    <3> QED
      BY <2>3, <3>2 DEF MngConnections
  <2>6. SameInput(p, named)
    BY <2>3, MarshalKeepsInput
  <2> HIDE DEF p
  <2>7. SameInput(q, p) /\ q.state = "HELLO_WRITE" /\ q.write_buffer = p.write_buffer
    BY <2>4, MovesKeepsInput
  <2>8. buffer_can_read(q.write_buffer)
    BY <2>5, <2>7 DEF buffer_can_read, buffer_write_adv, buffer_reset
  <2> HIDE DEF q
  <2>9. ServedInv(q)
    BY <1>2, <1>3, <1>5, <2>2, <2>6, <2>8, <2>7, Piecewise
    DEF PiecesFacts, ServedInv, TurnInv, SameInput
  <2> QED
    BY <2>1, <2>9 DEF GoesServed
<1> QED
  BY <1>4, <1>5

LEMMA HelloWriteServed ==
  ASSUME NEW m \in Admins, Typed(mng[m]), ServedInv(mng[m]), hello_write(m)
  PROVE  GoesServed(m)
<1>1. PICK r \in AfterSend(mng[m]) :
        \/ ~AllSent(r) /\ mng' = [mng EXCEPT ![m] = r]
        \/ Closes(m, "answered")
        \/ mng' = [mng EXCEPT ![m] = MovesTo(r, "USERPASS_READ", "READ")]
  BY DEF hello_write
<1>2. mng[m].state = "HELLO_WRITE"
  BY DEF hello_write, mng_write
<1>3. /\ Typed(r) /\ SameInput(r, mng[m]) /\ r.state = "HELLO_WRITE"
      /\ r.sent \in Nat /\ r.received \in Nat
  <2>1. Typed(r) /\ SameInput(r, mng[m]) /\ r.state = "HELLO_WRITE"
    BY <1>2, SendIsTyped, SendKeepsInput
  <2> QED
    BY <2>1, ReadIsPieces DEF Typed, MngConnections
<1>4. CASE ~AllSent(r) /\ mng' = [mng EXCEPT ![m] = r]
  <2>1. ServedInv(r)
    BY <1>2, <1>3, <1>4 DEF ServedInv, TurnInv, SameInput, AllSent
  <2> QED
    BY <1>4, <2>1 DEF GoesServed
<1>5. CASE mng' = [mng EXCEPT ![m] = MovesTo(r, "USERPASS_READ", "READ")]
  <2>1. PICK q : q = MovesTo(r, "USERPASS_READ", "READ")
    OBVIOUS
  <2>2. SameInput(q, r) /\ q.state = "USERPASS_READ"
    BY <1>3, <2>1, MovesKeepsInput
  <2>3. ServedInv(q)
    BY <1>2, <1>3, <2>2, Piecewise DEF PiecesFacts, ServedInv, TurnInv, SameInput
  <2> QED
    BY <1>5, <2>1, <2>3 DEF GoesServed
<1> QED
  BY <1>1, <1>4, <1>5, CloseServed

LEMMA AuthReadServed ==
  ASSUME NEW m \in Admins, Typed(mng[m]), ServedInv(mng[m]), auth_read(m)
  PROVE  GoesServed(m)
<1>1. mng[m].state = "USERPASS_READ"
  BY DEF auth_read, mng_read
<1>2. ASSUME NEW r \in AfterRecv(mng[m], AllThereIs)
      PROVE  /\ Typed(r) /\ r.eager = mng[m].eager /\ r.total = mng[m].total
             /\ r.sent = mng[m].sent /\ r.state = "USERPASS_READ"
             /\ r.received <= r.sent /\ r.received \in Nat /\ r.sent \in Nat
             /\ MessageDone(r) <=> Read("USERPASS_READ") <= r.received
  BY <1>1, RecvTakes, RecvIsTyped, ReadIsPieces DEF AllThereIs
<1>3. ASSUME NEW r \in AfterRecv(mng[m], AllThereIs), ~MessageDone(r), mng' = [mng EXCEPT ![m] = r]
      PROVE  GoesServed(m)
  <2>1. ServedInv(r)
    BY <1>1, <1>2, <1>3, Piecewise DEF PiecesFacts, ServedInv, TurnInv
  <2> QED
    BY <1>3, <2>1 DEF GoesServed
<1>4. ASSUME NEW r \in AfterRecv(mng[m], AllThereIs), MessageDone(r), NEW found \in BOOLEAN,
             mng' = [mng EXCEPT ![m] =
                       MovesTo([r EXCEPT !.authentication = IF found THEN 0 ELSE 1,
                                         !.accepted = found], "USERPASS_WRITE", "WRITE")]
      PROVE  GoesServed(m)
  <2>1. PICK verdict \in {0, 1} : verdict = IF found THEN 0 ELSE 1
    OBVIOUS
  <2> DEFINE p == [r EXCEPT !.authentication = verdict, !.accepted = found]
             q == MovesTo(p, "USERPASS_WRITE", "WRITE")
  <2>2. mng' = [mng EXCEPT ![m] = q]
    BY <1>4, <2>1
  <2>3. Typed(p)
    BY <1>2, FieldsAreTyped
  <2>4. SameInput(p, r)
    BY <1>2, FieldsKeepInput
  <2> HIDE DEF p
  <2>5. SameInput(q, p) /\ q.state = "USERPASS_WRITE"
    BY <2>3, MovesKeepsInput
  <2> HIDE DEF q
  <2>6. ServedInv(q)
    BY <1>1, <1>2, <1>4, <2>4, <2>5, Piecewise DEF PiecesFacts, ServedInv, TurnInv, SameInput
  <2> QED
    BY <2>2, <2>6 DEF GoesServed
<1>5. CASE Crashes
  BY <1>5 DEF Crashes, GoesServed
<1> QED
  BY <1>3, <1>4, <1>5 DEF auth_read

LEMMA AuthWriteServed ==
  ASSUME NEW m \in Admins, Typed(mng[m]), ServedInv(mng[m]), auth_write(m)
  PROVE  GoesServed(m)
<1>1. PICK r \in AfterSend(Marshal(mng[m], 2)) :
        \/ mng' = [mng EXCEPT ![m] = r]
        \/ Closes(m, "answered")
        \/ mng' = [mng EXCEPT ![m] = MovesTo(r, "REQUEST_READ_INDEX", "READ")]
  BY DEF auth_write
<1>2. mng[m].state = "USERPASS_WRITE"
  BY DEF auth_write, mng_write
<1>3. PICK p : p = Marshal(mng[m], 2)
  OBVIOUS
<1>4. Typed(p) /\ SameInput(p, mng[m]) /\ p.state = "USERPASS_WRITE"
  BY <1>2, <1>3, MarshalIsTyped, MarshalKeepsInput
<1>5. Typed(r) /\ SameInput(r, p) /\ r.state = "USERPASS_WRITE"
  BY <1>3, <1>4, SendIsTyped, SendKeepsInput
<1>6. CASE mng' = [mng EXCEPT ![m] = r]
  <2>1. ServedInv(r)
    BY <1>2, <1>4, <1>5 DEF ServedInv, TurnInv, SameInput
  <2> QED
    BY <1>6, <2>1 DEF GoesServed
<1>7. CASE mng' = [mng EXCEPT ![m] = MovesTo(r, "REQUEST_READ_INDEX", "READ")]
  <2>1. PICK q : q = MovesTo(r, "REQUEST_READ_INDEX", "READ")
    OBVIOUS
  <2>2. SameInput(q, r) /\ q.state = "REQUEST_READ_INDEX"
    BY <1>5, <2>1, MovesKeepsInput
  <2>3. ServedInv(q)
    BY <1>2, <1>4, <1>5, <2>2 DEF ServedInv, TurnInv, SameInput
  <2> QED
    BY <1>7, <2>1, <2>3 DEF GoesServed
<1> QED
  BY <1>1, <1>6, <1>7, CloseServed

\* The one byte of the index is taken alone: the parameters are still in the socket when
\* REQUEST_READ begins.
LEMMA IndexReadServed ==
  ASSUME MngInv, NEW m \in Admins, Typed(mng[m]), ServedInv(mng[m]), mng_request_index_read(m)
  PROVE  GoesServed(m)
<1>1. /\ mng[m].state = "REQUEST_READ_INDEX" /\ Shape(mng[m])
      /\ mng[m].total \in {2 * Pieces + 1, MaxPieces}
  BY DEF mng_request_index_read, mng_read, MngInv, ConnectionInv, ServedInv
<1>2. PICK r \in AfterRecv(mng[m], OneByte), index \in IndexesOf(mng[m]) :
        \/ Replies(m, r, "index_not_supported", 1)
        \/ process_mng_index(m, [r EXCEPT !.index = index])
  BY DEF mng_request_index_read
<1>3. /\ Typed(r) /\ r.eager = mng[m].eager /\ r.total = mng[m].total
      /\ r.received <= mng[m].received + 1 /\ r.received \in Nat /\ mng[m].received \in Nat
  BY <1>1, RecvTakes, RecvIsTyped DEF OneByte, Typed, MngConnections
<1>4. Shape(r)
  BY <1>1, RecvIsLike, Zenon DEF Like
<1>5. CASE Replies(m, r, "index_not_supported", 1)
  BY <1>1, <1>3, <1>4, <1>5, ReplyServed
<1>6. CASE process_mng_index(m, [r EXCEPT !.index = index])
  <2> DEFINE p == [r EXCEPT !.index = index]
  <2>1. Shape(p) /\ p.index = index /\ SameInput(p, r)
    <3>1. Shape(p) /\ p.index = index
      BY <1>4, IndexKeepsShape
    <3>2. SameInput(p, r)
      BY <1>3, FieldsKeepInput
    <3> QED
      BY <3>1, <3>2
  <2>2. Typed(p)
    BY <1>3, FieldsAreTyped DEF IndexesOf, Indexes
  <2>3. process_mng_index(m, p)
    BY <1>6
  <2> HIDE DEF p
  <2>4. p.total \in {2 * Pieces + 1, MaxPieces}
    BY <1>1, <1>3, <2>1 DEF SameInput
  <2>5. \/ UNCHANGED mng
        \/ \E status, n : Replies(m, p, status, n)
        \/ p.index \in WithParams /\ mng' = [mng EXCEPT ![m] = MovesTo(p, "REQUEST_READ", "READ")]
    BY <2>3 DEF process_mng_index, list_users_mng_request_marshall, Crashes
  <2>6. CASE p.index \in WithParams /\ mng' = [mng EXCEPT ![m] = MovesTo(p, "REQUEST_READ", "READ")]
    <3>1. mng[m].total = MaxPieces
      BY <2>1, <2>6 DEF IndexesOf
    <3>2. PICK q : q = MovesTo(p, "REQUEST_READ", "READ")
      OBVIOUS
    <3>3. SameInput(q, p) /\ q.state = "REQUEST_READ"
      BY <2>2, <3>2, MovesKeepsInput
    <3>4. ServedInv(q)
      BY <1>1, <1>3, <2>1, <3>1, <3>3, Piecewise DEF PiecesFacts, ServedInv, TurnInv, SameInput
    <3> QED
      BY <2>6, <3>2, <3>4 DEF GoesServed
  <2> QED
    BY <2>1, <2>4, <2>5, <2>6, ReplyServed DEF GoesServed
<1> QED
  BY <1>2, <1>5, <1>6

LEMMA RequestReadServed ==
  ASSUME MngInv, NEW m \in Admins, Typed(mng[m]), ServedInv(mng[m]), mng_request_read(m)
  PROVE  GoesServed(m)
<1>1. /\ mng[m].state = "REQUEST_READ" /\ Shape(mng[m])
      /\ mng[m].total \in {2 * Pieces + 1, MaxPieces}
  BY DEF mng_request_read, mng_read, MngInv, ConnectionInv, ServedInv
<1>2. PICK r \in AfterRecv(mng[m], AllThereIs) :
        \/ ~MessageDone(r) /\ mng' = [mng EXCEPT ![m] = r]
        \/ UNCHANGED mng
        \/ \E status, n : Replies(m, r, status, n)
  BY DEF mng_request_read, process_mng_params_request, Crashes
<1>3. /\ r.eager = mng[m].eager /\ r.total = mng[m].total /\ r.state = "REQUEST_READ"
      /\ r.received \in Nat
      /\ MessageDone(r) <=> Read("REQUEST_READ") <= r.received
  BY <1>1, RecvTakes, ReadIsPieces DEF AllThereIs
<1>4. Shape(r)
  BY <1>1, RecvIsLike, Zenon DEF Like
<1>5. CASE ~MessageDone(r) /\ mng' = [mng EXCEPT ![m] = r]
  <2>1. ServedInv(r)
    BY <1>1, <1>3, <1>5, Piecewise DEF PiecesFacts, ServedInv, TurnInv
  <2> QED
    BY <1>5, <2>1 DEF GoesServed
<1> QED
  BY <1>1, <1>2, <1>3, <1>4, <1>5, ReplyServed DEF GoesServed

LEMMA RequestWriteServed ==
  ASSUME NEW m \in Admins, Typed(mng[m]), ServedInv(mng[m]), mng_request_write(m)
  PROVE  GoesServed(m)
<1>1. mng[m].state = "REQUEST_WRITE"
  BY DEF mng_request_write, mng_write
<1>2. ASSUME NEW r \in AfterSend(mng[m]) PROVE ServedInv(r)
  <2>1. SameInput(r, mng[m]) /\ r.state = "REQUEST_WRITE"
    BY <1>1, SendKeepsInput
  <2> QED
    BY <1>1, <2>1 DEF ServedInv, TurnInv, SameInput
<1> QED
  BY <1>2, CloseServed DEF mng_request_write, GoesServed

LEMMA AcceptServed ==
  ASSUME NEW m \in Admins, mng_passive_accept(m)
  PROVE  GoesServed(m)
<1>1. PICK eager \in BOOLEAN, total \in {2 * Pieces + 1, MaxPieces} :
        mng' = [mng EXCEPT ![m] = mng_new(eager, total)]
  BY DEF mng_passive_accept
<1>2. PICK c : c = ClosedMng("none") /\ c \in MngConnections
  BY ClosedIsTyped DEF Typed
<1>3. PICK q : q = mng_new(eager, total)
  OBVIOUS
<1>4. q = [c EXCEPT !.state = "HELLO_READ", !.eager = eager, !.total = total]
  BY <1>2, <1>3 DEF mng_new
<1>5. /\ q.state = "HELLO_READ" /\ q.total = total /\ q.received = c.received /\ q.sent = c.sent
      /\ q.write_buffer = c.write_buffer
  BY <1>2, <1>4 DEF MngConnections
<1>6. c.received = 0 /\ c.sent = 0 /\ c.write_buffer = buffer_reset
  BY <1>2 DEF ClosedMng
<1>7. ServedInv(q)
  BY <1>5, <1>6, Piecewise DEF PiecesFacts, ServedInv, TurnInv
<1> QED
  BY <1>1, <1>3, <1>7 DEF GoesServed

LEMMA SendsServed ==
  ASSUME NEW m \in Admins, Typed(mng[m]), ServedInv(mng[m]), ClientSends(m)
  PROVE  GoesServed(m)
<1> DEFINE r == mng[m]
           q == [r EXCEPT !.sent = @ + 1]
<1>1. mng' = [mng EXCEPT ![m] = q] /\ r.sent < MaySend(r)
  BY DEF ClientSends
<1>2. r \in MngConnections /\ r.sent \in Nat /\ r.total \in Nat
  BY ReadIsPieces DEF Typed, MngConnections
<1>3. /\ q.eager = r.eager /\ q.total = r.total /\ q.sent = r.sent + 1 /\ q.state = r.state
      /\ q.received = r.received /\ q.write_buffer = r.write_buffer
  BY <1>2 DEF MngConnections
<1>4. ~r.eager /\ r.state # "REQUEST_READ_INDEX" => r.sent < Read(r.state)
  <2>1. ASSUME ~r.eager, r.state # "REQUEST_READ_INDEX" PROVE r.sent < Read(r.state)
    <3>1. MaySend(r) = Min({r.total, Read(r.state)})
      BY <2>1 DEF MaySend
    <3>2. Read(r.state) \in Nat
      BY ReadIsPieces
    <3>3. Min({r.total, Read(r.state)}) <= Read(r.state) /\ Min({r.total, Read(r.state)}) \in Nat
      BY <1>2, <3>2, FirstExists
    <3>4. PICK most, there : most = MaySend(r) /\ there = Read(r.state)
      OBVIOUS
    <3> QED
      BY <1>1, <1>2, <3>1, <3>2, <3>3, <3>4
  <2> QED
    BY <2>1
<1> HIDE DEF q
<1>5. ServedInv(q)
  BY <1>2, <1>3, <1>4, Piecewise DEF PiecesFacts, ServedInv, TurnInv
<1> QED
  BY <1>1, <1>5 DEF GoesServed

LEMMA NextTurns == MngInv /\ MngTypes /\ TurnsInv /\ [Next]_vars => TurnsInv'
<1> SUFFICES ASSUME MngInv, MngTypes, TurnsInv, [Next]_vars PROVE TurnsInv'
  OBVIOUS
<1>1. CASE UNCHANGED mng
  BY <1>1 DEF TurnsInv, ServedInv, TurnInv
<1>2. ASSUME NEW m \in Admins, NEW r, ServedInv(r), mng' = [mng EXCEPT ![m] = r] PROVE TurnsInv'
  <2>1. DOMAIN mng = Admins
    BY DEF MngInv
  <2>2. mng'[m] = r /\ \A n \in Admins \ {m} : mng'[n] = mng[n]
    BY <1>2, <2>1
  <2> QED
    BY <1>2, <2>2 DEF TurnsInv, ServedInv, TurnInv
<1>3. ASSUME NEW m \in Admins,
             mng_passive_accept(m) \/ ClientSends(m) \/ mng_done(m) \/ Handlers(m)
      PROVE  GoesServed(m)
  <2>1. Typed(mng[m]) /\ ServedInv(mng[m])
    BY DEF MngTypes, TurnsInv
  <2>2. CASE mng_passive_accept(m) \/ ClientSends(m) \/ mng_done(m)
    BY <2>1, <2>2, AcceptServed, SendsServed, CloseServed DEF mng_done
  <2>3. CASE Handlers(m)
    BY <2>1, <2>3, HelloReadServed, HelloWriteServed, AuthReadServed, AuthWriteServed,
       IndexReadServed, RequestReadServed, RequestWriteServed DEF Handlers
  <2> QED
    BY <1>3, <2>2, <2>3
<1>4. CASE \E s \in Sessions :
             \/ socks_hello(s) \/ auth_process(s) \/ socksv5_done(s) \/ connecting_write(s)
             \/ request_write(s) \/ copy_done(s)
  BY <1>1, <1>4 DEF socks_hello, auth_process, socksv5_done, connecting_write, request_write, copy_done
<1>5. CASE UNCHANGED vars
  BY <1>1, <1>5 DEF vars
<1> QED
  BY <1>1, <1>2, <1>3, <1>4, <1>5 DEF Next, GoesServed

LEMMA InitTurns == Init => TurnsInv
<1> SUFFICES ASSUME Init PROVE TurnsInv
  OBVIOUS
<1>1. \A m \in Admins : mng[m].state = "closed"
  BY DEF Init, ClosedMng
<1> QED
  BY <1>1 DEF TurnsInv, ServedInv, TurnInv

\* The handler of r's state finds what it needs: input in the socket, or output to send.
HasWork(r) ==
  /\ r.state \in ReadingStates => AfterRecv(r, OneByte) # {}
  /\ r.state = "HELLO_WRITE" => AfterSend(r) # {}
  /\ r.state = "USERPASS_WRITE" => AfterSend(Marshal(r, 2)) # {}

\* The client waits for its replies and has said everything; in REQUEST_WRITE, the end of
\* a reply that had no room is a step too.
RequestIsPending(r) == ~r.eager /\ r.state # "closed" /\ r.sent = r.total

LEMMA ServedHasWork ==
  ASSUME NEW r, Typed(r), ServedInv(r), RequestIsPending(r)
  PROVE  HasWork(r)
<1>0. /\ r.sent \in Nat /\ r.received \in Nat /\ r.total \in {2 * Pieces + 1, MaxPieces}
      /\ r \in MngConnections /\ WellFormed(r.write_buffer) /\ TurnInv(r)
      /\ r.sent = r.total
  BY ReadIsPieces DEF Typed, MngConnections, ServedInv, RequestIsPending
<1>1. ASSUME r.state \in ReadingStates PROVE AfterRecv(r, OneByte) # {}
  <2>1. r.received < r.sent
    BY <1>0, <1>1, Piecewise DEF ReadingStates, PiecesFacts, TurnInv
  <2> DEFINE room == Min({OneByte, r.sent - r.received})
  <2>2. room \in Nat /\ 1 <= room
    <3>1. r.sent - r.received \in Nat /\ 1 <= r.sent - r.received
      BY <1>0, <2>1
    <3>2. room \in {OneByte, r.sent - r.received}
      BY <3>1, FirstExists DEF OneByte
    <3> QED
      BY <3>1, <3>2 DEF OneByte
  <2> HIDE DEF room
  <2>3. 1 \in 1..room
    BY <2>2
  <2>4. \A q \in 1..room :
          [r EXCEPT !.received = @ + q, !.parsed = Min({r.received + q, Read(r.state)})]
            \in AfterRecv(r, OneByte)
    BY DEF AfterRecv, room
  <2> QED
    BY <2>3, <2>4
<1>2. ASSUME NEW q, buffer_can_read(q.write_buffer), WellFormed(q.write_buffer)
      PROVE  AfterSend(q) # {}
  <2>1. 1 \in 1..ReadableBytes(q.write_buffer)
    BY <1>2 DEF buffer_can_read, WellFormed, Cursors, ReadableBytes
  <2> QED
    BY <2>1 DEF AfterSend
<1>3. ASSUME r.state = "HELLO_WRITE" PROVE AfterSend(r) # {}
  BY <1>0, <1>2, <1>3 DEF ServedInv
<1>4. AfterSend(Marshal(r, 2)) # {}
  <2> DEFINE q == Marshal(r, 2)
  <2>1. WellFormed(q.write_buffer)
    BY MarshalIsTyped DEF Typed
  <2>2. buffer_can_read(q.write_buffer)
    <3>1. PICK b : b = r.write_buffer /\ WellFormed(b)
      BY <1>0
    <3>2. b.read \in 0..BufferSize /\ b.write \in 0..BufferSize /\ b.read <= b.write
          /\ (b.read = b.write => b.write = 0) /\ BufferSize \in Nat /\ BufferSize >= 5
      BY <3>1, ManagementAssumption, BufferSizeAssumption DEF WellFormed, Cursors
    <3>3. CASE WritableBytes(b) < 2
      <4>1. q = r
        BY <3>1, <3>3 DEF Marshal
      <4>2. b.write - b.read > 0
        BY <3>2, <3>3 DEF WritableBytes
      <4> QED
        BY <3>1, <4>1, <4>2 DEF buffer_can_read
    <3>4. CASE ~(WritableBytes(b) < 2)
      <4>1. q = [r EXCEPT !.write_buffer = buffer_write_adv(b, 2)]
        BY <3>1, <3>4 DEF Marshal
      <4>2. q.write_buffer = [b EXCEPT !.write = b.write + 2]
        BY <1>0, <4>1 DEF MngConnections, buffer_write_adv
      <4>3. q.write_buffer.write = b.write + 2 /\ q.write_buffer.read = b.read
        BY <3>1, <4>2 DEF WellFormed, Cursors
      <4> QED
        BY <3>2, <4>3 DEF buffer_can_read
    <3> QED
      BY <3>3, <3>4
  <2> QED
    BY <1>2, <2>1, <2>2
<1> QED
  BY <1>1, <1>3, <1>4 DEF HasWork

(* A client that waits for the replies of the negotiation and has sent its whole
   request never leaves the proxy with nothing to do: whenever the state of its
   connection reads, the bytes that are missing are still in the socket, not in
   read_buffer where no event tells of them, and whenever it writes there is a
   reply to send; and the connection is polled for that.  This is what
   mng_request_index_read receives its one byte for, and the safety half of
   RequestsAreAnswered, which adds that the steps are taken. *)
THEOREM PatientRequestIsWoken ==
  Spec => [](\A m \in Admins : RequestIsPending(mng[m]) =>
               /\ HasWork(mng[m])
               /\ mng[m].interest = "READ" <=> mng[m].state \in ReadingStates)
<1> DEFINE Woken == \A m \in Admins : RequestIsPending(mng[m]) =>
                      /\ HasWork(mng[m])
                      /\ mng[m].interest = "READ" <=> mng[m].state \in ReadingStates
<1>1. MngInv /\ MngTypes /\ TurnsInv => Woken
  <2> SUFFICES ASSUME MngInv, MngTypes, TurnsInv, NEW m \in Admins, RequestIsPending(mng[m])
               PROVE  /\ HasWork(mng[m])
                      /\ mng[m].interest = "READ" <=> mng[m].state \in ReadingStates
    OBVIOUS
  <2>1. HasWork(mng[m])
    BY ServedHasWork DEF MngTypes, TurnsInv
  <2>2. mng[m].interest = "READ" <=> mng[m].state \in ReadingStates
    BY DEF MngInv, ConnectionInv, RequestIsPending
  <2> QED
    BY <2>1, <2>2
<1>2. Spec => [](MngInv /\ MngTypes /\ TurnsInv)
  BY InitTable, NextTable, InitMng, NextMng, InitTypes, NextTypes, InitTurns, NextTurns,
     PTL DEF Spec
<1> QED
  BY <1>1, <1>2, PTL
=============================================================================
