------------------------------ MODULE Parsers ------------------------------
(***************************************************************************)
(* The parsers of the handshake, byte by byte: hello.c, new_parser.c with  *)
(* the tables of substates of authentication.c and management_request.c,   *)
(* and request_parser.c.  A parser is a record, and feeding it a byte      *)
(* gives the next one.                                                     *)
(***************************************************************************)
EXTENDS Integers, Sequences

CONSTANTS
  MAX_FQDN_SIZE,          \* 255 in the code
  IPV4_LEN, IPV6_LEN      \* 4 and 16

Byte == 0..255

ASSUME ParsersAssumption ==
  MAX_FQDN_SIZE \in 1..255 /\ IPV4_LEN \in 1..255 /\ IPV6_LEN \in 1..255
-----------------------------------------------------------------------------
(* hello.c *)

NO_ACCEPTABLE_METHODS == 255

\* The parser and, in chosen, the d->method that its callback writes.
hello_parser_init(version, method) ==
  [state |-> "hello_version", remaining |-> 0, version |-> version, method |-> method,
   chosen |-> NO_ACCEPTABLE_METHODS]

\* A mutated form: whatever is offered last is chosen.
on_hello_method_Last(p, method) == [p EXCEPT !.chosen = method]

on_hello_method(p, method) == [p EXCEPT !.chosen = IF method = p.method THEN method ELSE @]

hello_parser_feed(p, b) ==
  CASE p.state = "hello_version" ->
         [p EXCEPT !.state = IF b = p.version THEN "hello_nmethods"
                             ELSE "hello_error_unsupported_version"]
    [] p.state = "hello_nmethods" ->
         [p EXCEPT !.remaining = b, !.state = IF b = 0 THEN "hello_done" ELSE "hello_methods"]
    [] p.state = "hello_methods" ->
         [on_hello_method(p, b) EXCEPT !.remaining = @ - 1,
                                       !.state = IF p.remaining = 1 THEN "hello_done" ELSE @]
    [] OTHER -> p

hello_is_done(p) == p.state \in {"hello_done", "hello_error_unsupported_version"}
-----------------------------------------------------------------------------
(* new_parser.c: a table of substates, of which index is the current one. *)

NotAllocated == -1

Substate(state, size, check) ==
  [state |-> state, size |-> size, remaining |-> size, result |-> << >>, check |-> check]
ReadByte(check) == Substate("long_read", 1, check)
ReadLength == Substate("read_N", NotAllocated, "none")
ReadString == Substate("long_read", NotAllocated, "none")    \* result is NULL at first

parser_init(substates) == [current |-> substates[1].state, index |-> 1, states |-> substates]

\* The tables of auth_read_init, mng_request_index_init and
\* mng_request_index_add_user_parser_init, ..._delete_user_..., ..._yes_no_value.
auth_parser_init ==
  parser_init(<<ReadByte("version"), ReadLength, ReadString, ReadLength, ReadString>>)
mng_index_parser_init == parser_init(<<ReadByte("index")>>)
add_user_parser_init == parser_init(<<ReadLength, ReadString, ReadLength, ReadString>>)
delete_user_parser_init == parser_init(<<ReadLength, ReadString>>)
yes_no_parser_init == parser_init(<<ReadByte("none")>>)

CheckPasses(field) ==
  /\ field.check = "version" => field.result = <<1>>           \* checkVersion
  /\ field.check = "index" => field.result[1] \in 0..13        \* checkIndex

NextSubstate(p) ==
  IF p.index = Len(p.states) THEN [p EXCEPT !.index = @ + 1, !.current = "done_read"]
  ELSE [p EXCEPT !.index = @ + 1, !.current = p.states[p.index + 1].state]

\* The length of the string that the next substate reads.
WithLength(p, b) ==
  [p EXCEPT !.states[p.index + 1].size = b, !.states[p.index + 1].remaining = b]

\* A mutated form: a string of no bytes is read like the others.
read_N_NoSkip(p, b) ==
  IF p.index = Len(p.states) THEN [p EXCEPT !.current = "error_read"]
  ELSE NextSubstate(WithLength(p, b))

\* A string of no bytes is skipped.
read_N(p, b) ==
  IF p.index = Len(p.states) THEN [p EXCEPT !.current = "error_read"]
  ELSE IF b = 0 THEN NextSubstate(NextSubstate(WithLength(p, b)))
  ELSE NextSubstate(WithLength(p, b))

long_read(p, b) ==
  LET q == [p EXCEPT !.states[p.index].result = Append(@, b),
                     !.states[p.index].remaining = @ - 1]
  IN CASE q.states[p.index].remaining > 0 -> q
       [] q.states[p.index].remaining <= 0 /\ CheckPasses(q.states[p.index]) -> NextSubstate(q)
       [] OTHER -> [q EXCEPT !.current = "error_read"]

parser_feed(p, b) ==
  CASE p.current = "read_N"    -> read_N(p, b)
    [] p.current = "long_read" -> long_read(p, b)
    [] OTHER                   -> p

is_done(p) == p.current \in {"done_read", "error_read"}
-----------------------------------------------------------------------------
(* request_parser.c *)

request_parser_init ==
  [state |-> "request_version", read |-> 0, remaining |-> 0,
   dest_addr_type |-> 0, dest_addr |-> << >>, dest_port |-> << >>]

remaining_set(p, n) == [p EXCEPT !.remaining = n, !.read = 0]

\* A mutated form: an address of the other family's length.
AddressLength_Swapped(type) == IF type = 1 THEN IPV6_LEN ELSE IPV4_LEN
AddressLength(type) == IF type = 1 THEN IPV4_LEN ELSE IPV6_LEN

address_type(p, b) ==
  LET q == [p EXCEPT !.dest_addr_type = b] IN
  CASE b \in {1, 4} -> [remaining_set(q, AddressLength(b)) EXCEPT !.state = "request_dest_addr"]
    [] b = 3        -> [q EXCEPT !.state = "request_dest_addr_fqdn"]
    [] OTHER        -> [q EXCEPT !.state = "request_error_unsupported_type"]

\* A name of no bytes writes host[-1], and reads one byte for it nonetheless.
dest_address_fqdn(p, b) ==
  IF b > MAX_FQDN_SIZE - 1 THEN [p EXCEPT !.state = "request_error"]
  ELSE [remaining_set(p, b) EXCEPT !.state = "request_dest_addr"]

dest_addr(p, b) ==
  LET q == [p EXCEPT !.dest_addr = Append(@, b), !.read = @ + 1] IN
  IF q.read >= q.remaining
    THEN [remaining_set(q, 2) EXCEPT !.state = "request_dest_port"]
    ELSE q

dest_port(p, b) ==
  [p EXCEPT !.dest_port = Append(@, b), !.read = @ + 1,
            !.state = IF p.read + 1 >= p.remaining THEN "request_done" ELSE @]

request_parser_feed(p, b) ==
  CASE p.state = "request_version" ->
         [p EXCEPT !.state = IF b = 5 THEN "request_cmd" ELSE "request_error_unsupported_version"]
    [] p.state = "request_cmd" ->
         [p EXCEPT !.state = IF b = 1 THEN "request_rsv" ELSE "request_error_unsupported_cmd"]
    [] p.state = "request_rsv"            -> [p EXCEPT !.state = "request_atyp"]
    [] p.state = "request_atyp"           -> address_type(p, b)
    [] p.state = "request_dest_addr_fqdn" -> dest_address_fqdn(p, b)
    [] p.state = "request_dest_addr"      -> dest_addr(p, b)
    [] p.state = "request_dest_port"      -> dest_port(p, b)
    [] OTHER                              -> p       \* done, or an error: for ever

request_is_done(p) == p.state = "request_done"
-----------------------------------------------------------------------------
(* What the three have in common: a parser of one kind is fed the bytes of a
   buffer until it is done. *)

Feed(kind, p, b) ==
  CASE kind = "hello"   -> hello_parser_feed(p, b)
    [] kind = "fields"  -> parser_feed(p, b)
    [] kind = "request" -> request_parser_feed(p, b)

Done(kind, p) ==
  CASE kind = "hello"   -> hello_is_done(p)
    [] kind = "fields"  -> is_done(p)
    [] kind = "request" -> request_is_done(p)

\* A mutated form: the last byte is left for the next call.
Stops_OneLess(kind, after, last) ==
  {k \in 1..last :
     /\ Done(kind, after[k]) \/ k >= last - 1
     /\ \A i \in 1..(k - 1) : ~Done(kind, after[i])}

\* Where the loop of a parser stops: when the parser is done, or at the last byte.
Stops(kind, after, last) ==
  {k \in 1..last :
     /\ Done(kind, after[k]) \/ k = last
     /\ \A i \in 1..(k - 1) : ~Done(kind, after[i])}

\* What feeding p with bytes comes to: the parser and the number of bytes that it took.
Consume(kind, p, bytes) ==
  LET after[i \in 0..Len(bytes)] == IF i = 0 THEN p ELSE Feed(kind, after[i - 1], bytes[i])
  IN {[parser |-> after[k], count |-> k] : k \in Stops(kind, after, Len(bytes))}
=============================================================================
