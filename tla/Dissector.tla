----------------------------- MODULE Dissector -----------------------------
(***************************************************************************)
(* The dissector of POP3 credentials (password_parser.c), which is fed     *)
(* what either side of a relay sends.  It keeps a user name and a password *)
(* in blocks that grow by BUFFER_SIZE bytes.  Their contents are left out; *)
(* what is kept is how large each block is, whether it has been freed, and *)
(* whether one was written beyond its end, or used or freed after a free.  *)
(***************************************************************************)
EXTENDS Integers, Sequences, SequencesExt

CONSTANTS
  UserWord,      \* user_reserved_pop3_word, "user " in the code
  PassWord,      \* pass_reserved_pop3_word, "+OK\r\npass "
  MaxName,       \* 255 in the code
  BUFFER_SIZE    \* 5 in the code

ASSUME DissectorAssumption ==
  Len(UserWord) >= 2 /\ Len(PassWord) >= 2 /\ MaxName \in Nat /\ BUFFER_SIZE \in Nat \ {0}

CR == 13
LF == 10
IsAscii(b) == b <= 127

\* A block is the number of its bytes, or:
NoBlock == 0      \* NULL
Dangling == -1

Dissectors ==
  [current : {"user_word_search", "user_read", "pass_word_search", "pass_read"},
   current_index : Nat, last : BOOLEAN,
   username : Nat \cup {Dangling}, password : Nat \cup {Dangling},
   fault : BOOLEAN]

password_parser_init ==
  [current |-> "user_word_search", current_index |-> 0, last |-> FALSE,
   username |-> NoBlock, password |-> NoBlock, fault |-> FALSE]

\* free(p->f)
WithFreed(p, f) ==
  [p EXCEPT ![f] = IF @ = NoBlock THEN NoBlock ELSE Dangling, !.fault = @ \/ p[f] = Dangling]

checkSize(p, f) ==
  LET size == p.current_index IN
  CASE size = 0 -> [p EXCEPT ![f] = BUFFER_SIZE]
    [] size # 0 /\ size % BUFFER_SIZE = 0 ->
         [p EXCEPT ![f] = size + BUFFER_SIZE, !.fault = @ \/ p[f] = Dangling]
    [] OTHER -> p

\* p->f = checkSize(p->f, p->current_index); p->f[p->current_index] = ...
Stores(p, f) ==
  LET q == checkSize(p, f) IN [q EXCEPT !.fault = @ \/ q[f] <= p.current_index]

\* The search for the first word, at byte b.
Restarts(p, b) ==
  [p EXCEPT !.current = "user_word_search", !.last = FALSE,
            !.current_index = IF b = UserWord[1] THEN 1 ELSE 0]

\* A mutated form: the name is freed, whether one was stored or not.
user_read_reset_Frees(p, b) == Restarts(WithFreed(p, "username"), b)

\* The index is zero when it is tested, so that nothing is freed.
user_read_reset(p, b) == Restarts(p, b)

pass_read_reset(p, b) ==
  LET q == IF p.current_index # 0 THEN WithFreed(p, "password") ELSE p
  IN Restarts(WithFreed(q, "username"), b)

Matched(p, word, next) ==
  IF p.current_index + 1 = Len(word) THEN [p EXCEPT !.current = next, !.current_index = 0]
  ELSE [p EXCEPT !.current_index = @ + 1]

user_word_search_handler(p, b) ==
  IF b = UserWord[p.current_index + 1] THEN Matched(p, UserWord, "user_read")
  ELSE Restarts(p, b)

pass_word_search_handler(p, b) ==
  IF b = PassWord[p.current_index + 1] THEN Matched(p, PassWord, "pass_read")
  ELSE Restarts(WithFreed(p, "username"), b)

TooLong(p) == p.current_index >= MaxName
Broken(p, b) == TooLong(p) \/ (p.last /\ b # LF)

user_read_handler(p, b) ==
  CASE Broken(p, b) \/ ~IsAscii(b) -> user_read_reset(p, b)
    [] ~Broken(p, b) /\ b = CR -> [p EXCEPT !.last = TRUE]
    [] ~Broken(p, b) /\ b = LF ->
         [Stores(p, "username") EXCEPT !.current = "pass_word_search",
                                       !.current_index = 0, !.last = FALSE]
    [] OTHER -> [Stores(p, "username") EXCEPT !.current_index = @ + 1]

\* Prints username and password, which must be allocated.
Reports(p) == [p EXCEPT !.fault = @ \/ p.username <= 0 \/ p.password <= 0]

pass_read_handler(p, b) ==
  CASE Broken(p, b) -> pass_read_reset(p, b)
    [] ~Broken(p, b) /\ b = CR -> [p EXCEPT !.last = TRUE]
    [] ~Broken(p, b) /\ b = LF -> pass_read_reset(Reports(Stores(p, "password")), b)
    [] ~Broken(p, b) /\ ~IsAscii(b) -> user_read_reset(p, b)
    [] OTHER -> [Stores(p, "password") EXCEPT !.current_index = @ + 1]

password_parser_feed(p, b) ==
  CASE p.current = "user_word_search" -> user_word_search_handler(p, b)
    [] p.current = "user_read"        -> user_read_handler(p, b)
    [] p.current = "pass_word_search" -> pass_word_search_handler(p, b)
    [] p.current = "pass_read"        -> pass_read_handler(p, b)

password_consume(p, bytes) == FoldLeft(password_parser_feed, p, bytes)
=============================================================================
