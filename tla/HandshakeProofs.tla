--------------------------- MODULE HandshakeProofs ---------------------------
(***************************************************************************)
(* Proofs about Dialogue: the dissector of credentials never misuses its   *)
(* memory, and what the parsers of the handshake have understood when they *)
(* are done is what the client sent, however the bytes came.               *)
(***************************************************************************)
EXTENDS DialogueProofs, FiniteSetTheorems, WellFoundedInduction

(* Induction. *)

LEMMA Smallest ==
  ASSUME NEW U \in SUBSET Nat, U # {}
  PROVE  \E x \in U : \A y \in U : x <= y
<1>1. PICK x \in U : \A y \in U : ~(<<y, x>> \in OpToRel(<, Nat))
  BY NatLessThanWellFounded, WFMin, Zenon
<1>2. \A y \in U : ~(y < x)
  BY <1>1 DEF OpToRel
<1> QED
  BY <1>2

LEMMA Naturals ==
  ASSUME NEW U, 0 \in U, \A n \in Nat : n \in U => n + 1 \in U
  PROVE  Nat \subseteq U
<1> SUFFICES ASSUME Nat \ U # {} PROVE FALSE
  OBVIOUS
<1>1. PICK x \in Nat \ U : \A y \in Nat \ U : x <= y
  BY Smallest
<1>2. x # 0 /\ x - 1 \in Nat /\ ~(x <= x - 1)
  BY <1>1
<1>3. x - 1 \in U /\ (x - 1) + 1 = x
  BY <1>1, <1>2
<1> QED
  BY <1>1, <1>2, <1>3
-----------------------------------------------------------------------------
(* The dissector. *)

\* A block in which `used` bytes have been written: it grows by BUFFER_SIZE.
Holds(size, used) == size \in Nat /\ size % BUFFER_SIZE = 0 /\ used <= size

Allocated(size) == size \in Nat \ {0}

DissectorInv(p) ==
  /\ p \in Dissectors /\ ~p.fault
  /\ p.current = "user_read" /\ p.current_index # 0 => Holds(p.username, p.current_index)
  /\ p.current \in {"pass_word_search", "pass_read"} => Allocated(p.username)
  /\ p.current = "pass_read" /\ p.current_index # 0 => Holds(p.password, p.current_index)

LEMMA Multiples ==
  ASSUME NEW d \in Nat \ {0}, NEW n \in Nat, NEW k \in Nat, n = d * k
  PROVE  n % d = 0
OBVIOUS

\* Sizes are multiples of BUFFER_SIZE: what is not a multiple is below its block.
LEMMA BlocksGrow ==
  ASSUME NEW n \in Nat
  PROVE  /\ n = 0 => Holds(BUFFER_SIZE, n + 1)
         /\ n % BUFFER_SIZE = 0 => Holds(n + BUFFER_SIZE, n + 1)
         /\ \A size : n % BUFFER_SIZE # 0 /\ Holds(size, n) => Holds(size, n + 1)
<1>0. BUFFER_SIZE \in Nat \ {0}
  BY DissectorAssumption
<1> DEFINE B == BUFFER_SIZE
<1> HIDE DEF B
<1>1. B \in Nat \ {0}
  BY <1>0 DEF B
<1>2. B % B = 0
  BY <1>1
<1>3. n % B = 0 => (n + B) % B = 0
  <2> SUFFICES ASSUME n % B = 0 PROVE (n + B) % B = 0
    OBVIOUS
  <2>1. PICK k \in Nat : n = B * k
    BY <1>1
  <2>2. n + B = B * (k + 1) /\ n + B \in Nat /\ k + 1 \in Nat
    BY <1>1, <2>1
  <2> QED
    BY <1>1, <2>2, Multiples
<1>4. n + 1 <= n + B /\ n + B \in Nat /\ (n = 0 => n + 1 <= B)
  BY <1>1
<1>5. \A size : n % B # 0 /\ size \in Nat /\ size % B = 0 /\ n <= size => n + 1 <= size
  BY <1>1
<1> QED
  BY <1>1, <1>2, <1>3, <1>4, <1>5 DEF Holds, B

\* A byte of a name or a password goes into a block that has room for it.
LEMMA StoresUser ==
  ASSUME NEW p, DissectorInv(p), p.current = "user_read", NEW q, q = Stores(p, "username")
  PROVE  /\ q \in Dissectors /\ ~q.fault
         /\ q.current_index = p.current_index /\ q.current = p.current
         /\ q.password = p.password
         /\ Holds(q.username, p.current_index + 1)
<1> DEFINE n == p.current_index
           c == checkSize(p, "username")
<1>1. p \in Dissectors /\ p.fault = FALSE /\ n \in Nat /\ BUFFER_SIZE \in Nat \ {0}
  BY DissectorAssumption DEF DissectorInv, Dissectors
<1>2. \E size : Holds(size, n + 1) /\ c = [p EXCEPT !.username = size]
  <2>1. CASE n = 0
    BY <1>1, <2>1, BlocksGrow DEF checkSize
  <2>2. CASE n # 0 /\ n % BUFFER_SIZE = 0
    <3>1. Holds(p.username, n) /\ Holds(n + BUFFER_SIZE, n + 1)
      BY <1>1, <2>2, BlocksGrow DEF DissectorInv
    <3>2. p.username # Dangling
      BY <3>1 DEF Holds, Dangling
    <3>3. c = [p EXCEPT !.username = n + BUFFER_SIZE, !.fault = @ \/ p.username = Dangling]
      BY <1>1, <2>2 DEF checkSize
    <3>4. c = [p EXCEPT !.username = n + BUFFER_SIZE]
      BY <1>1, <3>2, <3>3 DEF Dissectors
    <3> QED
      BY <3>1, <3>4
  <2>3. CASE n # 0 /\ n % BUFFER_SIZE # 0
    <3>1. c = p
      BY <1>1, <2>3 DEF checkSize
    <3>2. Holds(p.username, n + 1)
      BY <1>1, <2>3, BlocksGrow DEF DissectorInv
    <3>3. p = [p EXCEPT !.username = p.username]
      BY <1>1 DEF Dissectors
    <3> QED
      BY <3>1, <3>2, <3>3
  <2> QED
    BY <2>1, <2>2, <2>3
<1>3. q = [c EXCEPT !.fault = @ \/ c.username <= n]
  BY DEF Stores
<1> HIDE DEF c, n
<1>4. PICK size : Holds(size, n + 1) /\ c = [p EXCEPT !.username = size]
  BY <1>2
<1>5. size \in Nat /\ ~(size <= n)
  BY <1>1, <1>4 DEF Holds
<1>6. c.username = size /\ c.fault = FALSE
  BY <1>1, <1>4 DEF Dissectors
<1>7. q = [p EXCEPT !.username = size, !.fault = FALSE]
  BY <1>1, <1>3, <1>4, <1>5, <1>6
<1>8. q \in Dissectors
  BY <1>1, <1>5, <1>7 DEF Dissectors
<1>9. /\ q.fault = FALSE /\ q.current_index = n /\ q.current = p.current
      /\ q.password = p.password /\ q.username = size
  BY <1>1, <1>7 DEF Dissectors, n
<1> QED
  BY <1>4, <1>8, <1>9 DEF n

LEMMA StoresPass ==
  ASSUME NEW p, DissectorInv(p), p.current = "pass_read", NEW q, q = Stores(p, "password")
  PROVE  /\ q \in Dissectors /\ ~q.fault
         /\ q.current_index = p.current_index /\ q.current = p.current
         /\ q.username = p.username
         /\ Holds(q.password, p.current_index + 1)
<1> DEFINE n == p.current_index
           c == checkSize(p, "password")
<1>1. p \in Dissectors /\ p.fault = FALSE /\ n \in Nat /\ BUFFER_SIZE \in Nat \ {0}
  BY DissectorAssumption DEF DissectorInv, Dissectors
<1>2. \E size : Holds(size, n + 1) /\ c = [p EXCEPT !.password = size]
  <2>1. CASE n = 0
    BY <1>1, <2>1, BlocksGrow DEF checkSize
  <2>2. CASE n # 0 /\ n % BUFFER_SIZE = 0
    <3>1. Holds(p.password, n) /\ Holds(n + BUFFER_SIZE, n + 1)
      BY <1>1, <2>2, BlocksGrow DEF DissectorInv
    <3>2. p.password # Dangling
      BY <3>1 DEF Holds, Dangling
    <3>3. c = [p EXCEPT !.password = n + BUFFER_SIZE, !.fault = @ \/ p.password = Dangling]
      BY <1>1, <2>2 DEF checkSize
    <3>4. c = [p EXCEPT !.password = n + BUFFER_SIZE]
      BY <1>1, <3>2, <3>3 DEF Dissectors
    <3> QED
      BY <3>1, <3>4
  <2>3. CASE n # 0 /\ n % BUFFER_SIZE # 0
    <3>1. c = p
      BY <1>1, <2>3 DEF checkSize
    <3>2. Holds(p.password, n + 1)
      BY <1>1, <2>3, BlocksGrow DEF DissectorInv
    <3>3. p = [p EXCEPT !.password = p.password]
      BY <1>1 DEF Dissectors
    <3> QED
      BY <3>1, <3>2, <3>3
  <2> QED
    BY <2>1, <2>2, <2>3
<1>3. q = [c EXCEPT !.fault = @ \/ c.password <= n]
  BY DEF Stores
<1> HIDE DEF c, n
<1>4. PICK size : Holds(size, n + 1) /\ c = [p EXCEPT !.password = size]
  BY <1>2
<1>5. size \in Nat /\ ~(size <= n)
  BY <1>1, <1>4 DEF Holds
<1>6. c.password = size /\ c.fault = FALSE
  BY <1>1, <1>4 DEF Dissectors
<1>7. q = [p EXCEPT !.password = size, !.fault = FALSE]
  BY <1>1, <1>3, <1>4, <1>5, <1>6
<1>8. q \in Dissectors
  BY <1>1, <1>5, <1>7 DEF Dissectors
<1>9. /\ q.fault = FALSE /\ q.current_index = n /\ q.current = p.current
      /\ q.username = p.username /\ q.password = size
  BY <1>1, <1>7 DEF Dissectors, n
<1> QED
  BY <1>4, <1>8, <1>9 DEF n

\* The search begins again, with whatever was stored left as it is.
LEMMA RestartsIsSound ==
  ASSUME NEW p \in Dissectors, ~p.fault, NEW b
  PROVE  DissectorInv(Restarts(p, b))
<1> DEFINE i == IF b = UserWord[1] THEN 1 ELSE 0
           q == [p EXCEPT !.current = "user_word_search", !.last = FALSE, !.current_index = i]
<1>1. i \in Nat
  OBVIOUS
<1> HIDE DEF i
<1>2. q \in Dissectors /\ ~q.fault /\ q.current = "user_word_search"
  BY <1>1 DEF Dissectors
<1>3. Restarts(p, b) = q
  BY DEF Restarts, i
<1> HIDE DEF q
<1> QED
  BY <1>2, <1>3 DEF DissectorInv

\* free() of a block that is allocated, once.
LEMMA FreesUser ==
  ASSUME NEW p \in Dissectors, ~p.fault, Allocated(p.username)
  PROVE  WithFreed(p, "username") \in Dissectors /\ ~WithFreed(p, "username").fault
<1>1. p.username # NoBlock /\ p.username # Dangling
  BY DEF Allocated, NoBlock, Dangling
<1>2. WithFreed(p, "username") = [p EXCEPT !.username = Dangling, !.fault = FALSE]
  BY <1>1 DEF WithFreed
<1> QED
  BY <1>2 DEF Dissectors

LEMMA FreesPass ==
  ASSUME NEW p \in Dissectors, ~p.fault, Allocated(p.password)
  PROVE  /\ WithFreed(p, "password") \in Dissectors /\ ~WithFreed(p, "password").fault
         /\ WithFreed(p, "password").username = p.username
<1>1. p.password # NoBlock /\ p.password # Dangling
  BY DEF Allocated, NoBlock, Dangling
<1>2. WithFreed(p, "password") = [p EXCEPT !.password = Dangling, !.fault = FALSE]
  BY <1>1 DEF WithFreed
<1> QED
  BY <1>2 DEF Dissectors

LEMMA PassResetIsSound ==
  ASSUME NEW p \in Dissectors, ~p.fault, Allocated(p.username),
         p.current_index # 0 => Allocated(p.password), NEW b
  PROVE  DissectorInv(pass_read_reset(p, b))
<1> DEFINE q == IF p.current_index # 0 THEN WithFreed(p, "password") ELSE p
<1>1. q \in Dissectors /\ ~q.fault /\ Allocated(q.username)
  BY FreesPass
<1>2. pass_read_reset(p, b) = Restarts(WithFreed(q, "username"), b)
  BY DEF pass_read_reset
<1> HIDE DEF q
<1> QED
  BY <1>1, <1>2, FreesUser, RestartsIsSound

LEMMA MatchedIsSound ==
  ASSUME NEW p, DissectorInv(p), NEW word, NEW next,
         \/ p.current = "user_word_search" /\ next = "user_read"
         \/ p.current = "pass_word_search" /\ next = "pass_read"
  PROVE  DissectorInv(Matched(p, word, next))
<1>1. p \in Dissectors /\ p.current_index \in Nat /\ 0 \in Nat /\ p.current_index + 1 \in Nat
  BY DEF DissectorInv, Dissectors
<1>2. CASE p.current_index + 1 = Len(word)
  <2>1. Matched(p, word, next) = [p EXCEPT !.current = next, !.current_index = 0]
    BY <1>2 DEF Matched
  <2> QED
    BY <1>1, <2>1 DEF DissectorInv, Dissectors
<1>3. CASE p.current_index + 1 # Len(word)
  <2>1. Matched(p, word, next) = [p EXCEPT !.current_index = p.current_index + 1]
    BY <1>3 DEF Matched
  <2> QED
    BY <1>1, <2>1 DEF DissectorInv, Dissectors
<1> QED
  BY <1>2, <1>3

LEMMA SearchIsSound ==
  ASSUME NEW p, DissectorInv(p), NEW b, p.current \in {"user_word_search", "pass_word_search"}
  PROVE  DissectorInv(password_parser_feed(p, b))
<1>1. p \in Dissectors /\ ~p.fault
  BY DEF DissectorInv
<1>2. CASE p.current = "user_word_search"
  <2>1. password_parser_feed(p, b) = user_word_search_handler(p, b)
    BY <1>2 DEF password_parser_feed
  <2> QED
    BY <1>1, <1>2, <2>1, MatchedIsSound, RestartsIsSound DEF user_word_search_handler
<1>3. CASE p.current = "pass_word_search"
  <2>1. password_parser_feed(p, b) = pass_word_search_handler(p, b)
    BY <1>3 DEF password_parser_feed
  <2>2. Allocated(p.username)
    BY <1>3 DEF DissectorInv
  <2> QED
    BY <1>1, <1>3, <2>1, <2>2, MatchedIsSound, FreesUser, RestartsIsSound
       DEF pass_word_search_handler
<1> QED
  BY <1>2, <1>3

\* The carriage return before the end of a line.
LEMMA LastIsSound ==
  ASSUME NEW p, DissectorInv(p)
  PROVE  DissectorInv([p EXCEPT !.last = TRUE])
BY DEF DissectorInv, Dissectors

LEMMA UserReadIsSound ==
  ASSUME NEW p, DissectorInv(p), NEW b, p.current = "user_read"
  PROVE  DissectorInv(password_parser_feed(p, b))
<1>1. p \in Dissectors /\ ~p.fault /\ p.current_index \in Nat
  BY DEF DissectorInv, Dissectors
<1>2. password_parser_feed(p, b) = user_read_handler(p, b)
  BY DEF password_parser_feed
<1>3. PICK q : q = Stores(p, "username")
  OBVIOUS
<1>4. /\ q \in Dissectors /\ ~q.fault /\ q.current_index = p.current_index
      /\ q.current = p.current /\ Holds(q.username, p.current_index + 1)
  BY <1>3, StoresUser
<1>5. DissectorInv(user_read_reset(p, b))
  BY <1>1, RestartsIsSound DEF user_read_reset
<1>6. DissectorInv([q EXCEPT !.current = "pass_word_search", !.current_index = 0, !.last = FALSE])
  <2>1. Allocated(q.username)
    BY <1>1, <1>4 DEF Holds, Allocated
  <2> QED
    BY <1>4, <2>1 DEF DissectorInv, Dissectors
<1>7. DissectorInv([q EXCEPT !.current_index = @ + 1])
  <2>1. [q EXCEPT !.current_index = @ + 1] = [q EXCEPT !.current_index = p.current_index + 1]
    BY <1>4
  <2>2. p.current_index + 1 \in Nat
    BY <1>1
  <2> QED
    BY <1>4, <2>1, <2>2 DEF DissectorInv, Dissectors
<1>8. user_read_handler(p, b) \in
        {user_read_reset(p, b), [p EXCEPT !.last = TRUE],
         [q EXCEPT !.current = "pass_word_search", !.current_index = 0, !.last = FALSE],
         [q EXCEPT !.current_index = @ + 1]}
  BY <1>3 DEF user_read_handler
<1> QED
  BY <1>2, <1>5, <1>6, <1>7, <1>8, LastIsSound

LEMMA PassReadIsSound ==
  ASSUME NEW p, DissectorInv(p), NEW b, p.current = "pass_read"
  PROVE  DissectorInv(password_parser_feed(p, b))
<1>1. p \in Dissectors /\ ~p.fault /\ p.current_index \in Nat /\ Allocated(p.username)
  BY DEF DissectorInv, Dissectors
<1>2. password_parser_feed(p, b) = pass_read_handler(p, b)
  BY DEF password_parser_feed
<1>3. PICK q : q = Stores(p, "password")
  OBVIOUS
<1>4. /\ q \in Dissectors /\ ~q.fault /\ q.current_index = p.current_index
      /\ q.current = p.current /\ Holds(q.password, p.current_index + 1) /\ Allocated(q.username)
  BY <1>1, <1>3, StoresPass
<1>5. DissectorInv(user_read_reset(p, b))
  BY <1>1, RestartsIsSound DEF user_read_reset
<1>6. DissectorInv(pass_read_reset(p, b))
  <2>1. p.current_index # 0 => Allocated(p.password)
    BY <1>1 DEF DissectorInv, Holds, Allocated
  <2> QED
    BY <1>1, <2>1, PassResetIsSound
<1>7. DissectorInv(pass_read_reset(Reports(q), b))
  <2>1. Allocated(q.password)
    BY <1>1, <1>4 DEF Holds, Allocated
  <2>2. ~(q.username <= 0) /\ ~(q.password <= 0)
    BY <1>4, <2>1 DEF Allocated
  <2>3. Reports(q) = q
    BY <1>4, <2>2 DEF Reports, Dissectors
  <2> QED
    BY <1>4, <2>1, <2>3, PassResetIsSound
<1>8. DissectorInv([q EXCEPT !.current_index = @ + 1])
  <2>1. [q EXCEPT !.current_index = @ + 1] = [q EXCEPT !.current_index = p.current_index + 1]
    BY <1>4
  <2>2. p.current_index + 1 \in Nat
    BY <1>1
  <2> QED
    BY <1>4, <2>1, <2>2 DEF DissectorInv, Dissectors
<1>9. pass_read_handler(p, b) \in
        {user_read_reset(p, b), pass_read_reset(p, b), [p EXCEPT !.last = TRUE],
         pass_read_reset(Reports(q), b), [q EXCEPT !.current_index = @ + 1]}
  BY <1>3 DEF pass_read_handler
<1> QED
  BY <1>2, <1>5, <1>6, <1>7, <1>8, <1>9, LastIsSound

LEMMA FeedIsSound ==
  ASSUME NEW p, DissectorInv(p), NEW b
  PROVE  DissectorInv(password_parser_feed(p, b))
<1>1. p.current \in {"user_word_search", "user_read", "pass_word_search", "pass_read"}
  BY DEF DissectorInv, Dissectors
<1> QED
  BY <1>1, SearchIsSound, UserReadIsSound, PassReadIsSound

LEMMA GreatestOf ==
  ASSUME NEW n \in Nat, NEW s \in SUBSET (1..n), s # {}
  PROVE  Max(s) \in s
<1> DEFINE U == {k \in Nat : n - k \in s}
<1>1. U \in SUBSET Nat /\ U # {}
  <2>1. PICK x \in s : TRUE
    OBVIOUS
  <2>2. n - x \in Nat /\ n - (n - x) = x
    BY <2>1
  <2> QED
    BY <2>1, <2>2
<1>2. PICK k \in U : \A j \in U : k <= j
  BY <1>1, Smallest
<1>3. n - k \in s
  BY <1>2
<1>4. \A y \in s : n - k >= y
  <2>1. ASSUME NEW y \in s PROVE n - k >= y
    <3>1. n - y \in Nat /\ n - (n - y) = y
      OBVIOUS
    <3>2. n - y \in U
      BY <3>1
    <3>3. k <= n - y
      BY <1>2, <3>2
    <3> QED
      BY <1>2, <3>1, <3>3
  <2> QED
    BY <2>1
<1> QED
  BY <1>3, <1>4 DEF Max

\* What password_consume does with the bytes of a buffer, however many.
LEMMA ConsumeIsSound ==
  ASSUME NEW p, DissectorInv(p), NEW n \in Nat, NEW T, NEW bytes \in [1..n -> T]
  PROVE  DissectorInv(password_consume(p, bytes))
<1> DEFINE D == 1..n
           first(s) == Max(s)
           Fold(f) == [s \in SUBSET D |->
                         IF s = {} THEN p
                         ELSE password_parser_feed(f[s \ {first(s)}], bytes[first(s)])]
           fold == CHOOSE f : f = Fold(f)
<1>1. password_consume(p, bytes) = fold[D]
  BY DEF password_consume, FoldLeft, MapThenFoldSet
<1>2. ASSUME NEW s \in SUBSET D
      PROVE  /\ Cardinality(s) \in Nat /\ (s = {} <=> Cardinality(s) = 0)
             /\ s # {} => /\ s \ {first(s)} \in SUBSET D
                          /\ Cardinality(s \ {first(s)}) = Cardinality(s) - 1
             /\ Cardinality(s) <= Cardinality(D)
  <2>1. IsFiniteSet(D)
    BY FS_Interval
  <2>2. IsFiniteSet(s)
    BY <2>1, FS_Subset
  <2>3. s # {} => first(s) \in s
    BY GreatestOf
  <2> HIDE DEF first, D
  <2> QED
    BY <2>1, <2>2, <2>3, FS_Subset, FS_CardinalityType, FS_EmptySet, FS_RemoveElement
<1> HIDE DEF first
<1>2a. \A s \in SUBSET D : Cardinality(s) \in Nat /\ (s = {} <=> Cardinality(s) = 0)
  BY <1>2
<1> DEFINE Upto(k) == {s \in SUBSET D : Cardinality(s) <= k}
           FoldUpto(k, g) ==
             g = [s \in Upto(k) |->
                    IF s = {} THEN p
                    ELSE password_parser_feed(g[s \ {first(s)}], bytes[first(s)])]
<1>3. \A k \in Nat : \E g : FoldUpto(k, g)
  <2> DEFINE U == {k \in Nat : \E g : FoldUpto(k, g)}
  <2>1. 0 \in U
    <3>1. \A s \in Upto(0) : s = {}
      <4>1. SUFFICES ASSUME NEW s \in SUBSET D, Cardinality(s) <= 0 PROVE s = {}
        OBVIOUS
      <4>2. Cardinality(s) \in Nat /\ (s = {} <=> Cardinality(s) = 0)
        BY <1>2a
      <4>3. Cardinality(s) = 0
        BY <4>1, <4>2
      <4> QED
        BY <4>2, <4>3, Zenon
    <3> DEFINE h == [s \in Upto(0) |-> p]
    <3>2. \A s \in Upto(0) :
            h[s] = IF s = {} THEN p
                   ELSE password_parser_feed(h[s \ {first(s)}], bytes[first(s)])
      BY <3>1
    <3>3. FoldUpto(0, h)
      BY <3>2, Zenon
    <3> QED
      BY <3>3, Zenon
  <2>2. ASSUME NEW k \in Nat, k \in U PROVE k + 1 \in U
    <3>1. PICK g : FoldUpto(k, g)
      BY <2>2
    <3> DEFINE h == [s \in Upto(k + 1) |->
                       IF s = {} THEN p
                       ELSE password_parser_feed(g[s \ {first(s)}], bytes[first(s)])]
    <3>2. \A s \in Upto(k) : s \in Upto(k + 1) /\ h[s] = g[s]
      <4>1. ASSUME NEW s \in Upto(k) PROVE s \in Upto(k + 1)
        <5>1. Cardinality(s) \in Nat /\ Cardinality(s) <= k
          BY <1>2a
        <5>2. Cardinality(s) <= k + 1
          BY <5>1
        <5> QED
          BY <5>2
      <4>2. ASSUME NEW s \in Upto(k) PROVE h[s] = g[s]
        <5>1. h[s] = IF s = {} THEN p
                     ELSE password_parser_feed(g[s \ {first(s)}], bytes[first(s)])
          BY <4>1, <4>2
        <5>2. g[s] = IF s = {} THEN p
                     ELSE password_parser_feed(g[s \ {first(s)}], bytes[first(s)])
          BY <3>1, <4>2
        <5> QED
          BY <5>1, <5>2
      <4> QED
        BY <4>1, <4>2
    <3>3. ASSUME NEW s \in SUBSET D, Cardinality(s) <= k + 1, s # {}
          PROVE  s \ {first(s)} \in Upto(k)
      <4>1. Cardinality(s) \in Nat /\ Cardinality(s \ {first(s)}) = Cardinality(s) - 1
        BY <1>2, <3>3
      <4>2. Cardinality(s \ {first(s)}) <= k
        BY <3>3, <4>1
      <4> QED
        BY <4>2
    <3>4. FoldUpto(k + 1, h)
      <4>1. \A s \in Upto(k + 1) :
              h[s] = IF s = {} THEN p
                     ELSE password_parser_feed(h[s \ {first(s)}], bytes[first(s)])
        <5>1. SUFFICES ASSUME NEW s \in Upto(k + 1)
                       PROVE  h[s] = IF s = {} THEN p
                                     ELSE password_parser_feed(h[s \ {first(s)}], bytes[first(s)])
          OBVIOUS
        <5>2. h[s] = IF s = {} THEN p
                     ELSE password_parser_feed(g[s \ {first(s)}], bytes[first(s)])
          OBVIOUS
        <5>3. s # {} => h[s \ {first(s)}] = g[s \ {first(s)}]
          BY <3>2, <3>3
        <5> HIDE DEF h
        <5>4. CASE s = {}
          BY <5>2, <5>4
        <5>5. CASE s # {}
          BY <5>2, <5>3, <5>5
        <5> QED
          BY <5>4, <5>5
      <4> QED
        BY <4>1, Zenon
    <3> HIDE DEF h, FoldUpto
    <3>5. \E f : FoldUpto(k + 1, f)
      BY <3>4
    <3> QED
      BY <3>5
  <2> HIDE DEF U
  <2>3. Nat \subseteq U
    BY <2>1, <2>2, Naturals
  <2> QED
    BY <2>3 DEF U
<1>4. \E f : f = Fold(f)
  <2>1. Upto(Cardinality(D)) = SUBSET D /\ Cardinality(D) \in Nat
    BY <1>2
  <2> HIDE DEF D
  <2> QED
    BY <1>3, <2>1
<1>5. fold = Fold(fold)
  BY <1>4
<1> HIDE DEF fold
<1>6. \A s \in SUBSET D :
        fold[s] = IF s = {} THEN p
                  ELSE password_parser_feed(fold[s \ {first(s)}], bytes[first(s)])
  BY <1>5
<1> DEFINE V == {k \in Nat : \A s \in SUBSET D : Cardinality(s) = k => DissectorInv(fold[s])}
<1>7. Nat \subseteq V
  <2>1. 0 \in V
    BY <1>2, <1>6
  <2>2. ASSUME NEW k \in Nat, k \in V PROVE k + 1 \in V
    <3>1. ASSUME NEW s \in SUBSET D, Cardinality(s) = k + 1 PROVE DissectorInv(fold[s])
      <4>1. s # {} /\ DissectorInv(fold[s \ {first(s)}])
        <5>1. s # {} /\ s \ {first(s)} \in SUBSET D /\ Cardinality(s \ {first(s)}) = k
          <6>1. k + 1 # 0 /\ (k + 1) - 1 = k
            BY <2>2
          <6>2. /\ s = {} <=> Cardinality(s) = 0
                /\ s # {} => /\ s \ {first(s)} \in SUBSET D
                             /\ Cardinality(s \ {first(s)}) = Cardinality(s) - 1
            BY <1>2, <3>1
          <6>3. s # {}
            BY <3>1, <6>1, <6>2
          <6> QED
            BY <3>1, <6>1, <6>2, <6>3
        <5> QED
          BY <2>2, <5>1
      <4> QED
        BY <1>6, <4>1, FeedIsSound
    <3> QED
      BY <3>1
  <2> HIDE DEF V
  <2> QED
    BY <2>1, <2>2, Naturals
<1>8. D \in SUBSET D /\ Cardinality(D) \in Nat
  BY <1>2
<1> QED
  BY <1>1, <1>7, <1>8

LEMMA StepOnDissector ==
  ASSUME DialogueInv, DissectorInv(dissector), [Next]_vars
  PROVE  DissectorInv(dissector')
<1>1. CASE UNCHANGED dissector
  BY <1>1
<1>2. CASE \/ ClientBegins \/ ClientSends \/ Fails
           \/ ReadHandler \/ WriteHandler \/ connecting
  BY <1>1, <1>2 DEF ClientBegins, ClientSends, relayVars, Fails, ReadHandler, WriteHandler, connecting,
     hello_read, auth_read, request_read, mng_request_index_read, mng_request_read,
     hello_write, auth_write, request_write, mng_request_write,
     Ends, Closes, Continues, Writes, Reads, MngReplies, Unmoved
<1>3. ASSUME NEW s \in Sides, CopyReads(s) PROVE DissectorInv(dissector')
  <2>1. Relaying /\ Room(buffer[rb(s)]) \in Nat
    <3>1. Relaying
      BY <1>3, ReadyIsOpen DEF CopyReads, copy_read
    <3>2. buffer[rb(s)] \in Queues(Byte)
      BY <3>1, RelayBuffers, TwoSides, BuffersOfSides DEF ReadBuffers
    <3> QED
      BY <3>1, <3>2, QueueFields
  <2>2. \/ UNCHANGED dissector
        \/ \E n \in 1..Room(buffer[rb(s)]) : \E bytes \in [1..n -> BytesOf(s)] :
             dissector' = password_consume(dissector, bytes)
    BY <1>3 DEF CopyReads, copy_read, Dissects
  <2>3. ASSUME NEW n \in 1..Room(buffer[rb(s)]), NEW bytes \in [1..n -> BytesOf(s)]
        PROVE  DissectorInv(password_consume(dissector, bytes))
    <3>1. n \in Nat
      BY <2>1
    <3> QED
      BY <3>1, ConsumeIsSound
  <2> QED
    BY <1>1, <2>2, <2>3
<1>4. CASE \E s \in Sides : CopyWrites(s)
  BY <1>1, <1>4 DEF CopyWrites, copy_write
<1>5. CASE UNCHANGED vars
  BY <1>1, <1>5 DEF vars, relayVars
<1> QED
  BY <1>2, <1>3, <1>4, <1>5 DEF Next

LEMMA InitDissector == Init => DissectorInv(dissector)
<1>1. DissectorInv(password_parser_init)
  BY DEF DissectorInv, Dissectors, password_parser_init, NoBlock
<1> QED
  BY <1>1 DEF Init

DissectorIsSound == DissectorInv(dissector)

LEMMA DissectorIsWatched == Spec => []DissectorIsSound
<1>1. DialogueInv /\ DissectorIsSound /\ [Next]_vars => DissectorIsSound'
  BY StepOnDissector DEF DissectorIsSound
<1>2. Init => DissectorIsSound
  BY InitDissector DEF DissectorIsSound
<1> QED
  BY <1>1, <1>2, RelayIsWatched, PTL DEF Spec

(* password_consume never writes beyond a block that checkSize grew, nor uses
   or frees one that is free, whatever the words, the sizes and the bytes of the
   two ends, and however management switches the dissector. *)
THEOREM DissectorIsSafe == Spec => []DissectorMemoryIsSound
<1>1. DissectorIsSound => DissectorMemoryIsSound
  BY DEF DissectorIsSound, DissectorInv, DissectorMemoryIsSound
<1> QED
  BY <1>1, DissectorIsWatched, PTL
-----------------------------------------------------------------------------
(* Sequences. *)

\* A part of a sequence of bytes.
LEMMA PartOf ==
  ASSUME NEW t \in Seq(Byte), NEW i \in 1..(Len(t) + 1), NEW j \in (i - 1)..Len(t)
  PROVE  /\ SubSeq(t, i, j) \in Seq(Byte)
         /\ Len(SubSeq(t, i, j)) = j - i + 1
         /\ \A k \in 1..(j - i + 1) : SubSeq(t, i, j)[k] = t[i + k - 1]
<1>1. i \in Int /\ j \in Int /\ Len(t) \in Nat
  OBVIOUS
<1>2. CASE i = j + 1
  <2>1. SubSeq(t, i, j) = << >>
    BY <1>1, <1>2, SubSeqEmpty
  <2> QED
    BY <1>1, <1>2, <2>1
<1>3. CASE i # j + 1
  <2>1. i <= j
    BY <1>1, <1>3
  <2>2. \A k \in i..j : t[k] \in Byte
    BY <1>1, ElementOfSeq
  <2> QED
    BY <1>1, <2>1, <2>2, SubSeqProperties
<1> QED
  BY <1>2, <1>3

LEMMA AppendFacts ==
  ASSUME NEW t \in Seq(Byte), NEW b \in Byte
  PROVE  /\ Append(t, b) \in Seq(Byte)
         /\ Len(Append(t, b)) = Len(t) + 1 /\ Len(t) \in Nat
         /\ \A i \in 1..Len(t) : Append(t, b)[i] = t[i]
         /\ Append(t, b)[Len(t) + 1] = b
BY AppendProperties

\* What a byte more does to the parts of a sequence.
LEMMA AppendToPart ==
  ASSUME NEW t \in Seq(Byte), NEW b \in Byte, NEW i \in 1..(Len(t) + 1)
  PROVE  SubSeq(Append(t, b), i, Len(t) + 1) = Append(SubSeq(t, i, Len(t)), b)
<1> DEFINE u == Append(t, b)
           x == SubSeq(u, i, Len(t) + 1)
           y == SubSeq(t, i, Len(t))
           z == Append(y, b)
<1>1. u \in Seq(Byte) /\ Len(u) = Len(t) + 1 /\ Len(t) \in Nat /\ i \in Nat
  BY AppendFacts
<1>2. /\ x \in Seq(Byte) /\ Len(x) = Len(t) + 1 - i + 1
      /\ \A k \in 1..(Len(t) + 1 - i + 1) : x[k] = u[i + k - 1]
  <2>1. i \in 1..(Len(u) + 1) /\ Len(t) + 1 \in (i - 1)..Len(u)
    BY <1>1
  <2> HIDE DEF u
  <2> QED
    BY <1>1, <2>1, PartOf
<1>3. /\ y \in Seq(Byte) /\ Len(y) = Len(t) - i + 1
      /\ \A k \in 1..(Len(t) - i + 1) : y[k] = t[i + k - 1]
  <2>1. Len(t) \in (i - 1)..Len(t)
    BY <1>1
  <2> QED
    BY <2>1, PartOf
<1>4. /\ z \in Seq(Byte) /\ Len(z) = Len(t) - i + 1 + 1
      /\ \A k \in 1..(Len(t) - i + 1) : z[k] = y[k]
      /\ z[Len(t) - i + 1 + 1] = b
  <2> HIDE DEF y
  <2>1. /\ z \in Seq(Byte) /\ Len(z) = Len(y) + 1
        /\ (\A k \in 1..Len(y) : z[k] = y[k]) /\ z[Len(y) + 1] = b
    BY <1>3, AppendFacts
  <2> HIDE DEF z
  <2> QED
    BY <1>3, <2>1
<1>5. \A k \in 1..(Len(t) - i + 1) : i + k - 1 \in 1..Len(t) /\ x[k] = t[i + k - 1]
  <2>1. \A k \in 1..(Len(t) - i + 1) : i + k - 1 \in 1..Len(t) /\ k \in 1..(Len(t) + 1 - i + 1)
    BY <1>1
  <2>2. \A k \in 1..Len(t) : u[k] = t[k]
    BY AppendFacts
  <2> HIDE DEF u, x
  <2> QED
    BY <1>2, <2>1, <2>2
<1>6. x[Len(t) - i + 1 + 1] = b
  <2>1. u[Len(t) + 1] = b
    BY AppendFacts
  <2>2. Len(t) - i + 1 + 1 \in 1..(Len(t) + 1 - i + 1) /\ i + (Len(t) - i + 1 + 1) - 1 = Len(t) + 1
    BY <1>1
  <2> HIDE DEF u, x
  <2> QED
    BY <1>2, <2>1, <2>2
<1> HIDE DEF u, x, y, z
<1>7. Len(x) = Len(z) /\ \A k \in 1..Len(x) : x[k] = z[k]
  <2>1. Len(x) = Len(z) /\ Len(x) = Len(t) - i + 1 + 1
    BY <1>1, <1>2, <1>4
  <2>2. \A k \in 1..(Len(t) - i + 1) : x[k] = z[k]
    BY <1>3, <1>4, <1>5
  <2>3. \A k \in 1..Len(x) : k \in 1..(Len(t) - i + 1) \/ k = Len(t) - i + 1 + 1
    BY <1>1, <2>1
  <2> QED
    BY <1>4, <1>6, <2>1, <2>2, <2>3
<1>8. x = z
  BY <1>2, <1>4, <1>7, SeqEqual
<1> QED
  BY <1>8 DEF x, z, y, u

LEMMA AppendAfterPart ==
  ASSUME NEW t \in Seq(Byte), NEW b \in Byte, NEW i \in 1..(Len(t) + 1), NEW j \in (i - 1)..Len(t)
  PROVE  SubSeq(Append(t, b), i, j) = SubSeq(t, i, j)
<1> DEFINE u == Append(t, b)
           x == SubSeq(u, i, j)
           y == SubSeq(t, i, j)
<1>1. u \in Seq(Byte) /\ Len(u) = Len(t) + 1 /\ Len(t) \in Nat /\ \A k \in 1..Len(t) : u[k] = t[k]
  BY AppendFacts
<1> HIDE DEF u
<1>2. /\ x \in Seq(Byte) /\ Len(x) = j - i + 1
      /\ \A k \in 1..(j - i + 1) : x[k] = u[i + k - 1]
  <2>1. i \in 1..(Len(u) + 1) /\ j \in (i - 1)..Len(u)
    BY <1>1
  <2> QED
    BY <1>1, <2>1, PartOf
<1>3. /\ y \in Seq(Byte) /\ Len(y) = j - i + 1
      /\ \A k \in 1..(j - i + 1) : y[k] = t[i + k - 1]
  BY PartOf
<1>4. \A k \in 1..(j - i + 1) : i + k - 1 \in 1..Len(t)
  BY <1>1
<1> HIDE DEF x, y
<1>5. x = y
  BY <1>1, <1>2, <1>3, <1>4, SeqEqual
<1> QED
  BY <1>5 DEF x, y, u

LEMMA TailOf ==
  ASSUME NEW t \in Seq(Byte), Len(t) >= 1, NEW b \in Byte
  PROVE  /\ Tail(t) \in Seq(Byte) /\ Len(Tail(t)) = Len(t) - 1
         /\ Tail(Append(t, b)) = Append(Tail(t), b)
<1>1. t # << >> /\ Len(t) \in Nat
  BY EmptySeq
<1>2. /\ Tail(t) \in Seq(Byte) /\ Len(Tail(t)) = Len(t) - 1
      /\ \A i \in 1..(Len(t) - 1) : Tail(t)[i] = t[i + 1]
  BY <1>1, HeadTailProperties
<1> DEFINE u == Append(t, b)
           x == Tail(u)
           y == Append(Tail(t), b)
<1>3. u \in Seq(Byte) /\ Len(u) = Len(t) + 1 /\ (\A k \in 1..Len(t) : u[k] = t[k]) /\ u[Len(t) + 1] = b
  BY AppendFacts
<1> HIDE DEF u
<1>4. u # << >>
  BY <1>1, <1>3
<1>5. /\ x \in Seq(Byte) /\ Len(x) = Len(t)
      /\ \A i \in 1..Len(t) : x[i] = u[i + 1]
  <2>1. /\ x \in Seq(Byte) /\ Len(x) = Len(u) - 1
        /\ \A i \in 1..(Len(u) - 1) : x[i] = u[i + 1]
    BY <1>3, <1>4, HeadTailProperties
  <2> QED
    BY <1>1, <1>3, <2>1
<1>6. /\ y \in Seq(Byte) /\ Len(y) = Len(t)
      /\ (\A k \in 1..(Len(t) - 1) : y[k] = Tail(t)[k]) /\ y[Len(t)] = b
  <2> DEFINE v == Tail(t)
  <2>1. v \in Seq(Byte) /\ Len(v) = Len(t) - 1 /\ Len(v) + 1 = Len(t)
    BY <1>1, <1>2
  <2> HIDE DEF v
  <2>2. /\ Append(v, b) \in Seq(Byte) /\ Len(Append(v, b)) = Len(t)
        /\ \A k \in 1..(Len(t) - 1) : Append(v, b)[k] = v[k]
        /\ Append(v, b)[Len(t)] = b
    BY <2>1, AppendFacts
  <2> QED
    BY <2>2 DEF v
<1> HIDE DEF x, y
<1>7. \A i \in 1..Len(t) : x[i] = y[i]
  <2>1. \A i \in 1..(Len(t) - 1) : i \in 1..Len(t) /\ i + 1 \in 1..Len(t)
    BY <1>1
  <2>2. \A i \in 1..(Len(t) - 1) : x[i] = y[i]
    BY <1>2, <1>3, <1>5, <1>6, <2>1
  <2>3. x[Len(t)] = y[Len(t)]
    BY <1>1, <1>3, <1>5, <1>6
  <2>4. \A i \in 1..Len(t) : i \in 1..(Len(t) - 1) \/ i = Len(t)
    BY <1>1
  <2> QED
    BY <2>2, <2>3, <2>4
<1>8. x = y
  BY <1>5, <1>6, <1>7, SeqEqual
<1> QED
  BY <1>2, <1>8 DEF x, y, u

\* The bytes taken, one by one.
LEMMA OneMoreTaken ==
  ASSUME NEW t \in Seq(Byte), NEW s \in Seq(Byte), NEW k \in 0..(Len(s) - 1)
  PROVE  /\ t \o SubSeq(s, 1, k) \in Seq(Byte) /\ s[k + 1] \in Byte
         /\ t \o SubSeq(s, 1, k + 1) = Append(t \o SubSeq(s, 1, k), s[k + 1])
<1> DEFINE b == s[k + 1]
           x == SubSeq(s, 1, k + 1)
           y == SubSeq(s, 1, k)
           tx == t \o x
           ty == t \o y
           z == Append(ty, b)
<1>0. Len(s) \in Nat /\ k \in Nat /\ k + 1 \in 1..Len(s) /\ Len(t) \in Nat
  OBVIOUS
<1>1. b \in Byte
  BY <1>0, ElementOfSeq
<1>2. x \in Seq(Byte) /\ Len(x) = k + 1 /\ \A i \in 1..(k + 1) : x[i] = s[i]
  <2>1. 1 \in 1..(Len(s) + 1) /\ k + 1 \in (1 - 1)..Len(s) /\ k + 1 - 1 + 1 = k + 1
    BY <1>0
  <2>2. /\ x \in Seq(Byte) /\ Len(x) = k + 1 - 1 + 1
        /\ \A i \in 1..(k + 1 - 1 + 1) : x[i] = s[1 + i - 1]
    BY <2>1, PartOf
  <2> HIDE DEF x
  <2> QED
    BY <1>0, <2>1, <2>2
<1>3. y \in Seq(Byte) /\ Len(y) = k /\ \A i \in 1..k : y[i] = s[i]
  <2>1. 1 \in 1..(Len(s) + 1) /\ k \in (1 - 1)..Len(s) /\ k - 1 + 1 = k
    BY <1>0
  <2>2. /\ y \in Seq(Byte) /\ Len(y) = k - 1 + 1
        /\ \A i \in 1..(k - 1 + 1) : y[i] = s[1 + i - 1]
    BY <2>1, PartOf
  <2> HIDE DEF y
  <2> QED
    BY <1>0, <2>1, <2>2
<1> HIDE DEF x, y, b
<1>4. /\ tx \in Seq(Byte) /\ Len(tx) = Len(t) + Len(x)
      /\ \A i \in 1..(Len(t) + Len(x)) : tx[i] = IF i <= Len(t) THEN t[i] ELSE x[i - Len(t)]
  BY <1>2, ConcatProperties
<1>5. /\ ty \in Seq(Byte) /\ Len(ty) = Len(t) + Len(y)
      /\ \A i \in 1..(Len(t) + Len(y)) : ty[i] = IF i <= Len(t) THEN t[i] ELSE y[i - Len(t)]
  BY <1>3, ConcatProperties
<1> HIDE DEF tx, ty
<1>6. /\ z \in Seq(Byte) /\ Len(z) = Len(t) + k + 1
      /\ (\A i \in 1..(Len(t) + k) : z[i] = ty[i]) /\ z[Len(t) + k + 1] = b
  BY <1>1, <1>3, <1>5, AppendFacts
<1> HIDE DEF z
<1>7. \A i \in 1..(Len(t) + k + 1) : tx[i] = z[i]
  <2>1. ASSUME NEW i \in 1..Len(t) PROVE tx[i] = z[i]
    <3>1. /\ i <= Len(t) /\ i \in 1..(Len(t) + Len(x)) /\ i \in 1..(Len(t) + Len(y))
          /\ i \in 1..(Len(t) + k)
      BY <1>0, <1>2, <1>3
    <3>2. tx[i] = t[i] /\ ty[i] = t[i] /\ z[i] = ty[i]
      BY <1>4, <1>5, <1>6, <3>1
    <3> QED
      BY <3>2
  <2>2. ASSUME NEW i \in (Len(t) + 1)..(Len(t) + k) PROVE tx[i] = z[i]
    <3> DEFINE j == i - Len(t)
    <3>1. /\ j \in 1..k /\ j \in 1..(k + 1) /\ ~(i <= Len(t)) /\ i \in 1..(Len(t) + k)
          /\ i \in 1..(Len(t) + Len(x)) /\ i \in 1..(Len(t) + Len(y))
      BY <1>0, <1>2, <1>3
    <3>2. tx[i] = x[j] /\ ty[i] = y[j] /\ z[i] = ty[i]
      BY <1>4, <1>5, <1>6, <3>1
    <3> HIDE DEF j
    <3>3. x[j] = s[j] /\ y[j] = s[j]
      BY <1>2, <1>3, <3>1
    <3> QED
      BY <3>2, <3>3
  <2>3. tx[Len(t) + k + 1] = z[Len(t) + k + 1]
    <3>1. /\ Len(t) + k + 1 \in 1..(Len(t) + (k + 1)) /\ ~(Len(t) + k + 1 <= Len(t))
          /\ Len(t) + k + 1 - Len(t) = k + 1 /\ k + 1 \in 1..(k + 1)
      BY <1>0
    <3>2. tx[Len(t) + k + 1] = x[k + 1]
      BY <1>2, <1>4, <3>1
    <3> QED
      BY <1>2, <1>6, <3>1, <3>2 DEF b
  <2>4. \A i \in 1..(Len(t) + k + 1) :
          i \in 1..Len(t) \/ i \in (Len(t) + 1)..(Len(t) + k) \/ i = Len(t) + k + 1
    BY <1>0
  <2> QED
    BY <2>1, <2>2, <2>3, <2>4
<1>8. Len(tx) = Len(t) + k + 1
  BY <1>0, <1>2, <1>4
<1>9. tx = z
  BY <1>4, <1>6, <1>7, <1>8, SeqEqual
<1> QED
  BY <1>1, <1>5, <1>9 DEF tx, ty, z, x, y, b
LEMMA BytesAreNumbers == \A b \in Byte : b \in Nat /\ b <= 255
BY DEF Byte

LEMMA ByteAt ==
  ASSUME NEW t \in Seq(Byte), NEW i \in 1..Len(t)
  PROVE  t[i] \in Byte /\ t[i] \in Nat
<1>1. t[i] \in Byte
  BY ElementOfSeq
<1> QED
  BY <1>1, BytesAreNumbers
-----------------------------------------------------------------------------
(* What a parser knows of the bytes t that it has taken since it was new. *)

HelloInv(p, t) ==
  /\ p = [state |-> p.state, remaining |-> p.remaining, version |-> p.version,
          method |-> p.method, chosen |-> p.chosen]
  /\ p.version \in Byte /\ p.method \in Byte
  /\ p.chosen = IF p.method \in G!Offered(t) THEN p.method ELSE NO_ACCEPTABLE_METHODS
  /\ \/ p.state = "hello_version" /\ t = << >>
     \/ p.state = "hello_nmethods" /\ Len(t) = 1 /\ t[1] = p.version
     \/ /\ p.state = "hello_methods" /\ Len(t) >= 2 /\ t[1] = p.version
        /\ p.remaining \in Nat \ {0} /\ Len(t) + p.remaining = 2 + t[2]
     \/ p.state = "hello_done" /\ G!IsHello(p.version, t)
     \/ p.state = "hello_error_unsupported_version"

Fields == [state : {"read_N", "long_read"}, size : Int, remaining : Int, result : Seq(Byte),
           check : {"none", "version", "index"}]

\* A table of n substates; what comes after the current one has no result yet.
TableInv(p, n) ==
  /\ p = [current |-> p.current, index |-> p.index, states |-> p.states]
  /\ p.states \in Seq(Fields) /\ Len(p.states) = n
  /\ p.index \in 1..(n + 1)
  /\ \A i \in 1..n : i > p.index => p.states[i].result = << >>

\* A byte by itself.
ByteInv(p, check, t) ==
  /\ TableInv(p, 1)
  /\ p.states[1].check = check
  /\ \/ p.index = 1 /\ p.current = "long_read" /\ t = << >>
          /\ p.states[1].result = << >> /\ p.states[1].remaining = 1
     \/ p.index = 2 /\ p.current = "done_read" /\ Len(t) = 1 /\ p.states[1].result = t
     \/ p.current = "error_read" /\ check # "none"

\* Strings after their lengths, one or two of them, from substate o + 1 on: m is
\* what has been taken of them.
StringsInv(p, o, n, m) ==
  /\ TableInv(p, o + n)
  /\ \A i \in 1..n : p.states[o + i].state = (IF i \in {1, 3} THEN "read_N" ELSE "long_read")
                     /\ p.states[o + i].check = "none"
  /\ \/ p.index = o + 1 /\ p.current = "read_N" /\ m = << >>
     \/ /\ p.index = o + 2 /\ p.current = "long_read"
        /\ Len(m) >= 1 /\ p.states[o + 2].remaining >= 1
        /\ Len(m) + p.states[o + 2].remaining = m[1] + 1
        /\ p.states[o + 2].result = SubSeq(m, 2, Len(m))
     \/ /\ p.index = o + 3 /\ p.current = IF n = 2 THEN "done_read" ELSE "read_N"
        /\ Len(m) >= 1 /\ Len(m) = m[1] + 1
        /\ p.states[o + 2].result = G!Name(m)
     \/ /\ p.index = o + 4 /\ p.current = "long_read"
        /\ Len(m) >= 1 /\ Len(m) >= m[1] + 2 /\ p.states[o + 4].remaining >= 1
        /\ Len(m) + p.states[o + 4].remaining = m[1] + 2 + m[m[1] + 2]
        /\ p.states[o + 2].result = G!Name(m)
        /\ p.states[o + 4].result = SubSeq(m, m[1] + 3, Len(m))
     \/ /\ p.index = o + 5 /\ p.current = "done_read"
        /\ G!IsNameAndPassword(m)
        /\ p.states[o + 2].result = G!Name(m)
        /\ p.states[o + 4].result = G!Password(m)

CredentialsInv(p, t) ==
  \/ /\ TableInv(p, 5)
     /\ p.index = 1 /\ p.current = "long_read" /\ t = << >>
     /\ p.states = <<ReadByte("version"), ReadLength, ReadString, ReadLength, ReadString>>
  \/ Len(t) >= 1 /\ t[1] = 1 /\ StringsInv(p, 1, 4, Tail(t))
  \/ p.current = "error_read"

RequestErrors ==
  {"request_error", "request_error_unsupported_version", "request_error_unsupported_cmd",
   "request_error_unsupported_type"}

\* Up to ATYP nothing has been stored.
BeforeAddress(p, t) ==
  /\ p.dest_addr = << >> /\ p.dest_port = << >>
  /\ \/ p.state = "request_version" /\ t = << >>
     \/ p.state = "request_cmd" /\ Len(t) = 1 /\ t[1] = 5
     \/ p.state = "request_rsv" /\ Len(t) = 2 /\ t[1] = 5 /\ t[2] = 1
     \/ p.state = "request_atyp" /\ Len(t) = 3 /\ t[1] = 5 /\ t[2] = 1
     \/ /\ p.state = "request_dest_addr_fqdn" /\ Len(t) = 4 /\ t[1] = 5 /\ t[2] = 1
        /\ t[4] = 3 /\ p.dest_addr_type = 3

\* The bytes up to the first of the address have been taken.
Header(p, t) ==
  /\ Len(t) >= 4 /\ Len(t) >= G!FirstOfAddress(t) - 1
  /\ t[1] = 5 /\ t[2] = 1 /\ t[4] \in {1, 3, 4} /\ p.dest_addr_type = t[4]
  /\ G!AddressBytes(t) \in Nat \ {0}

InAddress(p, t, first, length) ==
  /\ p.state = "request_dest_addr" /\ Header(p, t)
  /\ p.dest_addr = SubSeq(t, first, Len(t)) /\ p.dest_port = << >>
  /\ p.read = Len(t) - first + 1 /\ p.remaining = length /\ p.read < length

InPort(p, t, first, length) ==
  /\ p.state = "request_dest_port" /\ Header(p, t)
  /\ p.dest_addr = SubSeq(t, first, first + length - 1)
  /\ p.dest_port = SubSeq(t, first + length, Len(t))
  /\ p.read = Len(t) - first - length + 1 /\ p.remaining = 2 /\ p.read \in {0, 1}

AfterRequest(p, t) ==
  /\ p.state = "request_done" /\ G!IsRequest(t)
  /\ G!Destination(t) =
       [type |-> p.dest_addr_type, address |-> p.dest_addr, port |-> p.dest_port]

\* Nothing is said of the fields after a name of no bytes.
AfterEmptyName(p, t) ==
  /\ p.state \in {"request_dest_addr", "request_dest_port", "request_done"}
  /\ Len(t) >= 5 /\ EmptyName(t)

RequestInv(p, t) ==
  /\ p = [state |-> p.state, read |-> p.read, remaining |-> p.remaining,
          dest_addr_type |-> p.dest_addr_type, dest_addr |-> p.dest_addr, dest_port |-> p.dest_port]
  /\ \/ p.state \in RequestErrors
     \/ BeforeAddress(p, t)
     \/ InAddress(p, t, G!FirstOfAddress(t), G!AddressBytes(t))
     \/ InPort(p, t, G!FirstOfAddress(t), G!AddressBytes(t))
     \/ AfterRequest(p, t)
     \/ AfterEmptyName(p, t)

(* One name for each of the tables and of the other two parsers. *)

Grammars == {"hello", "credentials", "index", "add_user", "delete_user", "yes_no", "request"}

KindOf(g) == IF g \in {"hello", "request"} THEN g ELSE "fields"

ParserInv(g, p, t) ==
  CASE g = "hello"       -> HelloInv(p, t)
    [] g = "credentials" -> CredentialsInv(p, t)
    [] g = "index"       -> ByteInv(p, "index", t)
    [] g = "add_user"    -> StringsInv(p, 0, 4, t)
    [] g = "delete_user" -> StringsInv(p, 0, 2, t)
    [] g = "yes_no"      -> ByteInv(p, "none", t)
    [] g = "request"     -> RequestInv(p, t)
-----------------------------------------------------------------------------
(* hello.c *)

LEMMA HelloStarts ==
  ASSUME NEW version \in Byte, NEW method \in Byte
  PROVE  HelloInv(hello_parser_init(version, method), << >>)
BY DEF HelloInv, hello_parser_init, G!Offered, NO_ACCEPTABLE_METHODS

\* What is offered after the first two bytes.
LEMMA OneMoreOffered ==
  ASSUME NEW t \in Seq(Byte), NEW b \in Byte
  PROVE  G!Offered(Append(t, b)) = IF Len(t) >= 2 THEN G!Offered(t) \cup {b} ELSE {}
<1> DEFINE u == Append(t, b)
<1>1. /\ Len(u) = Len(t) + 1 /\ Len(t) \in Nat /\ (\A i \in 1..Len(t) : u[i] = t[i])
      /\ u[Len(t) + 1] = b
  BY AppendFacts
<1> HIDE DEF u
<1>2. CASE Len(t) >= 2
  <2>1. \A x : x \in G!Offered(u) <=> \E i \in 3..Len(u) : x = u[i]
    BY DEF G!Offered
  <2>2. \A x : x \in G!Offered(t) <=> \E i \in 3..Len(t) : x = t[i]
    BY DEF G!Offered
  <2>3. \A i : i \in 3..Len(u) <=> i \in 3..Len(t) \/ i = Len(t) + 1
    BY <1>1, <1>2
  <2>4. \A i \in 3..Len(t) : u[i] = t[i]
    BY <1>1
  <2>5. ASSUME NEW x PROVE x \in G!Offered(u) <=> x \in G!Offered(t) \/ x = b
    <3>1. ASSUME x \in G!Offered(u) PROVE x \in G!Offered(t) \/ x = b
      <4>1. PICK i \in 3..Len(u) : x = u[i]
        BY <2>1, <3>1
      <4> QED
        BY <1>1, <2>2, <2>3, <2>4, <4>1
    <3>2. ASSUME x \in G!Offered(t) PROVE x \in G!Offered(u)
      <4>1. PICK i \in 3..Len(t) : x = t[i]
        BY <2>2, <3>2
      <4>2. i \in 3..Len(u) /\ u[i] = x
        BY <2>3, <2>4, <4>1
      <4> QED
        BY <2>1, <4>2
    <3>3. b \in G!Offered(u)
      <4>1. Len(t) + 1 \in 3..Len(u) /\ u[Len(t) + 1] = b
        BY <1>1, <2>3
      <4> QED
        BY <2>1, <4>1
    <3> QED
      BY <3>1, <3>2, <3>3
  <2> QED
    BY <1>2, <2>5 DEF u
<1>3. CASE ~(Len(t) >= 2)
  <2>1. 3..Len(u) = {}
    BY <1>1, <1>3
  <2> QED
    BY <1>3, <2>1 DEF G!Offered, u
<1> QED
  BY <1>2, <1>3

LEMMA HelloFeed ==
  ASSUME NEW p, NEW t \in Seq(Byte), NEW b \in Byte, HelloInv(p, t), ~hello_is_done(p)
  PROVE  HelloInv(hello_parser_feed(p, b), Append(t, b))
<1> DEFINE u == Append(t, b)
           q == hello_parser_feed(p, b)
<1>1. /\ Len(u) = Len(t) + 1 /\ Len(t) \in Nat /\ (\A i \in 1..Len(t) : u[i] = t[i])
      /\ u[Len(t) + 1] = b /\ b \in 0..255
      /\ G!Offered(u) = IF Len(t) >= 2 THEN G!Offered(t) \cup {b} ELSE {}
      /\ Len(t) < 2 => G!Offered(t) = {}
  <2>1. /\ Len(u) = Len(t) + 1 /\ Len(t) \in Nat /\ (\A i \in 1..Len(t) : u[i] = t[i])
        /\ u[Len(t) + 1] = b
    BY AppendFacts
  <2>2. G!Offered(u) = IF Len(t) >= 2 THEN G!Offered(t) \cup {b} ELSE {}
    BY OneMoreOffered
  <2>3. Len(t) < 2 => G!Offered(t) = {}
    BY <2>1 DEF G!Offered
  <2>4. b \in 0..255
    BY DEF Byte
  <2> QED
    BY <2>1, <2>2, <2>3, <2>4
<1>2. /\ p = [state |-> p.state, remaining |-> p.remaining, version |-> p.version,
              method |-> p.method, chosen |-> p.chosen]
      /\ p.version \in Byte /\ p.method \in Byte
      /\ p.chosen = IF p.method \in G!Offered(t) THEN p.method ELSE NO_ACCEPTABLE_METHODS
  BY DEF HelloInv
<1> SUFFICES HelloInv(q, u)
  OBVIOUS
<1> HIDE DEF u
<1>3. CASE p.state = "hello_version"
  <2>1. t = << >> /\ Len(t) = 0
    BY <1>3 DEF HelloInv
  <2>2. q = [p EXCEPT !.state = IF b = p.version THEN "hello_nmethods"
                               ELSE "hello_error_unsupported_version"]
    BY <1>3 DEF hello_parser_feed
  <2>3. /\ q.remaining = p.remaining /\ q.version = p.version /\ q.method = p.method
        /\ q.chosen = p.chosen
        /\ q = [state |-> q.state, remaining |-> q.remaining, version |-> q.version,
                method |-> q.method, chosen |-> q.chosen]
        /\ \/ b = p.version /\ q.state = "hello_nmethods"
           \/ q.state = "hello_error_unsupported_version"
    BY <1>2, <2>2
  <2> HIDE DEF q
  <2> QED
    BY <1>1, <1>2, <2>1, <2>3 DEF HelloInv
<1>4. CASE p.state = "hello_nmethods"
  <2>1. Len(t) = 1 /\ t[1] = p.version
    BY <1>4 DEF HelloInv
  <2>2. q = [p EXCEPT !.remaining = b, !.state = IF b = 0 THEN "hello_done" ELSE "hello_methods"]
    BY <1>4 DEF hello_parser_feed
  <2>3. /\ q.remaining = b /\ q.version = p.version /\ q.method = p.method
        /\ q.chosen = p.chosen
        /\ q = [state |-> q.state, remaining |-> q.remaining, version |-> q.version,
                method |-> q.method, chosen |-> q.chosen]
        /\ q.state = IF b = 0 THEN "hello_done" ELSE "hello_methods"
    BY <1>2, <2>2
  <2> HIDE DEF q
  <2>4. Len(u) = 2 /\ u[1] = p.version /\ u[2] = b
    BY <1>1, <2>1
  <2>5. q.chosen = IF q.method \in G!Offered(u) THEN q.method ELSE NO_ACCEPTABLE_METHODS
    BY <1>1, <1>2, <2>1, <2>3
  <2> QED
    <3>1. \/ q.state = "hello_done" /\ G!IsHello(q.version, u)
          \/ /\ q.state = "hello_methods" /\ Len(u) >= 2 /\ u[1] = q.version
             /\ q.remaining \in Nat \ {0} /\ Len(u) + q.remaining = 2 + u[2]
      <4>1. CASE b = 0
        <5>1. Len(u) = 2 + u[2]
          BY <2>4, <4>1
        <5> QED
          BY <2>3, <2>4, <4>1, <5>1 DEF G!IsHello
      <4>2. CASE b # 0
        <5>1. b \in Nat \ {0} /\ Len(u) + b = 2 + b
          BY <2>4, <4>2, BytesAreNumbers
        <5> QED
          BY <2>3, <2>4, <4>2, <5>1
      <4> QED
        BY <4>1, <4>2
    <3> QED
      BY <1>2, <2>3, <2>5, <3>1 DEF HelloInv
<1>5. CASE p.state = "hello_methods"
  <2>1. /\ Len(t) >= 2 /\ t[1] = p.version
        /\ p.remaining \in Nat \ {0} /\ Len(t) + p.remaining = 2 + t[2]
    BY <1>5 DEF HelloInv
  <2> DEFINE chosen == IF b = p.method THEN b ELSE p.chosen
             next == IF p.remaining = 1 THEN "hello_done" ELSE "hello_methods"
             rest == p.remaining - 1
  <2>2. q = [state |-> next, remaining |-> rest, version |-> p.version,
             method |-> p.method, chosen |-> chosen]
    <3>1. q = [on_hello_method(p, b) EXCEPT !.remaining = @ - 1,
                 !.state = IF p.remaining = 1 THEN "hello_done" ELSE @]
      BY <1>5 DEF hello_parser_feed
    <3> DEFINE o == on_hello_method(p, b)
    <3>2. o = [state |-> p.state, remaining |-> p.remaining, version |-> p.version,
               method |-> p.method, chosen |-> chosen]
      BY <1>2 DEF on_hello_method
    <3> HIDE DEF o, chosen
    <3>3. o.state = "hello_methods" /\ o.remaining = p.remaining
      BY <1>5, <3>2
    <3>4. q = [o EXCEPT !.remaining = rest, !.state = next]
      BY <3>1, <3>3 DEF o
    <3> HIDE DEF q, rest, next
    <3> QED
      BY <3>2, <3>4
  <2>3. u[1] = p.version /\ u[2] = t[2] /\ Len(u) >= 2
    BY <1>1, <2>1
  <2>4. chosen = IF p.method \in G!Offered(u) THEN p.method ELSE NO_ACCEPTABLE_METHODS
    BY <1>1, <1>2, <2>1
  <2>5. \/ next = "hello_done" /\ Len(u) = 2 + t[2]
        \/ next = "hello_methods" /\ rest \in Nat \ {0} /\ Len(u) + rest = 2 + t[2]
    <3>1. 2 \in 1..Len(t)
      BY <1>1, <2>1
    <3> DEFINE n == t[2]
    <3>3. n \in Nat
      BY <3>1, ByteAt
    <3> HIDE DEF n
    <3>4. Len(t) + p.remaining = 2 + n
      BY <2>1 DEF n
    <3>5. CASE p.remaining = 1
      <4>1. Len(u) = 2 + n
        BY <1>1, <3>3, <3>4, <3>5
      <4> QED
        BY <3>5, <4>1 DEF n
    <3>6. CASE p.remaining # 1
      <4>1. rest \in Nat \ {0} /\ Len(u) + rest = 2 + n
        BY <1>1, <2>1, <3>3, <3>4, <3>6
      <4> HIDE DEF rest
      <4> QED
        BY <3>6, <4>1 DEF n
    <3> QED
      BY <3>5, <3>6
  <2> HIDE DEF q, next, rest, chosen
  <2> QED
    BY <1>2, <2>2, <2>3, <2>4, <2>5 DEF HelloInv, G!IsHello
<1> QED
  BY <1>3, <1>4, <1>5 DEF HelloInv, hello_is_done
-----------------------------------------------------------------------------
(* new_parser.c *)

\* What no byte changes in a table.
SameTable(p, q, n) ==
  \A i \in 1..n : q.states[i].state = p.states[i].state /\ q.states[i].check = p.states[i].check

LEMMA NextSubstateIs ==
  ASSUME NEW n \in Nat, NEW p, TableInv(p, n), p.index <= n
  PROVE  /\ TableInv(NextSubstate(p), n)
         /\ NextSubstate(p).states = p.states
         /\ NextSubstate(p).index = p.index + 1
         /\ NextSubstate(p).current =
              IF p.index = n THEN "done_read" ELSE p.states[p.index + 1].state
<1> DEFINE q == NextSubstate(p)
           next == IF p.index = n THEN "done_read" ELSE p.states[p.index + 1].state
           k == p.index + 1
<1>1. /\ p = [current |-> p.current, index |-> p.index, states |-> p.states]
      /\ p.states \in Seq(Fields) /\ Len(p.states) = n /\ p.index \in 1..(n + 1)
      /\ \A i \in 1..n : i > p.index => p.states[i].result = << >>
  BY DEF TableInv
<1>2. q = [p EXCEPT !.index = k, !.current = next]
  <2>1. CASE p.index = n
    BY <1>1, <2>1 DEF NextSubstate
  <2>2. CASE p.index # n
    BY <1>1, <2>2 DEF NextSubstate
  <2> QED
    BY <2>1, <2>2
<1> HIDE DEF q, next
<1>3. k \in 1..(n + 1) /\ \A i \in 1..n : i > k => i > p.index
  BY <1>1
<1> HIDE DEF k
<1>4. q = [current |-> next, index |-> k, states |-> p.states]
  BY <1>1, <1>2
<1>5. q.current = next /\ q.index = k /\ q.states = p.states
  BY <1>4
<1>6. \A i \in 1..n : i > k => q.states[i].result = << >>
  BY <1>1, <1>3, <1>5
<1>7. TableInv(q, n)
  BY <1>1, <1>3, <1>4, <1>5, <1>6 DEF TableInv
<1> QED
  BY <1>5, <1>7 DEF q, next, k

LEMMA WithLengthIs ==
  ASSUME NEW n \in Nat, NEW p, TableInv(p, n), p.index < n, NEW b \in Byte
  PROVE  LET q == WithLength(p, b) IN
         /\ TableInv(q, n) /\ SameTable(p, q, n)
         /\ q.current = p.current /\ q.index = p.index
         /\ \A i \in 1..n : q.states[i].result = p.states[i].result
         /\ q.states[p.index + 1].remaining = b
<1> DEFINE q == WithLength(p, b)
           k == p.index + 1
           f == p.states[k]
           g == [f EXCEPT !.size = b, !.remaining = b]
           s == [p.states EXCEPT ![k] = g]
<1>1. /\ p = [current |-> p.current, index |-> p.index, states |-> p.states]
      /\ p.states \in Seq(Fields) /\ Len(p.states) = n /\ p.index \in 1..(n + 1)
      /\ \A i \in 1..n : i > p.index => p.states[i].result = << >>
  BY DEF TableInv
<1>2. k \in 1..n
  BY <1>1
<1>3. f \in Fields /\ b \in Int
  BY <1>1, <1>2, ElementOfSeq, BytesAreNumbers
<1>4. /\ g \in Fields /\ g.state = f.state /\ g.check = f.check /\ g.result = f.result
      /\ g.remaining = b
  <2> HIDE DEF f
  <2> QED
    BY <1>3 DEF Fields
<1>5. q = [current |-> p.current, index |-> p.index, states |-> s]
  <2> DEFINE e == [p.states[k] EXCEPT !.size = b, !.remaining = b]
             s2 == [p.states EXCEPT ![k].size = b, ![k].remaining = b]
             s1 == [[p.states EXCEPT ![k].size = b] EXCEPT ![k].remaining = b]
  <2>1. q = [p EXCEPT !.states[k].size = b, !.states[k].remaining = b]
    BY DEF WithLength
  <2> HIDE DEF k
  <2>2. q = [current |-> p.current, index |-> p.index, states |-> s2]
    <3> HIDE DEF q
    <3> QED
      BY <1>1, <2>1
  <2>3. s2 = s1
    OBVIOUS
  <2>4. s1 = [p.states EXCEPT ![k] = e]
    <3>1. p.states \in [1..n -> Fields]
      BY <1>1
    <3> QED
      BY <3>1
  <2>5. e = g
    OBVIOUS
  <2> HIDE DEF e, g, s2, s1, q
  <2> QED
    BY <2>2, <2>3, <2>4, <2>5
<1> HIDE DEF g, q, f
<1>6. /\ s \in Seq(Fields) /\ Len(s) = n
      /\ \A i \in 1..n : s[i] = IF i = k THEN g ELSE p.states[i]
  BY <1>1, <1>2, <1>4, ExceptSeq
<1> HIDE DEF s
<1>7. q.current = p.current /\ q.index = p.index /\ q.states = s
  BY <1>5
<1>8. /\ s[k] = g
      /\ \A i \in 1..n : /\ s[i].result = p.states[i].result
                         /\ s[i].state = p.states[i].state /\ s[i].check = p.states[i].check
  BY <1>2, <1>4, <1>6 DEF f
<1>9. TableInv(q, n)
  BY <1>1, <1>5, <1>6, <1>7, <1>8 DEF TableInv
<1>10. SameTable(p, q, n)
  BY <1>7, <1>8 DEF SameTable
<1> QED
  BY <1>4, <1>7, <1>8, <1>9, <1>10 DEF q, k

\* The length of a string: on to the string, or past it if it is of no bytes.
LEMMA ReadsLength ==
  ASSUME NEW n \in Nat, NEW p, TableInv(p, n), p.current = "read_N", p.index < n, NEW b \in Byte
  PROVE  LET q == parser_feed(p, b) IN
         /\ TableInv(q, n) /\ SameTable(p, q, n)
         /\ \A i \in 1..n : q.states[i].result = p.states[i].result
         /\ b # 0 => /\ q.index = p.index + 1 /\ q.current = p.states[p.index + 1].state
                     /\ q.states[p.index + 1].remaining = b
         /\ b = 0 => /\ q.index = p.index + 2
                     /\ q.current = IF p.index + 1 = n THEN "done_read"
                                    ELSE p.states[p.index + 2].state
<1> DEFINE q == parser_feed(p, b)
           w == WithLength(p, b)
           x == NextSubstate(w)
           y == NextSubstate(x)
<1>1. Len(p.states) = n /\ p.index \in 1..(n + 1)
  BY DEF TableInv
<1>2. q = IF b = 0 THEN y ELSE x
  BY <1>1 DEF parser_feed, read_N
<1>3. /\ TableInv(w, n) /\ SameTable(p, w, n)
      /\ w.index = p.index
      /\ \A i \in 1..n : w.states[i].result = p.states[i].result
      /\ w.states[p.index + 1].remaining = b
  BY WithLengthIs
<1> HIDE DEF w
<1>4. /\ TableInv(x, n) /\ x.states = w.states /\ x.index = p.index + 1
      /\ x.current = w.states[p.index + 1].state
  BY <1>1, <1>3, NextSubstateIs
<1> HIDE DEF x
<1>5. /\ TableInv(y, n) /\ y.states = w.states /\ y.index = p.index + 2
      /\ y.current = IF p.index + 1 = n THEN "done_read" ELSE w.states[p.index + 2].state
  <2>1. x.index <= n /\ x.index + 1 = p.index + 2
    BY <1>1, <1>4
  <2> QED
    BY <1>4, <2>1, NextSubstateIs
<1>6. /\ p.index + 1 \in 1..n
      /\ p.index + 1 # n => p.index + 2 \in 1..n
  BY <1>1
<1>7. /\ w.states[p.index + 1].state = p.states[p.index + 1].state
      /\ p.index + 1 # n => w.states[p.index + 2].state = p.states[p.index + 2].state
  BY <1>3, <1>6 DEF SameTable
<1>8. SameTable(p, x, n) /\ SameTable(p, y, n)
  BY <1>3, <1>4, <1>5 DEF SameTable
<1> HIDE DEF y, q
<1>9. CASE b = 0
  BY <1>2, <1>3, <1>5, <1>7, <1>8, <1>9 DEF q
<1>10. CASE b # 0
  BY <1>2, <1>3, <1>4, <1>7, <1>8, <1>10 DEF q
<1> QED
  BY <1>9, <1>10

\* A substate with one byte more.
WithByte(f, b) == [f EXCEPT !.result = Append(@, b), !.remaining = @ - 1]

\* What becomes of the table p when its substate k, which is f, takes the byte b.
ByteRead(n, p, b, k, f, q) ==
  /\ TableInv(q, n) /\ SameTable(p, q, n)
  /\ q.states[k].result = Append(f.result, b)
  /\ \A i \in 1..n : i # k => q.states[i].result = p.states[i].result
  /\ f.remaining \in Int
  /\ f.remaining > 1 => /\ q.index = k /\ q.current = "long_read"
                        /\ q.states[k].remaining = f.remaining - 1
  /\ f.remaining <= 1 /\ CheckPasses(WithByte(f, b)) =>
       /\ q.index = k + 1
       /\ q.current = IF k = n THEN "done_read" ELSE p.states[k + 1].state
  /\ f.remaining <= 1 /\ ~CheckPasses(WithByte(f, b)) => q.current = "error_read"

LEMMA ReadsByte ==
  ASSUME NEW n \in Nat, NEW p, TableInv(p, n), p.current = "long_read", NEW b \in Byte,
         NEW k \in 1..n, p.index = k, NEW f, f = p.states[k], NEW q, q = parser_feed(p, b)
  PROVE  ByteRead(n, p, b, k, f, q)
<1> DEFINE r == Append(f.result, b)
           m == f.remaining - 1
           g == WithByte(f, b)
           s == [p.states EXCEPT ![k] = g]
           w == [p EXCEPT !.states[p.index].result = Append(@, b),
                          !.states[p.index].remaining = @ - 1]
<1>1. /\ p = [current |-> p.current, index |-> p.index, states |-> p.states]
      /\ p.states \in Seq(Fields) /\ Len(p.states) = n /\ p.index \in 1..(n + 1)
      /\ \A i \in 1..n : i > p.index => p.states[i].result = << >>
  BY DEF TableInv
<1>2. k \in 1..n /\ p.index = k
  OBVIOUS
<1>3. f \in Fields
  BY <1>1, <1>2, ElementOfSeq
<1>4. r \in Seq(Byte) /\ m \in Int /\ f.remaining \in Int
  <2>1. f.result \in Seq(Byte) /\ f.remaining \in Int
    BY <1>3 DEF Fields
  <2> QED
    BY <2>1, AppendFacts
<1>5. g = [f EXCEPT !.result = r, !.remaining = m]
  BY DEF WithByte
<1> HIDE DEF g
<1>6. /\ g \in Fields /\ g.state = f.state /\ g.check = f.check /\ g.result = r
      /\ g.remaining = m
  <2> HIDE DEF r, m
  <2> QED
    BY <1>3, <1>4, <1>5 DEF Fields
<1>7. w = [current |-> p.current, index |-> p.index, states |-> s]
  <2> DEFINE e == [p.states[k] EXCEPT !.result = r, !.remaining = m]
             s2 == [p.states EXCEPT ![k].result = r, ![k].remaining = m]
             s1 == [[p.states EXCEPT ![k].result = r] EXCEPT ![k].remaining = m]
  <2>1. w = [p EXCEPT !.states[k].result = r, !.states[k].remaining = m]
    OBVIOUS
  <2> HIDE DEF r, m
  <2>2. w = [current |-> p.current, index |-> p.index, states |-> s2]
    <3> HIDE DEF w
    <3> QED
      BY <1>1, <2>1
  <2>3. s2 = s1
    OBVIOUS
  <2>4. s1 = [p.states EXCEPT ![k] = e]
    <3>1. p.states \in [1..n -> Fields]
      BY <1>1
    <3> QED
      BY <3>1
  <2>5. e = g
    BY <1>5
  <2> HIDE DEF e, s2, s1, w
  <2> QED
    BY <2>2, <2>3, <2>4, <2>5
<1>8. q = CASE w.states[p.index].remaining > 0 -> w
            [] w.states[p.index].remaining <= 0 /\ CheckPasses(w.states[p.index]) -> NextSubstate(w)
            [] OTHER -> [w EXCEPT !.current = "error_read"]
  BY DEF parser_feed, long_read
<1> HIDE DEF w
<1>9. /\ s \in Seq(Fields) /\ Len(s) = n
      /\ \A i \in 1..n : s[i] = IF i = k THEN g ELSE p.states[i]
  BY <1>1, <1>2, <1>6, ExceptSeq
<1> HIDE DEF s
<1>10. w.current = "long_read" /\ w.index = k /\ w.states = s
  BY <1>2, <1>7
<1>11. /\ s[k] = g
       /\ \A i \in 1..n : i # k => s[i] = p.states[i]
       /\ \A i \in 1..n : s[i].state = p.states[i].state /\ s[i].check = p.states[i].check
  BY <1>2, <1>6, <1>9
<1>12. q = CASE m > 0 -> w
              [] m <= 0 /\ CheckPasses(g) -> NextSubstate(w)
              [] OTHER -> [w EXCEPT !.current = "error_read"]
  <2>1. w.states[p.index] = g /\ g.remaining = m
    BY <1>2, <1>6, <1>10, <1>11
  <2> HIDE DEF m
  <2> QED
    BY <1>8, <2>1
<1>13. TableInv(w, n)
  <2>1. \A i \in 1..n : i > k => s[i].result = << >>
    BY <1>1, <1>2, <1>11
  <2> QED
    BY <1>1, <1>2, <1>7, <1>9, <1>10, <2>1 DEF TableInv
<1>14. \A x : x.states = s => /\ SameTable(p, x, n)
                              /\ x.states[k].result = r
                              /\ \A i \in 1..n : i # k => x.states[i].result = p.states[i].result
  BY <1>6, <1>11 DEF SameTable
<1> HIDE DEF r
<1>15. CASE f.remaining > 1
  <2>1. m > 0
    BY <1>3, <1>15 DEF Fields
  <2>2. q = w
    BY <1>4, <1>12, <2>1
  <2>3. q.index = k /\ q.current = "long_read" /\ q.states = s /\ TableInv(q, n)
    BY <1>10, <1>13, <2>2
  <2>4. q.states[k].remaining = f.remaining - 1
    BY <1>6, <1>11, <2>3 DEF m
  <2>5. ~(f.remaining <= 1)
    BY <1>4, <1>15
  <2> HIDE DEF m
  <2> QED
    BY <1>4, <1>14, <1>15, <2>3, <2>4, <2>5 DEF r, ByteRead
<1>16. CASE f.remaining <= 1 /\ CheckPasses(g)
  <2>1. m <= 0 /\ ~(m > 0) /\ ~(f.remaining > 1)
    BY <1>3, <1>16 DEF Fields
  <2>2. q = NextSubstate(w)
    BY <1>12, <1>16, <2>1
  <2>3. /\ TableInv(q, n) /\ q.states = s /\ q.index = k + 1
        /\ q.current = IF k = n THEN "done_read" ELSE s[k + 1].state
    BY <1>2, <1>10, <1>13, <2>2, NextSubstateIs
  <2>4. k # n => s[k + 1].state = p.states[k + 1].state
    BY <1>2, <1>11
  <2> QED
    BY <1>4, <1>14, <1>16, <2>1, <2>3, <2>4 DEF r, g, ByteRead
<1>17. CASE f.remaining <= 1 /\ ~CheckPasses(g)
  <2>1. m <= 0 /\ ~(m > 0) /\ ~(f.remaining > 1)
    BY <1>3, <1>17 DEF Fields
  <2>2. q = [w EXCEPT !.current = "error_read"]
    BY <1>12, <1>17, <2>1
  <2>3. q = [current |-> "error_read", index |-> k, states |-> s]
    BY <1>2, <1>7, <2>2
  <2>4. q.current = "error_read" /\ q.index = k /\ q.states = s
    BY <2>3
  <2>5. TableInv(q, n)
    BY <1>10, <1>13, <2>3, <2>4 DEF TableInv
  <2> QED
    BY <1>4, <1>14, <1>17, <2>1, <2>4, <2>5 DEF r, g, ByteRead
<1>18. f.remaining > 1 \/ f.remaining <= 1
  BY <1>4
<1> QED
  BY <1>15, <1>16, <1>17, <1>18, Zenon DEF g

\* The same if there is nothing to check.
PlainByteRead(n, p, b, k, f, q) ==
  /\ TableInv(q, n) /\ SameTable(p, q, n)
  /\ q.states[k].result = Append(f.result, b)
  /\ \A i \in 1..n : i # k => q.states[i].result = p.states[i].result
  /\ f.remaining \in Int
  /\ f.remaining > 1 => /\ q.index = k /\ q.current = "long_read"
                        /\ q.states[k].remaining = f.remaining - 1
  /\ f.remaining <= 1 => /\ q.index = k + 1
                         /\ q.current = IF k = n THEN "done_read" ELSE p.states[k + 1].state

LEMMA ReadsPlainByte ==
  ASSUME NEW n \in Nat, NEW p, TableInv(p, n), p.current = "long_read", NEW b \in Byte,
         NEW k \in 1..n, p.index = k, NEW f, f = p.states[k], f.check = "none",
         NEW q, q = parser_feed(p, b)
  PROVE  PlainByteRead(n, p, b, k, f, q)
<1>1. f \in Fields
  BY ElementOfSeq DEF TableInv
<1>2. WithByte(f, b).check = "none"
  BY <1>1 DEF Fields, WithByte
<1>3. CheckPasses(WithByte(f, b))
  BY <1>2 DEF CheckPasses
<1>4. ByteRead(n, p, b, k, f, q)
  BY ReadsByte
<1> QED
  BY <1>3, <1>4 DEF ByteRead, PlainByteRead

LEMMA KindsOfStrings ==
  ASSUME NEW o \in {0, 1}, NEW n \in {2, 4}, NEW p, NEW m, StringsInv(p, o, n, m)
  PROVE  /\ o + n \in Nat /\ TableInv(p, o + n)
         /\ \A i \in 1..n : o + i \in 1..(o + n)
         /\ p.states[o + 1].state = "read_N"
         /\ p.states[o + 2].state = "long_read" /\ p.states[o + 2].check = "none"
         /\ n = 4 => /\ p.states[o + 3].state = "read_N"
                     /\ p.states[o + 4].state = "long_read" /\ p.states[o + 4].check = "none"
<1>1. 1 \in 1..n /\ 2 \in 1..n /\ (n = 4 => 3 \in 1..n /\ 4 \in 1..n)
  OBVIOUS
<1>2. \A i \in 1..n : p.states[o + i].state = (IF i \in {1, 3} THEN "read_N" ELSE "long_read")
                      /\ p.states[o + i].check = "none"
  BY DEF StringsInv
<1> QED
  BY <1>1, <1>2 DEF StringsInv

\* What of StringsInv no byte changes.
LEMMA KindsStay ==
  ASSUME NEW o \in {0, 1}, NEW n \in {2, 4}, NEW p, NEW m, StringsInv(p, o, n, m),
         NEW q, SameTable(p, q, o + n)
  PROVE  \A i \in 1..n : q.states[o + i].state = (IF i \in {1, 3} THEN "read_N" ELSE "long_read")
                         /\ q.states[o + i].check = "none"
<1>1. \A i \in 1..n : o + i \in 1..(o + n)
  BY KindsOfStrings
<1> QED
  BY <1>1 DEF StringsInv, SameTable

LEMMA NoPart ==
  ASSUME NEW t \in Seq(Byte), NEW i \in 1..(Len(t) + 1)
  PROVE  SubSeq(t, i, i - 1) = << >>
<1>1. i \in Int /\ i - 1 \in Int /\ i > i - 1
  OBVIOUS
<1> QED
  BY <1>1, SubSeqEmpty

LEMMA FirstLength ==
  ASSUME NEW o \in {0, 1}, NEW n \in {2, 4}, NEW p, NEW m \in Seq(Byte), NEW b \in Byte,
         StringsInv(p, o, n, m), p.index = o + 1, p.current = "read_N", m = << >>
  PROVE  StringsInv(parser_feed(p, b), o, n, Append(m, b))
<1> DEFINE q == parser_feed(p, b)
           u == Append(m, b)
<1>1. /\ o + n \in Nat /\ TableInv(p, o + n)
      /\ p.states[o + 2].state = "long_read"
      /\ n = 4 => p.states[o + 3].state = "read_N"
  BY KindsOfStrings
<1>2. u \in Seq(Byte) /\ Len(u) = 1 /\ u[1] = b /\ b \in Nat
  BY AppendFacts, BytesAreNumbers
<1>3. /\ o + 2 \in 1..(o + n) /\ o + 2 > p.index /\ p.index < o + n
      /\ p.index + 1 = o + 2 /\ p.index + 2 = o + 3
      /\ (o + 2 = o + n <=> n = 2)
  OBVIOUS
<1>4. p.states[o + 2].result = << >>
  BY <1>1, <1>3 DEF TableInv
<1>5. /\ TableInv(q, o + n) /\ SameTable(p, q, o + n)
      /\ \A i \in 1..(o + n) : q.states[i].result = p.states[i].result
      /\ b # 0 => /\ q.index = o + 2 /\ q.current = p.states[o + 2].state
                  /\ q.states[o + 2].remaining = b
      /\ b = 0 => /\ q.index = o + 3
                  /\ q.current = IF o + 2 = o + n THEN "done_read" ELSE p.states[o + 3].state
  BY <1>1, <1>3, ReadsLength
<1> HIDE DEF q, u
<1>6. \A i \in 1..n : q.states[o + i].state = (IF i \in {1, 3} THEN "read_N" ELSE "long_read")
                      /\ q.states[o + i].check = "none"
  BY <1>5, KindsStay
<1>7. q.states[o + 2].result = << >>
  BY <1>3, <1>4, <1>5
<1>8. SubSeq(u, 2, 1) = << >>
  <2>1. 2 \in 1..(Len(u) + 1) /\ 2 - 1 = 1
    BY <1>2
  <2> QED
    BY <1>2, <2>1, NoPart
<1>9. CASE b = 0
  <2>1. G!Name(u) = << >>
    BY <1>2, <1>8, <1>9 DEF G!Name
  <2>2. q.index = o + 3 /\ q.current = IF n = 2 THEN "done_read" ELSE "read_N"
    BY <1>1, <1>3, <1>5, <1>9
  <2>3. Len(u) >= 1 /\ Len(u) = u[1] + 1
    BY <1>2, <1>9
  <2> QED
    BY <1>5, <1>6, <1>7, <2>1, <2>2, <2>3 DEF StringsInv, q, u
<1>10. CASE b # 0
  <2>1. q.index = o + 2 /\ q.current = "long_read" /\ q.states[o + 2].remaining = b
    BY <1>1, <1>5, <1>10
  <2>2. Len(u) >= 1 /\ b >= 1 /\ Len(u) + b = u[1] + 1
    BY <1>2, <1>10
  <2>3. q.states[o + 2].result = SubSeq(u, 2, Len(u))
    BY <1>2, <1>7, <1>8
  <2> QED
    BY <1>5, <1>6, <2>1, <2>2, <2>3 DEF StringsInv, q, u
<1> QED
  BY <1>9, <1>10

LEMMA NameByte ==
  ASSUME NEW o \in {0, 1}, NEW n \in {2, 4}, NEW p, NEW m \in Seq(Byte), NEW b \in Byte,
         StringsInv(p, o, n, m), p.index = o + 2, p.current = "long_read"
  PROVE  StringsInv(parser_feed(p, b), o, n, Append(m, b))
<1> DEFINE q == parser_feed(p, b)
           u == Append(m, b)
           l == m[1]
           k == o + 2
           f == p.states[k]
           r == f.remaining
<1>1. /\ o + n \in Nat /\ TableInv(p, o + n) /\ f.check = "none"
      /\ n = 4 => p.states[o + 3].state = "read_N"
  BY KindsOfStrings
<1>2. /\ Len(m) >= 1 /\ r >= 1 /\ Len(m) + r = l + 1
      /\ f.result = SubSeq(m, 2, Len(m))
  BY DEF StringsInv
<1>4. /\ u \in Seq(Byte) /\ Len(u) = Len(m) + 1 /\ Len(m) \in Nat
      /\ \A i \in 1..Len(m) : u[i] = m[i]
  BY AppendFacts
<1>5. 1 \in 1..Len(m) /\ l \in Nat /\ u[1] = l
  <2>1. 1 \in 1..Len(m)
    BY <1>2, <1>4
  <2> QED
    BY <1>4, <2>1, ByteAt
<1>6. Append(f.result, b) = SubSeq(u, 2, Len(u))
  <2>1. 2 \in 1..(Len(m) + 1)
    BY <1>2, <1>4
  <2> QED
    BY <1>2, <1>4, <2>1, AppendToPart
<1>7. /\ o + 2 \in 1..(o + n) /\ (o + 2) + 1 = o + 3 /\ (o + 2 = o + n <=> n = 2)
  OBVIOUS
<1>9. /\ TableInv(q, o + n) /\ SameTable(p, q, o + n) /\ r \in Int
      /\ q.states[o + 2].result = Append(f.result, b)
      /\ r > 1 => /\ q.index = o + 2 /\ q.current = "long_read"
                  /\ q.states[o + 2].remaining = r - 1
      /\ r <= 1 => /\ q.index = o + 3
                   /\ q.current = IF o + 2 = o + n THEN "done_read" ELSE p.states[o + 3].state
  <2>1. PlainByteRead(o + n, p, b, o + 2, f, q)
    BY <1>1, <1>7, ReadsPlainByte
  <2> HIDE DEF q, f
  <2> QED
    BY <1>7, <2>1 DEF PlainByteRead
<1> HIDE DEF q, u, f, r, l
<1>10. \A i \in 1..n : q.states[o + i].state = (IF i \in {1, 3} THEN "read_N" ELSE "long_read")
                       /\ q.states[o + i].check = "none"
  BY <1>9, KindsStay
<1>11. q.states[o + 2].result = SubSeq(u, 2, Len(u))
  BY <1>6, <1>9
<1>12. CASE r > 1
  <2>1. r - 1 >= 1 /\ Len(u) + (r - 1) = l + 1 /\ Len(u) >= 1
    BY <1>2, <1>4, <1>5, <1>9, <1>12
  <2> QED
    BY <1>5, <1>9, <1>10, <1>11, <1>12, <2>1 DEF StringsInv, q, u
<1>13. CASE r <= 1
  <2>1. Len(u) >= 1 /\ Len(u) = u[1] + 1
    BY <1>2, <1>4, <1>5, <1>9, <1>13
  <2>2. q.states[o + 2].result = G!Name(u)
    BY <1>11, <2>1 DEF G!Name
  <2>3. q.index = o + 3 /\ q.current = IF n = 2 THEN "done_read" ELSE "read_N"
    BY <1>1, <1>7, <1>9, <1>13
  <2> QED
    BY <1>9, <1>10, <2>1, <2>2, <2>3 DEF StringsInv, q, u
<1> QED
  BY <1>9, <1>12, <1>13

\* A name stays where it is.
LEMMA NameStays ==
  ASSUME NEW m \in Seq(Byte), NEW b \in Byte, Len(m) >= 1, Len(m) >= m[1] + 1
  PROVE  G!Name(Append(m, b)) = G!Name(m)
<1> DEFINE l == m[1]
<1>1. 1 \in 1..Len(m) /\ Len(m) \in Nat
  BY AppendFacts
<1>2. l \in Nat /\ Append(m, b)[1] = l
  BY <1>1, ByteAt, AppendFacts
<1> HIDE DEF l
<1>3. Len(m) >= l + 1
  BY DEF l
<1>4. 2 \in 1..(Len(m) + 1) /\ l + 1 \in (2 - 1)..Len(m)
  BY <1>1, <1>2, <1>3
<1>5. SubSeq(Append(m, b), 2, l + 1) = SubSeq(m, 2, l + 1)
  BY <1>4, AppendAfterPart
<1> QED
  BY <1>2, <1>5 DEF G!Name, l

LEMMA SecondLength ==
  ASSUME NEW o \in {0, 1}, NEW p, NEW m \in Seq(Byte), NEW b \in Byte,
         StringsInv(p, o, 4, m), p.index = o + 3, p.current = "read_N"
  PROVE  StringsInv(parser_feed(p, b), o, 4, Append(m, b))
<1> DEFINE q == parser_feed(p, b)
           u == Append(m, b)
           l == m[1]
<1>1. /\ o + 4 \in Nat /\ TableInv(p, o + 4) /\ p.states[o + 4].state = "long_read"
  BY KindsOfStrings
<1>2. /\ Len(m) >= 1 /\ Len(m) = l + 1 /\ p.states[o + 2].result = G!Name(m)
  BY DEF StringsInv
<1>3. /\ u \in Seq(Byte) /\ Len(u) = Len(m) + 1 /\ Len(m) \in Nat /\ u[Len(m) + 1] = b
      /\ \A i \in 1..Len(m) : u[i] = m[i]
  BY AppendFacts
<1>4. 1 \in 1..Len(m) /\ l \in Nat /\ u[1] = l /\ b \in Nat
  <2>1. 1 \in 1..Len(m)
    BY <1>2, <1>3
  <2> QED
    BY <1>3, <2>1, ByteAt, BytesAreNumbers
<1>5. /\ o + 4 \in 1..(o + 4) /\ o + 4 > p.index /\ p.index < o + 4 /\ o + 2 \in 1..(o + 4)
      /\ p.index + 1 = o + 4 /\ p.index + 2 = o + 5
  OBVIOUS
<1>6. p.states[o + 4].result = << >>
  BY <1>1, <1>5 DEF TableInv
<1>7. /\ TableInv(q, o + 4) /\ SameTable(p, q, o + 4)
      /\ \A i \in 1..(o + 4) : q.states[i].result = p.states[i].result
      /\ b # 0 => /\ q.index = o + 4 /\ q.current = p.states[o + 4].state
                  /\ q.states[o + 4].remaining = b
      /\ b = 0 => q.index = o + 5 /\ q.current = "done_read"
  <2>1. PICK n \in Nat : n = o + 4
    BY <1>1
  <2>2. TableInv(p, n) /\ p.index < n /\ p.index + 1 = n
    BY <1>1, <1>5, <2>1
  <2>3. /\ TableInv(q, n) /\ SameTable(p, q, n)
        /\ \A i \in 1..n : q.states[i].result = p.states[i].result
        /\ b # 0 => /\ q.index = p.index + 1 /\ q.current = p.states[p.index + 1].state
                    /\ q.states[p.index + 1].remaining = b
        /\ b = 0 => q.index = p.index + 2 /\ q.current = "done_read"
    BY <2>2, ReadsLength
  <2> QED
    BY <1>5, <2>1, <2>3
<1> HIDE DEF q, u, l
<1>8. \A i \in 1..4 : q.states[o + i].state = (IF i \in {1, 3} THEN "read_N" ELSE "long_read")
                      /\ q.states[o + i].check = "none"
  BY <1>7, KindsStay
<1>9. q.states[o + 4].result = << >> /\ q.states[o + 2].result = G!Name(u)
  <2>1. Len(m) >= m[1] + 1
    BY <1>2, <1>3 DEF l
  <2>2. G!Name(u) = G!Name(m)
    BY <1>2, <2>1, NameStays DEF u
  <2> QED
    BY <1>2, <1>5, <1>6, <1>7, <2>2
<1>10. SubSeq(u, l + 3, l + 2) = << >>
  <2>1. l + 3 \in 1..(Len(u) + 1) /\ (l + 3) - 1 = l + 2
    BY <1>2, <1>3, <1>4
  <2> QED
    BY <1>3, <2>1, NoPart
<1>11. Len(u) = l + 2 /\ u[u[1] + 2] = b /\ Len(u) >= u[1] + 2 /\ Len(u) >= 1
  <2>1. Len(u) = l + 2 /\ l + 2 = Len(m) + 1 /\ Len(u) >= l + 2 /\ Len(u) >= 1
    BY <1>2, <1>3, <1>4
  <2> QED
    BY <1>3, <1>4, <2>1
<1>12. CASE b = 0
  <2>1. Len(u) = u[1] + 2 + u[u[1] + 2]
    BY <1>4, <1>11, <1>12
  <2>2. G!IsNameAndPassword(u)
    BY <1>11, <2>1 DEF G!IsNameAndPassword
  <2>3. G!Password(u) = << >>
    BY <1>4, <1>10, <1>11 DEF G!Password
  <2> QED
    BY <1>7, <1>8, <1>9, <1>12, <2>2, <2>3 DEF StringsInv, q, u
<1>13. CASE b # 0
  <2>1. Len(u) + b = u[1] + 2 + u[u[1] + 2] /\ b >= 1
    BY <1>4, <1>11, <1>13
  <2>2. q.states[o + 4].result = SubSeq(u, u[1] + 3, Len(u))
    BY <1>4, <1>9, <1>10, <1>11
  <2>3. q.index = o + 4 /\ q.current = "long_read" /\ q.states[o + 4].remaining = b
    BY <1>1, <1>7, <1>13
  <2> QED
    BY <1>7, <1>8, <1>9, <1>11, <2>1, <2>2, <2>3 DEF StringsInv, q, u
<1> QED
  BY <1>12, <1>13

LEMMA PasswordByte ==
  ASSUME NEW o \in {0, 1}, NEW p, NEW m \in Seq(Byte), NEW b \in Byte,
         StringsInv(p, o, 4, m), p.index = o + 4, p.current = "long_read"
  PROVE  StringsInv(parser_feed(p, b), o, 4, Append(m, b))
<1> DEFINE q == parser_feed(p, b)
           u == Append(m, b)
           f == p.states[o + 4]
           l == m[1]
           k == m[m[1] + 2]
           r == f.remaining
<1>1. /\ o + 4 \in Nat /\ TableInv(p, o + 4) /\ f.check = "none"
  BY KindsOfStrings
<1>2. /\ Len(m) >= 1 /\ Len(m) >= l + 2 /\ r >= 1 /\ Len(m) + r = l + 2 + k
      /\ f.result = SubSeq(m, l + 3, Len(m))
      /\ p.states[o + 2].result = G!Name(m)
  BY DEF StringsInv
<1>4. /\ u \in Seq(Byte) /\ Len(u) = Len(m) + 1 /\ Len(m) \in Nat
      /\ \A i \in 1..Len(m) : u[i] = m[i]
  BY AppendFacts
<1>5. Len(m) >= 1 /\ l \in Nat /\ u[1] = l
  <2>1. 1 \in 1..Len(m)
    BY <1>2, <1>4
  <2> QED
    BY <1>2, <1>4, <2>1, ByteAt
<1>6. k \in Nat /\ u[u[1] + 2] = k
  <2> HIDE DEF u, f, l
  <2>1. l + 2 \in 1..Len(m)
    BY <1>2, <1>4, <1>5
  <2>2. k = m[l + 2]
    BY DEF l
  <2> HIDE DEF k
  <2> QED
    BY <1>4, <1>5, <2>1, <2>2, ByteAt
<1>7. Append(f.result, b) = SubSeq(u, l + 3, Len(u))
  <2> HIDE DEF f, l, k
  <2>1. l + 3 \in 1..(Len(m) + 1)
    BY <1>2, <1>4, <1>5
  <2> QED
    BY <1>2, <1>4, <2>1, AppendToPart
<1>8. /\ o + 4 \in 1..(o + 4) /\ (o + 4) + 1 = o + 5
      /\ o + 2 \in 1..(o + 4) /\ o + 2 # o + 4
  OBVIOUS
<1>10. /\ TableInv(q, o + 4) /\ SameTable(p, q, o + 4) /\ r \in Int
       /\ q.states[o + 4].result = Append(f.result, b)
       /\ q.states[o + 2].result = p.states[o + 2].result
       /\ r > 1 => /\ q.index = o + 4 /\ q.current = "long_read"
                   /\ q.states[o + 4].remaining = r - 1
       /\ r <= 1 => q.index = o + 5 /\ q.current = "done_read"
  <2>1. PlainByteRead(o + 4, p, b, o + 4, f, q)
    BY <1>1, <1>8, ReadsPlainByte
  <2> HIDE DEF q, f
  <2> QED
    BY <1>8, <2>1 DEF PlainByteRead
<1> HIDE DEF q, u, f, r, l, k
<1>11. \A i \in 1..4 : q.states[o + i].state = (IF i \in {1, 3} THEN "read_N" ELSE "long_read")
                       /\ q.states[o + i].check = "none"
  BY <1>10, KindsStay
<1>12. /\ q.states[o + 4].result = SubSeq(u, u[1] + 3, Len(u))
       /\ q.states[o + 2].result = G!Name(u)
  <2>1. Len(m) >= m[1] + 1
    BY <1>2, <1>4, <1>5 DEF l
  <2>2. G!Name(u) = G!Name(m)
    BY <1>5, <2>1, NameStays DEF u
  <2> QED
    BY <1>2, <1>5, <1>7, <1>10, <2>2
<1>13. Len(u) >= u[1] + 2 /\ Len(u) >= 1
  BY <1>2, <1>4, <1>5
<1>14. CASE r > 1
  <2>1. r - 1 >= 1 /\ Len(u) + (r - 1) = u[1] + 2 + u[u[1] + 2]
    BY <1>2, <1>4, <1>5, <1>6, <1>10, <1>14
  <2> QED
    BY <1>10, <1>11, <1>12, <1>13, <1>14, <2>1 DEF StringsInv, q, u
<1>15. CASE r <= 1
  <2>1. Len(u) = u[1] + 2 + u[u[1] + 2]
    BY <1>2, <1>4, <1>5, <1>6, <1>10, <1>15
  <2>2. G!IsNameAndPassword(u)
    BY <1>13, <2>1 DEF G!IsNameAndPassword
  <2> QED
    BY <1>10, <1>11, <1>12, <1>15, <2>2 DEF StringsInv, G!Password, q, u
<1> QED
  BY <1>10, <1>14, <1>15

\* Names and passwords, one or two strings, whatever comes before them.
LEMMA StringsFeed ==
  ASSUME NEW o \in {0, 1}, NEW n \in {2, 4}, NEW p, NEW m \in Seq(Byte), NEW b \in Byte,
         StringsInv(p, o, n, m), ~is_done(p)
  PROVE  StringsInv(parser_feed(p, b), o, n, Append(m, b))
<1>1. p.current # "done_read" /\ p.index \in 1..(o + n + 1)
  BY DEF is_done, StringsInv, TableInv
<1>2. \/ p.index = o + 1 /\ p.current = "read_N" /\ m = << >>
      \/ p.index = o + 2 /\ p.current = "long_read"
      \/ p.index = o + 3 /\ p.current = "read_N" /\ n = 4
      \/ p.index = o + 4 /\ p.current = "long_read" /\ n = 4
  BY <1>1 DEF StringsInv
<1> QED
  BY <1>2, FirstLength, NameByte, SecondLength, PasswordByte

(* The tables of one byte, and of the credentials, whose first byte is checked. *)

LEMMA ByteStarts ==
  ASSUME NEW check \in {"none", "index"}
  PROVE  ByteInv(parser_init(<<ReadByte(check)>>), check, << >>)
<1> DEFINE f == ReadByte(check)
           p == parser_init(<<f>>)
<1>1. /\ f \in Fields /\ f.check = check /\ f.result = << >> /\ f.remaining = 1
      /\ f.state = "long_read"
  <2>1. << >> \in Seq(Byte)
    OBVIOUS
  <2> QED
    BY <2>1 DEF Fields, ReadByte, Substate
<1> HIDE DEF f
<1>2. p = [current |-> "long_read", index |-> 1, states |-> <<f>>]
  BY <1>1 DEF parser_init
<1> HIDE DEF p
<1>3. p.current = "long_read" /\ p.index = 1 /\ p.states = <<f>>
  BY <1>2
<1>4. <<f>> \in Seq(Fields) /\ Len(<<f>>) = 1 /\ <<f>>[1] = f
  BY <1>1
<1>5. TableInv(p, 1)
  BY <1>2, <1>3, <1>4 DEF TableInv
<1> QED
  BY <1>1, <1>3, <1>4, <1>5 DEF ByteInv, p, f

LEMMA ByteFeed ==
  ASSUME NEW check \in {"none", "index"}, NEW p, NEW t \in Seq(Byte), NEW b \in Byte,
         ByteInv(p, check, t), ~is_done(p)
  PROVE  ByteInv(parser_feed(p, b), check, Append(t, b))
<1> DEFINE q == parser_feed(p, b)
           f == p.states[1]
           u == Append(t, b)
<1>1. /\ TableInv(p, 1) /\ f.check = check /\ p.index = 1 /\ p.current = "long_read"
      /\ t = << >> /\ f.result = << >> /\ f.remaining = 1
  BY DEF ByteInv, is_done
<1>2. 1 \in 1..1 /\ 1 \in Nat
  OBVIOUS
<1>3. ByteRead(1, p, b, 1, f, q)
  BY <1>1, <1>2, ReadsByte
<1>4. u = Append(f.result, b) /\ Len(u) = 1
  BY <1>1, AppendFacts
<1>5. check = "none" => CheckPasses(WithByte(f, b))
  <2>1. f \in Fields
    BY <1>1, <1>2, ElementOfSeq DEF TableInv
  <2>2. WithByte(f, b).check = f.check
    BY <2>1 DEF WithByte, Fields
  <2> QED
    BY <1>1, <2>2 DEF CheckPasses
<1> HIDE DEF q, f, u
<1>6. q.states[1].check = check
  BY <1>1, <1>2, <1>3 DEF ByteRead, SameTable, f
<1>7. CASE CheckPasses(WithByte(f, b))
  <2>1. TableInv(q, 1) /\ q.index = 2 /\ q.current = "done_read" /\ q.states[1].result = u
    BY <1>1, <1>3, <1>4, <1>7 DEF ByteRead
  <2> QED
    BY <1>4, <1>6, <2>1 DEF ByteInv, q, u
<1>8. CASE ~CheckPasses(WithByte(f, b))
  <2>1. TableInv(q, 1) /\ q.current = "error_read" /\ check # "none"
    BY <1>1, <1>3, <1>5, <1>8 DEF ByteRead
  <2> QED
    BY <1>6, <2>1 DEF ByteInv, q, u
<1> QED
  BY <1>7, <1>8

LEMMA CredentialsStart == CredentialsInv(auth_parser_init, << >>)
<1> DEFINE s == <<ReadByte("version"), ReadLength, ReadString, ReadLength, ReadString>>
           p == auth_parser_init
<1>1. /\ ReadByte("version") \in Fields /\ ReadLength \in Fields /\ ReadString \in Fields
      /\ ReadByte("version").state = "long_read"
      /\ ReadLength.result = << >> /\ ReadString.result = << >>
  <2>1. << >> \in Seq(Byte) /\ NotAllocated \in Int
    BY DEF NotAllocated
  <2> QED
    BY <2>1 DEF Fields, ReadByte, ReadLength, ReadString, Substate
<1>2. s \in Seq(Fields) /\ Len(s) = 5 /\ s[1].state = "long_read"
  BY <1>1
<1>3. \A i \in 1..5 : i > 1 => s[i].result = << >>
  BY <1>1
<1>4. p = [current |-> "long_read", index |-> 1, states |-> s]
  BY <1>2 DEF auth_parser_init, parser_init
<1> HIDE DEF p, s
<1>5. p.current = "long_read" /\ p.index = 1 /\ p.states = s
  BY <1>4
<1>6. TableInv(p, 5)
  BY <1>2, <1>3, <1>4, <1>5 DEF TableInv
<1> QED
  BY <1>5, <1>6 DEF CredentialsInv, p, s

LEMMA CredentialsFeed ==
  ASSUME NEW p, NEW t \in Seq(Byte), NEW b \in Byte, CredentialsInv(p, t), ~is_done(p)
  PROVE  CredentialsInv(parser_feed(p, b), Append(t, b))
<1> DEFINE q == parser_feed(p, b)
           u == Append(t, b)
<1>1. CASE Len(t) >= 1 /\ t[1] = 1 /\ StringsInv(p, 1, 4, Tail(t))
  <2>1. Tail(t) \in Seq(Byte) /\ Tail(u) = Append(Tail(t), b)
    BY <1>1, TailOf
  <2>2. StringsInv(q, 1, 4, Tail(u))
    BY <1>1, <2>1, StringsFeed
  <2>3. Len(u) >= 1 /\ u[1] = 1
    <3>1. Len(u) = Len(t) + 1 /\ Len(t) \in Nat /\ 1 \in 1..Len(t) /\ u[1] = t[1]
      BY <1>1, AppendFacts
    <3> QED
      BY <1>1, <3>1
  <2> QED
    BY <2>2, <2>3 DEF CredentialsInv
<1>2. CASE /\ TableInv(p, 5)
           /\ p.index = 1 /\ p.current = "long_read" /\ t = << >>
           /\ p.states = <<ReadByte("version"), ReadLength, ReadString, ReadLength, ReadString>>
  <2> DEFINE f == p.states[1]
  <2>1. f = ReadByte("version") /\ 1 \in 1..5 /\ 5 \in Nat
    BY <1>2
  <2>2. ByteRead(5, p, b, 1, f, q)
    BY <1>2, <2>1, ReadsByte
  <2>3. f.remaining = 1 /\ f.result = << >> /\ f.check = "version"
    BY <2>1 DEF ReadByte, Substate
  <2>4. u = <<b>> /\ Len(u) = 1 /\ u[1] = b /\ Tail(u) = << >>
    BY <1>2
  <2>5. CheckPasses(WithByte(f, b)) => b = 1
    <3>1. WithByte(f, b).check = "version" /\ WithByte(f, b).result = <<b>>
      BY <2>1, <2>3 DEF WithByte, ReadByte, Substate
    <3> QED
      BY <3>1 DEF CheckPasses
  <2>6. \A i \in 1..4 : p.states[1 + i].state = (IF i \in {1, 3} THEN "read_N" ELSE "long_read")
                        /\ p.states[1 + i].check = "none" /\ 1 + i \in 1..5
    <3>1. /\ ReadLength.state = "read_N" /\ ReadString.state = "long_read"
          /\ ReadLength.check = "none" /\ ReadString.check = "none"
      BY DEF ReadLength, ReadString, Substate
    <3>2. /\ p.states[2] = ReadLength /\ p.states[3] = ReadString
          /\ p.states[4] = ReadLength /\ p.states[5] = ReadString
      BY <1>2
    <3> QED
      BY <3>1, <3>2
  <2> HIDE DEF q, f, u
  <2>7. CASE CheckPasses(WithByte(f, b))
    <3>1. p.states[2].state = "read_N"
      BY <2>6
    <3>2. TableInv(q, 5) /\ SameTable(p, q, 5) /\ q.index = 2 /\ q.current = "read_N"
      BY <2>2, <2>3, <2>7, <3>1 DEF ByteRead
    <3>3. \A i \in 1..4 : q.states[1 + i].state = (IF i \in {1, 3} THEN "read_N" ELSE "long_read")
                          /\ q.states[1 + i].check = "none"
      BY <2>6, <3>2 DEF SameTable
    <3>4. StringsInv(q, 1, 4, Tail(u))
      BY <2>4, <3>2, <3>3 DEF StringsInv
    <3> QED
      BY <2>4, <2>5, <2>7, <3>4 DEF CredentialsInv, q, u
  <2>8. CASE ~CheckPasses(WithByte(f, b))
    <3>1. q.current = "error_read"
      BY <2>2, <2>3, <2>8 DEF ByteRead
    <3> QED
      BY <3>1 DEF CredentialsInv, q, u
  <2> QED
    BY <2>7, <2>8
<1> QED
  BY <1>1, <1>2 DEF CredentialsInv, is_done

LEMMA StringsStart ==
  /\ StringsInv(add_user_parser_init, 0, 4, << >>)
  /\ StringsInv(delete_user_parser_init, 0, 2, << >>)
<1>1. /\ ReadLength \in Fields /\ ReadString \in Fields
      /\ ReadLength.state = "read_N" /\ ReadString.state = "long_read"
      /\ ReadLength.check = "none" /\ ReadString.check = "none"
      /\ ReadLength.result = << >> /\ ReadString.result = << >>
  <2>1. << >> \in Seq(Byte) /\ NotAllocated \in Int
    BY DEF NotAllocated
  <2> QED
    BY <2>1 DEF Fields, ReadLength, ReadString, Substate
<1>2. ASSUME NEW n \in {2, 4}, NEW s \in Seq(Fields), Len(s) = n,
             \A i \in 1..n : s[i] = IF i \in {1, 3} THEN ReadLength ELSE ReadString
      PROVE  StringsInv(parser_init(s), 0, n, << >>)
  <2> DEFINE p == parser_init(s)
  <2>1. 1 \in 1..n /\ s[1] = ReadLength
    BY <1>2
  <2>2. p = [current |-> "read_N", index |-> 1, states |-> s]
    BY <1>1, <2>1 DEF parser_init
  <2> HIDE DEF p
  <2>3. p.current = "read_N" /\ p.index = 1 /\ p.states = s
    BY <2>2
  <2>4. \A i \in 1..n : s[i].result = << >> /\ s[i].check = "none"
                        /\ s[i].state = IF i \in {1, 3} THEN "read_N" ELSE "long_read"
    BY <1>1, <1>2
  <2>5. 1 \in 1..(n + 1) /\ 0 + n = n /\ 0 + 1 = 1 /\ \A i \in 1..n : 0 + i = i
    OBVIOUS
  <2>6. TableInv(p, n)
    BY <1>2, <2>2, <2>3, <2>4, <2>5 DEF TableInv
  <2> QED
    BY <2>3, <2>4, <2>5, <2>6 DEF StringsInv, p
<1>3. StringsInv(parser_init(<<ReadLength, ReadString, ReadLength, ReadString>>), 0, 4, << >>)
  <2> DEFINE s == <<ReadLength, ReadString, ReadLength, ReadString>>
  <2>1. /\ s \in Seq(Fields) /\ Len(s) = 4
        /\ \A i \in 1..4 : s[i] = IF i \in {1, 3} THEN ReadLength ELSE ReadString
    BY <1>1
  <2> HIDE DEF s
  <2>2. StringsInv(parser_init(s), 0, 4, << >>)
    BY <1>2, <2>1
  <2> QED
    BY <2>2 DEF s
<1>4. StringsInv(parser_init(<<ReadLength, ReadString>>), 0, 2, << >>)
  <2> DEFINE s == <<ReadLength, ReadString>>
  <2>1. /\ s \in Seq(Fields) /\ Len(s) = 2
        /\ \A i \in 1..2 : s[i] = IF i \in {1, 3} THEN ReadLength ELSE ReadString
    BY <1>1
  <2> HIDE DEF s
  <2>2. StringsInv(parser_init(s), 0, 2, << >>)
    BY <1>2, <2>1
  <2> QED
    BY <2>2 DEF s
<1> QED
  BY <1>3, <1>4, Zenon DEF add_user_parser_init, delete_user_parser_init
-----------------------------------------------------------------------------
(* request_parser.c *)

RequestParser(s, have, want, type, address, port) ==
  [state |-> s, read |-> have, remaining |-> want,
   dest_addr_type |-> type, dest_addr |-> address, dest_port |-> port]

LEMMA RequestStarts == RequestInv(request_parser_init, << >>)
BY DEF RequestInv, request_parser_init, BeforeAddress

\* The bytes of the header stay where they are.
LEMMA HeaderBytes ==
  ASSUME NEW t \in Seq(Byte), NEW b \in Byte
  PROVE  /\ Len(t) \in Nat /\ Len(Append(t, b)) = Len(t) + 1 /\ Append(t, b) \in Seq(Byte)
         /\ Append(t, b)[Len(t) + 1] = b
         /\ Len(t) >= 1 => Append(t, b)[1] = t[1]
         /\ Len(t) >= 2 => Append(t, b)[2] = t[2]
         /\ Len(t) >= 4 => Append(t, b)[4] = t[4]
         /\ Len(t) >= 5 => Append(t, b)[5] = t[5]
<1> DEFINE u == Append(t, b)
<1>1. /\ Len(t) \in Nat /\ Len(u) = Len(t) + 1 /\ u \in Seq(Byte) /\ u[Len(t) + 1] = b
      /\ \A i \in 1..Len(t) : u[i] = t[i]
  BY AppendFacts
<1> HIDE DEF u
<1>2. /\ Len(t) >= 1 => 1 \in 1..Len(t)
      /\ Len(t) >= 2 => 2 \in 1..Len(t)
      /\ Len(t) >= 4 => 4 \in 1..Len(t)
      /\ Len(t) >= 5 => 5 \in 1..Len(t)
  BY <1>1
<1> QED
  BY <1>1, <1>2 DEF u

LEMMA HeaderStays ==
  ASSUME NEW p, NEW q, NEW t \in Seq(Byte), NEW b \in Byte, Header(p, t),
         q.dest_addr_type = p.dest_addr_type
  PROVE  /\ Header(q, Append(t, b))
         /\ G!FirstOfAddress(Append(t, b)) = G!FirstOfAddress(t)
         /\ G!AddressBytes(Append(t, b)) = G!AddressBytes(t)
         /\ G!FirstOfAddress(t) \in {5, 6} /\ G!FirstOfAddress(t) <= Len(t) + 1
         /\ G!AddressBytes(t) \in Nat \ {0}
<1> DEFINE u == Append(t, b)
           first == G!FirstOfAddress(t)
           length == G!AddressBytes(t)
<1>1. /\ Len(t) >= 4 /\ Len(t) >= first - 1
      /\ t[1] = 5 /\ t[2] = 1 /\ t[4] \in {1, 3, 4} /\ p.dest_addr_type = t[4]
      /\ length \in Nat \ {0}
  BY DEF Header
<1>2. Len(t) \in Nat /\ first \in {5, 6} /\ (t[4] = 3 => first = 6)
  BY HeaderBytes DEF G!FirstOfAddress
<1>3. /\ u[1] = t[1] /\ u[2] = t[2] /\ u[4] = t[4] /\ Len(u) = Len(t) + 1
      /\ t[4] = 3 => u[5] = t[5]
  <2> HIDE DEF u, first, length
  <2>1. Len(t) >= 1 /\ Len(t) >= 2 /\ (t[4] = 3 => Len(t) >= 5)
    BY <1>1, <1>2
  <2> QED
    BY <1>1, <2>1, HeaderBytes DEF u
<1> HIDE DEF u
<1>4. G!FirstOfAddress(u) = first
  BY <1>3 DEF G!FirstOfAddress
<1>5. G!AddressBytes(u) = length
  BY <1>1, <1>3 DEF G!AddressBytes
<1> HIDE DEF first, length
<1>6. Header(q, u)
  BY <1>1, <1>2, <1>3, <1>4, <1>5 DEF Header
<1> QED
  BY <1>1, <1>2, <1>4, <1>5, <1>6 DEF u, first, length

LEMMA EarlyFeed ==
  ASSUME NEW p, NEW t \in Seq(Byte), NEW b \in Byte, RequestInv(p, t), BeforeAddress(p, t),
         p.state \in {"request_version", "request_cmd", "request_rsv"}
  PROVE  RequestInv(request_parser_feed(p, b), Append(t, b))
<1> DEFINE u == Append(t, b)
           q == request_parser_feed(p, b)
<1>1. p = RequestParser(p.state, p.read, p.remaining, p.dest_addr_type, p.dest_addr, p.dest_port)
  BY DEF RequestInv, RequestParser
<1>2. p.dest_addr = << >> /\ p.dest_port = << >>
  BY DEF BeforeAddress
<1>3. /\ Len(t) \in Nat /\ Len(u) = Len(t) + 1 /\ u[Len(t) + 1] = b
      /\ Len(t) >= 1 => u[1] = t[1]
      /\ Len(t) >= 2 => u[2] = t[2]
  BY HeaderBytes
<1> HIDE DEF u
<1>4. ASSUME NEW s, q = [p EXCEPT !.state = s],
             \/ s \in RequestErrors
             \/ s = "request_cmd" /\ Len(u) = 1 /\ u[1] = 5
             \/ s = "request_rsv" /\ Len(u) = 2 /\ u[1] = 5 /\ u[2] = 1
             \/ s = "request_atyp" /\ Len(u) = 3 /\ u[1] = 5 /\ u[2] = 1
      PROVE  RequestInv(q, u)
  <2>1. q = RequestParser(s, p.read, p.remaining, p.dest_addr_type, << >>, << >>)
    BY <1>1, <1>2, <1>4 DEF RequestParser
  <2> HIDE DEF q
  <2>2. /\ q.state = s /\ q.dest_addr = << >> /\ q.dest_port = << >>
        /\ q = [state |-> q.state, read |-> q.read, remaining |-> q.remaining,
                dest_addr_type |-> q.dest_addr_type, dest_addr |-> q.dest_addr,
                dest_port |-> q.dest_port]
    BY <2>1 DEF RequestParser
  <2> QED
    BY <1>4, <2>2 DEF RequestInv, BeforeAddress
<1>5. CASE p.state = "request_version"
  <2>1. Len(t) = 0 /\ Len(u) = 1 /\ u[1] = b
    BY <1>3, <1>5 DEF BeforeAddress
  <2>2. q = [p EXCEPT !.state = IF b = 5 THEN "request_cmd" ELSE "request_error_unsupported_version"]
    BY <1>5 DEF request_parser_feed
  <2> QED
    BY <1>4, <2>1, <2>2 DEF RequestErrors, u
<1>6. CASE p.state = "request_cmd"
  <2>1. Len(t) = 1 /\ t[1] = 5
    BY <1>6 DEF BeforeAddress
  <2>2. Len(u) = 2 /\ u[1] = 5 /\ u[2] = b
    BY <1>3, <2>1
  <2>3. q = [p EXCEPT !.state = IF b = 1 THEN "request_rsv" ELSE "request_error_unsupported_cmd"]
    BY <1>6 DEF request_parser_feed
  <2> QED
    BY <1>4, <2>2, <2>3 DEF RequestErrors, u
<1>7. CASE p.state = "request_rsv"
  <2>1. Len(t) = 2 /\ t[1] = 5 /\ t[2] = 1
    BY <1>7 DEF BeforeAddress
  <2>2. Len(u) = 3 /\ u[1] = 5 /\ u[2] = 1
    BY <1>3, <2>1
  <2>3. q = [p EXCEPT !.state = "request_atyp"]
    BY <1>7 DEF request_parser_feed
  <2> QED
    BY <1>4, <2>2, <2>3 DEF u
<1> QED
  BY <1>5, <1>6, <1>7

LEMMA TypeFeed ==
  ASSUME NEW p, NEW t \in Seq(Byte), NEW b \in Byte, RequestInv(p, t), BeforeAddress(p, t),
         p.state = "request_atyp"
  PROVE  RequestInv(request_parser_feed(p, b), Append(t, b))
<1> DEFINE u == Append(t, b)
           q == request_parser_feed(p, b)
           length == AddressLength(b)
<1>1. p = RequestParser(p.state, p.read, p.remaining, p.dest_addr_type, p.dest_addr, p.dest_port)
  BY DEF RequestInv, RequestParser
<1>2. /\ p.dest_addr = << >> /\ p.dest_port = << >>
      /\ Len(t) = 3 /\ t[1] = 5 /\ t[2] = 1
  BY DEF BeforeAddress
<1>3. u \in Seq(Byte) /\ Len(u) = 4 /\ u[1] = 5 /\ u[2] = 1 /\ u[4] = b
  <2>1. /\ Len(u) = Len(t) + 1 /\ u \in Seq(Byte) /\ u[Len(t) + 1] = b
        /\ Len(t) >= 1 => u[1] = t[1]
        /\ Len(t) >= 2 => u[2] = t[2]
    BY HeaderBytes
  <2>2. Len(t) + 1 = 4 /\ Len(t) >= 1 /\ Len(t) >= 2
    BY <1>2
  <2> QED
    BY <1>2, <2>1, <2>2
<1> b \in Nat
  BY BytesAreNumbers
<1>4. q = address_type(p, b)
  BY DEF request_parser_feed
<1> HIDE DEF q, u
<1>5. CASE b \in {1, 4}
  <2>1. q = RequestParser("request_dest_addr", 0, length, b, << >>, << >>)
    <3>1. q = [[[p EXCEPT !.dest_addr_type = b] EXCEPT !.remaining = length, !.read = 0]
                EXCEPT !.state = "request_dest_addr"]
      BY <1>4, <1>5 DEF address_type, remaining_set
    <3> HIDE DEF length
    <3> QED
      BY <1>1, <1>2, <3>1 DEF RequestParser
  <2>2. /\ q.state = "request_dest_addr" /\ q.read = 0 /\ q.remaining = length
        /\ q.dest_addr_type = b /\ q.dest_addr = << >> /\ q.dest_port = << >>
        /\ q = [state |-> q.state, read |-> q.read, remaining |-> q.remaining,
                dest_addr_type |-> q.dest_addr_type, dest_addr |-> q.dest_addr,
                dest_port |-> q.dest_port]
    BY <2>1 DEF RequestParser
  <2>3. G!FirstOfAddress(u) = 5 /\ G!AddressBytes(u) = length /\ length \in Nat \ {0}
    <3>1. IPV4_LEN \in Nat \ {0} /\ IPV6_LEN \in Nat \ {0}
      BY ParsersAssumption
    <3>2. length = IF b = 1 THEN IPV4_LEN ELSE IPV6_LEN
      BY DEF AddressLength
    <3>3. G!FirstOfAddress(u) = 5
      BY <1>3, <1>5 DEF G!FirstOfAddress
    <3> HIDE DEF length
    <3>4. CASE b = 1
      <4>1. G!AddressBytes(u) = IPV4_LEN
        BY <1>3, <3>4 DEF G!AddressBytes
      <4> QED
        BY <3>1, <3>2, <3>3, <3>4, <4>1
    <3>5. CASE b = 4
      <4>1. G!AddressBytes(u) = IPV6_LEN
        BY <1>3, <3>5 DEF G!AddressBytes
      <4> QED
        BY <3>1, <3>2, <3>3, <3>5, <4>1
    <3> QED
      BY <1>5, <3>4, <3>5
  <2> HIDE DEF length
  <2>4. SubSeq(u, 5, 4) = << >>
    <3>1. 5 \in 1..(Len(u) + 1) /\ 5 - 1 = 4
      BY <1>3
    <3> QED
      BY <1>3, <3>1, NoPart
  <2>5. Header(q, u)
    BY <1>3, <1>5, <2>2, <2>3 DEF Header
  <2>6. InAddress(q, u, 5, length)
    BY <1>3, <2>2, <2>3, <2>4, <2>5 DEF InAddress
  <2> QED
    BY <2>2, <2>3, <2>6 DEF RequestInv, u, q
<1>6. CASE b = 3
  <2>1. q = RequestParser("request_dest_addr_fqdn", p.read, p.remaining, 3, << >>, << >>)
    <3>1. q = [[p EXCEPT !.dest_addr_type = b] EXCEPT !.state = "request_dest_addr_fqdn"]
      BY <1>4, <1>6 DEF address_type
    <3> QED
      BY <1>1, <1>2, <1>6, <3>1 DEF RequestParser
  <2>2. /\ q.state = "request_dest_addr_fqdn"
        /\ q.dest_addr_type = 3 /\ q.dest_addr = << >> /\ q.dest_port = << >>
        /\ q = [state |-> q.state, read |-> q.read, remaining |-> q.remaining,
                dest_addr_type |-> q.dest_addr_type, dest_addr |-> q.dest_addr,
                dest_port |-> q.dest_port]
    BY <2>1 DEF RequestParser
  <2>3. BeforeAddress(q, u)
    BY <1>3, <1>6, <2>2 DEF BeforeAddress
  <2> QED
    BY <2>2, <2>3 DEF RequestInv, u, q
<1>7. CASE b \notin {1, 3, 4}
  <2>1. q = RequestParser("request_error_unsupported_type", p.read, p.remaining, b, << >>, << >>)
    BY <1>1, <1>2, <1>4, <1>7 DEF address_type, RequestParser
  <2>2. /\ q.state \in RequestErrors
        /\ q = [state |-> q.state, read |-> q.read, remaining |-> q.remaining,
                dest_addr_type |-> q.dest_addr_type, dest_addr |-> q.dest_addr,
                dest_port |-> q.dest_port]
    BY <2>1 DEF RequestParser, RequestErrors
  <2> QED
    BY <2>2 DEF RequestInv, u, q
<1> QED
  BY <1>5, <1>6, <1>7

\* What the invariant asks of a parser that is given by its fields.
LEMMA RequestFields ==
  ASSUME NEW s, NEW have, NEW want, NEW type, NEW address, NEW port, NEW q,
         q = RequestParser(s, have, want, type, address, port)
  PROVE  /\ q.state = s /\ q.read = have /\ q.remaining = want
         /\ q.dest_addr_type = type /\ q.dest_addr = address /\ q.dest_port = port
         /\ q = [state |-> q.state, read |-> q.read, remaining |-> q.remaining,
                 dest_addr_type |-> q.dest_addr_type, dest_addr |-> q.dest_addr,
                 dest_port |-> q.dest_port]
BY DEF RequestParser

\* What the handlers of the address and of the port do to the fields.
LEMMA DestAddr ==
  ASSUME NEW p, NEW b,
         p = RequestParser(p.state, p.read, p.remaining, p.dest_addr_type, p.dest_addr, p.dest_port)
  PROVE  dest_addr(p, b) =
           IF p.read + 1 >= p.remaining
           THEN RequestParser("request_dest_port", 0, 2, p.dest_addr_type, Append(p.dest_addr, b),
                              p.dest_port)
           ELSE RequestParser(p.state, p.read + 1, p.remaining, p.dest_addr_type,
                              Append(p.dest_addr, b), p.dest_port)
<1> DEFINE address == Append(p.dest_addr, b)
           have == p.read + 1
<1>1. PICK s, left, type, port : s = p.state /\ left = p.remaining /\ type = p.dest_addr_type /\ port = p.dest_port
  OBVIOUS
<1>2. p = RequestParser(s, p.read, left, type, p.dest_addr, port)
  BY <1>1
<1>3. PICK x : x = [p EXCEPT !.dest_addr = address, !.read = have]
  OBVIOUS
<1>4. dest_addr(p, b) = IF x.read >= x.remaining
                        THEN [[x EXCEPT !.remaining = 2, !.read = 0] EXCEPT !.state = "request_dest_port"]
                        ELSE x
  BY <1>3 DEF dest_addr, remaining_set
<1> HIDE DEF address, have
<1>5. x = RequestParser(s, have, left, type, address, port)
  <2>1. PICK y : y = [p EXCEPT !.dest_addr = address]
    OBVIOUS
  <2>2. y = RequestParser(s, p.read, left, type, address, port)
    BY <1>2, <2>1 DEF RequestParser
  <2>3. [y EXCEPT !.read = have] = RequestParser(s, have, left, type, address, port)
    BY <2>2 DEF RequestParser
  <2>4. x = [y EXCEPT !.read = have]
    BY <1>3, <2>1
  <2> QED
    BY <2>3, <2>4
<1>6. [[x EXCEPT !.remaining = 2, !.read = 0] EXCEPT !.state = "request_dest_port"]
        = RequestParser("request_dest_port", 0, 2, type, address, port)
  <2>1. PICK y : y = [x EXCEPT !.remaining = 2]
    OBVIOUS
  <2>2. y = RequestParser(s, have, 2, type, address, port)
    BY <1>5, <2>1 DEF RequestParser
  <2>3. PICK z : z = [y EXCEPT !.read = 0]
    OBVIOUS
  <2>4. z = RequestParser(s, 0, 2, type, address, port)
    BY <2>2, <2>3 DEF RequestParser
  <2>5. z = [x EXCEPT !.remaining = 2, !.read = 0]
    BY <2>1, <2>3
  <2>6. [z EXCEPT !.state = "request_dest_port"]
          = RequestParser("request_dest_port", 0, 2, type, address, port)
    BY <2>4 DEF RequestParser
  <2> QED
    BY <2>5, <2>6
<1>7. x.read = have /\ x.remaining = left
  BY <1>5 DEF RequestParser
<1> QED
  BY <1>1, <1>4, <1>5, <1>6, <1>7 DEF address, have

LEMMA DestPort ==
  ASSUME NEW p, NEW b,
         p = RequestParser(p.state, p.read, p.remaining, p.dest_addr_type, p.dest_addr, p.dest_port)
  PROVE  dest_port(p, b) =
           RequestParser(IF p.read + 1 >= p.remaining THEN "request_done" ELSE p.state,
                         p.read + 1, p.remaining, p.dest_addr_type, p.dest_addr,
                         Append(p.dest_port, b))
<1> DEFINE port == Append(p.dest_port, b)
           have == p.read + 1
           next == IF p.read + 1 >= p.remaining THEN "request_done" ELSE p.state
<1>1. PICK s, left, type, address :
           s = p.state /\ left = p.remaining /\ type = p.dest_addr_type /\ address = p.dest_addr
  OBVIOUS
<1>2. p = RequestParser(s, p.read, left, type, address, p.dest_port)
  BY <1>1
<1>3. dest_port(p, b) = [p EXCEPT !.dest_port = port, !.read = have, !.state = next]
  BY DEF dest_port
<1> HIDE DEF port, have, next
<1>4. PICK x : x = [p EXCEPT !.dest_port = port]
  OBVIOUS
<1>5. x = RequestParser(s, p.read, left, type, address, port)
  BY <1>2, <1>4 DEF RequestParser
<1>6. PICK y : y = [x EXCEPT !.read = have]
  OBVIOUS
<1>7. y = RequestParser(s, have, left, type, address, port)
  BY <1>5, <1>6 DEF RequestParser
<1>8. [y EXCEPT !.state = next] = RequestParser(next, have, left, type, address, port)
  BY <1>7 DEF RequestParser
<1>9. [p EXCEPT !.dest_port = port, !.read = have, !.state = next] = [y EXCEPT !.state = next]
  BY <1>4, <1>6
<1> QED
  BY <1>1, <1>3, <1>8, <1>9 DEF port, have, next

LEMMA NameLengthFeed ==
  ASSUME NEW p, NEW t \in Seq(Byte), NEW b \in Byte, RequestInv(p, t), BeforeAddress(p, t),
         p.state = "request_dest_addr_fqdn"
  PROVE  RequestInv(request_parser_feed(p, b), Append(t, b))
<1> DEFINE u == Append(t, b)
           q == request_parser_feed(p, b)
<1>1. p = RequestParser(p.state, p.read, p.remaining, p.dest_addr_type, p.dest_addr, p.dest_port)
  BY DEF RequestInv, RequestParser
<1>2. /\ p.dest_addr = << >> /\ p.dest_port = << >> /\ p.dest_addr_type = 3
      /\ Len(t) = 4 /\ t[1] = 5 /\ t[2] = 1 /\ t[4] = 3
  BY DEF BeforeAddress
<1>3. u \in Seq(Byte) /\ Len(u) = 5 /\ u[1] = 5 /\ u[2] = 1 /\ u[4] = 3 /\ u[5] = b
  <2>1. /\ Len(u) = Len(t) + 1 /\ u \in Seq(Byte) /\ u[Len(t) + 1] = b
        /\ Len(t) >= 1 => u[1] = t[1]
        /\ Len(t) >= 2 => u[2] = t[2]
        /\ Len(t) >= 4 => u[4] = t[4]
    BY HeaderBytes
  <2>2. Len(t) + 1 = 5 /\ Len(t) >= 1 /\ Len(t) >= 2 /\ Len(t) >= 4
    BY <1>2
  <2> QED
    BY <1>2, <2>1, <2>2
<1>4. q = dest_address_fqdn(p, b) /\ b \in Nat
  BY BytesAreNumbers DEF request_parser_feed
<1> HIDE DEF q, u
<1>5. CASE b > MAX_FQDN_SIZE - 1
  <2>1. q = RequestParser("request_error", p.read, p.remaining, 3, << >>, << >>)
    <3>1. q = [p EXCEPT !.state = "request_error"]
      BY <1>4, <1>5 DEF dest_address_fqdn
    <3> QED
      BY <1>1, <1>2, <3>1 DEF RequestParser
  <2> QED
    BY <2>1, RequestFields DEF RequestInv, RequestErrors, u, q
<1>6. CASE ~(b > MAX_FQDN_SIZE - 1)
  <2>1. q = RequestParser("request_dest_addr", 0, b, 3, << >>, << >>)
    <3>1. q = [[p EXCEPT !.remaining = b, !.read = 0] EXCEPT !.state = "request_dest_addr"]
      BY <1>4, <1>6 DEF dest_address_fqdn, remaining_set
    <3> QED
      BY <1>1, <1>2, <3>1 DEF RequestParser
  <2>2. /\ q.state = "request_dest_addr" /\ q.read = 0 /\ q.remaining = b
        /\ q.dest_addr_type = 3 /\ q.dest_addr = << >> /\ q.dest_port = << >>
        /\ q = [state |-> q.state, read |-> q.read, remaining |-> q.remaining,
                dest_addr_type |-> q.dest_addr_type, dest_addr |-> q.dest_addr,
                dest_port |-> q.dest_port]
    BY <2>1, RequestFields
  <2>3. CASE b = 0
    <3>1. AfterEmptyName(q, u)
      BY <1>3, <2>2, <2>3 DEF AfterEmptyName, EmptyName
    <3> QED
      BY <2>2, <3>1 DEF RequestInv, u, q
  <2>4. CASE b # 0
    <3>1. G!FirstOfAddress(u) = 6 /\ G!AddressBytes(u) = b
      BY <1>3 DEF G!FirstOfAddress, G!AddressBytes
    <3>2. SubSeq(u, 6, 5) = << >>
      <4>1. 6 \in 1..(Len(u) + 1) /\ 6 - 1 = 5
        BY <1>3
      <4> QED
        BY <1>3, <4>1, NoPart
    <3>3. Header(q, u)
      BY <1>3, <1>4, <2>2, <2>4, <3>1 DEF Header
    <3>4. InAddress(q, u, 6, b)
      BY <1>3, <1>4, <2>2, <2>4, <3>2, <3>3 DEF InAddress
    <3> QED
      BY <2>2, <3>1, <3>4 DEF RequestInv, u, q
  <2> QED
    BY <2>3, <2>4
<1> QED
  BY <1>5, <1>6

LEMMA AddressFeed ==
  ASSUME NEW p, NEW t \in Seq(Byte), NEW b \in Byte, RequestInv(p, t),
         InAddress(p, t, G!FirstOfAddress(t), G!AddressBytes(t))
  PROVE  RequestInv(request_parser_feed(p, b), Append(t, b))
<1> DEFINE u == Append(t, b)
           q == request_parser_feed(p, b)
           first == G!FirstOfAddress(t)
           length == G!AddressBytes(t)
           address == Append(p.dest_addr, b)
           have == p.read + 1
           type == p.dest_addr_type
<1>1. p = RequestParser(p.state, p.read, p.remaining, type, p.dest_addr, p.dest_port)
  BY DEF RequestInv, RequestParser
<1>2. /\ p.state = "request_dest_addr" /\ Header(p, t)
      /\ p.dest_addr = SubSeq(t, first, Len(t)) /\ p.dest_port = << >>
      /\ p.read = Len(t) - first + 1 /\ p.remaining = length /\ p.read < length
  BY DEF InAddress
<1>3. u \in Seq(Byte) /\ Len(u) = Len(t) + 1 /\ Len(t) \in Nat
  BY HeaderBytes
<1>4. /\ first \in {5, 6} /\ first <= Len(t) + 1 /\ length \in Nat \ {0}
      /\ \A x : x.dest_addr_type = type =>
           /\ Header(x, u) /\ G!FirstOfAddress(u) = first /\ G!AddressBytes(u) = length
  BY <1>2, HeaderStays
<1>5. address = SubSeq(u, first, Len(u))
  <2>1. first \in 1..(Len(t) + 1)
    BY <1>3, <1>4
  <2> HIDE DEF first
  <2> QED
    BY <1>2, <1>3, <2>1, AppendToPart
<1>6. q = dest_addr(p, b)
  BY <1>2 DEF request_parser_feed
<1>7. have = Len(u) - first + 1 /\ have \in Int
  BY <1>2, <1>3, <1>4
<1> HIDE DEF q, u, first, length
<1>8. dest_addr(p, b) = IF have >= p.remaining
                        THEN RequestParser("request_dest_port", 0, 2, type, address, << >>)
                        ELSE RequestParser("request_dest_addr", have, p.remaining, type, address, << >>)
  BY <1>1, <1>2, DestAddr
<1> HIDE DEF address, have, type
<1>9. CASE have >= p.remaining
  <2>1. q = RequestParser("request_dest_port", 0, 2, type, address, << >>)
    BY <1>6, <1>8, <1>9
  <2>2. /\ q.state = "request_dest_port" /\ q.read = 0 /\ q.remaining = 2
        /\ q.dest_addr_type = type /\ q.dest_addr = address /\ q.dest_port = << >>
        /\ q = [state |-> q.state, read |-> q.read, remaining |-> q.remaining,
                dest_addr_type |-> q.dest_addr_type, dest_addr |-> q.dest_addr,
                dest_port |-> q.dest_port]
    BY <2>1, RequestFields
  <2>3. have = length
    BY <1>2, <1>3, <1>4, <1>7, <1>9 DEF have
  <2>4. /\ first + length - 1 = Len(u) /\ first + length \in 1..(Len(u) + 1)
        /\ (first + length) - 1 = Len(u)
        /\ 0 = Len(u) - first - length + 1
    BY <1>3, <1>4, <1>7, <2>3
  <2>5. SubSeq(u, first + length, Len(u)) = << >>
    BY <1>3, <2>4, NoPart
  <2>6. InPort(q, u, first, length)
    BY <1>4, <1>5, <2>2, <2>4, <2>5 DEF InPort
  <2> QED
    BY <1>4, <2>2, <2>6 DEF RequestInv, u, q
<1>10. CASE ~(have >= p.remaining)
  <2>1. q = RequestParser("request_dest_addr", have, p.remaining, type, address, << >>)
    BY <1>6, <1>8, <1>10
  <2>2. /\ q.state = "request_dest_addr" /\ q.read = have /\ q.remaining = p.remaining
        /\ q.dest_addr_type = type /\ q.dest_addr = address /\ q.dest_port = << >>
        /\ q = [state |-> q.state, read |-> q.read, remaining |-> q.remaining,
                dest_addr_type |-> q.dest_addr_type, dest_addr |-> q.dest_addr,
                dest_port |-> q.dest_port]
    BY <2>1, RequestFields
  <2>3. have < length
    BY <1>2, <1>4, <1>7, <1>10
  <2>4. InAddress(q, u, first, length)
    BY <1>2, <1>4, <1>5, <1>7, <2>2, <2>3 DEF InAddress
  <2> QED
    BY <1>4, <2>2, <2>4 DEF RequestInv, u, q
<1> QED
  BY <1>9, <1>10

LEMMA PortFeed ==
  ASSUME NEW p, NEW t \in Seq(Byte), NEW b \in Byte, RequestInv(p, t),
         InPort(p, t, G!FirstOfAddress(t), G!AddressBytes(t))
  PROVE  RequestInv(request_parser_feed(p, b), Append(t, b))
<1> DEFINE u == Append(t, b)
           q == request_parser_feed(p, b)
           first == G!FirstOfAddress(t)
           length == G!AddressBytes(t)
           port == Append(p.dest_port, b)
           have == p.read + 1
           type == p.dest_addr_type
<1>1. p = RequestParser(p.state, p.read, p.remaining, type, p.dest_addr, p.dest_port)
  BY DEF RequestInv, RequestParser
<1>2. /\ p.state = "request_dest_port" /\ Header(p, t)
      /\ p.dest_addr = SubSeq(t, first, first + length - 1)
      /\ p.dest_port = SubSeq(t, first + length, Len(t))
      /\ p.read = Len(t) - first - length + 1 /\ p.remaining = 2 /\ p.read \in {0, 1}
  BY DEF InPort
<1>3. u \in Seq(Byte) /\ Len(u) = Len(t) + 1 /\ Len(t) \in Nat
  BY HeaderBytes
<1>4. /\ first \in {5, 6} /\ first <= Len(t) + 1 /\ length \in Nat \ {0}
      /\ \A x : x.dest_addr_type = type =>
           /\ Header(x, u) /\ G!FirstOfAddress(u) = first /\ G!AddressBytes(u) = length
  BY <1>2, HeaderStays
<1>5. /\ first \in 1..(Len(t) + 1) /\ first + length \in 1..(Len(t) + 1)
      /\ first + length - 1 \in (first - 1)..Len(t)
      /\ have = Len(u) - first - length + 1 /\ have \in {1, 2}
  <2>1. /\ first \in {5, 6} /\ first <= Len(t) + 1 /\ length \in Nat \ {0}
        /\ p.read = Len(t) - first - length + 1 /\ p.read \in {0, 1}
        /\ Len(u) = Len(t) + 1 /\ Len(t) \in Nat
    BY <1>2, <1>3, <1>4
  <2> HIDE DEF first, length, u
  <2> QED
    BY <2>1
<1>6. port = SubSeq(u, first + length, Len(u))
  <2> HIDE DEF first, length
  <2> QED
    BY <1>2, <1>3, <1>5, AppendToPart
<1>7. p.dest_addr = SubSeq(u, first, first + length - 1)
  <2> HIDE DEF first, length
  <2> QED
    BY <1>2, <1>5, AppendAfterPart
<1>8. q = dest_port(p, b)
  BY <1>2 DEF request_parser_feed
<1> HIDE DEF q, u, first, length
<1>10. q = RequestParser(IF have >= 2 THEN "request_done" ELSE "request_dest_port",
                         have, 2, type, p.dest_addr, port)
  BY <1>1, <1>2, <1>8, DestPort
<1> HIDE DEF port, have, type
<1>11. /\ q.state = (IF have >= 2 THEN "request_done" ELSE "request_dest_port")
       /\ q.read = have /\ q.remaining = 2
       /\ q.dest_addr_type = type /\ q.dest_addr = p.dest_addr /\ q.dest_port = port
       /\ q = [state |-> q.state, read |-> q.read, remaining |-> q.remaining,
               dest_addr_type |-> q.dest_addr_type, dest_addr |-> q.dest_addr,
               dest_port |-> q.dest_port]
  BY <1>10, RequestFields
<1>12. CASE have = 1
  <2>1. InPort(q, u, first, length)
    <3>1. q.state = "request_dest_port" /\ q.read = have /\ have \in {0, 1}
      BY <1>11, <1>12
    <3>2. Header(q, u)
      BY <1>4, <1>11
    <3>3. have = Len(u) - first - length + 1
      BY <1>5
    <3> QED
      BY <1>6, <1>7, <1>11, <3>1, <3>2, <3>3 DEF InPort
  <2> QED
    BY <1>4, <1>11, <2>1 DEF RequestInv, u, q
<1>13. CASE have = 2
  <2>1. Header(q, u) /\ G!FirstOfAddress(u) = first /\ G!AddressBytes(u) = length
    BY <1>4, <1>11
  <2>2. Len(u) = first + length + 1 /\ Len(u) - 1 = first + length /\ length >= 1 /\ Len(u) >= 5
    BY <1>3, <1>4, <1>5, <1>13
  <2>3. G!IsRequest(u)
    BY <2>1, <2>2 DEF G!IsRequest, Header
  <2>4. G!Destination(u) = [type |-> type, address |-> p.dest_addr, port |-> port]
    <3>1. u[4] = type
      BY <1>11, <2>1 DEF Header
    <3> QED
      BY <1>6, <1>7, <2>1, <2>2, <3>1 DEF G!Destination
  <2>5. AfterRequest(q, u)
    BY <1>11, <1>13, <2>3, <2>4 DEF AfterRequest
  <2> QED
    BY <1>11, <2>5 DEF RequestInv, u, q
<1> QED
  BY <1>5, <1>12, <1>13

LEMMA EmptyNameFeed ==
  ASSUME NEW p, NEW t \in Seq(Byte), NEW b \in Byte, RequestInv(p, t), AfterEmptyName(p, t),
         ~request_is_done(p)
  PROVE  RequestInv(request_parser_feed(p, b), Append(t, b))
<1> DEFINE u == Append(t, b)
           q == request_parser_feed(p, b)
<1>1. p = RequestParser(p.state, p.read, p.remaining, p.dest_addr_type, p.dest_addr, p.dest_port)
  BY DEF RequestInv, RequestParser
<1>2. Len(t) >= 5 /\ EmptyName(t) /\ p.state \in {"request_dest_addr", "request_dest_port"}
  BY DEF AfterEmptyName, request_is_done
<1>3. Len(u) >= 5 /\ EmptyName(u)
  <2>1. /\ Len(t) \in Nat /\ Len(u) = Len(t) + 1
        /\ Len(t) >= 4 => u[4] = t[4]
        /\ Len(t) >= 5 => u[5] = t[5]
    BY HeaderBytes
  <2> HIDE DEF u
  <2>2. Len(t) >= 4 /\ Len(u) >= 5
    BY <1>2, <2>1
  <2> QED
    BY <1>2, <2>1, <2>2 DEF EmptyName
<1> HIDE DEF u
<1>4. /\ q.state \in {"request_dest_addr", "request_dest_port", "request_done"}
      /\ q = [state |-> q.state, read |-> q.read, remaining |-> q.remaining,
              dest_addr_type |-> q.dest_addr_type, dest_addr |-> q.dest_addr,
              dest_port |-> q.dest_port]
  <2>1. CASE p.state = "request_dest_addr"
    <3>1. q = dest_addr(p, b)
      BY <2>1 DEF request_parser_feed
    <3>2. PICK address, have :
            \/ q = RequestParser("request_dest_port", 0, 2, p.dest_addr_type, address, p.dest_port)
            \/ q = RequestParser("request_dest_addr", have, p.remaining, p.dest_addr_type, address,
                                 p.dest_port)
      BY <1>1, <2>1, <3>1, DestAddr
    <3> HIDE DEF q
    <3> QED
      BY <3>2, RequestFields
  <2>2. CASE p.state = "request_dest_port"
    <3> DEFINE s == IF p.read + 1 >= p.remaining THEN "request_done" ELSE "request_dest_port"
    <3>1. q = dest_port(p, b)
      BY <2>2 DEF request_parser_feed
    <3>2. q = RequestParser(s, p.read + 1, p.remaining, p.dest_addr_type, p.dest_addr,
                            Append(p.dest_port, b))
      BY <1>1, <2>2, <3>1, DestPort
    <3>3. s \in {"request_dest_port", "request_done"}
      OBVIOUS
    <3> HIDE DEF q, s
    <3> QED
      BY <3>2, <3>3, RequestFields
  <2> QED
    BY <1>2, <2>1, <2>2
<1> HIDE DEF q
<1>5. AfterEmptyName(q, u)
  BY <1>3, <1>4 DEF AfterEmptyName
<1> QED
  BY <1>4, <1>5 DEF RequestInv, u, q

LEMMA RequestFeed ==
  ASSUME NEW p, NEW t \in Seq(Byte), NEW b \in Byte, RequestInv(p, t), ~request_is_done(p)
  PROVE  RequestInv(request_parser_feed(p, b), Append(t, b))
<1>1. CASE p.state \in RequestErrors
  <2>1. request_parser_feed(p, b) = p
    BY <1>1 DEF request_parser_feed, RequestErrors
  <2> QED
    BY <1>1, <2>1 DEF RequestInv
<1>2. CASE BeforeAddress(p, t)
  BY <1>2, EarlyFeed, TypeFeed, NameLengthFeed DEF BeforeAddress
<1>3. CASE InAddress(p, t, G!FirstOfAddress(t), G!AddressBytes(t))
  BY <1>3, AddressFeed
<1>4. CASE InPort(p, t, G!FirstOfAddress(t), G!AddressBytes(t))
  BY <1>4, PortFeed
<1>5. CASE AfterEmptyName(p, t)
  BY <1>5, EmptyNameFeed
<1> QED
  BY <1>1, <1>2, <1>3, <1>4, <1>5 DEF RequestInv, AfterRequest, request_is_done

LEMMA FeedKeeps ==
  ASSUME NEW g \in Grammars, NEW p, NEW t \in Seq(Byte), NEW b \in Byte,
         ParserInv(g, p, t), ~Done(KindOf(g), p)
  PROVE  ParserInv(g, Feed(KindOf(g), p, b), Append(t, b))
<1>1. CASE g = "hello"
  <2>1. /\ HelloInv(p, t) /\ ~hello_is_done(p)
        /\ Feed(KindOf(g), p, b) = hello_parser_feed(p, b)
    BY <1>1 DEF ParserInv, KindOf, Done, Feed
  <2>2. HelloInv(hello_parser_feed(p, b), Append(t, b))
    BY <2>1, HelloFeed
  <2> QED
    BY <1>1, <2>1, <2>2 DEF ParserInv
<1>2. CASE g = "request"
  <2>1. /\ RequestInv(p, t) /\ ~request_is_done(p)
        /\ Feed(KindOf(g), p, b) = request_parser_feed(p, b)
    BY <1>2 DEF ParserInv, KindOf, Done, Feed
  <2>2. RequestInv(request_parser_feed(p, b), Append(t, b))
    BY <2>1, RequestFeed
  <2> QED
    BY <1>2, <2>1, <2>2 DEF ParserInv
<1>3. CASE g \notin {"hello", "request"}
  <2>1. ~is_done(p) /\ Feed(KindOf(g), p, b) = parser_feed(p, b)
    BY <1>3 DEF KindOf, Done, Feed
  <2>2. CASE g = "credentials"
    BY <2>1, <2>2, CredentialsFeed DEF ParserInv
  <2>3. CASE g = "index"
    BY <2>1, <2>3, ByteFeed DEF ParserInv
  <2>4. CASE g = "yes_no"
    BY <2>1, <2>4, ByteFeed DEF ParserInv
  <2>5. CASE g = "add_user"
    BY <2>1, <2>5, StringsFeed DEF ParserInv
  <2>6. CASE g = "delete_user"
    BY <2>1, <2>6, StringsFeed DEF ParserInv
  <2> QED
    BY <1>3, <2>2, <2>3, <2>4, <2>5, <2>6 DEF Grammars
<1> QED
  BY <1>1, <1>2, <1>3

\* What a parser is after 0, 1, ... of the bytes.
IsRun(kind, p, bytes, f) ==
  f = [i \in 0..Len(bytes) |-> IF i = 0 THEN p ELSE Feed(kind, f[i - 1], bytes[i])]

LEMMA AfterEachByte ==
  ASSUME NEW kind, NEW p, NEW bytes \in Seq(Byte)
  PROVE  \E f : IsRun(kind, p, bytes, f)
<1> DEFINE Upto(n, f) ==
             f = [i \in 0..n |-> IF i = 0 THEN p ELSE Feed(kind, f[i - 1], bytes[i])]
           U == {n \in Nat : \E f : Upto(n, f)}
<1>1. 0 \in U
  <2> DEFINE f == [i \in 0..0 |-> p]
  <2>1. \A i \in 0..0 : f[i] = IF i = 0 THEN p ELSE Feed(kind, f[i - 1], bytes[i])
    OBVIOUS
  <2>2. Upto(0, f)
    BY <2>1, Zenon
  <2> QED
    BY <2>2, Zenon
<1>2. ASSUME NEW n \in Nat, n \in U PROVE n + 1 \in U
  <2>1. PICK g : Upto(n, g)
    BY <1>2
  <2> DEFINE f == [i \in 0..(n + 1) |-> IF i = 0 THEN p ELSE Feed(kind, g[i - 1], bytes[i])]
  <2>2. \A i \in 0..n : i \in 0..(n + 1) /\ f[i] = g[i]
    <3>1. \A i \in 0..n : g[i] = IF i = 0 THEN p ELSE Feed(kind, g[i - 1], bytes[i])
      BY <2>1
    <3> QED
      BY <3>1
  <2>3. \A i \in 0..(n + 1) : i # 0 => i - 1 \in 0..n
    OBVIOUS
  <2>4. \A i \in 0..(n + 1) : f[i] = IF i = 0 THEN p ELSE Feed(kind, f[i - 1], bytes[i])
    <3>1. ASSUME NEW i \in 0..(n + 1), i # 0
          PROVE  f[i] = Feed(kind, f[i - 1], bytes[i])
      <4>1. f[i - 1] = g[i - 1]
        BY <2>2, <2>3, <3>1
      <4>2. f[i] = Feed(kind, g[i - 1], bytes[i])
        BY <3>1
      <4> HIDE DEF f
      <4> QED
        BY <4>1, <4>2
    <3>2. f[0] = p
      OBVIOUS
    <3> HIDE DEF f
    <3> QED
      BY <3>1, <3>2
  <2>5. Upto(n + 1, f)
    BY <2>4, Zenon
  <2> HIDE DEF f, Upto
  <2> QED
    BY <2>5
<1> HIDE DEF U
<1>3. Nat \subseteq U
  BY <1>1, <1>2, Naturals
<1>4. Len(bytes) \in U
  BY <1>3
<1> QED
  BY <1>4, Zenon DEF U, IsRun

\* Where the run over the bytes of a buffer stops, the parser knows what it has
\* taken of this message in all, this time and before.
LEMMA ConsumeKeeps ==
  ASSUME NEW g \in Grammars, NEW p, NEW t \in Seq(Byte), NEW bytes \in Seq(Byte),
         ParserInv(g, p, t), ~Done(KindOf(g), p), NEW run \in Consume(KindOf(g), p, bytes)
  PROVE  /\ t \o SubSeq(bytes, 1, run.count) \in Seq(Byte)
         /\ run.count \in 1..Len(bytes)
         /\ ParserInv(g, run.parser, t \o SubSeq(bytes, 1, run.count))
<1> DEFINE kind == KindOf(g)
           After(f) == [i \in 0..Len(bytes) |-> IF i = 0 THEN p ELSE Feed(kind, f[i - 1], bytes[i])]
           after == CHOOSE f : f = After(f)
           took(k) == t \o SubSeq(bytes, 1, k)
<1>1. after = After(after)
  <2>1. \E f : IsRun(kind, p, bytes, f)
    BY AfterEachByte
  <2>2. \E f : f = After(f)
    BY <2>1, Zenon DEF IsRun
  <2> QED
    BY <2>2, Zenon
<1>2. PICK k \in Stops(kind, after, Len(bytes)) : run = [parser |-> after[k], count |-> k]
  BY Zenon DEF Consume
<1> HIDE DEF after
<1>3. \A i \in 0..Len(bytes) : after[i] = IF i = 0 THEN p ELSE Feed(kind, after[i - 1], bytes[i])
  BY <1>1
<1>4. k \in 1..Len(bytes) /\ \A i \in 1..(k - 1) : ~Done(kind, after[i])
  BY <1>2 DEF Stops
<1>5. Len(bytes) \in Nat /\ after[0] = p
  BY <1>3
<1> DEFINE U == {i \in Nat : i <= k => took(i) \in Seq(Byte) /\ ParserInv(g, after[i], took(i))}
<1>6. 0 \in U
  <2>1. SubSeq(bytes, 1, 0) = << >>
    BY SubSeqEmpty
  <2>2. took(0) = t
    BY <2>1, ConcatEmptySeq
  <2> HIDE DEF took
  <2> QED
    BY <1>5, <2>2
<1>7. ASSUME NEW i \in Nat, i \in U PROVE i + 1 \in U
  <2> SUFFICES ASSUME i + 1 <= k
               PROVE  took(i + 1) \in Seq(Byte) /\ ParserInv(g, after[i + 1], took(i + 1))
    OBVIOUS
  <2>1. /\ i \in 0..(Len(bytes) - 1) /\ i <= k /\ i + 1 \in 0..Len(bytes) /\ i + 1 # 0
        /\ (i + 1) - 1 = i /\ (i = 0 \/ i \in 1..(k - 1))
    BY <1>4, <1>5
  <2>2. took(i) \in Seq(Byte) /\ ParserInv(g, after[i], took(i))
    BY <1>7, <2>1
  <2>3. bytes[i + 1] \in Byte /\ took(i + 1) = Append(took(i), bytes[i + 1])
    BY <2>1, OneMoreTaken
  <2>4. after[i + 1] = Feed(kind, after[i], bytes[i + 1])
    BY <1>3, <2>1
  <2>5. ~Done(kind, after[i])
    BY <1>4, <1>5, <2>1
  <2> HIDE DEF took
  <2>6. took(i + 1) \in Seq(Byte)
    BY <2>2, <2>3, AppendFacts
  <2>7. ParserInv(g, after[i + 1], took(i + 1))
    BY <2>2, <2>3, <2>4, <2>5, FeedKeeps
  <2> QED
    BY <2>6, <2>7
<1> HIDE DEF U
<1>8. Nat \subseteq U
  BY <1>6, <1>7, Naturals
<1>9. k \in U /\ k <= k
  BY <1>4, <1>5, <1>8
<1>10. took(k) \in Seq(Byte) /\ ParserInv(g, after[k], took(k))
  BY <1>9 DEF U
<1> QED
  BY <1>2, <1>4, <1>10
-----------------------------------------------------------------------------
(* The connection. *)

\* The table that a management request is read with.
GrammarOf(i) == CASE i = 10 -> "add_user" [] i = 11 -> "delete_user" [] i \in {12, 13} -> "yes_no"

Reading(g) == ParserInv(g, client, taken) /\ ~Done(KindOf(g), client)
Whole(g) == ParserInv(g, client, taken) /\ Done(KindOf(g), client)

ClientInv ==
  /\ taken \in Seq(Byte) /\ index \in Byte
  /\ state = "HELLO_READ" => Reading("hello")
  /\ state = "HELLO_WRITE" => Whole("hello") /\ client.state = "hello_done"
  /\ state = "USERPASS_READ" => Reading("credentials")
  /\ state = "USERPASS_WRITE" => /\ Whole("credentials") /\ client.current = "done_read"
                                 /\ authentication = Verdict(client)
  /\ state = "REQUEST_READ" => Reading("request")
  /\ state = "REQUEST_CONNECTING" => Whole("request")
  /\ state = "MNG_REQUEST_READ_INDEX" => Reading("index")
  /\ state = "MNG_REQUEST_READ" => index \in WithParams /\ Reading(GrammarOf(index))
  /\ state = "MNG_REQUEST_WRITE" /\ index \in WithParams => Whole(GrammarOf(index))
  /\ state \notin {"MNG_REQUEST_READ", "MNG_REQUEST_WRITE"} => index = 0

LEMMA KindsOfGrammars ==
  /\ Grammars = {"hello", "credentials", "index", "add_user", "delete_user", "yes_no", "request"}
  /\ KindOf("hello") = "hello" /\ KindOf("request") = "request"
  /\ \A g \in Grammars : g # "hello" /\ g # "request" => KindOf(g) = "fields"
  /\ \A i \in WithParams : GrammarOf(i) \in {"add_user", "delete_user", "yes_no"}
BY DEF Grammars, KindOf, WithParams, GrammarOf

LEMMA DoneByKind ==
  ASSUME NEW p
  PROVE  /\ Done("hello", p) <=> hello_is_done(p)
         /\ Done("fields", p) <=> is_done(p)
         /\ Done("request", p) <=> request_is_done(p)
BY DEF Done

\* The parsers as they start.
LEMMA ParsersStart ==
  /\ \A v, m \in Byte : /\ ParserInv("hello", hello_parser_init(v, m), << >>)
                        /\ ~hello_is_done(hello_parser_init(v, m))
  /\ ParserInv("credentials", auth_parser_init, << >>) /\ ~is_done(auth_parser_init)
  /\ ParserInv("request", request_parser_init, << >>) /\ ~request_is_done(request_parser_init)
  /\ ParserInv("index", mng_index_parser_init, << >>) /\ ~is_done(mng_index_parser_init)
  /\ \A i \in WithParams : /\ ParserInv(GrammarOf(i), params_parser_init(i), << >>)
                           /\ ~is_done(params_parser_init(i))
<1>1. \A v, m \in Byte : /\ ParserInv("hello", hello_parser_init(v, m), << >>)
                         /\ ~hello_is_done(hello_parser_init(v, m))
  BY HelloStarts DEF ParserInv, hello_parser_init, hello_is_done
<1>2. ParserInv("credentials", auth_parser_init, << >>) /\ ~is_done(auth_parser_init)
  <2>1. auth_parser_init.current = "long_read"
    BY DEF auth_parser_init, parser_init, ReadByte, Substate
  <2> QED
    BY <2>1, CredentialsStart DEF ParserInv, is_done
<1>3. ParserInv("request", request_parser_init, << >>) /\ ~request_is_done(request_parser_init)
  BY RequestStarts DEF ParserInv, request_parser_init, request_is_done
<1>4. ParserInv("index", mng_index_parser_init, << >>) /\ ~is_done(mng_index_parser_init)
  <2>1. mng_index_parser_init.current = "long_read"
    BY DEF mng_index_parser_init, parser_init, ReadByte, Substate
  <2> QED
    BY <2>1, ByteStarts DEF ParserInv, is_done, mng_index_parser_init
<1>5. ASSUME NEW i \in WithParams
      PROVE  /\ ParserInv(GrammarOf(i), params_parser_init(i), << >>)
             /\ ~is_done(params_parser_init(i))
  <2>1. CASE i = 10
    <3>1. params_parser_init(i) = add_user_parser_init /\ GrammarOf(i) = "add_user"
      BY <2>1 DEF params_parser_init, GrammarOf
    <3>2. add_user_parser_init.current = "read_N"
      BY DEF add_user_parser_init, parser_init, ReadLength, Substate
    <3> QED
      BY <3>1, <3>2, StringsStart DEF ParserInv, is_done
  <2>2. CASE i = 11
    <3>1. params_parser_init(i) = delete_user_parser_init /\ GrammarOf(i) = "delete_user"
      BY <2>2 DEF params_parser_init, GrammarOf
    <3>2. delete_user_parser_init.current = "read_N"
      BY DEF delete_user_parser_init, parser_init, ReadLength, Substate
    <3> QED
      BY <3>1, <3>2, StringsStart DEF ParserInv, is_done
  <2>3. CASE i \in {12, 13}
    <3>1. params_parser_init(i) = yes_no_parser_init /\ GrammarOf(i) = "yes_no"
      BY <2>3 DEF params_parser_init, GrammarOf
    <3>2. yes_no_parser_init.current = "long_read"
      BY DEF yes_no_parser_init, parser_init, ReadByte, Substate
    <3>3. ByteInv(yes_no_parser_init, "none", << >>)
      BY ByteStarts DEF yes_no_parser_init
    <3> QED
      BY <3>1, <3>2, <3>3 DEF ParserInv, is_done
  <2> QED
    BY <2>1, <2>2, <2>3 DEF WithParams
<1> QED
  BY <1>1, <1>2, <1>3, <1>4, <1>5

\* What a recv of any bytes of the socket gives, with what was left of the last one.
LEMMA RecvIsUnderstood ==
  ASSUME DialogueInv, taken \in Seq(Byte), NEW g \in Grammars, Reading(g),
         NEW most, NEW n \in Recv(most), NEW r \in AfterRecv(KindOf(g), n)
  PROVE  /\ r = [parser |-> r.parser, taken |-> r.taken, input |-> r.input, socket |-> r.socket]
         /\ r.taken \in Seq(Byte) /\ ParserInv(g, r.parser, r.taken)
<1> DEFINE full == Put(Input, SubSeq(socket, 1, n))
<1>1. socket \in Seq(Byte) /\ Input \in Queues(Byte)
  BY DEF DialogueInv, BytesInv, BuffersInv
<1>2. n \in 0..Len(socket) /\ n <= Room(Input)
  BY <1>1 DEF Recv
<1>3. SubSeq(socket, 1, n) \in Seq(Byte) /\ Len(SubSeq(socket, 1, n)) = n
  BY <1>1, <1>2, PrefixIsSeq
<1>4. full \in Queues(Byte)
  BY <1>1, <1>2, <1>3, PutKeepsQueue
<1>5. full.bytes \in Seq(Byte)
  BY <1>4, QueueFields
<1>6. PICK run \in Consume(KindOf(g), client, full.bytes) :
        r = [parser |-> run.parser, taken |-> taken \o SubSeq(full.bytes, 1, run.count),
             input |-> Take(full, run.count), socket |-> SubSeq(socket, n + 1, Len(socket))]
  BY Zenon DEF AfterRecv
<1> HIDE DEF full
<1>7. /\ taken \o SubSeq(full.bytes, 1, run.count) \in Seq(Byte)
      /\ ParserInv(g, run.parser, taken \o SubSeq(full.bytes, 1, run.count))
  BY <1>5, ConsumeKeeps DEF Reading
<1> QED
  BY <1>6, <1>7

(* The forms that the steps of the handshake have. *)

LEMMA SameClient ==
  ASSUME ClientInv, UNCHANGED <<state, protocol, client, index, authentication, taken>>
  PROVE  ClientInv'
BY DEF ClientInv, Reading, Whole, Verdict

LEMMA ClosesClient ==
  ASSUME NEW terminal \in {"DONE", "CRASHED"}, Closes(terminal)
  PROVE  ClientInv'
<1>1. /\ state' \in {"DONE", "CRASHED"} /\ taken' = << >> /\ index' = 0
  BY DEF Closes, Forgets
<1>2. << >> \in Seq(Byte) /\ 0 \in Byte
  BY DEF Byte
<1> QED
  BY <1>1, <1>2 DEF ClientInv

LEMMA WritesClient ==
  ASSUME ClientInv, NEW q, Writes(q)
  PROVE  ClientInv'
BY SameClient DEF Writes, Unmoved

\* A new parser, before the management request's parameters.
LEMMA ReadsClient ==
  ASSUME ClientInv, NEW s, NEW parser, Reads(s, parser), index = 0,
         \/ s = "USERPASS_READ" /\ parser = auth_parser_init
         \/ s = "REQUEST_READ" /\ parser = request_parser_init
         \/ s = "MNG_REQUEST_READ_INDEX" /\ parser = mng_index_parser_init
  PROVE  ClientInv'
<1>1. state' = s /\ client' = parser /\ taken' = << >> /\ index' = 0 /\ << >> \in Seq(Byte)
  BY DEF Reads
<1>2. 0 \in Byte
  BY DEF Byte
<1>3. s = "USERPASS_READ" => Reading("credentials")'
  BY <1>1, ParsersStart, DoneByKind, KindsOfGrammars DEF Reading
<1>4. s = "REQUEST_READ" => Reading("request")'
  BY <1>1, ParsersStart, DoneByKind, KindsOfGrammars DEF Reading
<1>5. s = "MNG_REQUEST_READ_INDEX" => Reading("index")'
  BY <1>1, ParsersStart, DoneByKind, KindsOfGrammars DEF Reading
<1> QED
  BY <1>1, <1>2, <1>3, <1>4, <1>5 DEF ClientInv

\* The message is not complete.
LEMMA ContinuesClient ==
  ASSUME ClientInv, NEW g, NEW r, Continues(r), r.taken \in Seq(Byte),
         ParserInv(g, r.parser, r.taken), ~Done(KindOf(g), r.parser),
         \/ state = "HELLO_READ" /\ g = "hello"
         \/ state = "USERPASS_READ" /\ g = "credentials"
         \/ state = "REQUEST_READ" /\ g = "request"
         \/ state = "MNG_REQUEST_READ" /\ g = GrammarOf(index)
  PROVE  ClientInv'
<1>1. /\ state' = state /\ client' = r.parser /\ taken' = r.taken /\ index' = index
  BY DEF Continues, Received
<1>2. Reading(g)'
  BY <1>1 DEF Reading
<1>3. state = "MNG_REQUEST_READ" => Reading(GrammarOf(index))'
  BY <1>1, <1>2
<1> QED
  BY <1>1, <1>2, <1>3 DEF ClientInv

(* Each action that receives or sends. *)

LEMMA HelloReadClient ==
  ASSUME DialogueInv, ClientInv, hello_read
  PROVE  ClientInv'
<1>1. state = "HELLO_READ" /\ Reading("hello") /\ taken \in Seq(Byte) /\ index = 0
  BY DEF hello_read, ClientInv
<1>2. PICK n \in Recv(AllThereIs) : \E r \in AfterRecv("hello", n) :
       \/ ~hello_is_done(r.parser) /\ Continues(r)
       \/ r.parser.state = "hello_error_unsupported_version" /\ Ends
       \/ /\ r.parser.state = "hello_done"
          /\ state' = "HELLO_WRITE" /\ Received(r)
          /\ UNCHANGED <<index, authentication>>
  BY DEF hello_read
<1>3. PICK r \in AfterRecv("hello", n) :
       \/ ~hello_is_done(r.parser) /\ Continues(r)
       \/ r.parser.state = "hello_error_unsupported_version" /\ Ends
       \/ /\ r.parser.state = "hello_done"
          /\ state' = "HELLO_WRITE" /\ Received(r)
          /\ UNCHANGED <<index, authentication>>
  BY <1>2
<1>4. r.taken \in Seq(Byte) /\ ParserInv("hello", r.parser, r.taken)
  BY <1>1, RecvIsUnderstood, KindsOfGrammars
<1>5. CASE ~hello_is_done(r.parser) /\ Continues(r)
  BY <1>1, <1>4, <1>5, ContinuesClient, DoneByKind, KindsOfGrammars
<1>6. CASE Ends
  BY <1>6, ClosesClient DEF Ends
<1>7. CASE /\ r.parser.state = "hello_done"
           /\ state' = "HELLO_WRITE" /\ Received(r)
           /\ UNCHANGED <<index, authentication>>
  <2>1. client' = r.parser /\ taken' = r.taken /\ index' = 0
    BY <1>1, <1>7 DEF Received
  <2>2. Whole("hello")' /\ client'.state = "hello_done"
    BY <1>4, <1>7, <2>1, DoneByKind, KindsOfGrammars DEF Whole, hello_is_done
  <2> QED
    BY <1>4, <1>7, <2>1, <2>2 DEF ClientInv, Byte
<1> QED
  BY <1>3, <1>5, <1>6, <1>7

LEMMA AuthReadClient ==
  ASSUME DialogueInv, ClientInv, auth_read
  PROVE  ClientInv'
<1>1. state = "USERPASS_READ" /\ Reading("credentials") /\ taken \in Seq(Byte) /\ index = 0
  BY DEF auth_read, ClientInv
<1>2. CASE Ends
  BY <1>2, ClosesClient DEF Ends
<1>3. ASSUME NEW n \in Recv(AllThereIs), NEW r \in AfterRecv("fields", n),
             ~is_done(r.parser) /\ Continues(r)
      PROVE  ClientInv'
  <2>1. r.taken \in Seq(Byte) /\ ParserInv("credentials", r.parser, r.taken)
    BY <1>1, RecvIsUnderstood, KindsOfGrammars
  <2> QED
    BY <1>1, <1>3, <2>1, ContinuesClient, DoneByKind, KindsOfGrammars
<1>4. CASE \E terminal \in {"DONE", "CRASHED"} : Closes(terminal)
  BY <1>4, ClosesClient
<1>5. ASSUME NEW n \in Recv(AllThereIs), NEW r \in AfterRecv("fields", n),
             r.parser.current = "done_read", state' = "USERPASS_WRITE", Received(r),
             authentication' = Verdict(r.parser), UNCHANGED index, Unmoved
      PROVE  ClientInv'
  <2>1. r.taken \in Seq(Byte) /\ ParserInv("credentials", r.parser, r.taken)
    BY <1>1, RecvIsUnderstood, KindsOfGrammars
  <2>2. client' = r.parser /\ taken' = r.taken /\ index' = 0
    BY <1>1, <1>5 DEF Received
  <2>3. Whole("credentials")' /\ client'.current = "done_read"
    BY <1>5, <2>1, <2>2, DoneByKind, KindsOfGrammars DEF Whole, is_done
  <2>4. authentication' = Verdict(client)'
    BY <1>5, <2>2 DEF Verdict, Unmoved
  <2> QED
    BY <1>5, <2>1, <2>2, <2>3, <2>4 DEF ClientInv, Byte
<1> QED
  BY <1>2, <1>3, <1>4, <1>5 DEF auth_read

LEMMA RequestReadClient ==
  ASSUME DialogueInv, ClientInv, request_read
  PROVE  ClientInv'
<1>1. state = "REQUEST_READ" /\ Reading("request") /\ taken \in Seq(Byte) /\ index = 0
  BY DEF request_read, ClientInv
<1>2. CASE Ends
  BY <1>2, ClosesClient DEF Ends
<1>3. ASSUME NEW n \in Recv(AllThereIs), NEW r \in AfterRecv("request", n),
             ~request_is_done(r.parser) /\ Continues(r)
      PROVE  ClientInv'
  <2>1. r.taken \in Seq(Byte) /\ ParserInv("request", r.parser, r.taken)
    BY <1>1, RecvIsUnderstood, KindsOfGrammars
  <2> QED
    BY <1>1, <1>3, <2>1, ContinuesClient, DoneByKind, KindsOfGrammars
<1>4. ASSUME NEW n \in Recv(AllThereIs), NEW r \in AfterRecv("request", n),
             request_is_done(r.parser), state' = "REQUEST_CONNECTING", Received(r),
             UNCHANGED index
      PROVE  ClientInv'
  <2>1. r.taken \in Seq(Byte) /\ ParserInv("request", r.parser, r.taken)
    BY <1>1, RecvIsUnderstood, KindsOfGrammars
  <2>2. client' = r.parser /\ taken' = r.taken /\ index' = 0
    BY <1>1, <1>4 DEF Received
  <2>3. Whole("request")'
    BY <1>4, <2>1, <2>2, DoneByKind, KindsOfGrammars DEF Whole
  <2> QED
    BY <1>4, <2>1, <2>2, <2>3 DEF ClientInv, Byte
<1> QED
  BY <1>2, <1>3, <1>4 DEF request_read

\* The index that was read is a byte, and the one that says which parameters follow.
LEMMA IndexOf ==
  ASSUME NEW p, NEW t \in Seq(Byte), ParserInv("index", p, t), p.current = "done_read"
  PROVE  p.states[1].result[1] \in Byte
<1>1. Len(t) = 1 /\ p.states[1].result = t
  BY DEF ParserInv, ByteInv
<1> QED
  BY <1>1, ByteAt

LEMMA MngRequestIndexReadClient ==
  ASSUME DialogueInv, ClientInv, mng_request_index_read
  PROVE  ClientInv'
<1>1. /\ state = "MNG_REQUEST_READ_INDEX" /\ Reading("index") /\ taken \in Seq(Byte)
      /\ index = 0 /\ 0 \in Byte /\ 0 \notin WithParams
  <2>1. state = "MNG_REQUEST_READ_INDEX"
    BY DEF mng_request_index_read
  <2>2. 0 \in Byte /\ 0 \notin WithParams
    BY DEF Byte, WithParams
  <2> QED
    BY <2>1, <2>2 DEF ClientInv
<1>2. ASSUME NEW r, r.taken \in Seq(Byte), NEW reply, MngReplies(r, reply),
             index' \in Byte /\ index' \notin WithParams
      PROVE  ClientInv'
  <2>1. state' = "MNG_REQUEST_WRITE" /\ taken' = r.taken
    BY <1>2 DEF MngReplies, Received
  <2> QED
    BY <1>2, <2>1 DEF ClientInv
<1>3. ASSUME MngReplies([parser |-> client, taken |-> taken, input |-> Input, socket |-> socket], << 1 >>),
             UNCHANGED index
      PROVE  ClientInv'
  BY <1>1, <1>2, <1>3
<1>4. ASSUME NEW n \in Recv(1), NEW r \in AfterRecv("fields", n), NEW i,
             i = r.parser.states[1].result[1],
             \/ r.parser.current = "error_read" /\ MngReplies(r, << 2 >>) /\ UNCHANGED index
             \/ /\ r.parser.current = "done_read" /\ i \notin WithParams
                /\ MngReplies(r, Value) /\ index' = i
             \/ /\ r.parser.current = "done_read" /\ i \in WithParams
                /\ state' = "MNG_REQUEST_READ" /\ index' = i
                /\ Received([r EXCEPT !.parser = params_parser_init(i), !.taken = << >>])
      PROVE  ClientInv'
  <2>1. /\ r = [parser |-> r.parser, taken |-> r.taken, input |-> r.input, socket |-> r.socket]
        /\ r.taken \in Seq(Byte) /\ ParserInv("index", r.parser, r.taken)
    BY <1>1, RecvIsUnderstood, KindsOfGrammars
  <2>2. r.parser.current = "done_read" => i \in Byte
    BY <1>4, <2>1, IndexOf
  <2>3. CASE r.parser.current = "error_read" /\ MngReplies(r, << 2 >>) /\ UNCHANGED index
    BY <1>1, <1>2, <2>1, <2>3
  <2>4. CASE /\ r.parser.current = "done_read" /\ i \notin WithParams
             /\ MngReplies(r, Value) /\ index' = i
    BY <1>2, <2>1, <2>2, <2>4
  <2>5. CASE /\ r.parser.current = "done_read" /\ i \in WithParams
             /\ state' = "MNG_REQUEST_READ" /\ index' = i
             /\ Received([r EXCEPT !.parser = params_parser_init(i), !.taken = << >>])
    <3>1. client' = params_parser_init(i) /\ taken' = << >> /\ << >> \in Seq(Byte)
      <4> DEFINE p == params_parser_init(i)
      <4> HIDE DEF p
      <4>1. /\ [r EXCEPT !.parser = p, !.taken = << >>].parser = p
            /\ [r EXCEPT !.parser = p, !.taken = << >>].taken = << >>
        BY <2>1
      <4> QED
        BY <2>5, <4>1 DEF Received, p
    <3>2. GrammarOf(i) \in Grammars /\ KindOf(GrammarOf(i)) = "fields"
      BY <2>5, KindsOfGrammars
    <3>3. ParserInv(GrammarOf(i), client', taken') /\ ~Done(KindOf(GrammarOf(i)), client')
      BY <2>5, <3>1, <3>2, ParsersStart, DoneByKind
    <3>4. Reading(GrammarOf(index))'
      BY <2>5, <3>3 DEF Reading
    <3> QED
      BY <2>2, <2>5, <3>1, <3>4 DEF ClientInv
  <2> QED
    BY <1>4, <2>3, <2>4, <2>5
<1> QED
  BY <1>3, <1>4 DEF mng_request_index_read

LEMMA MngRequestReadClient ==
  ASSUME DialogueInv, ClientInv, mng_request_read
  PROVE  ClientInv'
<1>1. /\ state = "MNG_REQUEST_READ" /\ index \in WithParams /\ Reading(GrammarOf(index))
      /\ taken \in Seq(Byte) /\ index \in Byte
  BY DEF mng_request_read, ClientInv
<1>2. CASE Ends
  BY <1>2, ClosesClient DEF Ends
<1> DEFINE g == GrammarOf(index)
<1>3. g \in Grammars /\ KindOf(g) = "fields"
  BY <1>1, KindsOfGrammars
<1> HIDE DEF g
<1>4. ASSUME NEW n \in Recv(AllThereIs), NEW r \in AfterRecv("fields", n),
             ~is_done(r.parser) /\ Continues(r)
      PROVE  ClientInv'
  <2>1. r.taken \in Seq(Byte) /\ ParserInv(g, r.parser, r.taken)
    BY <1>1, <1>3, RecvIsUnderstood DEF g
  <2> QED
    BY <1>1, <1>3, <1>4, <2>1, ContinuesClient, DoneByKind DEF g
<1>5. ASSUME NEW n \in Recv(AllThereIs), NEW r \in AfterRecv("fields", n),
             is_done(r.parser) /\ MngReplies(r, << 0 >>) /\ UNCHANGED index
      PROVE  ClientInv'
  <2>1. r.taken \in Seq(Byte) /\ ParserInv(g, r.parser, r.taken)
    BY <1>1, <1>3, RecvIsUnderstood DEF g
  <2>2. /\ state' = "MNG_REQUEST_WRITE" /\ client' = r.parser /\ taken' = r.taken
        /\ index' = index
    BY <1>5 DEF MngReplies, Received
  <2>3. ParserInv(GrammarOf(index'), client', taken') /\ Done(KindOf(GrammarOf(index')), client')
    BY <1>3, <1>5, <2>1, <2>2, DoneByKind DEF g
  <2>4. Whole(GrammarOf(index))'
    BY <2>3 DEF Whole
  <2> QED
    BY <1>1, <2>1, <2>2, <2>4 DEF ClientInv
<1> QED
  BY <1>2, <1>4, <1>5 DEF mng_request_read

LEMMA WriteHandlersClient ==
  ASSUME ClientInv, WriteHandler
  PROVE  ClientInv'
<1>1. CASE Ends
  BY <1>1, ClosesClient DEF Ends
<1>2. CASE \E q : Writes(q)
  BY <1>2, WritesClient
<1>3. CASE state' = "COPY" /\ Forgets
  <2>1. taken' = << >> /\ index' = 0 /\ << >> \in Seq(Byte) /\ 0 \in Byte
    BY <1>3 DEF Forgets, Byte
  <2> QED
    BY <1>3, <2>1 DEF ClientInv
<1>4. CASE /\ state \in {"HELLO_WRITE", "USERPASS_WRITE"}
           /\ \/ Reads("USERPASS_READ", auth_parser_init)
              \/ Reads("REQUEST_READ", request_parser_init)
              \/ Reads("MNG_REQUEST_READ_INDEX", mng_index_parser_init)
  <2>1. index = 0
    BY <1>4 DEF ClientInv
  <2> QED
    BY <1>4, <2>1, ReadsClient
<1>5. CASE hello_write
  BY <1>1, <1>2, <1>4, <1>5 DEF hello_write
<1>6. CASE auth_write
  BY <1>1, <1>2, <1>4, <1>6 DEF auth_write
<1>7. CASE request_write
  BY <1>1, <1>2, <1>3, <1>7 DEF request_write
<1>8. CASE mng_request_write
  BY <1>1, <1>2, <1>8 DEF mng_request_write
<1> QED
  BY <1>5, <1>6, <1>7, <1>8 DEF WriteHandler

LEMMA ConnectingClient ==
  ASSUME ClientInv, connecting
  PROVE  ClientInv'
<1>1. state = "REQUEST_CONNECTING" /\ state' = "REQUEST_WRITE" /\ taken' = << >> /\ index' = index
  BY DEF connecting
<1>2. index = 0 /\ << >> \in Seq(Byte) /\ 0 \in Byte
  BY <1>1 DEF ClientInv, Byte
<1> QED
  BY <1>1, <1>2 DEF ClientInv

LEMMA RelayClient ==
  ASSUME ClientInv, NEW s \in Sides, CopyReads(s) \/ CopyWrites(s)
  PROVE  ClientInv'
<1>1. state = "COPY" /\ state' \in {"COPY", "DONE"} /\ taken' = taken /\ index' = index
  BY DEF CopyReads, CopyWrites, copy_read, copy_write, Ready, Recompute, handshakeVars
<1>2. index = 0 /\ taken \in Seq(Byte) /\ 0 \in Byte
  BY <1>1 DEF ClientInv, Byte
<1> QED
  BY <1>1, <1>2 DEF ClientInv

LEMMA StepOnClient ==
  ASSUME DialogueInv, ClientInv, [Next]_vars
  PROVE  ClientInv'
<1>1. CASE ClientBegins \/ ClientSends \/ UNCHANGED vars
  BY <1>1, SameClient DEF ClientBegins, ClientSends, vars
<1>2. CASE Fails
  BY <1>2, ClosesClient DEF Fails, Ends
<1>3. CASE ReadHandler
  BY <1>3, HelloReadClient, AuthReadClient, RequestReadClient, MngRequestIndexReadClient,
     MngRequestReadClient DEF ReadHandler
<1> QED
  BY <1>1, <1>2, <1>3, WriteHandlersClient, ConnectingClient, RelayClient DEF Next

LEMMA InitClient == Init => ClientInv
<1> SUFFICES ASSUME Init PROVE ClientInv
  OBVIOUS
<1>1. state = "HELLO_READ" /\ taken = << >> /\ index = 0 /\ << >> \in Seq(Byte) /\ 0 \in Byte
  BY DEF Init, Byte
<1>2. \E v, m \in Byte : client = hello_parser_init(v, m)
  <2>1. {0, 1, 2, 5} \subseteq Byte
    BY DEF Byte
  <2> QED
    BY <2>1 DEF Init, hello_read_init
<1>3. Reading("hello")
  BY <1>1, <1>2, ParsersStart, DoneByKind, KindsOfGrammars DEF Reading
<1> QED
  BY <1>1, <1>3 DEF ClientInv
-----------------------------------------------------------------------------
ClientIsUnderstood == DialogueInv /\ ClientInv

LEMMA Understood == Spec => []ClientIsUnderstood
<1>1. DialogueInv /\ ClientInv /\ [Next]_vars => ClientInv'
  BY StepOnClient
<1> QED
  BY <1>1, InitClient, RelayIsWatched, PTL DEF Spec, ClientIsUnderstood

(* hello_read: the method chosen is the configured one exactly when the message
   of the client offers it, for any methods and any pieces that it comes in. *)
THEOREM MethodWasOffered == Spec => []MethodIsOneOffered
<1>1. ClientIsUnderstood => MethodIsOneOffered
  <2> SUFFICES ASSUME ClientInv, state = "HELLO_WRITE" PROVE MethodIsOneOffered
    BY DEF MethodIsOneOffered, ClientIsUnderstood
  <2>1. HelloInv(client, taken) /\ client.state = "hello_done"
    BY DEF ClientInv, Whole, ParserInv
  <2> QED
    BY <2>1 DEF HelloInv, MethodIsOneOffered
<1> QED
  BY <1>1, Understood, PTL

LEMMA NameIsTail ==
  ASSUME NEW m \in Seq(Byte), Len(m) >= 1, Len(m) = m[1] + 1
  PROVE  G!Name(m) = Tail(m)
<1>1. m # << >> /\ Len(m) \in Nat
  BY EmptySeq
<1>2. Tail(m) = SubSeq(m, 2, Len(m))
  <2> DEFINE x == Tail(m)
             y == SubSeq(m, 2, Len(m))
  <2>1. x \in Seq(Byte) /\ Len(x) = Len(m) - 1 /\ \A i \in 1..(Len(m) - 1) : x[i] = m[i + 1]
    BY <1>1, HeadTailProperties
  <2>2. 2 \in 1..(Len(m) + 1) /\ Len(m) \in (2 - 1)..Len(m)
    BY <1>1
  <2>3. y \in Seq(Byte) /\ Len(y) = Len(m) - 2 + 1 /\ \A i \in 1..(Len(m) - 2 + 1) : y[i] = m[2 + i - 1]
    BY <2>2, PartOf
  <2> HIDE DEF x, y
  <2>4. Len(x) = Len(y)
    BY <1>1, <2>1, <2>3
  <2>5. ASSUME NEW i \in 1..Len(x) PROVE x[i] = y[i]
    <3>1. i \in 1..(Len(m) - 1) /\ i \in 1..(Len(m) - 2 + 1) /\ 2 + i - 1 = i + 1
      BY <1>1, <2>1
    <3> QED
      BY <2>1, <2>3, <3>1
  <2>6. x = y
    BY <2>1, <2>3, <2>4, <2>5, SeqEqual
  <2> QED
    BY <2>6 DEF x, y
<1> QED
  BY <1>2 DEF G!Name

LEMMA CredentialsAreThoseSent ==
  ASSUME ClientInv, state = "USERPASS_WRITE"
  PROVE  G!IsCredentials(taken) /\ (authentication = 0 <=> AccountSent \in Accounts[protocol])
<1>1. /\ CredentialsInv(client, taken) /\ client.current = "done_read"
      /\ authentication = Verdict(client)
  BY DEF ClientInv, Whole, ParserInv
<1>2. Len(taken) >= 1 /\ taken[1] = 1 /\ StringsInv(client, 1, 4, Tail(taken))
  BY <1>1 DEF CredentialsInv
<1>3. /\ G!IsNameAndPassword(Tail(taken))
      /\ client.states[3].result = G!Name(Tail(taken))
      /\ client.states[5].result = G!Password(Tail(taken))
  BY <1>1, <1>2 DEF StringsInv
<1> QED
  BY <1>1, <1>2, <1>3 DEF G!IsCredentials, Verdict, AccountSent

LEMMA ParametersAreThoseSent ==
  ASSUME ClientInv, state = "MNG_REQUEST_WRITE", index \in WithParams
  PROVE  IsParameters(index, taken) /\ Parameters(index, client) = ParametersSent(index, taken)
<1>1. /\ ParserInv(GrammarOf(index), client, taken) /\ is_done(client) /\ taken \in Seq(Byte)
  BY DoneByKind, KindsOfGrammars DEF ClientInv, Whole
<1>2. CASE index = 10
  <2>1. StringsInv(client, 0, 4, taken)
    BY <1>1, <1>2 DEF ParserInv, GrammarOf
  <2>2. /\ G!IsNameAndPassword(taken)
        /\ client.states[2].result = G!Name(taken)
        /\ client.states[4].result = G!Password(taken)
    BY <1>1, <2>1 DEF StringsInv, is_done
  <2> QED
    BY <1>2, <2>2 DEF IsParameters, Parameters, ParametersSent
<1>3. CASE index = 11
  <2>1. StringsInv(client, 0, 2, taken)
    BY <1>1, <1>3 DEF ParserInv, GrammarOf
  <2>2. client.index \in 1..3
    BY <2>1 DEF StringsInv, TableInv
  <2>3. Len(taken) >= 1 /\ Len(taken) = taken[1] + 1 /\ client.states[2].result = G!Name(taken)
    BY <1>1, <2>1, <2>2 DEF StringsInv, is_done
  <2>4. taken[1] \in Nat
    <3>1. 1 \in 1..Len(taken)
      BY <1>1, <2>3
    <3> QED
      BY <1>1, <3>1, ByteAt
  <2>5. Len(taken) = 1 + taken[1] /\ client.states[2].result = Tail(taken)
    BY <1>1, <2>3, <2>4, NameIsTail
  <2> QED
    BY <1>3, <2>3, <2>5 DEF IsParameters, Parameters, ParametersSent
<1>4. CASE index = 12
  <2>1. ByteInv(client, "none", taken)
    BY <1>1, <1>4 DEF ParserInv, GrammarOf
  <2>2. Len(taken) = 1 /\ client.states[1].result = taken
    BY <1>1, <2>1 DEF ByteInv, is_done
  <2> QED
    BY <1>4, <2>2 DEF IsParameters, Parameters, ParametersSent
<1>5. CASE index = 13
  <2>1. ByteInv(client, "none", taken)
    BY <1>1, <1>5 DEF ParserInv, GrammarOf
  <2>2. Len(taken) = 1 /\ client.states[1].result = taken
    BY <1>1, <2>1 DEF ByteInv, is_done
  <2> QED
    BY <1>5, <2>2 DEF IsParameters, Parameters, ParametersSent
<1> QED
  BY <1>2, <1>3, <1>4, <1>5 DEF WithParams

(* auth_process and process_mng_params_request work with the fields that the
   client sent, for strings of any lengths and any pieces that they come in. *)
THEOREM FieldsWereSent == Spec => []FieldsAreThoseSent
<1>1. ClientIsUnderstood => FieldsAreThoseSent
  BY CredentialsAreThoseSent, ParametersAreThoseSent DEF ClientIsUnderstood, FieldsAreThoseSent
<1> QED
  BY <1>1, Understood, PTL

(* request_process connects to the address and port of the client's request, for
   any lengths of the addresses. *)
THEOREM DestinationWasAsked == Spec => []DestinationIsTheOneAsked
<1>1. ClientIsUnderstood => DestinationIsTheOneAsked
  <2> SUFFICES ASSUME ClientInv, state = "REQUEST_CONNECTING", ~EmptyName(taken)
               PROVE  /\ G!IsRequest(taken)
                      /\ G!Destination(taken) =
                           [type |-> client.dest_addr_type, address |-> client.dest_addr,
                            port |-> client.dest_port]
    BY DEF DestinationIsTheOneAsked, ClientIsUnderstood
  <2>1. RequestInv(client, taken) /\ client.state = "request_done"
    BY DoneByKind, KindsOfGrammars DEF ClientInv, Whole, ParserInv, request_is_done
  <2>2. AfterRequest(client, taken)
    BY <2>1 DEF RequestInv, RequestErrors, BeforeAddress, InAddress, InPort, AfterEmptyName
  <2> QED
    BY <2>2 DEF AfterRequest
<1> QED
  BY <1>1, Understood, PTL
-----------------------------------------------------------------------------
(* Types: what the other invariants say nothing of. *)

TypesInv ==
  /\ state \in States
  /\ Output \in Queues(Byte)
  /\ interest \in [Sides -> Masks] /\ sent \in 0..BufferSize
  /\ authentication \in {0, 1} /\ ahead \in BOOLEAN

LEMMA MasksAreSubsets == Masks = SUBSET {"READ", "WRITE"}
<1>1. ASSUME NEW m \in SUBSET {"READ", "WRITE"} PROVE m \in Masks
  <2>1. CASE "READ" \in m /\ "WRITE" \in m
    BY <2>1 DEF Masks
  <2>2. CASE "READ" \in m /\ "WRITE" \notin m
    BY <2>2 DEF Masks
  <2>3. CASE "READ" \notin m /\ "WRITE" \in m
    BY <2>3 DEF Masks
  <2>4. CASE "READ" \notin m /\ "WRITE" \notin m
    BY <2>4 DEF Masks
  <2> QED
    BY <2>1, <2>2, <2>3, <2>4
<1>2. Masks \subseteq SUBSET {"READ", "WRITE"}
  BY DEF Masks
<1> QED
  BY <1>1, <1>2

LEMMA InterestsAreMasks ==
  ASSUME NEW m \in [Sides -> SUBSET {"READ", "WRITE"}], NEW b, NEW s
  PROVE  BothInterests(s, m, b) \in [Sides -> Masks]
<1>1. \A t \in Sides : copy_compute_interests(t, m, b) \in SUBSET {"READ", "WRITE"}
  BY DEF copy_compute_interests
<1> QED
  BY <1>1, MasksAreSubsets DEF BothInterests

\* A reply that does not fit leaves write_buffer as it is.
LEMMA MarshalKeepsQueue ==
  ASSUME Output \in Queues(Byte), NEW reply \in Seq(Byte)
  PROVE  Marshal(reply) \in Queues(Byte)
<1>1. Len(reply) \in Nat /\ Room(Output) \in Nat
  BY QueueFields, LenProperties
<1> QED
  BY <1>1, PutKeepsQueue DEF Marshal

LEMMA SendKeepsQueue ==
  ASSUME NEW o \in Queues(Byte), NEW q \in AfterSend(o)
  PROVE  q \in Queues(Byte)
BY TakeKeepsQueue DEF AfterSend

(* The forms that the steps of the handshake have. *)

LEMMA TypesOfClosing ==
  ASSUME DialogueInv, TypesInv, NEW terminal \in {"DONE", "CRASHED"}, Closes(terminal)
  PROVE  TypesInv'
<1>1. buffer' = Buffers(EmptyQueue, EmptyQueue)
  BY DEF DialogueInv, BuffersInv, Buffers, Closes
<1>2. Output' \in Queues(Byte)
  BY <1>1, EmptyIsQueue DEF Buffers, Output
<1> QED
  BY <1>2 DEF Closes, Forgets, TypesInv, States

LEMMA TypesOfAnswer ==
  ASSUME TypesInv, NEW i, NEW o \in Queues(Byte), buffer' = Buffers(i, o), Unmoved,
         state' \in States, authentication' \in {0, 1}
  PROVE  TypesInv'
<1>1. Output' \in Queues(Byte)
  BY DEF Buffers, Output
<1> QED
  BY <1>1 DEF TypesInv, Unmoved, clientVars

LEMMA TypesOfContinuing ==
  ASSUME TypesInv, NEW r, Continues(r)
  PROVE  TypesInv'
<1>1. /\ buffer' = Buffers(r.input, Output) /\ Unmoved /\ Output \in Queues(Byte)
      /\ state' \in States /\ authentication' \in {0, 1}
  BY DEF TypesInv, Continues
<1> QED
  BY <1>1, TypesOfAnswer

LEMMA TypesOfReply ==
  ASSUME TypesInv, NEW r, NEW reply \in Seq(Byte), MngReplies(r, reply)
  PROVE  TypesInv'
<1>1. Marshal(reply) \in Queues(Byte) /\ authentication \in {0, 1}
  BY MarshalKeepsQueue DEF TypesInv
<1> QED
  BY <1>1, TypesOfAnswer DEF MngReplies, States

LEMMA TypesOfWriting ==
  ASSUME TypesInv, NEW o \in Queues(Byte), NEW q \in AfterSend(o), Writes(q)
  PROVE  TypesInv'
<1>1. q \in Queues(Byte) /\ state \in States /\ authentication \in {0, 1}
  BY SendKeepsQueue DEF TypesInv
<1> QED
  BY <1>1, TypesOfAnswer DEF Writes

LEMMA TypesOfReading ==
  ASSUME TypesInv, NEW s \in ReadStates, NEW parser, Reads(s, parser)
  PROVE  TypesInv'
<1>1. s \in States /\ authentication \in {0, 1}
  BY DEF States, TypesInv
<1> QED
  BY <1>1, EmptyIsQueue, TypesOfAnswer DEF Reads

(* Each action. *)

LEMMA TypesOfHelloRead ==
  ASSUME DialogueInv, ClientInv, TypesInv, hello_read
  PROVE  TypesInv'
<1>1. state = "HELLO_READ" /\ Reading("hello") /\ taken \in Seq(Byte)
  BY DEF hello_read, ClientInv
<1>2. ASSUME NEW r, Continues(r) PROVE TypesInv'
  BY <1>2, TypesOfContinuing
<1>3. CASE Ends
  BY <1>3, TypesOfClosing DEF Ends
<1>4. ASSUME NEW n \in Recv(AllThereIs), NEW r \in AfterRecv("hello", n),
             state' = "HELLO_WRITE", UNCHANGED authentication, Unmoved,
             buffer' = Buffers(r.input, Marshal(<<r.parser.version, r.parser.chosen>>))
      PROVE  TypesInv'
  <2>1. HelloInv(r.parser, r.taken)
    BY <1>1, RecvIsUnderstood, KindsOfGrammars DEF ParserInv
  <2>2. r.parser.version \in Byte /\ r.parser.chosen \in Byte
    <3>1. NO_ACCEPTABLE_METHODS \in Byte
      BY DEF NO_ACCEPTABLE_METHODS, Byte
    <3> QED
      BY <2>1, <3>1 DEF HelloInv
  <2>3. <<r.parser.version, r.parser.chosen>> \in Seq(Byte)
    BY <2>2
  <2>4. Marshal(<<r.parser.version, r.parser.chosen>>) \in Queues(Byte)
    BY <2>3, MarshalKeepsQueue DEF TypesInv
  <2>5. authentication' \in {0, 1} /\ state' \in States
    BY <1>4 DEF TypesInv, States
  <2> QED
    BY <1>4, <2>4, <2>5, TypesOfAnswer
<1> QED
  BY <1>2, <1>3, <1>4 DEF hello_read

LEMMA TypesOfReadHandler ==
  ASSUME DialogueInv, ClientInv, TypesInv, ReadHandler
  PROVE  TypesInv'
<1>1. ASSUME NEW r, Continues(r) PROVE TypesInv'
  BY <1>1, TypesOfContinuing
<1>2. ASSUME NEW terminal \in {"DONE", "CRASHED"}, Closes(terminal) PROVE TypesInv'
  BY <1>2, TypesOfClosing
<1>3. CASE Ends
  BY <1>2, <1>3 DEF Ends
<1>4. ASSUME NEW r, buffer' = Buffers(r.input, Output), Unmoved,
             state' \in {"USERPASS_WRITE", "REQUEST_CONNECTING", "MNG_REQUEST_READ"},
             authentication' \in {0, 1}
      PROVE  TypesInv'
  <2>1. Output \in Queues(Byte) /\ state' \in States
    BY <1>4 DEF TypesInv, States, ReadStates, Awaits
  <2> QED
    BY <1>4, <2>1, TypesOfAnswer
<1>5. ASSUME NEW r, NEW reply \in {<< 0 >>, << 1 >>, << 2 >>, Value}, MngReplies(r, reply)
      PROVE  TypesInv'
  <2>1. 0 \in Byte /\ 1 \in Byte /\ 2 \in Byte /\ ReplySize \in Nat
    BY DialogueAssumption, QueueSizeAssumption DEF Byte
  <2>2. << 0 >> \in Seq(Byte) /\ << 1 >> \in Seq(Byte) /\ << 2 >> \in Seq(Byte) /\ Value \in Seq(Byte)
    BY <2>1 DEF Value
  <2> QED
    BY <1>5, <2>2, TypesOfReply
<1>6. \A p : Verdict(p) \in {0, 1}
  BY DEF Verdict
<1>7. authentication \in {0, 1}
  BY DEF TypesInv
<1>8. CASE auth_read
  BY <1>1, <1>2, <1>3, <1>4, <1>6, <1>8 DEF auth_read
<1>9. CASE request_read
  BY <1>1, <1>3, <1>4, <1>7, <1>9 DEF request_read
<1>10. CASE mng_request_index_read
  BY <1>4, <1>5, <1>7, <1>10 DEF mng_request_index_read
<1>11. CASE mng_request_read
  BY <1>1, <1>3, <1>5, <1>11 DEF mng_request_read
<1> QED
  BY <1>8, <1>9, <1>10, <1>11, TypesOfHelloRead DEF ReadHandler

LEMMA TypesOfWriteHandler ==
  ASSUME DialogueInv, ClientInv, TypesInv, WriteHandler
  PROVE  TypesInv'
<1>1. CASE Ends
  BY <1>1, TypesOfClosing DEF Ends
<1>2. ASSUME NEW s \in ReadStates, NEW parser, Reads(s, parser) PROVE TypesInv'
  BY <1>2, TypesOfReading
<1>3. {"REQUEST_READ", "USERPASS_READ", "MNG_REQUEST_READ_INDEX"} \subseteq ReadStates
  BY DEF ReadStates, Awaits
<1>4. ASSUME NEW q \in AfterSend(Output), Writes(q) PROVE TypesInv'
  BY <1>4, TypesOfWriting DEF TypesInv
<1>5. CASE hello_write
  BY <1>1, <1>2, <1>3, <1>4, <1>5 DEF hello_write
<1>6. CASE auth_write
  <2>1. Marshal(<<1, authentication>>) \in Queues(Byte)
    <3>1. 1 \in Byte /\ authentication \in Byte /\ Output \in Queues(Byte)
      BY DEF TypesInv, Byte
    <3>2. <<1, authentication>> \in Seq(Byte)
      BY <3>1
    <3> QED
      BY <3>1, <3>2, MarshalKeepsQueue
  <2>2. ASSUME NEW q \in AfterSend(Marshal(<<1, authentication>>)), Writes(q) PROVE TypesInv'
    BY <2>1, <2>2, TypesOfWriting
  <2> QED
    BY <1>1, <1>2, <1>3, <1>6, <2>2 DEF auth_write
<1>7. CASE request_write
  <2>1. ASSUME NEW q \in AfterSend(Output), state' = "COPY", buffer' = Buffers(Input, q),
               copy_init, Forgets, UNCHANGED sent
        PROVE  TypesInv'
    <3>1. q \in Queues(Byte)
      BY SendKeepsQueue DEF TypesInv
    <3>2. Output' \in Queues(Byte)
      BY <2>1, <3>1 DEF Buffers, Output
    <3>3. interest' \in [Sides -> Masks]
      BY <2>1, InterestsAreMasks DEF copy_init
    <3> QED
      BY <2>1, <3>2, <3>3 DEF TypesInv, Forgets, States
  <2> QED
    BY <1>1, <1>4, <1>7, <2>1 DEF request_write
<1>8. CASE mng_request_write
  BY <1>1, <1>4, <1>8 DEF mng_request_write
<1> QED
  BY <1>5, <1>6, <1>7, <1>8 DEF WriteHandler

LEMMA TypesOfConnecting ==
  ASSUME DialogueInv, TypesInv, connecting
  PROVE  TypesInv'
<1>1. PICK status \in {0, 1} : buffer' = Buffers(Input, Marshal(request_marshall(status)))
  BY DEF connecting
<1>2. request_marshall(status) \in Seq(Byte)
  <2> DEFINE rest == [i \in 1..(ReplySize - 2) |-> 0]
  <2>1. ReplySize - 2 \in Nat
    BY DialogueAssumption, QueueSizeAssumption
  <2>2. rest \in Seq(Byte) /\ <<5, status>> \in Seq(Byte)
    BY <2>1 DEF Byte
  <2> HIDE DEF rest
  <2>3. <<5, status>> \o rest \in Seq(Byte)
    BY <2>2, ConcatProperties
  <2> QED
    BY <2>3 DEF request_marshall, rest
<1>3. Marshal(request_marshall(status)) \in Queues(Byte)
  BY <1>2, MarshalKeepsQueue DEF TypesInv
<1>4. state' \in States /\ authentication' \in {0, 1} /\ Unmoved
  BY DEF connecting, States, TypesInv
<1> QED
  BY <1>1, <1>3, <1>4, TypesOfAnswer

LEMMA TypesOfRelay ==
  ASSUME DialogueInv, TypesInv, NEW s \in Sides, CopyReads(s) \/ CopyWrites(s)
  PROVE  TypesInv'
<1>1. DialogueInv'
  BY CopyRead, CopyWrite
<1>2. Relaying /\ Recompute(s) /\ UNCHANGED handshakeVars
  BY ReadyIsOpen DEF CopyReads, CopyWrites, copy_read, copy_write
<1>3. state' \in States /\ authentication' \in {0, 1} /\ ahead' \in BOOLEAN
  BY <1>2 DEF Recompute, Relaying, States, handshakeVars, clientVars, TypesInv
<1>4. interest' \in [Sides -> Masks]
  BY <1>1, <1>2, InterestsAreMasks DEF DialogueInv, MasksInv, Recompute
<1>5. buffer \in [ReadBuffers -> Queues(Byte)] /\ "write_buffer" \in ReadBuffers
  BY <1>2, RelayBuffers DEF ReadBuffers
<1>6. rb(s) \in ReadBuffers /\ wb(s) \in ReadBuffers
  BY TwoSides DEF rb, wb, ReadBuffers
<1>7. 0 \in 0..BufferSize
  BY QueueSizeAssumption
<1>8. CASE UNCHANGED buffer /\ sent' = 0
  BY <1>3, <1>4, <1>7, <1>8 DEF TypesInv, Output
<1>9. ASSUME NEW b \in ReadBuffers, NEW q \in Queues(Byte), buffer' = [buffer EXCEPT ![b] = q],
             sent' \in 0..BufferSize
      PROVE  TypesInv'
  <2>1. buffer' \in [ReadBuffers -> Queues(Byte)]
    BY <1>5, <1>9
  <2>2. Output' \in Queues(Byte)
    BY <1>5, <2>1 DEF Output
  <2> QED
    BY <1>3, <1>4, <1>9, <2>2 DEF TypesInv
<1>10. ASSUME NEW n \in 1..Room(buffer[rb(s)]), NEW bytes \in [1..n -> BytesOf(s)],
              buffer' = [buffer EXCEPT ![rb(s)] = Put(@, bytes)], sent' = 0
       PROVE  TypesInv'
  <2> DEFINE q == buffer[rb(s)]
  <2>1. q \in Queues(Byte)
    BY <1>5, <1>6
  <2>2. n \in Nat /\ n <= Room(q)
    BY <1>10, <2>1, QueueFields
  <2>3. bytes \in Seq(Byte) /\ Len(bytes) = n
    <3>1. bytes \in [1..n -> Byte]
      BY <1>10, DialogueAssumption DEF BytesOf
    <3> QED
      BY <2>2, <3>1
  <2>4. buffer' = [buffer EXCEPT ![rb(s)] = Put(q, bytes)]
    BY <1>10
  <2> HIDE DEF q
  <2>5. Put(q, bytes) \in Queues(Byte)
    BY <2>1, <2>2, <2>3, PutKeepsQueue
  <2> QED
    BY <1>6, <1>7, <1>9, <1>10, <2>4, <2>5
<1>11. ASSUME NEW n \in 1..Len(buffer[wb(s)].bytes),
              buffer' = [buffer EXCEPT ![wb(s)] = Take(@, n)], sent' = n
       PROVE  TypesInv'
  <2> DEFINE q == buffer[wb(s)]
  <2>1. q \in Queues(Byte) /\ n \in 1..Len(q.bytes)
    BY <1>5, <1>6, <1>11
  <2>2. buffer' = [buffer EXCEPT ![wb(s)] = Take(q, n)]
    BY <1>11
  <2> HIDE DEF q
  <2>3. Take(q, n) \in Queues(Byte)
    BY <2>1, TakeKeepsQueue
  <2>4. n \in 0..BufferSize
    BY <2>1, QueueFields
  <2> QED
    BY <1>6, <1>9, <1>11, <2>2, <2>3, <2>4
<1>12. CASE CopyReads(s)
  BY <1>8, <1>10, <1>12 DEF CopyReads, copy_read
<1>13. CASE CopyWrites(s)
  BY <1>8, <1>11, <1>13 DEF CopyWrites, copy_write
<1> QED
  BY <1>12, <1>13

LEMMA StepOnTypes ==
  ASSUME DialogueInv, ClientInv, TypesInv, [Next]_vars
  PROVE  TypesInv'
<1>1. CASE ClientBegins \/ ClientSends \/ UNCHANGED vars
  <2>1. ahead' \in BOOLEAN
    BY <1>1 DEF ClientBegins, ClientSends, vars, clientVars, TypesInv
  <2> QED
    BY <1>1, <2>1 DEF ClientBegins, ClientSends, vars, relayVars, TypesInv, Output
<1>2. CASE Fails
  BY <1>2, TypesOfClosing DEF Fails, Ends
<1> QED
  BY <1>1, <1>2, TypesOfReadHandler, TypesOfWriteHandler, TypesOfConnecting, TypesOfRelay DEF Next

LEMMA InitTypes == Init => TypesInv
<1> SUFFICES ASSUME Init PROVE TypesInv
  OBVIOUS
<1>1. Output = EmptyQueue /\ state \in States /\ interest = [s \in Sides |-> {}]
  BY DEF Init, Output, States, ReadStates, Awaits
<1>2. interest \in [Sides -> Masks] /\ 0 \in 0..BufferSize
  BY <1>1, QueueSizeAssumption DEF Masks
<1> QED
  BY <1>1, <1>2, EmptyIsQueue DEF Init, TypesInv

(* The handlers of the handshake and of the relay keep every variable in its
   range, for any messages, methods, accounts and sizes: what is in the two
   buffers is always a queue of bytes that fits them, whatever replies were
   marshalled, and no status but 0 and 1 is ever answered. *)
THEOREM DialogueTypes == Spec => []TypeOK
<1>1. ClientIsUnderstood /\ TypesInv /\ [Next]_vars => TypesInv'
  BY StepOnTypes DEF ClientIsUnderstood
<1>2. ClientIsUnderstood /\ DissectorIsSound /\ TypesInv => TypeOK
  <2> SUFFICES ASSUME DialogueInv, ClientInv, DissectorInv(dissector), TypesInv PROVE TypeOK
    BY DEF ClientIsUnderstood, DissectorIsSound
  <2>1. buffer \in [ReadBuffers -> Queues(Byte)]
    BY DEF DialogueInv, BuffersInv, Buffers, TypesInv, ReadBuffers
  <2>2. mask \in [Sides -> Masks]
    BY MasksAreSubsets DEF DialogueInv, MasksInv
  <2> QED
    BY <2>1, <2>2 DEF DialogueInv, BytesInv, ClientInv, DissectorInv, TypesInv, TypeOK
<1> QED
  BY <1>1, <1>2, InitTypes, Understood, DissectorIsWatched, PTL DEF Spec
-----------------------------------------------------------------------------
(* A client that waits its turn. *)

\* Nothing has come of message t, or it is in these three pieces.
Coming(t) ==
  \/ turn < t /\ taken = << >> /\ socket = << >> /\ unsent = << >>
  \/ turn = t /\ taken \o (socket \o unsent) \in Messages[protocol][Turns[t]]

PatientInv ==
  ~ahead =>
    /\ state \in ReadStates \cup {"HELLO_WRITE", "USERPASS_WRITE"} => Input.bytes = << >>
    /\ state = "HELLO_READ" => Coming(1)
    /\ state = "HELLO_WRITE" => turn <= 1 /\ socket = << >> /\ unsent = << >>
    /\ state = "USERPASS_READ" => Coming(2)

LEMMA StatesOfTurns ==
  /\ ReadStates = {"HELLO_READ", "USERPASS_READ", "REQUEST_READ", "MNG_REQUEST_READ_INDEX",
                   "MNG_REQUEST_READ"}
  /\ Awaits["HELLO_READ"] = 1 /\ Awaits["USERPASS_READ"] = 2
  /\ Turns[1] = "hello" /\ Turns[2] = "credentials" /\ Len(Turns) = 4
BY DEF ReadStates, Awaits, Turns

LEMMA JoinTwo ==
  ASSUME NEW s \in Seq(Byte), NEW t \in Seq(Byte)
  PROVE  /\ s \o t \in Seq(Byte) /\ Len(s \o t) = Len(s) + Len(t)
         /\ \A i \in 1..(Len(s) + Len(t)) : (s \o t)[i] = IF i <= Len(s) THEN s[i] ELSE t[i - Len(s)]
BY ConcatProperties

LEMMA JoinThree ==
  ASSUME NEW s \in Seq(Byte), NEW t \in Seq(Byte), NEW u \in Seq(Byte)
  PROVE  (s \o t) \o u = s \o (t \o u)
BY ConcatAssociative

\* m is made of what was taken, what is in read_buffer, what has arrived, and the rest.
Pieces(m, t, x, s, u) == m = t \o (x \o (s \o u))

\* A prefix of a message that is as long as the message leaves nothing of it.
LEMMA NothingAfterEnd ==
  ASSUME NEW t \in Seq(Byte), NEW x \in Seq(Byte), NEW s \in Seq(Byte), NEW u \in Seq(Byte),
         NEW m, Pieces(m, t, x, s, u)
  PROVE  /\ Len(t) \in 0..Len(m) /\ SubSeq(m, 1, Len(t)) = t
         /\ Len(t) = Len(m) => x = << >> /\ s = << >> /\ u = << >>
<1>1. s \o u \in Seq(Byte) /\ Len(s \o u) = Len(s) + Len(u)
  BY JoinTwo
<1>2. x \o (s \o u) \in Seq(Byte) /\ Len(x \o (s \o u)) = Len(x) + (Len(s) + Len(u))
  BY <1>1, JoinTwo
<1>3. /\ m \in Seq(Byte) /\ Len(m) = Len(t) + (Len(x) + (Len(s) + Len(u)))
      /\ \A i \in 1..Len(t) : m[i] = t[i]
  <2> DEFINE y == x \o (s \o u)
  <2>1. y \in Seq(Byte) /\ Len(y) = Len(x) + (Len(s) + Len(u)) /\ m = t \o y
    BY <1>2 DEF Pieces
  <2> HIDE DEF y
  <2>2. /\ t \o y \in Seq(Byte) /\ Len(t \o y) = Len(t) + Len(y)
        /\ \A i \in 1..(Len(t) + Len(y)) : (t \o y)[i] = IF i <= Len(t) THEN t[i] ELSE y[i - Len(t)]
    BY <2>1, JoinTwo
  <2>3. ASSUME NEW i \in 1..Len(t) PROVE m[i] = t[i]
    <3>1. i \in 1..(Len(t) + Len(y)) /\ i <= Len(t)
      BY <2>1
    <3> QED
      BY <2>1, <2>2, <3>1
  <2> QED
    BY <2>1, <2>2, <2>3
<1>4. Len(t) \in Nat /\ Len(x) \in Nat /\ Len(s) \in Nat /\ Len(u) \in Nat
  OBVIOUS
<1>5. Len(t) \in 0..Len(m)
  BY <1>3, <1>4
<1>6. SubSeq(m, 1, Len(t)) = t
  <2> DEFINE y == SubSeq(m, 1, Len(t))
  <2>1. 1 \in 1..(Len(m) + 1) /\ Len(t) \in (1 - 1)..Len(m)
    BY <1>5
  <2>2. y \in Seq(Byte) /\ Len(y) = Len(t) - 1 + 1 /\ \A i \in 1..(Len(t) - 1 + 1) : y[i] = m[1 + i - 1]
    BY <1>3, <2>1, PartOf
  <2> HIDE DEF y
  <2>3. Len(y) = Len(t)
    BY <1>4, <2>2
  <2>4. ASSUME NEW i \in 1..Len(y) PROVE y[i] = t[i]
    <3>1. i \in 1..(Len(t) - 1 + 1) /\ 1 + i - 1 = i /\ i \in 1..Len(t)
      BY <1>4, <2>3
    <3> QED
      BY <1>3, <2>2, <3>1
  <2>5. y = t
    BY <2>2, <2>3, <2>4, SeqEqual
  <2> QED
    BY <2>5 DEF y
<1>7. Len(t) = Len(m) => Len(x) = 0 /\ Len(s) = 0 /\ Len(u) = 0
  BY <1>3, <1>4
<1> QED
  BY <1>5, <1>6, <1>7, EmptySeq

\* A recv moves bytes from one piece to the next, and loses none.
LEMMA RecvMovesBytes ==
  ASSUME DialogueInv, taken \in Seq(Byte), Input.bytes = << >>,
         NEW kind, NEW most, NEW n \in Recv(most), NEW r \in AfterRecv(kind, n)
  PROVE  /\ r.taken \in Seq(Byte) /\ r.input.bytes \in Seq(Byte) /\ r.socket \in Seq(Byte)
         /\ Pieces(taken \o (socket \o unsent), r.taken, r.input.bytes, r.socket, unsent)
         /\ Done(kind, r.parser) \/ r.input.bytes = << >>
         /\ most = 1 => r.input.bytes = << >>
         /\ socket # << >>
<1> DEFINE a == SubSeq(socket, 1, n)
           full == Put(Input, a)
           b == SubSeq(socket, n + 1, Len(socket))
<1>1. socket \in Seq(Byte) /\ unsent \in Seq(Byte) /\ Input \in Queues(Byte)
  BY DEF DialogueInv, BytesInv, BuffersInv
<1>2. n \in 1..Len(socket) /\ n <= Room(Input) /\ n <= most
  BY <1>1 DEF Recv
<1>3. n \in 0..Len(socket) /\ socket # << >>
  BY <1>1, <1>2
<1>4. a \in Seq(Byte) /\ Len(a) = n
  BY <1>1, <1>3, PrefixIsSeq
<1>5. b \in Seq(Byte)
  BY <1>1, <1>3, SuffixIsSeq
<1>6. a \o b = socket
  <2>1. 1 \in 1..(Len(socket) + 1) /\ n \in (1 - 1)..Len(socket) /\ Len(socket) \in n..Len(socket)
    BY <1>1, <1>3
  <2>2. a \o b = SubSeq(socket, 1, Len(socket))
    BY <1>1, <2>1, ConcatAdjacentSubSeq
  <2> QED
    BY <1>1, <2>2, SubSeqFull
<1> HIDE DEF a, b
<1>7. full \in Queues(Byte) /\ full.bytes = a
  <2>1. full \in Queues(Byte) /\ full.bytes = << >> \o a
    BY <1>1, <1>2, <1>4, PutKeepsQueue
  <2> QED
    BY <1>4, <2>1, ConcatEmptySeq
<1>8. PICK run \in Consume(kind, client, full.bytes) :
        r = [parser |-> run.parser, taken |-> taken \o SubSeq(full.bytes, 1, run.count),
             input |-> Take(full, run.count), socket |-> b]
  BY Zenon DEF AfterRecv, a, b
<1> DEFINE k == run.count
           c == SubSeq(a, 1, k)
           d == SubSeq(a, k + 1, Len(a))
<1> HIDE DEF full
<1>9. k \in 1..Len(a) /\ (Done(kind, run.parser) \/ k = Len(a))
  <2> DEFINE after == CHOOSE f : f = [i \in 0..Len(full.bytes) |->
                                       IF i = 0 THEN client ELSE Feed(kind, f[i - 1], full.bytes[i])]
  <2>1. PICK j \in Stops(kind, after, Len(full.bytes)) : run = [parser |-> after[j], count |-> j]
    BY Zenon DEF Consume
  <2> HIDE DEF after
  <2> QED
    BY <1>7, <2>1 DEF Stops
<1>10. /\ r.parser = run.parser /\ r.taken = taken \o c /\ r.socket = b
       /\ r.input.bytes = d
  <2>1. Take(full, k).bytes = SubSeq(full.bytes, k + 1, Len(full.bytes))
    BY <1>7, <1>9, TakeKeepsQueue
  <2> QED
    BY <1>7, <1>8, <2>1
<1> HIDE DEF k
<1>11. k \in 0..Len(a) /\ Len(a) \in Nat
  BY <1>4, <1>9
<1>12. c \in Seq(Byte) /\ d \in Seq(Byte) /\ Len(d) = Len(a) - k
  BY <1>4, <1>11, PrefixIsSeq, SuffixIsSeq
<1>13. c \o d = a
  <2>1. 1 \in 1..(Len(a) + 1) /\ k \in (1 - 1)..Len(a) /\ Len(a) \in k..Len(a)
    BY <1>11
  <2>2. c \o d = SubSeq(a, 1, Len(a))
    BY <1>4, <2>1, ConcatAdjacentSubSeq
  <2> QED
    BY <1>4, <2>2, SubSeqFull
<1>14. k = Len(a) => d = << >>
  BY <1>11, <1>12, EmptySeq
<1>15. most = 1 => k = Len(a)
  BY <1>2, <1>4, <1>9
<1> HIDE DEF c, d
<1>16. taken \o c \in Seq(Byte)
  BY <1>12, JoinTwo
<1>17. (taken \o c) \o (d \o (b \o unsent)) = taken \o (socket \o unsent)
  <2>1. b \o unsent \in Seq(Byte)
    BY <1>1, <1>5, JoinTwo
  <2>2. d \o (b \o unsent) \in Seq(Byte)
    BY <1>12, <2>1, JoinTwo
  <2>3. (taken \o c) \o (d \o (b \o unsent)) = taken \o (c \o (d \o (b \o unsent)))
    BY <1>12, <2>2, JoinThree
  <2>4. c \o (d \o (b \o unsent)) = (c \o d) \o (b \o unsent)
    BY <1>12, <2>1, JoinThree
  <2>5. a \o (b \o unsent) = (a \o b) \o unsent
    BY <1>1, <1>4, <1>5, JoinThree
  <2> QED
    BY <1>6, <1>13, <2>3, <2>4, <2>5
<1> QED
  BY <1>3, <1>5, <1>9, <1>10, <1>12, <1>14, <1>15, <1>16, <1>17 DEF Pieces

LEMMA EmptyInput ==
  ASSUME NEW i, NEW o, buffer' = Buffers(i, o)
  PROVE  Input' = i
BY DEF Buffers, Input

(* The steps. *)

LEMMA PatientClosing ==
  ASSUME NEW terminal, Closes(terminal)
  PROVE  PatientInv'
BY DEF Closes, Forgets, PatientInv

\* What does not receive leaves what was left of a message.
LEMMA PatientWriting ==
  ASSUME PatientInv, NEW q, Writes(q)
  PROVE  PatientInv'
<1>1. /\ Input' = Input /\ state' = state /\ taken' = taken /\ socket' = socket
      /\ turn' = turn /\ unsent' = unsent /\ ahead' = ahead /\ protocol' = protocol
  BY EmptyInput DEF Writes, Unmoved, clientVars
<1> QED
  BY <1>1 DEF PatientInv, Coming

LEMMA PatientReading ==
  ASSUME DialogueInv, PatientInv, NEW s, NEW parser, Reads(s, parser),
         \/ s = "USERPASS_READ" /\ state = "HELLO_WRITE"
         \/ s \in {"REQUEST_READ", "MNG_REQUEST_READ_INDEX"} /\ state \in {"HELLO_WRITE", "USERPASS_WRITE"}
  PROVE  PatientInv'
<1>1. /\ Input' = Input /\ state' = s /\ taken' = << >> /\ socket' = socket
      /\ turn' = turn /\ unsent' = unsent /\ ahead' = ahead
  BY EmptyInput DEF Reads, Unmoved, clientVars
<1>2. turn \in Int
  BY DEF DialogueInv, BytesInv
<1> QED
  BY <1>1, <1>2 DEF PatientInv, Coming

\* A message that is not complete is all in the hands of the parser.
LEMMA PatientContinuing ==
  ASSUME DialogueInv, ClientInv, PatientInv, state \in ReadStates,
         NEW kind, NEW most, NEW n \in Recv(most), NEW r \in AfterRecv(kind, n),
         ~Done(kind, r.parser), Continues(r)
  PROVE  PatientInv'
<1> SUFFICES ASSUME ~ahead' PROVE PatientInv'
  BY DEF PatientInv
<1>1. /\ Input' = r.input /\ state' = state /\ taken' = r.taken /\ socket' = r.socket
      /\ turn' = turn /\ unsent' = unsent /\ ahead' = ahead /\ protocol' = protocol
  BY EmptyInput DEF Continues, Received, Unmoved, clientVars
<1>2. Input.bytes = << >> /\ taken \in Seq(Byte)
  BY <1>1 DEF PatientInv, ClientInv
<1>3. /\ r.socket \in Seq(Byte) /\ socket # << >> /\ r.input.bytes = << >>
      /\ r.taken \o (r.input.bytes \o (r.socket \o unsent)) = taken \o (socket \o unsent)
  BY <1>2, RecvMovesBytes DEF Pieces
<1>4. r.taken \o (r.socket \o unsent) = taken \o (socket \o unsent)
  <2>1. unsent \in Seq(Byte)
    BY DEF DialogueInv, BytesInv
  <2>2. r.socket \o unsent \in Seq(Byte)
    BY <1>3, <2>1, JoinTwo
  <2>3. << >> \o (r.socket \o unsent) = r.socket \o unsent
    BY <2>2, ConcatEmptySeq
  <2> QED
    BY <1>3, <2>3
<1>5. ASSUME NEW t, Coming(t) PROVE Coming(t)'
  BY <1>1, <1>3, <1>4, <1>5 DEF Coming
<1> QED
  BY <1>1, <1>3, <1>5, StatesOfTurns DEF PatientInv

LEMMA PatientHelloRead ==
  ASSUME MessagesEnd, DialogueInv, ClientInv, PatientInv, hello_read
  PROVE  PatientInv'
<1>1. state = "HELLO_READ" /\ Reading("hello") /\ taken \in Seq(Byte) /\ state \in ReadStates
  BY StatesOfTurns DEF hello_read, ClientInv
<1>2. ASSUME NEW n \in Recv(AllThereIs), NEW r \in AfterRecv("hello", n),
             ~hello_is_done(r.parser), Continues(r)
      PROVE  PatientInv'
  BY <1>1, <1>2, PatientContinuing, DoneByKind
<1>3. CASE Ends
  BY <1>3, PatientClosing DEF Ends
<1>4. ASSUME NEW n \in Recv(AllThereIs), NEW r \in AfterRecv("hello", n),
             r.parser.state = "hello_done", state' = "HELLO_WRITE", Received(r), Unmoved,
             NEW o, buffer' = Buffers(r.input, o)
      PROVE  PatientInv'
  <2> SUFFICES ASSUME ~ahead' PROVE PatientInv'
    BY DEF PatientInv
  <2>1. /\ Input' = r.input /\ socket' = r.socket /\ turn' = turn /\ unsent' = unsent /\ ahead' = ahead
    BY <1>4, EmptyInput DEF Received, Unmoved, clientVars
  <2>2. Input.bytes = << >> /\ Coming(1)
    BY <1>1, <2>1 DEF PatientInv
  <2> DEFINE m == taken \o (socket \o unsent)
  <2>3. /\ r.taken \in Seq(Byte) /\ r.input.bytes \in Seq(Byte) /\ r.socket \in Seq(Byte)
        /\ Pieces(m, r.taken, r.input.bytes, r.socket, unsent) /\ socket # << >>
    BY <1>1, <2>2, RecvMovesBytes
  <2>4. unsent \in Seq(Byte) /\ protocol \in DOMAIN Messages
    BY DEF DialogueInv, BytesInv
  <2>5. turn = 1 /\ m \in Messages[protocol].hello
    BY <2>2, <2>3, StatesOfTurns DEF Coming
  <2> HIDE DEF m
  <2>6. HelloInv(r.parser, r.taken)
    BY <1>1, RecvIsUnderstood, KindsOfGrammars DEF ParserInv
  <2>7. r.parser.version \in Byte /\ G!IsHello(r.parser.version, r.taken)
    BY <1>4, <2>6 DEF HelloInv
  <2>8. Len(r.taken) \in 0..Len(m) /\ SubSeq(m, 1, Len(r.taken)) = r.taken
    BY <2>3, <2>4, NothingAfterEnd
  <2>9. Len(r.taken) = Len(m)
    BY <2>4, <2>5, <2>7, <2>8 DEF MessagesEnd
  <2>10. r.input.bytes = << >> /\ r.socket = << >> /\ unsent = << >>
    BY <2>3, <2>4, <2>9, NothingAfterEnd
  <2> QED
    BY <1>4, <2>1, <2>5, <2>10 DEF PatientInv
<1> QED
  BY <1>2, <1>3, <1>4 DEF hello_read

LEMMA PatientAuthRead ==
  ASSUME MessagesEnd, DialogueInv, ClientInv, PatientInv, auth_read
  PROVE  PatientInv'
<1>1. state = "USERPASS_READ" /\ Reading("credentials") /\ taken \in Seq(Byte) /\ state \in ReadStates
  BY StatesOfTurns DEF auth_read, ClientInv
<1>2. ASSUME NEW n \in Recv(AllThereIs), NEW r \in AfterRecv("fields", n),
             ~is_done(r.parser), Continues(r)
      PROVE  PatientInv'
  BY <1>1, <1>2, PatientContinuing, DoneByKind
<1>3. ASSUME NEW terminal, Closes(terminal) PROVE PatientInv'
  BY <1>3, PatientClosing
<1>4. ASSUME NEW n \in Recv(AllThereIs), NEW r \in AfterRecv("fields", n),
             r.parser.current = "done_read", state' = "USERPASS_WRITE", Received(r), Unmoved,
             buffer' = Buffers(r.input, Output)
      PROVE  PatientInv'
  <2> SUFFICES ASSUME ~ahead' PROVE PatientInv'
    BY DEF PatientInv
  <2>1. Input' = r.input /\ ahead' = ahead
    BY <1>4, EmptyInput DEF Unmoved, clientVars
  <2>2. Input.bytes = << >> /\ Coming(2)
    BY <1>1, <2>1 DEF PatientInv
  <2> DEFINE m == taken \o (socket \o unsent)
  <2>3. /\ r.taken \in Seq(Byte) /\ r.input.bytes \in Seq(Byte) /\ r.socket \in Seq(Byte)
        /\ Pieces(m, r.taken, r.input.bytes, r.socket, unsent) /\ socket # << >>
    BY <1>1, <2>2, RecvMovesBytes
  <2>4. unsent \in Seq(Byte) /\ protocol \in DOMAIN Messages
    BY DEF DialogueInv, BytesInv
  <2>5. m \in Messages[protocol].credentials
    BY <2>2, <2>3, StatesOfTurns DEF Coming
  <2> HIDE DEF m
  <2>6. CredentialsInv(r.parser, r.taken)
    BY <1>1, RecvIsUnderstood, KindsOfGrammars DEF ParserInv
  <2>7. G!IsCredentials(r.taken)
    <3>1. Len(r.taken) >= 1 /\ r.taken[1] = 1 /\ StringsInv(r.parser, 1, 4, Tail(r.taken))
      BY <1>4, <2>6 DEF CredentialsInv
    <3>2. G!IsNameAndPassword(Tail(r.taken))
      BY <1>4, <3>1 DEF StringsInv
    <3> QED
      BY <3>1, <3>2 DEF G!IsCredentials
  <2>8. Len(r.taken) \in 0..Len(m) /\ SubSeq(m, 1, Len(r.taken)) = r.taken
    BY <2>3, <2>4, NothingAfterEnd
  <2>9. Len(r.taken) = Len(m)
    BY <2>4, <2>5, <2>7, <2>8 DEF MessagesEnd
  <2>10. r.input.bytes = << >>
    BY <2>3, <2>4, <2>9, NothingAfterEnd
  <2> QED
    BY <1>4, <2>1, <2>10 DEF PatientInv
<1> QED
  BY <1>2, <1>3, <1>4 DEF auth_read, Ends

\* A state whose arrival asks nothing of what was left.
LEMMA PatientLeaving ==
  ASSUME state' \in {"REQUEST_CONNECTING", "REQUEST_WRITE", "MNG_REQUEST_WRITE", "COPY", "DONE"}
  PROVE  PatientInv'
BY StatesOfTurns DEF PatientInv

LEMMA PatientRequests ==
  ASSUME DialogueInv, ClientInv, PatientInv,
         request_read \/ mng_request_index_read \/ mng_request_read
  PROVE  PatientInv'
<1>1. taken \in Seq(Byte)
  BY DEF ClientInv
<1>2. CASE Ends
  BY <1>2, PatientClosing DEF Ends
<1>3. \A r, reply : MngReplies(r, reply) => PatientInv'
  BY PatientLeaving DEF MngReplies
<1>4. CASE request_read
  <2>1. state \in ReadStates
    BY <1>4, StatesOfTurns DEF request_read
  <2>2. ASSUME NEW n \in Recv(AllThereIs), NEW r \in AfterRecv("request", n),
               ~request_is_done(r.parser), Continues(r)
        PROVE  PatientInv'
    BY <2>1, <2>2, PatientContinuing, DoneByKind
  <2> QED
    BY <1>2, <1>4, <2>2, PatientLeaving DEF request_read
<1>5. CASE mng_request_read
  <2>1. state \in ReadStates
    BY <1>5, StatesOfTurns DEF mng_request_read
  <2>2. ASSUME NEW n \in Recv(AllThereIs), NEW r \in AfterRecv("fields", n),
               ~is_done(r.parser), Continues(r)
        PROVE  PatientInv'
    BY <2>1, <2>2, PatientContinuing, DoneByKind
  <2> QED
    BY <1>2, <1>3, <1>5, <2>2 DEF mng_request_read
<1>6. CASE mng_request_index_read
  <2>1. state = "MNG_REQUEST_READ_INDEX" /\ state \in ReadStates
    BY <1>6, StatesOfTurns DEF mng_request_index_read
  <2>2. ASSUME NEW n \in Recv(1), NEW r \in AfterRecv("fields", n),
               state' = "MNG_REQUEST_READ", buffer' = Buffers(r.input, Output), Unmoved
        PROVE  PatientInv'
    <3> SUFFICES ASSUME ~ahead' PROVE PatientInv'
      BY DEF PatientInv
    <3>1. Input' = r.input /\ ahead' = ahead
      BY <2>2, EmptyInput DEF Unmoved, clientVars
    <3>2. Input.bytes = << >>
      BY <2>1, <3>1 DEF PatientInv
    <3>3. r.input.bytes = << >>
      BY <1>1, <3>2, RecvMovesBytes
    <3> QED
      BY <2>2, <3>1, <3>3 DEF PatientInv
  <2> QED
    BY <1>3, <1>6, <2>2 DEF mng_request_index_read
<1> QED
  BY <1>4, <1>5, <1>6

LEMMA PatientWriteHandlers ==
  ASSUME DialogueInv, PatientInv, WriteHandler
  PROVE  PatientInv'
<1>1. CASE Ends
  BY <1>1, PatientClosing DEF Ends
<1>2. CASE \E q : Writes(q)
  BY <1>2, PatientWriting
<1>3. CASE hello_write
  BY <1>1, <1>2, <1>3, PatientReading DEF hello_write
<1>4. CASE auth_write
  BY <1>1, <1>2, <1>4, PatientReading DEF auth_write
<1>5. CASE request_write
  BY <1>1, <1>2, <1>5, PatientLeaving DEF request_write
<1>6. CASE mng_request_write
  BY <1>1, <1>2, <1>6 DEF mng_request_write
<1> QED
  BY <1>3, <1>4, <1>5, <1>6 DEF WriteHandler

LEMMA PatientBegins ==
  ASSUME DialogueInv, PatientInv, ClientBegins
  PROVE  PatientInv'
<1> SUFFICES ASSUME ~ahead' PROVE PatientInv'
  BY DEF PatientInv
<1>1. PICK t \in (turn + 1)..Len(Turns) :
        /\ unsent' \in Messages[protocol][Turns[t]] /\ turn' = t
        /\ ahead' = (ahead \/ state \notin ReadStates \/ Awaits[state] # t)
  BY DEF ClientBegins
<1>2. ~ahead /\ state \in ReadStates /\ Awaits[state] = t
  BY <1>1
<1>3. /\ Input' = Input /\ state' = state /\ taken' = taken /\ socket' = socket
      /\ protocol' = protocol /\ turn \in Int /\ turn # t /\ unsent' \in Seq(Byte)
  <2>1. turn \in 0..4 /\ Len(Turns) = 4 /\ t \in 1..Len(Turns) /\ turn # t
    BY <1>1, StatesOfTurns DEF DialogueInv, BytesInv
  <2>2. unsent' \in Seq(Byte)
    BY <1>1, <2>1, DialogueAssumption DEF DialogueInv, BytesInv
  <2> QED
    BY <2>1, <2>2 DEF ClientBegins, relayVars, Input
<1>4. ASSUME Coming(t) PROVE Coming(t)'
  <2>1. taken = << >> /\ socket = << >>
    BY <1>3, <1>4 DEF Coming
  <2>2. << >> \o (<< >> \o unsent') = unsent'
    BY <1>3, ConcatEmptySeq
  <2> QED
    BY <1>1, <1>3, <2>1, <2>2 DEF Coming
<1>5. state = "HELLO_READ" => Coming(1)'
  BY <1>2, <1>4, StatesOfTurns DEF PatientInv
<1>6. state = "USERPASS_READ" => Coming(2)'
  BY <1>2, <1>4, StatesOfTurns DEF PatientInv
<1> QED
  BY <1>2, <1>3, <1>5, <1>6, StatesOfTurns DEF PatientInv

LEMMA PatientSends ==
  ASSUME DialogueInv, ClientInv, PatientInv, ClientSends
  PROVE  PatientInv'
<1> SUFFICES ASSUME ~ahead' PROVE PatientInv'
  BY DEF PatientInv
<1>1. PICK n \in 1..Len(unsent) :
        /\ socket' = socket \o SubSeq(unsent, 1, n)
        /\ unsent' = SubSeq(unsent, n + 1, Len(unsent))
  BY DEF ClientSends
<1>2. /\ Input' = Input /\ state' = state /\ taken' = taken /\ ahead' = ahead /\ turn' = turn
      /\ protocol' = protocol
  BY DEF ClientSends, relayVars, Input
<1>3. socket \in Seq(Byte) /\ unsent \in Seq(Byte) /\ n \in 0..Len(unsent) /\ unsent # << >>
  BY <1>1 DEF DialogueInv, BytesInv
<1>4. socket' \o unsent' = socket \o unsent
  <2> DEFINE a == SubSeq(unsent, 1, n)
             b == SubSeq(unsent, n + 1, Len(unsent))
  <2>1. a \in Seq(Byte) /\ b \in Seq(Byte)
    BY <1>3, PrefixIsSeq, SuffixIsSeq
  <2>2. a \o b = unsent
    <3>1. 1 \in 1..(Len(unsent) + 1) /\ n \in (1 - 1)..Len(unsent) /\ Len(unsent) \in n..Len(unsent)
      BY <1>3
    <3>2. a \o b = SubSeq(unsent, 1, Len(unsent))
      BY <1>3, <3>1, ConcatAdjacentSubSeq
    <3> QED
      BY <1>3, <3>2, SubSeqFull
  <2>3. socket' = socket \o a /\ unsent' = b
    BY <1>1
  <2> HIDE DEF a, b
  <2>4. (socket \o a) \o b = socket \o (a \o b)
    BY <1>3, <2>1, JoinThree
  <2> QED
    BY <2>2, <2>3, <2>4
<1>5. ASSUME NEW t, Coming(t) PROVE Coming(t)'
  BY <1>2, <1>3, <1>4, <1>5 DEF Coming
<1> QED
  BY <1>2, <1>3, <1>5 DEF PatientInv

LEMMA StepOnPatient ==
  ASSUME MessagesEnd, DialogueInv, ClientInv, PatientInv, [Next]_vars
  PROVE  PatientInv'
<1>1. CASE UNCHANGED vars
  BY <1>1 DEF vars, relayVars, clientVars, PatientInv, Coming, Input
<1>2. CASE Fails
  BY <1>2, PatientClosing DEF Fails, Ends
<1>3. CASE connecting
  BY <1>3, PatientLeaving DEF connecting
<1>4. ASSUME NEW s \in Sides, CopyReads(s) \/ CopyWrites(s)
      PROVE  PatientInv'
  <2>1. state' \in {"COPY", "DONE"}
    BY <1>4 DEF CopyReads, CopyWrites, copy_read, copy_write, Ready, Recompute
  <2> QED
    BY <2>1, PatientLeaving
<1>5. CASE ReadHandler
  BY <1>5, PatientHelloRead, PatientAuthRead, PatientRequests DEF ReadHandler
<1> QED
  BY <1>1, <1>2, <1>3, <1>4, <1>5, PatientWriteHandlers, PatientBegins, PatientSends DEF Next

LEMMA InitPatient == Init => PatientInv
BY DEF Init, PatientInv, Coming, Input, EmptyQueue

\* The first half of PatientClientIsServed.
PatientClientFindsRoom == state \in ReadStates /\ ~ahead => ~NoRoom

(* hello_read, auth_read, request_read and the reads of management: a client that
   sends each message only when the proxy is ready for it is never cut off by a
   read_buffer without room, for buffers of any size and messages of any lengths,
   as long as the messages end where their lengths say. *)
THEOREM PatientClientHasRoom ==
  ASSUME MessagesEnd
  PROVE  Spec => []PatientClientFindsRoom
<1>1. ClientIsUnderstood /\ PatientInv /\ [Next]_vars => PatientInv'
  BY StepOnPatient DEF ClientIsUnderstood
<1>2. ClientIsUnderstood /\ PatientInv => PatientClientFindsRoom
  <2> SUFFICES ASSUME DialogueInv, PatientInv, state \in ReadStates, ~ahead
               PROVE  Room(Input) # 0
    BY DEF ClientIsUnderstood, PatientClientFindsRoom, NoRoom
  <2>1. Input \in Queues(Byte) /\ Input.bytes = << >>
    BY DEF DialogueInv, BuffersInv, PatientInv
  <2>2. Input.read = 0 /\ Len(Input.bytes) = 0
    BY <2>1, QueueFields
  <2> QED
    BY <2>2, QueueSizeAssumption DEF Room
<1> QED
  BY <1>1, <1>2, InitPatient, Understood, PTL DEF Spec
=============================================================================
