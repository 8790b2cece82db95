----------------------------- MODULE PoolProofs -----------------------------
(***************************************************************************)
(* Proofs about Pool, for any number of blocks and descriptors and pools   *)
(* of any size.  The heap is followed with a count of the descriptors that *)
(* lead to each struct; socks5_new and socks5_destroy keep what HeapInv    *)
(* says of the two, and every step of the process is made of these.        *)
(***************************************************************************)
EXTENDS Pool, FiniteSetTheorems, SequenceTheorems, TLAPS

(* Sequences without duplicates. *)

LEMMA PushOnto ==
  ASSUME NEW S, NEW s \in Seq(S), NEW x \in S, IsInjective(s), x \notin Range(s)
  PROVE  /\ <<x>> \o s \in Seq(S)
         /\ Len(<<x>> \o s) = Len(s) + 1
         /\ IsInjective(<<x>> \o s)
         /\ Range(<<x>> \o s) = Range(s) \cup {x}
<1> DEFINE t == <<x>> \o s
<1>1. /\ t \in Seq(S) /\ Len(t) = Len(s) + 1
      /\ t[1] = x
      /\ \A i \in 1..Len(s) : t[i + 1] = s[i]
      /\ Len(s) \in Nat
  OBVIOUS
<1> HIDE DEF t
<1>2. DOMAIN t = 1..(Len(s) + 1) /\ DOMAIN s = 1..Len(s)
  BY <1>1
<1>3. \A i \in DOMAIN t : i = 1 \/ (i - 1 \in DOMAIN s /\ t[i] = s[i - 1])
  <2>1. \A i \in 2..(Len(s) + 1) : i - 1 \in 1..Len(s) /\ t[(i - 1) + 1] = s[i - 1] /\ (i - 1) + 1 = i
    BY <1>1
  <2> QED
    BY <1>1, <1>2, <2>1
<1>4. IsInjective(t)
  <2> SUFFICES ASSUME NEW i \in DOMAIN t, NEW j \in DOMAIN t, t[i] = t[j]
               PROVE  i = j
    BY DEF IsInjective
  <2>1. CASE i = 1 /\ j = 1
    BY <2>1
  <2>2. CASE i = 1 /\ j # 1
    BY <2>2, <1>1, <1>3 DEF Range
  <2>3. CASE i # 1 /\ j = 1
    BY <2>3, <1>1, <1>3 DEF Range
  <2>4. CASE i # 1 /\ j # 1
    <3>1. i - 1 = j - 1
      BY <2>4, <1>3 DEF IsInjective
    <3> QED
      BY <3>1, <1>2, <1>1
  <2> QED
    BY <2>1, <2>2, <2>3, <2>4
<1>5. Range(t) = Range(s) \cup {x}
  <2>1. ASSUME NEW y \in Range(t) PROVE y \in Range(s) \cup {x}
    BY <1>1, <1>3 DEF Range
  <2>2. x \in Range(t)
    BY <1>1, <1>2 DEF Range
  <2>3. ASSUME NEW y \in Range(s) PROVE y \in Range(t)
    <3>1. PICK i \in 1..Len(s) : y = s[i]
      BY <1>2 DEF Range
    <3>2. i + 1 \in DOMAIN t /\ t[i + 1] = y
      BY <3>1, <1>1, <1>2
    <3> QED
      BY <3>2 DEF Range
  <2> QED
    BY <2>1, <2>2, <2>3
<1> QED
  BY <1>1, <1>4, <1>5 DEF t

LEMMA PopFrom ==
  ASSUME NEW S, NEW s \in Seq(S), IsInjective(s), s # << >>
  PROVE  /\ Tail(s) \in Seq(S) /\ Head(s) \in S
         /\ Len(Tail(s)) = Len(s) - 1
         /\ IsInjective(Tail(s))
         /\ Range(Tail(s)) = Range(s) \ {Head(s)}
         /\ Head(s) \in Range(s)
<1> DEFINE t == Tail(s)
<1>1. /\ t \in Seq(S) /\ Len(t) = Len(s) - 1 /\ Head(s) = s[1] /\ s[1] \in S
      /\ \A i \in 1..Len(t) : t[i] = s[i + 1]
      /\ Len(s) \in Nat \ {0} /\ Len(t) \in Nat
  BY EmptySeq
<1> HIDE DEF t
<1>2. DOMAIN t = 1..Len(t) /\ DOMAIN s = 1..Len(s) /\ 1 \in DOMAIN s
  BY <1>1
<1>3. \A i \in DOMAIN t : i + 1 \in DOMAIN s /\ t[i] = s[i + 1] /\ i + 1 # 1
  BY <1>1, <1>2
<1>4. IsInjective(t)
  <2> SUFFICES ASSUME NEW i \in DOMAIN t, NEW j \in DOMAIN t, t[i] = t[j]
               PROVE  i = j
    BY DEF IsInjective
  <2>1. i + 1 = j + 1
    BY <1>3 DEF IsInjective
  <2> QED
    BY <2>1, <1>2, <1>1
<1>5. Range(t) = Range(s) \ {Head(s)}
  <2>1. ASSUME NEW y \in Range(t) PROVE y \in Range(s) \ {Head(s)}
    <3>1. PICK i \in DOMAIN t : y = t[i]
      BY DEF Range
    <3>2. i + 1 \in DOMAIN s /\ y = s[i + 1] /\ i + 1 # 1
      BY <3>1, <1>3
    <3>3. y # s[1]
      BY <3>2, <1>2 DEF IsInjective
    <3> QED
      BY <3>2, <3>3, <1>1 DEF Range
  <2>2. ASSUME NEW y \in Range(s) \ {Head(s)} PROVE y \in Range(t)
    <3>1. PICK i \in 1..Len(s) : y = s[i]
      BY <1>2 DEF Range
    <3>2. i # 1
      BY <3>1, <1>1
    <3>3. i - 1 \in 1..Len(t) /\ t[i - 1] = s[(i - 1) + 1] /\ (i - 1) + 1 = i
      BY <3>1, <3>2, <1>1
    <3> QED
      BY <3>1, <3>3, <1>2 DEF Range
  <2> QED
    BY <2>1, <2>2
<1>6. Head(s) \in Range(s)
  BY <1>1, <1>2 DEF Range
<1> QED
  BY <1>1, <1>4, <1>5, <1>6 DEF t
-----------------------------------------------------------------------------
(* The heap, with n[b] descriptors that lead to b. *)

HeapType(h) ==
  h \in [memory : [Blocks -> Kinds \cup {"free"}], references : [Blocks -> Nat],
         pool : [Kinds -> Seq(Blocks)], pool_size : [Kinds -> 0..max_pool],
         freed_twice : SUBSET Blocks]

Pooled(h, b) == \E k \in Kinds : b \in Range(h.pool[k])

\* Of a list.
ListInv(h, k) == IsInjective(h.pool[k]) /\ Len(h.pool[k]) <= h.pool_size[k]

\* Of a struct: in a pool, free, or in use.
PooledInv(h, n, over, b) ==
  /\ \A k \in Kinds : b \in Range(h.pool[k]) => h.memory[b] = k
  /\ Pooled(h, b) => n[b] = 0 /\ b \notin over
BlockInv(h, n, over, b) ==
  /\ PooledInv(h, n, over, b)
  /\ h.memory[b] = "free" => n[b] = 0 /\ b \notin over
  /\ h.memory[b] # "free" /\ ~Pooled(h, b) =>
       /\ h.references[b] >= 1
       /\ b \notin over => h.references[b] = n[b]
       /\ b \in over => h.references[b] > n[b]

HeapInv(h, n, over) ==
  /\ HeapType(h)
  /\ n \in [Blocks -> Nat]
  /\ h.freed_twice = {}
  /\ \A k \in Kinds : ListInv(h, k)
  /\ \A b \in Blocks : BlockInv(h, n, over, b)

\* The fields of the heap after each of its operations.
LEMMA ReusedFields ==
  ASSUME NEW h, HeapType(h), NEW k \in Kinds,
         Tail(h.pool[k]) \in Seq(Blocks), Head(h.pool[k]) \in Blocks
  PROVE  /\ HeapType(Reused(h, k))
         /\ Reused(h, k).memory = h.memory
         /\ Reused(h, k).references = [h.references EXCEPT ![Head(h.pool[k])] = 1]
         /\ Reused(h, k).pool = [h.pool EXCEPT ![k] = Tail(h.pool[k])]
         /\ Reused(h, k).pool_size = h.pool_size
         /\ Reused(h, k).freed_twice = h.freed_twice
BY DEF HeapType, Reused

LEMMA MallocFields ==
  ASSUME NEW h, HeapType(h), NEW k \in Kinds, NEW b \in Blocks
  PROVE  /\ HeapType(Malloc(h, k, b))
         /\ Malloc(h, k, b).memory = [h.memory EXCEPT ![b] = k]
         /\ Malloc(h, k, b).references = [h.references EXCEPT ![b] = 1]
         /\ Malloc(h, k, b).pool = h.pool /\ Malloc(h, k, b).pool_size = h.pool_size
         /\ Malloc(h, k, b).freed_twice = h.freed_twice
BY DEF HeapType, Malloc

LEMMA PushFields ==
  ASSUME NEW h, HeapType(h), NEW k \in Kinds, NEW b \in Blocks,
         <<b>> \o h.pool[k] \in Seq(Blocks), h.pool_size[k] < max_pool
  PROVE  /\ HeapType(Push(h, k, b))
         /\ Push(h, k, b).memory = h.memory /\ Push(h, k, b).references = h.references
         /\ Push(h, k, b).pool[k] = <<b>> \o h.pool[k]
         /\ Push(h, k, b).pool_size[k] = h.pool_size[k] + 1
         /\ \A j \in Kinds \ {k} : /\ Push(h, k, b).pool[j] = h.pool[j]
                                    /\ Push(h, k, b).pool_size[j] = h.pool_size[j]
         /\ Push(h, k, b).freed_twice = h.freed_twice
<1>1. h.pool_size[k] + 1 \in 0..max_pool
  BY PoolAssumption DEF HeapType
<1> QED
  BY <1>1 DEF HeapType, Push

LEMMA FreeFields ==
  ASSUME NEW h, HeapType(h), NEW b \in Blocks, h.memory[b] # "free"
  PROVE  /\ HeapType(Free(h, b))
         /\ Free(h, b).memory = [h.memory EXCEPT ![b] = "free"]
         /\ Free(h, b).references = h.references
         /\ Free(h, b).pool = h.pool /\ Free(h, b).pool_size = h.pool_size
         /\ Free(h, b).freed_twice = h.freed_twice
BY DEF HeapType, Free

LEMMA WithoutOneFields ==
  ASSUME NEW h, HeapType(h), NEW b \in Blocks, h.references[b] >= 1
  PROVE  /\ HeapType(WithoutOne(h, b))
         /\ WithoutOne(h, b).memory = h.memory
         /\ WithoutOne(h, b).references = [h.references EXCEPT ![b] = h.references[b] - 1]
         /\ WithoutOne(h, b).pool = h.pool /\ WithoutOne(h, b).pool_size = h.pool_size
         /\ WithoutOne(h, b).freed_twice = h.freed_twice
<1>1. h.references[b] - 1 \in Nat
  BY DEF HeapType
<1> QED
  BY <1>1 DEF HeapType, WithoutOne

LEMMA KindsAreNotFree == "free" \notin Kinds
BY DEF Kinds

\* A step that keeps the lists: only the block that changes needs a look.
BlockChanges(h, g, n, m, over, more, b) ==
  /\ HeapInv(h, n, over)
  /\ HeapType(g) /\ g.freed_twice = {} /\ g.pool = h.pool /\ g.pool_size = h.pool_size
  /\ m \in [Blocks -> Nat]
  /\ b \in Blocks /\ BlockInv(g, m, more, b)
  /\ \A x \in Blocks \ {b} :
        /\ g.memory[x] = h.memory[x] /\ g.references[x] = h.references[x]
        /\ m[x] = n[x] /\ (x \in more <=> x \in over)

LEMMA BlockChange ==
  ASSUME NEW h, NEW g, NEW n, NEW m, NEW over, NEW more, NEW b,
         BlockChanges(h, g, n, m, over, more, b)
  PROVE  HeapInv(g, m, more)
<1> USE DEF BlockChanges
<1>1. \A k \in Kinds : ListInv(g, k)
  BY DEF HeapInv, ListInv
<1>2. ASSUME NEW x \in Blocks, x # b PROVE BlockInv(g, m, more, x)
  <2>1. BlockInv(h, n, over, x)
    BY DEF HeapInv
  <2>2. /\ g.memory[x] = h.memory[x] /\ g.references[x] = h.references[x]
        /\ m[x] = n[x] /\ (x \in more <=> x \in over)
    BY <1>2
  <2>3. Pooled(g, x) <=> Pooled(h, x)
    BY DEF Pooled
  <2> QED
    BY <2>1, <2>2, <2>3 DEF BlockInv, PooledInv
<1> QED
  BY <1>1, <1>2 DEF HeapInv

\* A step that takes b out of the list of k, or puts it in.
ListChanges(h, g, n, m, over, k, b) ==
  /\ HeapInv(h, n, over)
  /\ HeapType(g) /\ g.freed_twice = {}
  /\ m \in [Blocks -> Nat]
  /\ \A j \in Kinds \ {k} : g.pool[j] = h.pool[j] /\ g.pool_size[j] = h.pool_size[j]
  /\ ListInv(g, k)
  /\ b \in Blocks /\ BlockInv(g, m, over, b)
  /\ Range(g.pool[k]) \cup {b} = Range(h.pool[k]) \cup {b}
  /\ \A x \in Blocks \ {b} :
        /\ g.memory[x] = h.memory[x] /\ g.references[x] = h.references[x]
        /\ m[x] = n[x]

LEMMA ListChange ==
  ASSUME NEW h, NEW g, NEW n, NEW m, NEW over, NEW k \in Kinds, NEW b,
         ListChanges(h, g, n, m, over, k, b)
  PROVE  HeapInv(g, m, over)
<1> USE DEF ListChanges
<1>1. \A j \in Kinds : ListInv(g, j)
  BY DEF HeapInv, ListInv
<1>2. ASSUME NEW x \in Blocks, x # b PROVE BlockInv(g, m, over, x)
  <2>1. BlockInv(h, n, over, x)
    BY DEF HeapInv
  <2>2. /\ g.memory[x] = h.memory[x] /\ g.references[x] = h.references[x]
        /\ m[x] = n[x]
    BY <1>2
  <2>3. \A j \in Kinds : x \in Range(g.pool[j]) <=> x \in Range(h.pool[j])
    BY <1>2
  <2>4. Pooled(g, x) <=> Pooled(h, x)
    BY <2>3 DEF Pooled
  <2> QED
    BY <2>1, <2>2, <2>3, <2>4 DEF BlockInv, PooledInv
<1> QED
  BY <1>1, <1>2 DEF HeapInv
-----------------------------------------------------------------------------
\* n with one more, or one less, for b.
Counts(n, b, x) == [n EXCEPT ![b] = x]

LEMMA ReusedInv ==
  ASSUME NEW h, NEW n, NEW over, HeapInv(h, n, over),
         NEW k \in Kinds, h.pool[k] # << >>
  PROVE  LET b == Head(h.pool[k]) IN
         /\ b \in Blocks /\ n[b] = 0 /\ Reused(h, k).memory[b] = k /\ b \notin over
         /\ HeapInv(Reused(h, k), Counts(n, b, 1), over)
<1> DEFINE b == Head(h.pool[k])
           g == Reused(h, k)
           m == Counts(n, b, 1)
<1>1. h.pool[k] \in Seq(Blocks) /\ IsInjective(h.pool[k]) /\ HeapType(h)
  BY DEF HeapInv, ListInv, HeapType
<1>2. /\ Tail(h.pool[k]) \in Seq(Blocks) /\ b \in Blocks
      /\ Len(Tail(h.pool[k])) = Len(h.pool[k]) - 1
      /\ IsInjective(Tail(h.pool[k]))
      /\ Range(Tail(h.pool[k])) = Range(h.pool[k]) \ {b}
      /\ b \in Range(h.pool[k])
  BY <1>1, PopFrom
<1>3. BlockInv(h, n, over, b)
  BY <1>2 DEF HeapInv
<1>4. h.memory[b] = k /\ n[b] = 0 /\ b \notin over
      /\ \A j \in Kinds \ {k} : b \notin Range(h.pool[j])
  BY <1>2, <1>3 DEF BlockInv, PooledInv, Pooled
<1>6. /\ HeapType(g)
      /\ g.memory = h.memory /\ g.references = [h.references EXCEPT ![b] = 1]
      /\ g.pool = [h.pool EXCEPT ![k] = Tail(h.pool[k])]
      /\ g.pool_size = h.pool_size /\ g.freed_twice = h.freed_twice
  BY <1>1, <1>2, ReusedFields
<1> HIDE DEF b, g
<1>7. /\ g.references[b] = 1 /\ g.pool[k] = Tail(h.pool[k])
      /\ \A j \in Kinds \ {k} : g.pool[j] = h.pool[j]
      /\ \A x \in Blocks \ {b} : g.references[x] = h.references[x]
  BY <1>1, <1>2, <1>6 DEF HeapType
<1>8. m \in [Blocks -> Nat] /\ m[b] = 1 /\ \A x \in Blocks \ {b} : m[x] = n[x]
  BY <1>2 DEF HeapInv, Counts
<1> HIDE DEF m
<1>9. ListInv(g, k)
  BY <1>1, <1>2, <1>6, <1>7 DEF ListInv, HeapInv, HeapType
<1>10. \A j \in Kinds : b \notin Range(g.pool[j])
  BY <1>2, <1>4, <1>6, <1>7
<1>11. BlockInv(g, m, over, b)
  BY <1>4, <1>6, <1>7, <1>8, <1>10, KindsAreNotFree DEF BlockInv, PooledInv, Pooled
<1>12. Range(g.pool[k]) \cup {b} = Range(h.pool[k]) \cup {b}
  BY <1>2, <1>7
<1>13. g.freed_twice = {}
  BY <1>6 DEF HeapInv
<1>14. HeapInv(g, m, over)
  <2>1. \A j \in Kinds \ {k} : g.pool[j] = h.pool[j] /\ g.pool_size[j] = h.pool_size[j]
    BY <1>6, <1>7
  <2>2. \A x \in Blocks \ {b} : /\ g.memory[x] = h.memory[x] /\ g.references[x] = h.references[x]
                                /\ m[x] = n[x]
    BY <1>6, <1>7, <1>8
  <2>3. ListChanges(h, g, n, m, over, k, b)
    BY <1>2, <1>6, <1>8, <1>9, <1>11, <1>12, <1>13, <2>1, <2>2 DEF ListChanges
  <2> QED
    BY <2>3, ListChange
<1> QED
  BY <1>2, <1>4, <1>6, <1>14 DEF b, g, m

LEMMA MallocInv ==
  ASSUME NEW h, NEW n, NEW over, HeapInv(h, n, over),
         NEW k \in Kinds, NEW b \in Blocks, h.memory[b] = "free"
  PROVE  /\ n[b] = 0 /\ Malloc(h, k, b).memory[b] = k /\ b \notin over
         /\ HeapInv(Malloc(h, k, b), Counts(n, b, 1), over)
<1> DEFINE g == Malloc(h, k, b)
           m == Counts(n, b, 1)
<1>1. HeapType(h) /\ BlockInv(h, n, over, b) /\ h.freed_twice = {}
  BY DEF HeapInv
<1>2. n[b] = 0 /\ b \notin over /\ ~Pooled(h, b)
  BY <1>1, KindsAreNotFree DEF BlockInv, PooledInv, Pooled
<1>4. /\ HeapType(g) /\ g.pool = h.pool /\ g.pool_size = h.pool_size /\ g.freed_twice = {}
      /\ g.memory[b] = k /\ g.references[b] = 1
      /\ \A x \in Blocks \ {b} : g.memory[x] = h.memory[x] /\ g.references[x] = h.references[x]
  <2>1. /\ HeapType(g) /\ g.pool = h.pool /\ g.pool_size = h.pool_size /\ g.freed_twice = h.freed_twice
        /\ g.memory = [h.memory EXCEPT ![b] = k]
        /\ g.references = [h.references EXCEPT ![b] = 1]
    BY <1>1, MallocFields
  <2> QED
    BY <2>1, <1>1 DEF HeapType
<1>5. m \in [Blocks -> Nat] /\ m[b] = 1 /\ \A x \in Blocks \ {b} : m[x] = n[x]
  BY DEF HeapInv, Counts
<1> HIDE DEF g, m
<1>6. ~Pooled(g, b)
  BY <1>2, <1>4 DEF Pooled
<1>7. BlockInv(g, m, over, b)
  BY <1>2, <1>4, <1>5, <1>6, KindsAreNotFree DEF BlockInv, PooledInv, Pooled
<1>8. HeapInv(g, m, over)
  <2>1. BlockChanges(h, g, n, m, over, over, b)
    BY <1>4, <1>5, <1>7 DEF BlockChanges
  <2> QED
    BY <2>1, BlockChange
<1> QED
  BY <1>2, <1>4, <1>8 DEF g, m

LEMMA PushInv ==
  ASSUME NEW h, NEW n, NEW over, HeapInv(h, n, over),
         NEW b \in Blocks, NEW k \in Kinds, h.memory[b] = k, n[b] >= 1,
         h.references[b] = 1, h.pool_size[k] < max_pool
  PROVE  HeapInv(Push(h, k, b), Counts(n, b, n[b] - 1), over)
<1> DEFINE g == Push(h, k, b)
           m == Counts(n, b, n[b] - 1)
<1>1. HeapType(h) /\ BlockInv(h, n, over, b) /\ h.freed_twice = {} /\ n[b] \in Nat
  BY DEF HeapInv
<1>2. ~Pooled(h, b) /\ b \notin over /\ n[b] = 1
  BY <1>1, KindsAreNotFree DEF BlockInv, PooledInv
<1>3. h.pool[k] \in Seq(Blocks) /\ ListInv(h, k) /\ b \notin Range(h.pool[k])
  BY <1>1, <1>2 DEF HeapInv, HeapType, Pooled
<1>4. /\ <<b>> \o h.pool[k] \in Seq(Blocks)
      /\ Len(<<b>> \o h.pool[k]) = Len(h.pool[k]) + 1
      /\ IsInjective(<<b>> \o h.pool[k])
      /\ Range(<<b>> \o h.pool[k]) = Range(h.pool[k]) \cup {b}
  BY <1>3, PushOnto DEF ListInv
<1>5. /\ HeapType(g)
      /\ g.memory = h.memory /\ g.references = h.references
      /\ g.pool[k] = <<b>> \o h.pool[k] /\ g.pool_size[k] = h.pool_size[k] + 1
      /\ \A j \in Kinds \ {k} : g.pool[j] = h.pool[j] /\ g.pool_size[j] = h.pool_size[j]
      /\ g.freed_twice = h.freed_twice
  BY <1>1, <1>4, PushFields
<1>6. m \in [Blocks -> Nat] /\ m[b] = 0 /\ \A x \in Blocks \ {b} : m[x] = n[x]
  BY <1>1, <1>2 DEF HeapInv, Counts
<1> HIDE DEF g, m
<1>8. ListInv(g, k)
  BY <1>1, <1>3, <1>4, <1>5 DEF ListInv, HeapType
<1>9. \A j \in Kinds : b \in Range(g.pool[j]) => j = k
  BY <1>2, <1>5 DEF Pooled
<1>10. Pooled(g, b)
  BY <1>4, <1>5 DEF Pooled
<1>11. BlockInv(g, m, over, b)
  BY <1>2, <1>5, <1>6, <1>9, <1>10, KindsAreNotFree DEF BlockInv, PooledInv
<1>12. ListChanges(h, g, n, m, over, k, b)
  BY <1>1, <1>4, <1>5, <1>6, <1>8, <1>11 DEF ListChanges
<1> QED
  BY <1>12, ListChange DEF g, m

LEMMA FreeInv ==
  ASSUME NEW h, NEW n, NEW over, HeapInv(h, n, over),
         NEW b \in Blocks, h.memory[b] # "free", n[b] >= 1, h.references[b] = 1
  PROVE  HeapInv(Free(h, b), Counts(n, b, n[b] - 1), over)
<1> DEFINE g == Free(h, b)
           m == Counts(n, b, n[b] - 1)
<1>1. HeapType(h) /\ BlockInv(h, n, over, b) /\ h.freed_twice = {} /\ n[b] \in Nat
  BY DEF HeapInv
<1>2. ~Pooled(h, b) /\ b \notin over /\ n[b] = 1
  BY <1>1 DEF BlockInv, PooledInv
<1>3. /\ HeapType(g)
      /\ g.memory = [h.memory EXCEPT ![b] = "free"] /\ g.references = h.references
      /\ g.pool = h.pool /\ g.pool_size = h.pool_size /\ g.freed_twice = h.freed_twice
  BY <1>1, FreeFields
<1>4. m \in [Blocks -> Nat] /\ m[b] = 0 /\ \A x \in Blocks \ {b} : m[x] = n[x]
  BY <1>1, <1>2 DEF HeapInv, Counts
<1> HIDE DEF g, m
<1>5. g.memory[b] = "free" /\ \A x \in Blocks \ {b} : g.memory[x] = h.memory[x]
  BY <1>1, <1>3 DEF HeapType
<1>6. ~Pooled(g, b)
  BY <1>2, <1>3 DEF Pooled
<1>7. BlockInv(g, m, over, b)
  BY <1>2, <1>4, <1>5, <1>6 DEF BlockInv, PooledInv, Pooled
<1>8. BlockChanges(h, g, n, m, over, over, b)
  BY <1>1, <1>3, <1>4, <1>5, <1>7 DEF BlockChanges
<1> QED
  BY <1>8, BlockChange DEF g, m

LEMMA WithoutOneInv ==
  ASSUME NEW h, NEW n, NEW over, HeapInv(h, n, over),
         NEW b \in Blocks, h.memory[b] # "free", n[b] >= 1, h.references[b] # 1
  PROVE  HeapInv(WithoutOne(h, b), Counts(n, b, n[b] - 1), over)
<1> DEFINE g == WithoutOne(h, b)
           m == Counts(n, b, n[b] - 1)
<1>1. HeapType(h) /\ BlockInv(h, n, over, b) /\ h.freed_twice = {} /\ n[b] \in Nat
  BY DEF HeapInv
<1>2. /\ ~Pooled(h, b)
      /\ h.references[b] >= 1 /\ h.references[b] \in Nat
      /\ b \notin over => h.references[b] = n[b]
      /\ b \in over => h.references[b] > n[b]
  BY <1>1 DEF BlockInv, PooledInv, HeapType
<1>3. /\ HeapType(g)
      /\ g.memory = h.memory
      /\ g.references = [h.references EXCEPT ![b] = h.references[b] - 1]
      /\ g.pool = h.pool /\ g.pool_size = h.pool_size /\ g.freed_twice = h.freed_twice
  BY <1>1, <1>2, WithoutOneFields
<1>4. m \in [Blocks -> Nat] /\ m[b] = n[b] - 1 /\ \A x \in Blocks \ {b} : m[x] = n[x]
  BY <1>1 DEF HeapInv, Counts
<1> HIDE DEF g, m
<1>5. /\ g.references[b] = h.references[b] - 1
      /\ \A x \in Blocks \ {b} : g.references[x] = h.references[x]
  BY <1>1, <1>3 DEF HeapType
<1>6. ~Pooled(g, b)
  BY <1>2, <1>3 DEF Pooled
<1>7. BlockInv(g, m, over, b)
  BY <1>1, <1>2, <1>3, <1>4, <1>5, <1>6 DEF BlockInv, PooledInv, Pooled
<1>8. BlockChanges(h, g, n, m, over, over, b)
  BY <1>1, <1>3, <1>4, <1>5, <1>7 DEF BlockChanges
<1> QED
  BY <1>8, BlockChange DEF g, m

\* What unregistering one of the descriptors that lead to b does.
LEMMA DestroyInv ==
  ASSUME NEW h, NEW n, NEW over, HeapInv(h, n, over),
         NEW b \in Blocks, n[b] >= 1
  PROVE  /\ h.memory[b] \in Kinds
         /\ HeapInv(socks5_destroy(h, h.memory[b], b), Counts(n, b, n[b] - 1), over)
<1>1. HeapType(h) /\ BlockInv(h, n, over, b) /\ n[b] \in Nat
  BY DEF HeapInv
<1>2. h.memory[b] # "free" /\ h.memory[b] \in Kinds
  BY <1>1 DEF BlockInv, HeapType
<1>3. CASE h.references[b] = 1 /\ h.pool_size[h.memory[b]] < max_pool
  <2>1. socks5_destroy(h, h.memory[b], b) = Push(h, h.memory[b], b)
    BY <1>2, <1>3 DEF socks5_destroy, GiveBack
  <2> QED
    BY <2>1, <1>2, <1>3, PushInv
<1>4. CASE h.references[b] = 1 /\ ~(h.pool_size[h.memory[b]] < max_pool)
  <2>1. socks5_destroy(h, h.memory[b], b) = Free(h, b)
    BY <1>2, <1>4 DEF socks5_destroy, GiveBack
  <2> QED
    BY <2>1, <1>2, <1>4, FreeInv
<1>5. CASE h.references[b] # 1
  <2>1. socks5_destroy(h, h.memory[b], b) = WithoutOne(h, b)
    BY <1>2, <1>5 DEF socks5_destroy
  <2> QED
    BY <2>1, <1>2, <1>5, WithoutOneInv
<1> QED
  BY <1>3, <1>4, <1>5

\* What accepting a connection does.
LEMMA NewInv ==
  ASSUME NEW h, NEW n, NEW over, HeapInv(h, n, over), NEW k \in Kinds,
         NEW new \in socks5_new(h, k)
  PROVE  /\ new.block \in Blocks /\ n[new.block] = 0
         /\ new.heap.memory[new.block] = k
         /\ HeapInv(new.heap, Counts(n, new.block, 1), over)
<1>1. CASE h.pool[k] # << >>
  <2>1. new.block = Head(h.pool[k]) /\ new.heap = Reused(h, k)
    BY <1>1 DEF socks5_new
  <2> QED
    BY <2>1, <1>1, ReusedInv
<1>2. CASE h.pool[k] = << >>
  <2>1. PICK b \in Blocks : /\ h.memory[b] = "free"
                            /\ new = [block |-> b, heap |-> Malloc(h, k, b)]
    BY <1>2 DEF socks5_new
  <2>2. new.block = b /\ new.heap = Malloc(h, k, b)
    BY <2>1
  <2> QED
    BY <2>1, <2>2, MallocInv
<1> QED
  BY <1>1, <1>2
-----------------------------------------------------------------------------
(* The descriptors that lead to each struct. *)

Leading(it, b) == {f \in Descriptors : it[f] # Unused /\ it[f].block = b}
CountIn(it) == [b \in Blocks |-> Cardinality(Leading(it, b))]

Tables == [Descriptors -> Items \cup {Unused}]

LEMMA LeadingIsFinite ==
  ASSUME NEW it, NEW b
  PROVE  IsFiniteSet(Leading(it, b)) /\ Cardinality(Leading(it, b)) \in Nat
<1>1. IsFiniteSet(Descriptors)
  BY PoolAssumption, FS_Interval DEF Descriptors
<1>2. Leading(it, b) \in SUBSET Descriptors
  BY DEF Leading
<1> QED
  BY <1>1, <1>2, FS_Subset, FS_CardinalityType

LEMMA ItemFields ==
  ASSUME NEW it \in Tables, NEW f \in Descriptors, it[f] # Unused
  PROVE  it[f].block \in Blocks
BY DEF Tables, Items

LEMMA NewItem ==
  ASSUME NEW b \in Blocks, NEW role \in {"client", "origin"}
  PROVE  /\ [block |-> b, role |-> role] \in Items
         /\ [block |-> b, role |-> role] # Unused
BY DEF Items, Unused

LEMMA CountUp ==
  ASSUME NEW it \in Tables, NEW f \in Descriptors, it[f] = Unused,
         NEW b \in Blocks, NEW role \in {"client", "origin"},
         NEW to, to = [it EXCEPT ![f] = [block |-> b, role |-> role]]
  PROVE  /\ to \in Tables
         /\ CountIn(to) = Counts(CountIn(it), b, CountIn(it)[b] + 1)
<1>1. PICK new : new = [block |-> b, role |-> role]
  OBVIOUS
<1>2. new \in Items /\ new # Unused /\ new.block = b
  BY <1>1, NewItem
<1>3. to \in Tables /\ to[f] = new /\ \A g \in Descriptors \ {f} : to[g] = it[g]
  BY <1>1, <1>2 DEF Tables
<1>4. Leading(to, b) = Leading(it, b) \cup {f} /\ f \notin Leading(it, b)
  BY <1>2, <1>3 DEF Leading
<1>5. \A x \in Blocks \ {b} : Leading(to, x) = Leading(it, x)
  BY <1>2, <1>3 DEF Leading
<1>6. Cardinality(Leading(to, b)) = Cardinality(Leading(it, b)) + 1
  BY <1>4, LeadingIsFinite, FS_AddElement
<1>7. CountIn(to) = [x \in Blocks |-> IF x = b THEN Cardinality(Leading(it, b)) + 1
                                     ELSE Cardinality(Leading(it, x))]
  BY <1>5, <1>6 DEF CountIn
<1> QED
  BY <1>3, <1>7 DEF CountIn, Counts

LEMMA CountDown ==
  ASSUME NEW it \in Tables, NEW f \in Descriptors, it[f] # Unused,
         NEW b \in Blocks, it[f].block = b,
         NEW to, to = [it EXCEPT ![f] = Unused]
  PROVE  /\ to \in Tables
         /\ CountIn(it)[b] >= 1
         /\ CountIn(to) = Counts(CountIn(it), b, CountIn(it)[b] - 1)
<1>1. to \in Tables /\ to[f] = Unused /\ \A g \in Descriptors \ {f} : to[g] = it[g]
  BY DEF Tables
<1>2. Leading(to, b) = Leading(it, b) \ {f} /\ f \in Leading(it, b)
  BY <1>1 DEF Leading
<1>3. \A x \in Blocks \ {b} : Leading(to, x) = Leading(it, x)
  BY <1>1 DEF Leading
<1>4. Cardinality(Leading(to, b)) = Cardinality(Leading(it, b)) - 1
  <2>1. IsFiniteSet(Leading(it, b)) /\ f \in Leading(it, b)
    BY <1>2, LeadingIsFinite
  <2>2. Cardinality(Leading(it, b) \ {f}) = Cardinality(Leading(it, b)) - 1
    BY <2>1, FS_RemoveElement
  <2> QED
    BY <1>2, <2>2
<1>5. Cardinality(Leading(it, b)) >= 1
  BY <1>4, LeadingIsFinite
<1>6. CountIn(to) = [x \in Blocks |-> IF x = b THEN Cardinality(Leading(it, b)) - 1
                                     ELSE Cardinality(Leading(it, x))]
  BY <1>3, <1>4 DEF CountIn
<1> QED
  BY <1>1, <1>5, <1>6 DEF CountIn, Counts

LEMMA CountZero ==
  ASSUME NEW it \in Tables, \A f \in Descriptors : it[f] = Unused, NEW b \in Blocks
  PROVE  CountIn(it)[b] = 0
<1>1. Leading(it, b) = {}
  BY DEF Leading
<1> QED
  BY <1>1, FS_EmptySet DEF CountIn

LEMMA CountsTwice ==
  ASSUME NEW n \in [Blocks -> Nat], NEW b \in Blocks, NEW x, NEW y
  PROVE  /\ Counts(Counts(n, b, x), b, y) = Counts(n, b, y)
         /\ Counts(n, b, x)[b] = x
         /\ Counts(n, b, n[b]) = n
BY DEF Counts

LEMMA CountType ==
  ASSUME NEW it
  PROVE  CountIn(it) \in [Blocks -> Nat]
BY LeadingIsFinite DEF CountIn

\* A handler that unregisters f.
LEMMA CloseInv ==
  ASSUME NEW h, NEW it \in Tables, NEW over, HeapInv(h, CountIn(it), over),
         NEW f \in Descriptors, it[f] # Unused,
         NEW to, to = [it EXCEPT ![f] = Unused],
         NEW b, b = it[f].block
  PROVE  /\ to \in Tables
         /\ b \in Blocks /\ h.memory[b] \in Kinds
         /\ HeapInv(socks5_destroy(h, h.memory[b], b), CountIn(to), over)
<1>1. b \in Blocks
  BY ItemFields
<1>2. /\ to \in Tables /\ CountIn(it)[b] >= 1
      /\ CountIn(to) = Counts(CountIn(it), b, CountIn(it)[b] - 1)
  BY <1>1, CountDown
<1> QED
  BY <1>1, <1>2, DestroyInv
-----------------------------------------------------------------------------
(* The process. *)

Count == CountIn(item)
AllClosed == \A f \in Descriptors : item[f] = Unused

ProcessTypes ==
  /\ item \in Tables
  /\ resolving \subseteq Blocks /\ overcounted \subseteq Blocks
  /\ pc \in Places

\* While there are descriptors, and after the loop of selector_destroy.
SelectorInv ==
  /\ pc = Serving \/ pc.at = "selector_destroy" \/ pc = Destroying("mng") =>
       HeapInv(Heap, Count, overcounted)
  /\ pc.at = "selector_destroy" => \A f \in Descriptors : f < pc.next => item[f] = Unused
  /\ pc.at \in {"pool_destroy", "exited"} => AllClosed

\* When mng_pool has been freed, and when everything has.
LastInv ==
  /\ freed_twice = {}
  /\ pc = Destroying("socks") =>
       /\ ListInv(Heap, "socks")
       /\ \A b \in Blocks :
            /\ b \in Range(pool["socks"]) => memory[b] = "socks"
            /\ memory[b] # "free" => b \in Range(pool["socks"]) \/ b \in overcounted
  /\ AllFreedInTheEnd

PoolInv == ProcessTypes /\ HeapType(Heap) /\ SelectorInv /\ LastInv

LEMMA WherePcIs ==
  ASSUME pc \in Places
  PROVE  /\ pc.at = "serving" => pc = Serving
         /\ pc.at = "exited" => pc = Exited
         /\ pc.at = "selector_destroy" =>
              pc.next \in 0..fd_size /\ pc = Unregistering(pc.next)
         /\ pc.at = "pool_destroy" => pc.kind \in Kinds /\ pc = Destroying(pc.kind)
         /\ pc.at \in {"serving", "exited", "selector_destroy", "pool_destroy"}
BY DEF Places, Serving, Exited, Unregistering, Destroying

LEMMA PcDiffers ==
  /\ Serving.at = "serving" /\ Exited.at = "exited"
  /\ \A i : Unregistering(i).at = "selector_destroy" /\ Unregistering(i).next = i
  /\ \A k : Destroying(k).at = "pool_destroy" /\ Destroying(k).kind = k
BY DEF Serving, Exited, Unregistering, Destroying

LEMMA HeapIs ==
  ASSUME NEW h, HeapType(h), HeapBecomes(h)
  PROVE  Heap' = h
BY DEF HeapType, HeapBecomes, Heap

LEMMA HeapFields ==
  /\ Heap.memory = memory /\ Heap.references = references
  /\ Heap.pool = pool /\ Heap.pool_size = pool_size /\ Heap.freed_twice = freed_twice
BY DEF Heap

LEMMA HeapInvType ==
  ASSUME NEW h, NEW n, NEW over, HeapInv(h, n, over)
  PROVE  HeapType(h) /\ h.freed_twice = {}
BY DEF HeapInv

\* What a step has to show before the pools are freed.
LEMMA EarlyStep ==
  ASSUME NEW h, HeapBecomes(h), HeapInv(h, Count', overcounted'),
         item' \in Tables, resolving' \subseteq Blocks, overcounted' \subseteq Blocks,
         pc' \in Places, pc'.at # "exited", pc' # Destroying("socks"),
         pc'.at = "selector_destroy" => \A f \in Descriptors : f < pc'.next => item'[f] = Unused,
         pc'.at = "pool_destroy" => AllClosed'
  PROVE  PoolInv'
<1>1. HeapType(h) /\ h.freed_twice = {} /\ Heap' = h
  BY HeapInvType, HeapIs
<1>2. freed_twice' = {}
  BY <1>1 DEF HeapBecomes
<1>3. ProcessTypes'
  BY DEF ProcessTypes
<1>4. SelectorInv'
  BY <1>1 DEF SelectorInv
<1>5. LastInv'
  BY <1>2, PcDiffers DEF LastInv, AllFreedInTheEnd
<1> QED
  BY <1>1, <1>3, <1>4, <1>5 DEF PoolInv

\* ... and while the server runs.
LEMMA ServingStep ==
  ASSUME NEW h, HeapBecomes(h), HeapInv(h, Count', overcounted'),
         item' \in Tables, resolving' \subseteq Blocks, overcounted' \subseteq Blocks,
         pc' = Serving
  PROVE  PoolInv'
<1>1. pc' \in Places
  BY DEF Places
<1>2. pc'.at = "serving" /\ pc' # Destroying("socks")
  BY PcDiffers
<1> QED
  BY <1>1, <1>2, EarlyStep

LEMMA WhenServing ==
  ASSUME PoolInv, IsServing
  PROVE  /\ HeapInv(Heap, Count, overcounted) /\ HeapType(Heap)
         /\ item \in Tables /\ resolving \subseteq Blocks /\ overcounted \subseteq Blocks
         /\ Count \in [Blocks -> Nat]
BY CountType DEF PoolInv, ProcessTypes, SelectorInv, IsServing, Count

LEMMA SameHeap ==
  ASSUME UNCHANGED heapVars
  PROVE  HeapBecomes(Heap)
BY DEF heapVars, HeapBecomes, Heap

THEOREM InitPool == Init => PoolInv
<1> SUFFICES ASSUME Init PROVE PoolInv
  OBVIOUS
<1> USE DEF Init
<1>1. item \in Tables /\ AllClosed
  BY DEF Tables, AllClosed
<1>2. pc \in Places /\ pc = Serving
  BY DEF Places
<1>3. HeapType(Heap)
  <2>1. /\ memory \in [Blocks -> Kinds \cup {"free"}] /\ references \in [Blocks -> Nat]
        /\ freed_twice \in SUBSET Blocks
    OBVIOUS
  <2>2. pool \in [Kinds -> Seq(Blocks)] /\ pool_size \in [Kinds -> 0..max_pool]
    BY PoolAssumption
  <2> QED
    BY <2>1, <2>2 DEF HeapType, Heap
<1>4. \A k \in Kinds : ListInv(Heap, k) /\ Range(Heap.pool[k]) = {}
  BY HeapFields DEF ListInv, IsInjective, Range
<1>5. \A b \in Blocks : BlockInv(Heap, Count, overcounted, b)
  <2> SUFFICES ASSUME NEW b \in Blocks PROVE BlockInv(Heap, Count, overcounted, b)
    OBVIOUS
  <2>1. Count[b] = 0
    BY <1>1, CountZero DEF AllClosed, Count
  <2>2. Heap.memory[b] = "free" /\ ~Pooled(Heap, b)
    BY <1>4, HeapFields DEF Pooled
  <2> QED
    BY <2>1, <2>2 DEF BlockInv, PooledInv, Pooled
<1>6. HeapInv(Heap, Count, overcounted)
  BY <1>3, <1>4, <1>5, CountType, HeapFields DEF HeapInv, Count
<1>7. SelectorInv
  BY <1>6, <1>2, PcDiffers DEF SelectorInv
<1>8. LastInv
  BY <1>2, PcDiffers DEF LastInv, AllFreedInTheEnd
<1> QED
  BY <1>1, <1>2, <1>3, <1>7, <1>8 DEF PoolInv, ProcessTypes

LEMMA AcceptFailsStep ==
  ASSUME PoolInv, NEW k \in Kinds, AcceptFails(k)
  PROVE  PoolInv'
<1>1. PICK new \in socks5_new(Heap, k) : HeapBecomes(socks5_destroy(new.heap, k, new.block))
  BY DEF AcceptFails
<1>2. IsServing /\ pc' = Serving /\ UNCHANGED <<item, resolving, overcounted>>
  BY DEF AcceptFails, IsServing
<1> DEFINE h == new.heap
           b == new.block
           m == Counts(Count, b, 1)
           g == socks5_destroy(h, k, b)
<1>3. /\ b \in Blocks /\ Count[b] = 0 /\ h.memory[b] = k
      /\ HeapInv(h, m, overcounted)
  BY <1>2, WhenServing, NewInv
<1>4. m[b] = 1 /\ Counts(m, b, 0) = Count
  BY <1>2, <1>3, WhenServing, CountsTwice
<1> HIDE DEF h, b, m
<1>5. HeapInv(g, Counts(m, b, m[b] - 1), overcounted)
  BY <1>3, <1>4, DestroyInv
<1>6. HeapInv(g, Count, overcounted)
  BY <1>4, <1>5
<1> HIDE DEF g
<1>7. HeapBecomes(g)
  BY <1>1 DEF g, h, b
<1>8. HeapInv(g, Count', overcounted')
  BY <1>2, <1>6 DEF Count
<1> QED
  BY <1>2, <1>7, <1>8, WhenServing, ServingStep

LEMMA PassiveAcceptStep ==
  ASSUME PoolInv, NEW k \in Kinds, NEW f \in Descriptors, passive_accept(k, f)
  PROVE  PoolInv'
<1>1. PICK new \in socks5_new(Heap, k) :
        /\ HeapBecomes(new.heap)
        /\ item' = [item EXCEPT ![f] = [block |-> new.block, role |-> "client"]]
  BY DEF passive_accept
<1>2. IsServing /\ item[f] = Unused /\ pc' = Serving /\ UNCHANGED <<resolving, overcounted>>
  BY DEF passive_accept, IsServing
<1>3. /\ new.block \in Blocks /\ Count[new.block] = 0
      /\ HeapInv(new.heap, Counts(Count, new.block, 1), overcounted)
  BY <1>2, WhenServing, NewInv
<1>4. item' \in Tables /\ Count' = Counts(Count, new.block, Count[new.block] + 1)
  BY <1>1, <1>2, <1>3, WhenServing, CountUp DEF Count
<1>5. HeapInv(new.heap, Count', overcounted')
  BY <1>2, <1>3, <1>4
<1> QED
  BY <1>1, <1>2, <1>4, <1>5, WhenServing, ServingStep

\* A step that only raises the references of b by one.
LEMMA RaisedReferences ==
  ASSUME PoolInv, IsServing, NEW b \in Blocks, Count[b] >= 1,
         references' = [references EXCEPT ![b] = @ + 1],
         UNCHANGED <<memory, pool, pool_size, freed_twice>>
  PROVE  /\ HeapBecomes(Heap') /\ HeapType(Heap')
         /\ Heap'.references[b] = references[b] + 1
         /\ Heap'.freed_twice = {}
         /\ Heap'.pool = Heap.pool /\ Heap'.pool_size = Heap.pool_size
         /\ Heap'.memory = Heap.memory
         /\ \A x \in Blocks \ {b} : Heap'.references[x] = Heap.references[x]
         /\ references[b] \in Nat /\ references[b] >= 1
         /\ ~Pooled(Heap, b) /\ ~Pooled(Heap', b) /\ memory[b] # "free"
         /\ b \notin overcounted => references[b] = Count[b]
         /\ b \in overcounted => references[b] > Count[b]
<1>1. HeapInv(Heap, Count, overcounted) /\ HeapType(Heap) /\ Count[b] \in Nat
  BY WhenServing
<1>2. BlockInv(Heap, Count, overcounted, b)
  BY <1>1 DEF HeapInv
<1>3. /\ memory \in [Blocks -> Kinds \cup {"free"}] /\ references \in [Blocks -> Nat]
      /\ pool \in [Kinds -> Seq(Blocks)] /\ pool_size \in [Kinds -> 0..max_pool]
      /\ freed_twice \in SUBSET Blocks
  BY <1>1, HeapFields DEF HeapType
<1>4. /\ references' \in [Blocks -> Nat] /\ references'[b] = references[b] + 1
      /\ \A x \in Blocks \ {b} : references'[x] = references[x]
  BY <1>3
<1>5. HeapType(Heap')
  BY <1>3, <1>4 DEF HeapType, Heap
<1>6. HeapBecomes(Heap')
  BY DEF HeapBecomes, Heap
<1>7. /\ Heap'.references[b] = references[b] + 1
      /\ Heap'.pool = Heap.pool /\ Heap'.pool_size = Heap.pool_size
      /\ Heap'.memory = Heap.memory
      /\ Heap'.freed_twice = Heap.freed_twice
      /\ \A x \in Blocks \ {b} : Heap'.references[x] = Heap.references[x]
  BY <1>4 DEF Heap
<1>8. /\ ~Pooled(Heap, b) /\ memory[b] # "free" /\ references[b] >= 1
      /\ b \notin overcounted => references[b] = Count[b]
      /\ b \in overcounted => references[b] > Count[b]
  BY <1>2, HeapFields DEF BlockInv, PooledInv
<1>9. ~Pooled(Heap', b)
  BY <1>7, <1>8 DEF Pooled
<1>10. Heap.freed_twice = {}
  BY <1>1 DEF HeapInv
<1> QED
  BY <1>3, <1>5, <1>6, <1>7, <1>8, <1>9, <1>10

LEMMA ItemsAsCount ==
  ASSUME NEW b \in Blocks, NEW role, ItemsAs(b, role) # {}, item \in Tables
  PROVE  Count[b] >= 1
<1>1. Leading(item, b) # {}
  BY DEF ItemsAs, ItemsOf, Leading
<1>2. Cardinality(Leading(item, b)) # 0
  BY <1>1, LeadingIsFinite, FS_EmptySet
<1> QED
  BY <1>2, LeadingIsFinite DEF Count, CountIn

LEMMA RegistersOriginStep ==
  ASSUME PoolInv, NEW b \in Blocks, NEW f \in Descriptors, RegistersOrigin(b, f)
  PROVE  PoolInv'
<1> DEFINE g == Heap'
<1>1. /\ IsServing /\ pc' = Serving /\ item[f] = Unused
      /\ item' = [item EXCEPT ![f] = [block |-> b, role |-> "origin"]]
      /\ UNCHANGED <<resolving, overcounted>>
      /\ ItemsAs(b, "client") # {}
      /\ references' = [references EXCEPT ![b] = @ + 1]
      /\ UNCHANGED <<memory, pool, pool_size, freed_twice>>
  BY DEF RegistersOrigin, IsServing, IsAlone
<1>2. Count[b] >= 1
  BY <1>1, ItemsAsCount, WhenServing
<1>3. /\ HeapBecomes(g) /\ HeapType(g)
      /\ g.references[b] = references[b] + 1
      /\ g.freed_twice = {}
      /\ g.pool = Heap.pool /\ g.pool_size = Heap.pool_size
      /\ g.memory = Heap.memory
      /\ \A x \in Blocks \ {b} : g.references[x] = Heap.references[x]
      /\ references[b] \in Nat /\ references[b] >= 1
      /\ ~Pooled(g, b) /\ memory[b] # "free"
      /\ b \notin overcounted => references[b] = Count[b]
      /\ b \in overcounted => references[b] > Count[b]
  BY <1>1, <1>2, RaisedReferences
<1>4. item' \in Tables /\ Count' = Counts(Count, b, Count[b] + 1)
  <2>1. item \in Tables
    BY <1>1, WhenServing
  <2>2. PICK to : to = item'
    OBVIOUS
  <2>3. to = [item EXCEPT ![f] = [block |-> b, role |-> "origin"]]
    BY <1>1, <2>2
  <2>4. to \in Tables /\ CountIn(to) = Counts(CountIn(item), b, CountIn(item)[b] + 1)
    BY <1>1, <2>1, <2>3, CountUp
  <2> QED
    BY <2>2, <2>4 DEF Count
<1>5. Count \in [Blocks -> Nat] /\ HeapInv(Heap, Count, overcounted)
  BY <1>1, WhenServing
<1>6. /\ Count' \in [Blocks -> Nat] /\ Count'[b] = Count[b] + 1
      /\ \A x \in Blocks \ {b} : Count'[x] = Count[x]
  BY <1>4, <1>5 DEF Counts
<1> HIDE DEF g
<1>7. BlockInv(g, Count', overcounted, b)
  BY <1>3, <1>5, <1>6, HeapFields DEF BlockInv, PooledInv, Pooled
<1>8. BlockChanges(Heap, g, Count, Count', overcounted, overcounted, b)
  BY <1>3, <1>5, <1>6, <1>7 DEF BlockChanges
<1>9. HeapInv(g, Count', overcounted)
  BY <1>8, BlockChange
<1> QED
  BY <1>1, <1>3, <1>4, <1>9, WhenServing, ServingStep

LEMMA RegistersTwiceStep ==
  ASSUME PoolInv, NEW b \in Blocks, RegistersTwice(b)
  PROVE  PoolInv'
<1> DEFINE g == Heap'
           more == overcounted \cup {b}
<1>1. /\ IsServing /\ pc' = Serving /\ overcounted' = more
      /\ UNCHANGED <<resolving, item>>
      /\ ItemsAs(b, "client") # {}
      /\ references' = [references EXCEPT ![b] = @ + 1]
      /\ UNCHANGED <<memory, pool, pool_size, freed_twice>>
  BY DEF RegistersTwice, IsServing
<1>2. Count[b] >= 1
  BY <1>1, ItemsAsCount, WhenServing
<1>3. /\ HeapBecomes(g) /\ HeapType(g)
      /\ g.references[b] = references[b] + 1
      /\ g.freed_twice = {}
      /\ g.pool = Heap.pool /\ g.pool_size = Heap.pool_size
      /\ g.memory = Heap.memory
      /\ \A x \in Blocks \ {b} : g.references[x] = Heap.references[x]
      /\ references[b] \in Nat /\ references[b] >= 1
      /\ ~Pooled(g, b) /\ memory[b] # "free"
      /\ b \notin overcounted => references[b] = Count[b]
      /\ b \in overcounted => references[b] > Count[b]
  BY <1>1, <1>2, RaisedReferences
<1>5. Count \in [Blocks -> Nat] /\ HeapInv(Heap, Count, overcounted) /\ Count' = Count
  BY <1>1, WhenServing DEF Count
<1>6. \A x \in Blocks \ {b} : x \in more <=> x \in overcounted
  OBVIOUS
<1>6a. b \in more
  OBVIOUS
<1> HIDE DEF g, more
<1>7. BlockInv(g, Count, more, b)
  BY <1>3, <1>5, <1>6a, HeapFields DEF BlockInv, PooledInv, Pooled
<1>8. BlockChanges(Heap, g, Count, Count, overcounted, more, b)
  BY <1>3, <1>5, <1>6, <1>7 DEF BlockChanges
<1>9. HeapInv(g, Count, more)
  BY <1>8, BlockChange
<1>10. HeapInv(g, Count', overcounted')
  BY <1>1, <1>5, <1>9
<1>11. item' \in Tables /\ resolving' \subseteq Blocks /\ overcounted' \subseteq Blocks
  BY <1>1, WhenServing DEF more
<1> QED
  BY <1>1, <1>3, <1>10, <1>11, ServingStep

LEMMA GivesUpOriginStep ==
  ASSUME PoolInv, NEW f \in Descriptors, GivesUpOrigin(f)
  PROVE  PoolInv'
<1> DEFINE b == item[f].block
<1>1. /\ IsServing /\ pc' = Serving /\ item[f] # Unused
      /\ item' = [item EXCEPT ![f] = Unused]
      /\ HeapBecomes(socks5_destroy(Heap, memory[b], b))
      /\ UNCHANGED <<resolving, overcounted>>
  BY DEF GivesUpOrigin, IsServing, Closed
<1>2. item' \in Tables /\ HeapInv(socks5_destroy(Heap, Heap.memory[b], b), Count', overcounted)
  BY <1>1, WhenServing, CloseInv DEF Count
<1> QED
  BY <1>1, <1>2, WhenServing, HeapFields, ServingStep

\* The second descriptor of the same struct: references was more than one, and
\* the struct is still what it was.
LEMMA CloseTwice ==
  ASSUME NEW h, NEW n, NEW over, HeapInv(h, n, over),
         NEW b \in Blocks, n[b] >= 2
  PROVE  socks5_destroy(h, h.memory[b], b).memory[b] = h.memory[b]
<1>1. HeapType(h) /\ BlockInv(h, n, over, b) /\ n[b] \in Nat
  BY DEF HeapInv
<1>2. h.memory[b] # "free" /\ h.references[b] >= 1 /\ h.references[b] # 1
  BY <1>1 DEF BlockInv, PooledInv, HeapType
<1>3. socks5_destroy(h, h.memory[b], b) = WithoutOne(h, b)
  BY <1>2 DEF socks5_destroy
<1>4. WithoutOne(h, b).memory = h.memory
  BY <1>1, <1>2, WithoutOneFields
<1> QED
  BY <1>3, <1>4

LEMMA DoneStep ==
  ASSUME PoolInv, NEW f \in Descriptors, Done(f)
  PROVE  PoolInv'
<1> DEFINE b == item[f].block
           g == socks5_destroy(Heap, memory[b], b)
           to == [item EXCEPT ![f] = Unused]
<1>1. /\ IsServing /\ pc' = Serving /\ item[f] # Unused
      /\ UNCHANGED <<resolving, overcounted>>
      /\ HeapInv(Heap, CountIn(item), overcounted) /\ item \in Tables
      /\ resolving \subseteq Blocks /\ overcounted \subseteq Blocks
  BY WhenServing DEF Done, IsServing, Count
<1>2. to \in Tables /\ b \in Blocks /\ HeapInv(g, CountIn(to), overcounted)
  BY <1>1, HeapFields, CloseInv
<1>3. CASE HeapBecomes(Closed(Heap, f)) /\ item' = to
  <2>1. HeapBecomes(g) /\ HeapInv(g, Count', overcounted')
    BY <1>1, <1>2, <1>3 DEF Closed, Count
  <2> QED
    BY <1>1, <1>2, <1>3, <2>1, ServingStep
<1>4. ASSUME NEW o \in ItemsAs(b, "origin"),
             HeapBecomes(Closed(Closed(Heap, f), o)),
             item' = [item EXCEPT ![f] = Unused, ![o] = Unused]
      PROVE  PoolInv'
  <2>1. /\ o \in Descriptors /\ item[o] # Unused /\ item[o].block = b
        /\ o # f
    BY <1>4 DEF Done, ItemsAs, ItemsOf
  <2>2. to[o] = item[o] /\ item' = [to EXCEPT ![o] = Unused]
    BY <1>1, <1>4, <2>1 DEF Tables
  <2>3. CountIn(to)[b] >= 1
    <3>1. to \in Tables /\ to[o] # Unused /\ to[o].block = b
      BY <1>2, <2>1, <2>2
    <3> HIDE DEF to, b
    <3> QED
      BY <1>2, <2>1, <3>1, CountDown
  <2>4. CountIn(item)[b] >= 2
    <3>1. /\ CountIn(item)[b] >= 1
          /\ CountIn(to) = Counts(CountIn(item), b, CountIn(item)[b] - 1)
      BY <1>1, <1>2, CountDown
    <3>2. CountIn(to)[b] = CountIn(item)[b] - 1 /\ CountIn(item)[b] \in Nat
      BY <3>1, <1>2, CountType DEF Counts
    <3> QED
      BY <2>3, <3>2
  <2>5. g.memory[b] = memory[b]
    BY <1>1, <1>2, <2>4, HeapFields, CloseTwice
  <2>6. item' \in Tables /\ HeapInv(socks5_destroy(g, g.memory[b], b), CountIn(item'), overcounted)
    <3> HIDE DEF g, to
    <3> QED
      BY <1>2, <2>1, <2>2, CloseInv
  <2>7. Closed(Closed(Heap, f), o) = socks5_destroy(g, g.memory[b], b)
    BY <2>1, <2>5 DEF Closed
  <2>8. /\ HeapBecomes(socks5_destroy(g, g.memory[b], b))
        /\ HeapInv(socks5_destroy(g, g.memory[b], b), Count', overcounted')
    BY <1>1, <1>4, <2>6, <2>7 DEF Count
  <2> QED
    BY <1>1, <2>6, <2>8, ServingStep
<1> QED
  BY <1>3, <1>4 DEF Done

LEMMA ResolverSteps ==
  ASSUME PoolInv, NEW b \in Blocks, StartsResolver(b) \/ ResolverEnds(b)
  PROVE  PoolInv'
<1>1. /\ resolving' \subseteq Blocks
      /\ UNCHANGED <<heapVars, item, pc, overcounted>>
  BY DEF PoolInv, ProcessTypes, StartsResolver, ResolverEnds
<1>2. Heap' = Heap /\ Count' = Count
  BY <1>1 DEF Heap, heapVars, Count
<1> QED
  BY <1>1, <1>2 DEF PoolInv, ProcessTypes, SelectorInv, LastInv, AllClosed, heapVars, Pooled,
                    AllFreedInTheEnd

LEMMA StopsStep ==
  ASSUME PoolInv, Stops
  PROVE  PoolInv'
<1>1. IsServing /\ pc' = Unregistering(0) /\ UNCHANGED <<heapVars, item, resolving, overcounted>>
  BY DEF Stops
<1>2. pc' \in Places
  BY <1>1, PoolAssumption DEF Places
<1>3. HeapBecomes(Heap) /\ HeapInv(Heap, Count', overcounted')
  BY <1>1, WhenServing, SameHeap DEF Count
<1>4. /\ pc'.at = "selector_destroy" /\ pc'.next = 0 /\ pc' # Destroying("socks")
      /\ pc'.at # "exited" /\ pc'.at # "pool_destroy"
  BY <1>1, PcDiffers
<1>5. \A f \in Descriptors : ~(f < 0)
  BY PoolAssumption DEF Descriptors
<1> QED
  BY <1>1, <1>2, <1>3, <1>4, <1>5, WhenServing, EarlyStep

LEMMA SelectorDestroyStep ==
  ASSUME PoolInv, selector_destroy
  PROVE  PoolInv'
<1>1. /\ pc.at = "selector_destroy" /\ UNCHANGED <<resolving, overcounted>>
      /\ pc.next \in 0..fd_size
      /\ item \in Tables /\ resolving \subseteq Blocks /\ overcounted \subseteq Blocks
      /\ HeapInv(Heap, Count, overcounted)
      /\ \A f \in Descriptors : f < pc.next => item[f] = Unused
  BY WherePcIs DEF selector_destroy, PoolInv, ProcessTypes, SelectorInv
<1>2. CASE IsLastItem(pc.next)
  <2>1. pc' = Destroying("mng") /\ UNCHANGED <<heapVars, item>>
    BY <1>2 DEF selector_destroy
  <2>2. /\ pc' \in Places /\ pc'.at = "pool_destroy" /\ pc' # Destroying("socks")
    BY <2>1, PcDiffers DEF Places, Kinds
  <2>3. AllClosed'
    BY <1>1, <1>2, <2>1, PoolAssumption DEF AllClosed, IsLastItem, Descriptors
  <2>4. HeapBecomes(Heap) /\ HeapInv(Heap, Count', overcounted')
    BY <1>1, <2>1, SameHeap DEF Count
  <2> QED
    BY <1>1, <2>1, <2>2, <2>3, <2>4, EarlyStep
<1>3. CASE ~IsLastItem(pc.next)
  <2>1. pc' = Unregistering(pc.next + 1) /\ pc.next \in Descriptors
    BY <1>1, <1>3, PoolAssumption DEF selector_destroy, IsLastItem, Descriptors
  <2>2. pc.next + 1 \in 0..fd_size
    BY <2>1, PoolAssumption DEF Descriptors
  <2>3. /\ pc' \in Places /\ pc'.at = "selector_destroy" /\ pc'.next = pc.next + 1
        /\ pc' # Destroying("socks")
    BY <2>1, <2>2, PcDiffers DEF Places
  <2>4. ASSUME item' \in Tables, item'[pc.next] = Unused,
               \A f \in Descriptors \ {pc.next} : item'[f] = item[f]
        PROVE  \A f \in Descriptors : f < pc'.next => item'[f] = Unused
    <3> SUFFICES ASSUME NEW f \in Descriptors, f < pc.next + 1, f # pc.next PROVE item'[f] = Unused
      BY <2>3, <2>4
    <3>1. f < pc.next
      BY <2>1, PoolAssumption DEF Descriptors
    <3> QED
      BY <1>1, <2>4, <3>1
  <2>5. CASE item[pc.next] = Unused
    <3>1. UNCHANGED <<heapVars, item>>
      BY <1>3, <2>5 DEF selector_destroy
    <3>2. HeapBecomes(Heap) /\ HeapInv(Heap, Count', overcounted')
      BY <1>1, <3>1, SameHeap DEF Count
    <3>3. \A f \in Descriptors : f < pc'.next => item'[f] = Unused
      BY <1>1, <2>4, <2>5, <3>1
    <3> QED
      BY <1>1, <2>3, <3>1, <3>2, <3>3, EarlyStep
  <2>6. CASE item[pc.next] # Unused
    <3> DEFINE b == item[pc.next].block
    <3>1. /\ HeapBecomes(socks5_destroy(Heap, memory[b], b))
          /\ item' = [item EXCEPT ![pc.next] = Unused]
      BY <1>3, <2>6 DEF selector_destroy, Closed
    <3>2. item' \in Tables
          /\ HeapInv(socks5_destroy(Heap, Heap.memory[b], b), Count', overcounted)
      <4>1. item \in Tables /\ HeapInv(Heap, CountIn(item), overcounted) /\ pc.next \in Descriptors
        BY <1>1, <2>1 DEF Count
      <4>2. /\ item' \in Tables
            /\ HeapInv(socks5_destroy(Heap, Heap.memory[b], b), CountIn(item'), overcounted)
        BY <2>6, <3>1, <4>1, CloseInv
      <4> QED
        BY <4>2 DEF Count
    <3>3. \A f \in Descriptors : f < pc'.next => item'[f] = Unused
      <4>1. item'[pc.next] = Unused /\ \A f \in Descriptors \ {pc.next} : item'[f] = item[f]
        BY <1>1, <2>1, <3>1 DEF Tables
      <4> QED
        BY <2>4, <3>2, <4>1
    <3> QED
      BY <1>1, <2>3, <3>1, <3>2, <3>3, HeapFields, EarlyStep
  <2> QED
    BY <2>5, <2>6
<1> QED
  BY <1>2, <1>3

\* What of the pools there is to free, and what is left.
LEMMA PoolDestroyStep ==
  ASSUME PoolInv, pool_destroy
  PROVE  PoolInv'
<1> DEFINE list == Range(pool[pc.kind])
<1>1. /\ pc.at = "pool_destroy" /\ pc.kind \in Kinds /\ pc = Destroying(pc.kind)
      /\ memory' = [b \in Blocks |-> IF b \in list THEN "free" ELSE memory[b]]
      /\ freed_twice' = {b \in list : memory[b] = "free" \/ ~IsInjective(pool[pc.kind])}
      /\ UNCHANGED <<references, pool, pool_size, item, resolving, overcounted>>
      /\ AllClosed /\ item \in Tables /\ resolving \subseteq Blocks /\ overcounted \subseteq Blocks
  BY WherePcIs DEF pool_destroy, PoolInv, ProcessTypes, SelectorInv, LastInv
<1>2. /\ memory \in [Blocks -> Kinds \cup {"free"}] /\ references \in [Blocks -> Nat]
      /\ pool \in [Kinds -> Seq(Blocks)] /\ pool_size \in [Kinds -> 0..max_pool]
  BY HeapFields DEF PoolInv, HeapType
<1>3. list \subseteq Blocks
  BY <1>1, <1>2 DEF Range
<1> HIDE DEF list
<1>4. memory' \in [Blocks -> Kinds \cup {"free"}]
  BY <1>1, <1>2
<1>5. ASSUME ListInv(Heap, pc.kind), \A b \in list : memory[b] # "free"
      PROVE  freed_twice' = {} /\ HeapType(Heap')
  <2>1. freed_twice' = {}
    BY <1>1, <1>5, HeapFields DEF ListInv
  <2> QED
    BY <1>1, <1>2, <1>4, <2>1 DEF HeapType, Heap
<1>6. CASE pc.kind = "mng"
  <2>1. HeapInv(Heap, Count, overcounted)
    BY <1>1, <1>6 DEF PoolInv, SelectorInv
  <2>2. \A b \in Blocks : BlockInv(Heap, Count, overcounted, b) /\ Count[b] = 0
    BY <1>1, <2>1, CountZero DEF HeapInv, AllClosed, Count
  <2>3. \A k \in Kinds : ListInv(Heap, k)
    BY <2>1 DEF HeapInv
  <2>4. \A k \in Kinds : \A b \in Range(pool[k]) : b \in Blocks /\ memory[b] = k
    BY <1>2, <2>2, HeapFields DEF BlockInv, PooledInv, Range
  <2>5. freed_twice' = {} /\ HeapType(Heap')
    BY <1>1, <1>5, <2>3, <2>4, KindsAreNotFree DEF list
  <2>6. pc' = Destroying("socks") /\ pc' \in Places /\ pc'.at = "pool_destroy" /\ pc' # Exited
    BY <1>6, PcDiffers DEF pool_destroy, Places, Kinds
  <2>7. ListInv(Heap', "socks")
    BY <1>1, <2>3 DEF ListInv, Heap, Kinds
  <2>8. \A b \in Range(pool["socks"]) : memory'[b] = "socks"
    BY <1>1, <1>6, <2>4 DEF Kinds, list
  <2>9. \A b \in Blocks : memory'[b] # "free" => b \in Range(pool["socks"]) \/ b \in overcounted
    <3> SUFFICES ASSUME NEW b \in Blocks, memory'[b] # "free", b \notin Range(pool["socks"])
                 PROVE  b \in overcounted
      OBVIOUS
    <3>1. b \notin list /\ memory[b] # "free"
      BY <1>1
    <3>2. ~Pooled(Heap, b)
      BY <1>6, <3>1, HeapFields DEF Pooled, Kinds, list
    <3>3. /\ references[b] >= 1 /\ Count[b] = 0
          /\ b \notin overcounted => references[b] = Count[b]
      BY <2>2, <3>1, <3>2, HeapFields DEF BlockInv
    <3> QED
      BY <3>3
  <2>10. ProcessTypes' /\ AllClosed'
    BY <1>1, <2>6 DEF ProcessTypes, AllClosed
  <2>11. SelectorInv'
    <3>1. pc' # Serving /\ pc'.at # "selector_destroy" /\ pc' # Destroying("mng")
      BY <2>6, PcDiffers
    <3> QED
      BY <2>10, <3>1 DEF SelectorInv
  <2>12. LastInv'
    BY <1>1, <2>5, <2>6, <2>7, <2>8, <2>9 DEF LastInv, AllFreedInTheEnd
  <2> QED
    BY <2>5, <2>10, <2>11, <2>12 DEF PoolInv
<1>7. CASE pc.kind = "socks"
  <2>1. /\ ListInv(Heap, "socks")
        /\ \A b \in Blocks :
             /\ b \in Range(pool["socks"]) => memory[b] = "socks"
             /\ memory[b] # "free" => b \in Range(pool["socks"]) \/ b \in overcounted
    BY <1>1, <1>7 DEF PoolInv, LastInv
  <2>2. freed_twice' = {} /\ HeapType(Heap')
    BY <1>3, <1>5, <1>7, <2>1 DEF list
  <2>3. pc' = Exited /\ pc' \in Places
    BY <1>7 DEF pool_destroy, Places
  <2>4. \A b \in Blocks : memory'[b] # "free" => b \in overcounted
    BY <1>1, <1>7, <2>1 DEF list
  <2>5. ProcessTypes' /\ AllClosed'
    BY <1>1, <2>3 DEF ProcessTypes, AllClosed
  <2>6. pc' # Serving /\ pc'.at = "exited" /\ \A k : pc' # Destroying(k)
    BY <2>3, PcDiffers
  <2>7. SelectorInv'
    BY <2>5, <2>6 DEF SelectorInv
  <2>8. LastInv'
    BY <1>1, <2>2, <2>4, <2>6 DEF LastInv, AllFreedInTheEnd
  <2> QED
    BY <2>2, <2>5, <2>7, <2>8 DEF PoolInv
<1> QED
  BY <1>1, <1>6, <1>7 DEF Kinds

LEMMA NextPool == PoolInv /\ [Next]_vars => PoolInv'
<1> SUFFICES ASSUME PoolInv, [Next]_vars PROVE PoolInv'
  OBVIOUS
<1>1. CASE UNCHANGED vars
  <2>1. Heap' = Heap /\ Count' = Count
    BY <1>1 DEF Heap, vars, heapVars, Count
  <2> QED
    BY <1>1, <2>1 DEF vars, heapVars, PoolInv, ProcessTypes, SelectorInv, LastInv, AllClosed,
                      AllFreedInTheEnd
<1>2. ASSUME NEW k \in Kinds, AcceptFails(k) PROVE PoolInv'
  BY <1>2, AcceptFailsStep
<1>3. ASSUME NEW k \in Kinds, NEW f \in Descriptors, passive_accept(k, f) PROVE PoolInv'
  BY <1>3, PassiveAcceptStep
<1>4. ASSUME NEW b \in Blocks, RegistersTwice(b) PROVE PoolInv'
  BY <1>4, RegistersTwiceStep
<1>5. ASSUME NEW b \in Blocks, NEW f \in Descriptors, RegistersOrigin(b, f) PROVE PoolInv'
  BY <1>5, RegistersOriginStep
<1>6. ASSUME NEW f \in Descriptors, GivesUpOrigin(f) PROVE PoolInv'
  BY <1>6, GivesUpOriginStep
<1>7. ASSUME NEW f \in Descriptors, Done(f) PROVE PoolInv'
  BY <1>7, DoneStep
<1>8. ASSUME NEW b \in Blocks, StartsResolver(b) \/ ResolverEnds(b) PROVE PoolInv'
  BY <1>8, ResolverSteps
<1>9. CASE Stops
  BY <1>9, StopsStep
<1>10. CASE selector_destroy
  BY <1>10, SelectorDestroyStep
<1>11. CASE pool_destroy
  BY <1>11, PoolDestroyStep
<1> QED
  BY <1>1, <1>2, <1>3, <1>4, <1>5, <1>6, <1>7, <1>8, <1>9, <1>10, <1>11 DEF Next

THEOREM PoolInvariant == Spec => []PoolInv
<1> QED
  BY InitPool, NextPool, PTL DEF Spec
-----------------------------------------------------------------------------
(* What follows from it. *)

LEMMA ItemsOfIsLeading ==
  ASSUME NEW b
  PROVE  ItemsOf(b) = Leading(item, b)
BY DEF ItemsOf, Leading

LEMMA NoneLeads ==
  ASSUME NEW b \in Blocks, Count[b] = 0
  PROVE  ItemsOf(b) = {}
BY ItemsOfIsLeading, LeadingIsFinite, FS_EmptySet DEF Count, CountIn

(* socks5_new and socks5_destroy, of both protocols: the fields of the structs
   and the tables keep their types, pool_size within max_pool among them. *)
THEOREM PoolTypes == Spec => []TypeOK
<1>1. PoolInv => TypeOK
  BY HeapFields DEF PoolInv, ProcessTypes, HeapType, Tables, TypeOK
<1> QED
  BY <1>1, PoolInvariant, PTL

(* socks5_new and socks5_destroy: the pools hold different structs, of their own
   protocol, that no descriptor leads to. *)
THEOREM PoolsStaySound == Spec => []PoolsAreSound
<1>1. PoolInv => PoolsAreSound
  <2> SUFFICES ASSUME PoolInv, NEW k \in Kinds, Keeps(k)
               PROVE  /\ IsInjective(pool[k]) /\ Len(pool[k]) <= pool_size[k]
                      /\ \A b \in Range(pool[k]) : memory[b] = k /\ ItemsOf(b) = {}
    BY DEF PoolsAreSound
  <2>1. pool \in [Kinds -> Seq(Blocks)] /\ pc \in Places
    BY HeapFields DEF PoolInv, ProcessTypes, HeapType
  <2>2. Range(pool[k]) \subseteq Blocks
    BY <2>1 DEF Range
  <2>3. CASE HeapInv(Heap, Count, overcounted)
    <3>1. ListInv(Heap, k) /\ \A b \in Blocks : BlockInv(Heap, Count, overcounted, b)
      BY <2>3 DEF HeapInv
    <3>2. ASSUME NEW b \in Range(pool[k]) PROVE memory[b] = k /\ Count[b] = 0
      BY <2>2, <3>1, HeapFields DEF BlockInv, PooledInv, Pooled
    <3> QED
      BY <2>2, <3>1, <3>2, NoneLeads, HeapFields DEF ListInv
  <2>4. CASE pc = Destroying("socks")
    <3>1. k = "socks"
      BY <2>4, PcDiffers DEF Keeps, Kinds
    <3>2. ListInv(Heap, k) /\ \A b \in Range(pool[k]) : memory[b] = k
      BY <2>2, <2>4, <3>1 DEF PoolInv, LastInv
    <3>3. AllClosed
      BY <2>4, PcDiffers DEF PoolInv, SelectorInv
    <3>4. \A b : ItemsOf(b) = {}
      BY <3>3 DEF AllClosed, ItemsOf
    <3> QED
      BY <3>2, <3>4, HeapFields DEF ListInv
  <2> QED
    BY <2>1, <2>3, <2>4, WherePcIs DEF Keeps, Kinds, PoolInv, SelectorInv
<1> QED
  BY <1>1, PoolInvariant, PTL

(* socks5_destroy, selector_destroy and the two functions that destroy pools: no
   struct is freed again, and none that a descriptor leads to. *)
THEOREM EachFreedOnce == Spec => []FreedOnce
<1>1. PoolInv => FreedOnce
  <2> SUFFICES ASSUME PoolInv PROVE FreedOnce
    OBVIOUS
  <2>1. freed_twice = {} /\ item \in Tables /\ pc \in Places
    BY DEF PoolInv, LastInv, ProcessTypes
  <2>2. ASSUME NEW f \in Descriptors, item[f] # Unused
        PROVE  memory[item[f].block] # "free"
    <3> DEFINE b == item[f].block
    <3>1. b \in Blocks
      BY <2>1, <2>2, ItemFields
    <3>2. ~AllClosed
      BY <2>2 DEF AllClosed
    <3>3. HeapInv(Heap, Count, overcounted)
      BY <2>1, <3>2, WherePcIs DEF PoolInv, SelectorInv
    <3>4. BlockInv(Heap, Count, overcounted, b)
      BY <3>1, <3>3 DEF HeapInv
    <3>5. f \in Leading(item, b)
      BY <2>2 DEF Leading
    <3>6. Count[b] # 0
      BY <3>1, <3>5, LeadingIsFinite, FS_EmptySet DEF Count, CountIn
    <3> QED
      BY <3>4, <3>6, HeapFields DEF BlockInv
  <2> QED
    BY <2>1, <2>2 DEF FreedOnce
<1> QED
  BY <1>1, PoolInvariant, PTL

(* The end of main frees every struct that has not lost a reference. *)
THEOREM EverythingIsFreed == Spec => []AllFreedInTheEnd
<1>1. PoolInv => AllFreedInTheEnd
  BY DEF PoolInv, LastInv
<1> QED
  BY <1>1, PoolInvariant, PTL
=============================================================================
