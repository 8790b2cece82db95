--------------------------- MODULE SelectorProofs ---------------------------
(***************************************************************************)
(* The registration table of the selector for every number of descriptors: *)
(* its fd_sets and its max_fd always say what its items say.               *)
(***************************************************************************)
EXTENDS Selector, SequenceTheorems, WellFoundedInduction, TLAPS

(* A non-empty set of descriptors below a bound has a greatest element, so the
   scan of items_max_fd finds it. *)
LEMMA GreatestExists ==
  ASSUME NEW m \in Nat, NEW U \in SUBSET (0..m), U # {}
  PROVE  \E g \in U : \A f \in U : f <= g
<1> DEFINE T == {m - f : f \in U}
<1>1. T \subseteq Nat /\ T # {}
  <2>1. T \subseteq Nat
    OBVIOUS
  <2>2. T # {}
    <3>1. PICK f \in U : TRUE
      OBVIOUS
    <3>2. m - f \in T
      OBVIOUS
    <3> QED BY <3>2
  <2> QED BY <2>1, <2>2
<1>2. PICK x \in T : \A y \in T : ~(<<y, x>> \in OpToRel(<, Nat))
  BY <1>1, NatLessThanWellFounded, WFMin, Zenon
<1>3. \A y \in T : ~(y < x)
  BY <1>1, <1>2 DEF OpToRel
<1>4. PICK g \in U : x = m - g
  OBVIOUS
<1>5. ASSUME NEW f \in U PROVE f <= g
  <2>1. m - f \in T
    OBVIOUS
  <2> HIDE DEF T
  <2>2. ~(m - f < m - g)
    BY <1>3, <1>4, <2>1
  <2> QED BY <2>2
<1> QED BY <1>5

(* items_max_fd returns the greatest used descriptor, or 0. *)
LEMMA ItemsMaxFd ==
  ASSUME NEW U \in SUBSET FDs, max_fd \in FDs, \A f \in U : f <= max_fd
  PROVE  /\ items_max_fd(U) \in FDs
         /\ \A f \in U : f <= items_max_fd(U)
         /\ items_max_fd(U) # 0 => items_max_fd(U) \in U
<1> DEFINE in == {f \in U : f <= max_fd}
<1>1. in = U
  OBVIOUS
<1>2. CASE U = {}
  BY <1>1, <1>2, SelectorAssumption DEF items_max_fd, FDs
<1>3. CASE U # {}
  <2>1. \E g \in U : \A f \in U : f <= g
    BY <1>3, GreatestExists, SelectorAssumption DEF FDs
  <2>2. items_max_fd(U) = CHOOSE m \in in : \A f \in in : f <= m
    BY <1>1, <1>3 DEF items_max_fd
  <2> HIDE DEF in
  <2>3. items_max_fd(U) \in U /\ \A f \in U : f <= items_max_fd(U)
    BY <1>1, <2>1, <2>2
  <2> QED BY <2>3
<1> QED BY <1>2, <1>3
-----------------------------------------------------------------------------
(* The table part of the inductive invariant. *)
TableInv ==
  /\ used \subseteq FDs
  /\ interest \in [FDs -> SUBSET Ops]
  /\ max_fd \in FDs
  /\ SetsMirrorItems
  /\ MaxFdIsTight

(* The steps of selector_select and of the threads leave the table alone. *)
LEMMA OthersKeepTable ==
  ASSUME TableInv, UNCHANGED items PROVE TableInv'
BY DEF TableInv, items, SetsMirrorItems, MaxFdIsTight

(* main.c's first registration. *)
LEMMA InitTable == Init => TableInv
<1>1. 0 \in FDs
  BY SelectorAssumption DEF FDs
<1> SUFFICES ASSUME Init PROVE TableInv
  OBVIOUS
<1>2. used = {0} /\ max_fd = 0 /\ master_r = {0} /\ master_w = {}
  BY DEF Init
<1>3. interest = [f \in FDs |-> IF f = 0 THEN {"READ"} ELSE {}]
  BY DEF Init
<1>4. interest \in [FDs -> SUBSET Ops]
  BY <1>3 DEF Ops
<1>5. SetsMirrorItems
  BY <1>1, <1>2, <1>3 DEF SetsMirrorItems
<1>6. MaxFdIsTight
  BY <1>2 DEF MaxFdIsTight
<1> QED BY <1>1, <1>2, <1>4, <1>5, <1>6 DEF TableInv

(* selector_register, selector_unregister_fd and selector_set_interest keep
   the fd_sets and max_fd in step with the items, and nothing else writes
   them. *)
LEMMA NextTable == TableInv /\ [Next]_vars => TableInv'
<1> SUFFICES ASSUME TableInv, [Next]_vars PROVE TableInv'
  OBVIOUS
<1> USE DEF TableInv, SetsMirrorItems, MaxFdIsTight, FDs
<1>1. ASSUME NEW f \in FDs, NEW ops \in SUBSET Ops, selector_register(f, ops)
      PROVE  TableInv'
  BY <1>1, SelectorAssumption DEF selector_register, items_update_fdset_for_fd
<1>2. ASSUME NEW f \in FDs, NEW ops \in SUBSET Ops, selector_set_interest(f, ops)
      PROVE  TableInv'
  BY <1>2 DEF selector_set_interest, items_update_fdset_for_fd
<1>3. ASSUME NEW f \in FDs, selector_unregister_fd(f)
      PROVE  TableInv'
  <2>1. /\ used' \subseteq FDs
        /\ interest' \in [FDs -> SUBSET Ops]
        /\ SetsMirrorItems'
    BY <1>3 DEF selector_unregister_fd, items_update_fdset_for_fd, Ops
  <2>2. max_fd' \in FDs /\ MaxFdIsTight'
    <3>1. used \ {f} \in SUBSET FDs /\ \A g \in used \ {f} : g <= max_fd
      OBVIOUS
    <3>2. used' = used \ {f} /\ max_fd' = items_max_fd(used \ {f})
      BY <1>3 DEF selector_unregister_fd
    <3> QED BY <3>1, <3>2, ItemsMaxFd
  <2> QED BY <2>1, <2>2
<1>4. ASSUME SelectorStep PROVE UNCHANGED items
  BY <1>4 DEF SelectorStep, CopySets, PselectReady, PselectInterrupted, ReadHalf,
     WriteHalf, IterationDone, LockNotifications, NotifyNext, NotificationsDone
<1>5. ASSUME HandlerReturns \/ StartBlockingJob PROVE UNCHANGED items
  BY <1>5 DEF HandlerReturns, StartBlockingJob
<1>6. ASSUME NEW f \in FDs, EnqueueJob(f) \/ SignalSelector(f) PROVE UNCHANGED items
  BY <1>6 DEF EnqueueJob, SignalSelector
<1>7. ASSUME UNCHANGED vars PROVE UNCHANGED items
  BY <1>7 DEF vars
<1> QED BY <1>1, <1>2, <1>3, <1>4, <1>5, <1>6, <1>7, OthersKeepTable DEF Next

(* Whatever handlers register, unregister or change in the middle of an
   iteration, pselect is always given the sets and the bound that the items
   call for. *)
THEOREM TableIsConsistent == Spec => []TableMirrorsItems
<1>1. TableInv => TableMirrorsItems
  BY DEF TableInv, TableMirrorsItems
<1> QED BY <1>1, InitTable, NextTable, PTL DEF Spec
-----------------------------------------------------------------------------
(* Pushing a new element in front of a list. *)
LEMMA PushFront ==
  ASSUME NEW S, NEW s \in Seq(S), NEW x \in S
  PROVE  /\ <<x>> \o s \in Seq(S)
         /\ ToSet(<<x>> \o s) = {x} \cup ToSet(s)
         /\ IsInjective(s) /\ x \notin ToSet(s) => IsInjective(<<x>> \o s)
<1> DEFINE t == <<x>> \o s
<1>1. /\ t \in Seq(S) /\ Len(t) = 1 + Len(s)
      /\ t[1] = x
      /\ \A k \in 1..Len(s) : t[k + 1] = s[k]
  OBVIOUS
<1>2. DOMAIN s = 1..Len(s) /\ DOMAIN t = 1..(1 + Len(s)) /\ Len(s) \in Nat
  BY <1>1
<1> HIDE DEF t
<1>3. ToSet(t) = {x} \cup ToSet(s)
  <2>1. ASSUME NEW k \in DOMAIN t PROVE t[k] \in {x} \cup ToSet(s)
    <3>1. CASE k = 1
      BY <3>1, <1>1
    <3>2. CASE k # 1
      <4>1. k - 1 \in 1..Len(s) /\ (k - 1) + 1 = k
        BY <1>2, <3>2
      <4> QED BY <4>1, <1>1, <1>2 DEF ToSet
    <3> QED BY <3>1, <3>2
  <2>2. ASSUME NEW k \in DOMAIN s PROVE s[k] \in ToSet(t)
    <3>1. k + 1 \in DOMAIN t /\ t[k + 1] = s[k]
      BY <1>1, <1>2
    <3> QED BY <3>1 DEF ToSet
  <2>3. x \in ToSet(t)
    BY <1>1, <1>2 DEF ToSet
  <2> QED BY <2>1, <2>2, <2>3 DEF ToSet
<1>4. ASSUME IsInjective(s), x \notin ToSet(s) PROVE IsInjective(t)
  <2> SUFFICES ASSUME NEW j \in DOMAIN t, NEW k \in DOMAIN t, t[j] = t[k] PROVE j = k
    BY DEF IsInjective
  <2>1. \A k2 \in DOMAIN t : k2 # 1 =>
           /\ k2 - 1 \in DOMAIN s /\ t[k2] = s[k2 - 1] /\ s[k2 - 1] \in ToSet(s)
    <3> TAKE k2 \in DOMAIN t
    <3> HAVE k2 # 1
    <3>1. k2 - 1 \in 1..Len(s) /\ (k2 - 1) + 1 = k2
      BY <1>2
    <3> QED BY <3>1, <1>1, <1>2 DEF ToSet
  <2>2. CASE j = 1 \/ k = 1
    BY <2>1, <2>2, <1>1, <1>4
  <2>3. CASE j # 1 /\ k # 1
    <3>1. s[j - 1] = s[k - 1] /\ j - 1 \in DOMAIN s /\ k - 1 \in DOMAIN s
      BY <2>1, <2>3
    <3>2. j - 1 = k - 1
      BY <3>1, <1>4 DEF IsInjective
    <3> QED BY <3>2, <1>2
  <2> QED BY <2>2, <2>3
<1> QED BY <1>1, <1>3, <1>4 DEF t

(* Popping the first element of a list without repetitions. *)
LEMMA PopFront ==
  ASSUME NEW S, NEW s \in Seq(S), s # << >>, IsInjective(s)
  PROVE  /\ Tail(s) \in Seq(S) /\ Head(s) \in S /\ Head(s) \in ToSet(s)
         /\ ToSet(Tail(s)) = ToSet(s) \ {Head(s)}
         /\ IsInjective(Tail(s))
<1>1. /\ Head(s) \in S /\ Tail(s) \in Seq(S) /\ Len(Tail(s)) = Len(s) - 1
      /\ \A k \in 1..Len(Tail(s)) : Tail(s)[k] = s[k + 1]
      /\ Head(s) = s[1] /\ Len(s) \in Nat \ {0}
  BY HeadTailProperties, EmptySeq
<1>2. DOMAIN s = 1..Len(s) /\ DOMAIN Tail(s) = 1..(Len(s) - 1)
  BY <1>1
<1> DEFINE t == Tail(s)
<1> HIDE DEF t
<1>3. \A k \in DOMAIN t : k + 1 \in DOMAIN s /\ k + 1 # 1 /\ t[k] = s[k + 1]
  BY <1>1, <1>2 DEF t
<1>4. 1 \in DOMAIN s
  BY <1>1, <1>2
<1>5. \A k \in DOMAIN s : k # 1 => k - 1 \in DOMAIN t /\ t[k - 1] = s[k]
  <2> TAKE k \in DOMAIN s
  <2> HAVE k # 1
  <2>1. k - 1 \in 1..(Len(s) - 1) /\ (k - 1) + 1 = k
    BY <1>1, <1>2
  <2> QED BY <2>1, <1>2, <1>3 DEF t
<1>6. ToSet(t) = ToSet(s) \ {s[1]}
  <2>1. \A k \in DOMAIN t : t[k] \in ToSet(s) \ {s[1]}
    BY <1>3, <1>4 DEF ToSet, IsInjective
  <2>2. \A k \in DOMAIN s : s[k] # s[1] => s[k] \in ToSet(t)
    BY <1>5 DEF ToSet
  <2> QED BY <2>1, <2>2 DEF ToSet
<1>7. IsInjective(t)
  <2> SUFFICES ASSUME NEW j \in DOMAIN t, NEW k \in DOMAIN t, t[j] = t[k] PROVE j = k
    BY DEF IsInjective
  <2>1. j + 1 = k + 1
    BY <1>3 DEF IsInjective
  <2> QED BY <2>1, <1>2 DEF t
<1>8. s[1] \in ToSet(s)
  BY <1>4 DEF ToSet
<1> QED BY <1>1, <1>6, <1>7, <1>8 DEF t

(* The job part of the inductive invariant. *)
JobsInv ==
  /\ key \in FDs
  /\ jobs \in Seq(FDs)
  /\ working \subseteq FDs
  /\ OneJobPerWaiter

(* A handler's job moves from its thread to the list and from the list to its
   handler; every other step leaves all of it alone. *)
LEMMA NextJobs == TableInv /\ JobsInv /\ [Next]_vars => JobsInv'
<1> SUFFICES ASSUME TableInv, JobsInv, [Next]_vars PROVE JobsInv'
  OBVIOUS
<1> USE DEF JobsInv, OneJobPerWaiter
<1> DEFINE Same == UNCHANGED <<jobs, working, waiting>>
<1>1. ASSUME Same, key' \in FDs PROVE JobsInv'
  BY <1>1
<1>2. CASE StartBlockingJob
  BY <1>2 DEF StartBlockingJob, loop
<1>3. ASSUME NEW f \in FDs, EnqueueJob(f) PROVE JobsInv'
  <2>1. jobs' = <<f>> \o jobs /\ f \notin ToSet(jobs) /\ key' = key
    BY <1>3 DEF EnqueueJob, loop
  <2>2. jobs' \in Seq(FDs) /\ ToSet(jobs') = {f} \cup ToSet(jobs) /\ IsInjective(jobs')
    BY <2>1, PushFront
  <2> QED BY <1>3, <2>1, <2>2 DEF EnqueueJob
<1>4. CASE NotifyNext
  <2>1. jobs # << >> /\ jobs' = Tail(jobs) /\ waiting' = waiting \ {Head(jobs)}
        /\ working' = working /\ key' \in {key, Head(jobs)}
    BY <1>4 DEF NotifyNext
  <2>2. /\ jobs' \in Seq(FDs) /\ Head(jobs) \in FDs /\ Head(jobs) \in ToSet(jobs)
        /\ ToSet(jobs') = ToSet(jobs) \ {Head(jobs)} /\ IsInjective(jobs')
    BY <2>1, PopFront
  <2> QED BY <2>1, <2>2
<1>5. CASE ReadHalf
  <2>1. key' \in FDs
    BY <1>5 DEF ReadHalf, TableInv
  <2> QED BY <2>1, <1>5, <1>1 DEF ReadHalf, blocking
<1>6. CASE CopySets \/ PselectReady \/ PselectInterrupted \/ WriteHalf \/ IterationDone
           \/ LockNotifications \/ NotificationsDone \/ HandlerReturns
  BY <1>6, <1>1 DEF CopySets, PselectReady, PselectInterrupted, WriteHalf, IterationDone,
     LockNotifications, NotificationsDone, HandlerReturns, blocking, loop
<1>7. ASSUME NEW f \in FDs, NEW ops \in SUBSET Ops,
             selector_register(f, ops) \/ selector_set_interest(f, ops)
             \/ selector_unregister_fd(f) \/ SignalSelector(f)
      PROVE  JobsInv'
  BY <1>7, <1>1 DEF selector_register, selector_set_interest, selector_unregister_fd,
     SignalSelector, blocking, loop
<1>8. CASE UNCHANGED vars
  BY <1>8, <1>1 DEF vars, blocking, loop
<1> QED BY <1>2, <1>3, <1>4, <1>5, <1>6, <1>7, <1>8 DEF Next, SelectorStep

LEMMA InitJobs == Init => JobsInv
<1>1. 0 \in FDs
  BY SelectorAssumption DEF FDs
<1>2. << >> \in Seq(FDs) /\ ToSet(<< >>) = {} /\ IsInjective(<< >>)
  BY DEF ToSet, IsInjective
<1>3. ASSUME Init
      PROVE  key = 0 /\ jobs = << >> /\ working = {} /\ waiting = {}
  BY <1>3 DEF Init
<1> QED BY <1>1, <1>2, <1>3 DEF JobsInv, OneJobPerWaiter

(* No result of a blocking job is dropped or delivered twice: a waiting
   descriptor always has exactly one job, with its thread or in the list. *)
THEOREM JobsAreNeitherLostNorDoubled == Spec => []OneJobPerWaiter
<1>1. JobsInv => OneJobPerWaiter
  BY DEF JobsInv
<1> QED BY <1>1, InitTable, InitJobs, NextTable, NextJobs, PTL DEF Spec
-----------------------------------------------------------------------------
(* The loop of handle_iteration never indexes past the items: while the item i
   is looked at, it is one of them. *)
Places == {"copy sets", "pselect", "item", "write half", "notify", "drain",
           "read handler", "write handler", "block handler"}

LoopTypes ==
  /\ pc \in Places
  /\ i \in Nat /\ i <= MaxFd + 1 /\ n \in Nat /\ n <= MaxFd
  /\ pc \in {"read handler", "write half", "write handler"} => i <= MaxFd

LEMMA BelowNext == \A x, m \in Nat : x <= m => x <= m + 1
OBVIOUS

LEMMA NextLoop == TableInv /\ LoopTypes /\ [Next]_vars => LoopTypes'
<1> SUFFICES ASSUME TableInv, LoopTypes, [Next]_vars PROVE LoopTypes'
  OBVIOUS
<1>1. MaxFd \in Nat /\ max_fd \in Nat /\ max_fd <= MaxFd
  BY SelectorAssumption DEF TableInv, FDs
<1>2. i \in Nat /\ i <= MaxFd + 1 /\ n \in Nat /\ n <= MaxFd
  BY DEF LoopTypes
<1>3. CASE UNCHANGED <<pc, i, n>>
  BY <1>3 DEF LoopTypes
<1>4. ASSUME pc' \in {"copy sets", "pselect", "item", "notify", "drain", "block handler"},
             i' \in Nat, i' <= MaxFd + 1, n' \in Nat, n' <= MaxFd
      PROVE  LoopTypes'
  BY <1>4 DEF LoopTypes, Places
<1>5. ASSUME pc' \in {"read handler", "write half", "write handler"},
             i' \in Nat, i' <= MaxFd, n' \in Nat, n' <= MaxFd
      PROVE  LoopTypes'
  <2>1. i' <= MaxFd + 1
    BY <1>1, <1>5, BelowNext, Zenon
  <2>2. pc' \in Places
    BY <1>5 DEF Places
  <2> QED
    BY <1>5, <2>1, <2>2, Zenon DEF LoopTypes
<1>6. CASE CopySets \/ PselectInterrupted
  <2>1. pc' \in {"pselect", "notify"} /\ i' = i /\ n' = n
    BY <1>6 DEF CopySets, PselectInterrupted, loop
  <2> QED
    BY <2>1, <1>2, <1>4
<1>7. CASE PselectReady
  <2>1. pc' = "item" /\ i' = 0 /\ n' = max_fd
    BY <1>7 DEF PselectReady
  <2>2. i' \in Nat /\ i' <= MaxFd + 1 /\ n' \in Nat /\ n' <= MaxFd
    BY <2>1, <1>1
  <2> QED
    BY <2>1, <2>2, <1>4
<1>8. CASE ReadHalf
  <2>1. pc = "item" /\ i <= n /\ n' = n
    BY <1>8 DEF ReadHalf
  <2>2. i <= MaxFd
    BY <2>1, <1>1, <1>2
  <2>3. CASE i \notin used
    <3>1. i' = i + 1 /\ pc' = "item"
      BY <1>8, <2>1, <2>3, Zenon DEF ReadHalf
    <3>2. i' \in Nat /\ i' <= MaxFd + 1
      BY <3>1, <2>2, <1>1, <1>2
    <3> QED
      BY <2>1, <3>1, <3>2, <1>2, <1>4
  <2>4. CASE i \in used
    <3>1. i' = i /\ pc' \in {"read handler", "write half"}
      BY <1>8, <2>4, Zenon DEF ReadHalf
    <3>2. pc' \in {"read handler", "write half", "write handler"}
      BY <3>1
    <3> QED
      BY <2>1, <2>2, <3>1, <3>2, <1>2, <1>5
  <2> QED
    BY <2>3, <2>4
<1>9. CASE WriteHalf
  <2>1. pc = "write half" /\ n' = n
    BY <1>9 DEF WriteHalf
  <2>2. i <= MaxFd
    BY <2>1 DEF LoopTypes
  <2>3. CASE i \in slave_w /\ "WRITE" \in interest[i]
    <3>1. i' = i /\ pc' = "write handler"
      BY <1>9, <2>3, Zenon DEF WriteHalf
    <3> QED
      BY <2>1, <2>2, <3>1, <1>2, <1>5
  <2>4. CASE ~(i \in slave_w /\ "WRITE" \in interest[i])
    <3>1. i' = i + 1 /\ pc' = "item"
      BY <1>9, <2>4, Zenon DEF WriteHalf
    <3>2. i' \in Nat /\ i' <= MaxFd + 1
      BY <3>1, <2>2, <1>1, <1>2
    <3> QED
      BY <2>1, <3>1, <3>2, <1>2, <1>4
  <2> QED
    BY <2>3, <2>4
<1>10. CASE IterationDone \/ LockNotifications \/ NotifyNext \/ NotificationsDone
  <2>1. i' = i /\ n' = n
    BY <1>10 DEF IterationDone, LockNotifications, NotifyNext, NotificationsDone, loop
  <2>2. pc' \in {"notify", "drain", "block handler", "copy sets"}
    BY <1>10 DEF IterationDone, LockNotifications, NotifyNext, NotificationsDone
  <2> QED
    BY <2>1, <2>2, <1>2, <1>4
<1>11. CASE HandlerReturns
  <2>1. n' = n
    BY <1>11 DEF HandlerReturns
  <2>2. CASE pc = "read handler"
    <3>1. i' = i /\ pc' = "write half"
      BY <1>11, <2>2 DEF HandlerReturns
    <3>2. i <= MaxFd
      BY <2>2 DEF LoopTypes
    <3> QED
      BY <2>1, <3>1, <3>2, <1>2, <1>5
  <2>3. CASE pc = "write handler"
    <3>1. i' = i + 1 /\ pc' = "item"
      BY <1>11, <2>3 DEF HandlerReturns
    <3>2. i <= MaxFd
      BY <2>3 DEF LoopTypes
    <3>3. i' \in Nat /\ i' <= MaxFd + 1
      BY <3>1, <3>2, <1>1, <1>2
    <3> QED
      BY <2>1, <3>1, <3>3, <1>2, <1>4
  <2>4. CASE pc = "block handler"
    <3>1. i' = i /\ pc' = "drain"
      BY <1>11, <2>4 DEF HandlerReturns
    <3> QED
      BY <2>1, <3>1, <1>2, <1>4
  <2> QED
    BY <1>11, <2>2, <2>3, <2>4 DEF HandlerReturns, HandlerRuns
<1>12. CASE StartBlockingJob
  BY <1>3, <1>12 DEF StartBlockingJob, loop
<1>13. ASSUME NEW f \in FDs, NEW ops \in SUBSET Ops,
              selector_register(f, ops) \/ selector_set_interest(f, ops)
              \/ selector_unregister_fd(f) \/ EnqueueJob(f) \/ SignalSelector(f)
       PROVE  UNCHANGED <<pc, i, n>>
  BY <1>13 DEF selector_register, selector_set_interest, selector_unregister_fd, EnqueueJob,
               SignalSelector, loop
<1>14. CASE UNCHANGED vars
  BY <1>3, <1>14 DEF vars, loop
<1> QED
  BY <1>3, <1>6, <1>7, <1>8, <1>9, <1>10, <1>11, <1>12, <1>13, <1>14 DEF Next, SelectorStep

\* What selector_select and the threads share besides the jobs.
SharedTypes ==
  /\ slave_r \subseteq FDs /\ slave_w \subseteq FDs /\ signalling \subseteq FDs
  /\ mutex \in BOOLEAN /\ signal \in BOOLEAN

LEMMA NextShared == TableInv /\ JobsInv /\ SharedTypes /\ [Next]_vars => SharedTypes'
<1> SUFFICES ASSUME TableInv, JobsInv, SharedTypes, [Next]_vars PROVE SharedTypes'
  OBVIOUS
<1> USE DEF SharedTypes
<1>1. CASE UNCHANGED <<slaves, signalling, mutex, signal>>
  BY <1>1 DEF slaves
<1>2. CASE CopySets \/ PselectReady \/ PselectInterrupted
  BY <1>2 DEF CopySets, PselectReady, PselectInterrupted, blocking, slaves, TableInv, SetsMirrorItems
<1>3. CASE ReadHalf \/ WriteHalf \/ IterationDone \/ HandlerReturns
  BY <1>3, <1>1 DEF ReadHalf, WriteHalf, IterationDone, HandlerReturns, blocking
<1>4. CASE LockNotifications \/ NotifyNext \/ NotificationsDone
  BY <1>4 DEF LockNotifications, NotifyNext, NotificationsDone, slaves
<1>5. CASE StartBlockingJob
  BY <1>1, <1>5 DEF StartBlockingJob
<1>6. ASSUME NEW f \in FDs, EnqueueJob(f) \/ SignalSelector(f)
      PROVE  SharedTypes'
  BY <1>6 DEF EnqueueJob, SignalSelector, slaves
<1>7. ASSUME NEW f \in FDs, NEW ops \in SUBSET Ops,
             selector_register(f, ops) \/ selector_set_interest(f, ops)
             \/ selector_unregister_fd(f)
      PROVE  UNCHANGED <<slaves, signalling, mutex, signal>>
  BY <1>7 DEF selector_register, selector_set_interest, selector_unregister_fd, blocking
<1>8. CASE UNCHANGED vars
  BY <1>1, <1>8 DEF vars, blocking
<1> QED
  BY <1>1, <1>2, <1>3, <1>4, <1>5, <1>6, <1>7, <1>8 DEF Next, SelectorStep

(* The selector keeps its types, the bounds of the loop over the items among
   them, whatever handlers register while it runs. *)
THEOREM SelectorTypes == Spec => []TypeOK
<1>1. Init => LoopTypes /\ SharedTypes
  <2>1. ASSUME Init PROVE pc = "copy sets" /\ i = 0 /\ n = 0
    BY <2>1 DEF Init
  <2>2. ASSUME Init PROVE SharedTypes
    BY <2>2 DEF Init, SharedTypes
  <2> QED
    <3>1. \A m \in Nat : 0 \in Nat /\ 0 <= m + 1 /\ 0 <= m
      OBVIOUS
    <3>2. ASSUME Init
          PROVE  pc \in Places /\ pc \notin {"read handler", "write half", "write handler"}
      BY <3>2, <2>1 DEF Places
    <3> QED
      BY <2>1, <2>2, <3>1, <3>2, SelectorAssumption, Zenon DEF LoopTypes
<1>2. ASSUME TableInv, JobsInv, LoopTypes, SharedTypes
      PROVE  TypeOK
  <2>1. waiting \subseteq FDs /\ working \subseteq FDs /\ key \in FDs /\ jobs \in Seq(FDs)
    BY <1>2 DEF JobsInv, OneJobPerWaiter, ToSet
  <2>2. /\ pc \in Places
        /\ i \in Nat /\ i <= MaxFd + 1 /\ n \in Nat /\ n <= MaxFd
    BY <1>2 DEF LoopTypes
  <2>3. i \in 0..(MaxFd + 1) /\ n \in FDs
    <3>1. \A x, m \in Nat : x <= m => x \in 0..m
      OBVIOUS
    <3>2. MaxFd \in Nat /\ MaxFd + 1 \in Nat
      BY SelectorAssumption
    <3> QED
      BY <2>2, <3>1, <3>2, Zenon DEF FDs
  <2>4. /\ used \subseteq FDs /\ interest \in [FDs -> SUBSET Ops] /\ max_fd \in FDs
        /\ master_r \subseteq FDs /\ master_w \subseteq FDs
    BY <1>2 DEF TableInv, SetsMirrorItems
  <2>5. /\ slave_r \subseteq FDs /\ slave_w \subseteq FDs /\ signalling \subseteq FDs
        /\ mutex \in BOOLEAN /\ signal \in BOOLEAN
    BY <1>2 DEF SharedTypes
  <2> QED
    BY <2>1, <2>2, <2>3, <2>4, <2>5, Zenon DEF Places, TypeOK
<1> QED
  BY <1>1, <1>2, InitTable, InitJobs, NextTable, NextJobs, NextLoop, NextShared, PTL DEF Spec
-----------------------------------------------------------------------------
(* The safety half of JobsDelivered. *)

\* A result is in the list and the selector is about to sleep: a signal is pending, which
\* pselect delivers, or the thread that put the result there has yet to send it.
WakeupIsComing ==
  pc \in {"copy sets", "pselect"} /\ jobs # << >> => signal \/ signalling # {}

\* The mutex is held over the list and the handlers it calls, and nowhere else, so the
\* selector does not wait for itself.
MutexCoversTheList == mutex <=> pc \in {"drain", "block handler"}

WakeupInv == WakeupIsComing /\ MutexCoversTheList

LEMMA NextWakeup == WakeupInv /\ [Next]_vars => WakeupInv'
<1> SUFFICES ASSUME WakeupInv, [Next]_vars PROVE WakeupInv'
  OBVIOUS
<1> USE DEF WakeupInv, WakeupIsComing, MutexCoversTheList
<1>1. CASE CopySets
  <2>1. pc' = "pselect" /\ pc = "copy sets" /\ UNCHANGED <<mutex, jobs, signalling, signal>>
    BY <1>1 DEF CopySets, blocking
  <2> QED
    BY <2>1
<1>2. CASE PselectReady \/ PselectInterrupted \/ ReadHalf \/ WriteHalf \/ IterationDone
  <2>1. /\ pc \in {"pselect", "item", "write half"}
        /\ pc' \in {"item", "notify", "read handler", "write half", "write handler"}
        /\ UNCHANGED mutex
    BY <1>2, Zenon
    DEF PselectReady, PselectInterrupted, ReadHalf, WriteHalf, IterationDone, blocking
  <2> QED
    BY <2>1
<1>3. CASE LockNotifications \/ NotifyNext \/ NotificationsDone
  BY <1>3 DEF LockNotifications, NotifyNext, NotificationsDone
<1>4. CASE HandlerReturns
  BY <1>4 DEF HandlerReturns, HandlerRuns, blocking
<1>5. CASE StartBlockingJob
  BY <1>5 DEF StartBlockingJob
<1>6. ASSUME NEW f \in FDs, EnqueueJob(f) PROVE WakeupInv'
  <2>1. f \in signalling' /\ UNCHANGED <<pc, mutex>>
    BY <1>6 DEF EnqueueJob
  <2> QED
    BY <2>1
<1>7. ASSUME NEW f \in FDs, SignalSelector(f) PROVE WakeupInv'
  BY <1>7 DEF SignalSelector
<1>8. ASSUME NEW f \in FDs, NEW ops \in SUBSET Ops,
             selector_register(f, ops) \/ selector_set_interest(f, ops)
             \/ selector_unregister_fd(f)
      PROVE  UNCHANGED <<pc, blocking>>
  BY <1>8 DEF selector_register, selector_set_interest, selector_unregister_fd
<1>9. CASE UNCHANGED <<pc, blocking>>
  BY <1>9 DEF blocking
<1>10. CASE UNCHANGED vars
  BY <1>9, <1>10 DEF vars
<1> QED
  BY <1>1, <1>2, <1>3, <1>4, <1>5, <1>6, <1>7, <1>8, <1>9, <1>10 DEF Next, SelectorStep

(* No wake-up is lost between the list of results and pselect, in whatever order the
   threads push and signal and the selector drains and sleeps: it never goes to sleep on
   a result without a signal on its way, and never waits for the mutex that it holds.
   What JobsDelivered adds is that the signal comes and the steps are taken. *)
THEOREM NoWakeupIsLost == Spec => [](WakeupIsComing /\ (pc = "notify" => ~mutex))
<1>1. Init => WakeupInv
  BY DEF Init, WakeupInv, WakeupIsComing, MutexCoversTheList
<1>2. WakeupInv => WakeupIsComing /\ (pc = "notify" => ~mutex)
  BY DEF WakeupInv, MutexCoversTheList
<1> QED
  BY <1>1, <1>2, NextWakeup, PTL DEF Spec
=============================================================================
