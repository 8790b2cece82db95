------------------------------ MODULE Selector ------------------------------
(***************************************************************************)
(* src/src/selector.c: the multiplexer all of the proxy runs on.  One      *)
(* thread executes selector_select in a loop: it polls the registered      *)
(* descriptors, calls their handlers, and then hands out the results of    *)
(* the blocking jobs (DNS resolutions) that other threads have finished.   *)
(*                                                                         *)
(* A handler is arbitrary code: while one runs it may register, unregister *)
(* and change the interest of any descriptor, and start a blocking job for *)
(* its own.  Its one obligation, which Socks5 meets (JobsBelongToResolv),  *)
(* is not to unregister a descriptor with a job under way.                 *)
(***************************************************************************)
EXTENDS Integers, Sequences, SequencesExt

CONSTANTS MaxFd,      \* highest descriptor number in play
          TimesOut    \* whether pselect's timeout ever expires

ASSUME SelectorAssumption == MaxFd \in Nat /\ TimesOut \in BOOLEAN

FDs == 0..MaxFd
Ops == {"READ", "WRITE"}          \* OP_READ, OP_WRITE; OP_NOOP is {}

VARIABLES
  used,        \* the descriptors whose item is in use
  interest,    \* item->interest
  master_r, master_w, max_fd,
  slave_r, slave_w,
  pc,          \* where the selector thread is inside selector_select
  i, n,        \* the loop variable and bound of handle_iteration
  key,         \* the descriptor whose handler runs
  mutex,       \* whether handle_block_notifications holds resolution_mutex
  jobs,        \* resolution_jobs, newest first
  working,     \* descriptors whose blocking thread has not finished
  signalling,  \* threads that enqueued their result, before pthread_kill
  signal,      \* the notification signal is pending
  waiting      \* descriptors that asked for a job and were not notified yet

items    == <<used, interest, master_r, master_w, max_fd>>
slaves   == <<slave_r, slave_w>>
loop     == <<i, n, key>>
blocking == <<mutex, jobs, working, signalling, signal, waiting>>
vars     == <<items, slaves, pc, loop, blocking>>

HandlerRuns == pc \in {"read handler", "write handler", "block handler"}

TypeOK ==
  /\ used \subseteq FDs /\ interest \in [FDs -> SUBSET Ops]
  /\ master_r \subseteq FDs /\ master_w \subseteq FDs /\ max_fd \in FDs
  /\ slave_r \subseteq FDs /\ slave_w \subseteq FDs
  /\ pc \in {"copy sets", "pselect", "item", "write half", "notify", "drain",
             "read handler", "write handler", "block handler"}
  /\ i \in 0..(MaxFd + 1) /\ n \in FDs /\ key \in FDs
  /\ mutex \in BOOLEAN /\ jobs \in Seq(FDs)
  /\ working \subseteq FDs /\ signalling \subseteq FDs
  /\ signal \in BOOLEAN /\ waiting \subseteq FDs

\* selector_new, and main.c's registration of the passive socket on fd 0.
Init ==
  /\ used = {0} /\ interest = [f \in FDs |-> IF f = 0 THEN {"READ"} ELSE {}]
  /\ master_r = {0} /\ master_w = {} /\ max_fd = 0
  /\ slave_r = {} /\ slave_w = {}
  /\ pc = "copy sets" /\ i = 0 /\ n = 0 /\ key = 0
  /\ mutex = FALSE /\ jobs = << >> /\ working = {} /\ signalling = {}
  /\ signal = FALSE /\ waiting = {}
-----------------------------------------------------------------------------
(* The registration table. *)

items_update_fdset_for_fd(f, ops) ==
  /\ master_r' = IF "READ"  \in ops THEN master_r \cup {f} ELSE master_r \ {f}
  /\ master_w' = IF "WRITE" \in ops THEN master_w \cup {f} ELSE master_w \ {f}

\* A mutated form: the scan stops one descriptor early.
items_max_fd_Short(U) ==
  LET in == {f \in U : f < max_fd}
  IN  IF in = {} THEN 0 ELSE CHOOSE m \in in : \A f \in in : f <= m

\* Scans the items up to the old maximum.
items_max_fd(U) ==
  LET in == {f \in U : f <= max_fd}
  IN  IF in = {} THEN 0 ELSE CHOOSE m \in in : \A f \in in : f <= m

selector_register(f, ops) ==
  /\ HandlerRuns
  /\ f \notin used                                   \* else SELECTOR_FDINUSE
  /\ used' = used \cup {f}
  /\ interest' = [interest EXCEPT ![f] = ops]
  /\ max_fd' = IF f > max_fd THEN f ELSE max_fd
  /\ items_update_fdset_for_fd(f, ops)
  /\ UNCHANGED <<slaves, pc, loop, blocking>>

selector_unregister_fd(f) ==
  /\ HandlerRuns
  /\ f \in used                                      \* else SELECTOR_IARGS
  /\ f \notin waiting
  /\ used' = used \ {f}
  /\ interest' = [interest EXCEPT ![f] = {}]
  /\ items_update_fdset_for_fd(f, {})
  /\ max_fd' = items_max_fd(used \ {f})
  /\ UNCHANGED <<slaves, pc, loop, blocking>>

selector_set_interest(f, ops) ==
  /\ HandlerRuns
  /\ f \in used                                      \* else SELECTOR_IARGS
  /\ interest' = [interest EXCEPT ![f] = ops]
  /\ items_update_fdset_for_fd(f, ops)
  /\ UNCHANGED <<used, max_fd, slaves, pc, loop, blocking>>

\* A handler starts a thread for a blocking job on its own descriptor.
StartBlockingJob ==
  /\ HandlerRuns /\ key \in used /\ key \notin waiting
  /\ waiting' = waiting \cup {key}
  /\ working' = working \cup {key}
  /\ UNCHANGED <<items, slaves, pc, loop, mutex, jobs, signalling, signal>>
-----------------------------------------------------------------------------
(* selector_select, one iteration after another (the loop is main.c's). *)

CopySets ==
  /\ pc = "copy sets" /\ pc' = "pselect"
  /\ slave_r' = master_r /\ slave_w' = master_w
  /\ UNCHANGED <<items, loop, blocking>>

\* pselect reports ready descriptors below max_fd + 1; a pending signal is
\* not consumed then.
PselectReady ==
  /\ pc = "pselect" /\ pc' = "item"
  /\ slave_r' \in SUBSET (slave_r \cap 0..max_fd)
  /\ slave_w' \in SUBSET (slave_w \cap 0..max_fd)
  /\ TimesOut \/ slave_r' # {} \/ slave_w' # {}
  /\ i' = 0 /\ n' = max_fd
  /\ UNCHANGED <<items, key, blocking>>

\* The signal is only deliverable inside pselect, which then returns EINTR;
\* handle_iteration is skipped.
PselectInterrupted ==
  /\ pc = "pselect" /\ signal /\ pc' = "notify"
  /\ signal' = FALSE
  /\ UNCHANGED <<items, slaves, loop, mutex, jobs, working, signalling, waiting>>

\* for (i = 0; i <= n; i++): the read half.
ReadHalf ==
  /\ pc = "item" /\ i <= n
  /\ IF i \notin used
       THEN i' = i + 1 /\ UNCHANGED <<pc, key>>
       ELSE /\ pc' = IF i \in slave_r /\ "READ" \in interest[i]
                       THEN "read handler" ELSE "write half"
            /\ key' = i
            /\ UNCHANGED i
  /\ UNCHANGED <<items, slaves, n, blocking>>

\* The write half looks at the interest again: the read handler may have
\* changed it or unregistered the item.
WriteHalf ==
  /\ pc = "write half"
  /\ IF i \in slave_w /\ "WRITE" \in interest[i]
       THEN pc' = "write handler" /\ UNCHANGED i
       ELSE pc' = "item" /\ i' = i + 1
  /\ UNCHANGED <<items, slaves, n, key, blocking>>

IterationDone ==
  /\ pc = "item" /\ i > n /\ pc' = "notify"
  /\ UNCHANGED <<items, slaves, loop, blocking>>

\* handle_block_notifications takes the mutex and keeps it for the whole list.
LockNotifications ==
  /\ pc = "notify" /\ ~mutex
  /\ mutex' = TRUE /\ pc' = "drain"
  /\ UNCHANGED <<items, slaves, loop, jobs, working, signalling, signal, waiting>>

NotifyNext ==
  /\ pc = "drain" /\ jobs # << >>
  /\ IF Head(jobs) \in used
       THEN pc' = "block handler" /\ key' = Head(jobs)
       ELSE UNCHANGED <<pc, key>>
  /\ jobs' = Tail(jobs)
  /\ waiting' = waiting \ {Head(jobs)}
  /\ UNCHANGED <<items, slaves, i, n, mutex, working, signalling, signal>>

NotificationsDone ==
  /\ pc = "drain" /\ jobs = << >>
  /\ mutex' = FALSE /\ pc' = "copy sets"
  /\ UNCHANGED <<items, slaves, loop, jobs, working, signalling, signal, waiting>>

HandlerReturns ==
  /\ HandlerRuns
  /\ pc' = CASE pc = "read handler"  -> "write half"
             [] pc = "write handler" -> "item"
             [] pc = "block handler" -> "drain"
  /\ i' = IF pc = "write handler" THEN i + 1 ELSE i
  /\ UNCHANGED <<items, slaves, n, key, blocking>>

SelectorStep ==
  CopySets \/ PselectReady \/ PselectInterrupted \/ ReadHalf \/ WriteHalf
  \/ IterationDone \/ LockNotifications \/ NotifyNext \/ NotificationsDone
-----------------------------------------------------------------------------
(* selector_notify_block, called by the thread of descriptor f. *)

\* A mutated form: the finished job overwrites the list.
EnqueueJob_Overwrite(f) ==
  /\ f \in working /\ ~mutex
  /\ jobs' = <<f>>
  /\ working' = working \ {f}
  /\ signalling' = signalling \cup {f}
  /\ UNCHANGED <<items, slaves, pc, loop, mutex, signal, waiting>>

\* Under the mutex, the job becomes the first of the list.
EnqueueJob(f) ==
  /\ f \in working /\ ~mutex
  /\ jobs' = <<f>> \o jobs
  /\ working' = working \ {f}
  /\ signalling' = signalling \cup {f}
  /\ UNCHANGED <<items, slaves, pc, loop, mutex, signal, waiting>>

\* A mutated form: nobody is signalled.
SignalSelector_Forgotten(f) ==
  /\ f \in signalling
  /\ signalling' = signalling \ {f}
  /\ UNCHANGED <<items, slaves, pc, loop, mutex, jobs, working, signal, waiting>>

\* pthread_kill(s->selector_thread, conf.signal), after the mutex is released.
SignalSelector(f) ==
  /\ f \in signalling
  /\ signalling' = signalling \ {f}
  /\ signal' = TRUE
  /\ UNCHANGED <<items, slaves, pc, loop, mutex, jobs, working, waiting>>

Next ==
  \/ SelectorStep
  \/ HandlerReturns
  \/ StartBlockingJob
  \/ \E f \in FDs :
       \/ \E ops \in SUBSET Ops : selector_register(f, ops) \/ selector_set_interest(f, ops)
       \/ selector_unregister_fd(f)
       \/ EnqueueJob(f)
       \/ SignalSelector(f)

(* The selector thread never stops between two polls, handlers return, and a
   thread with a finished job is scheduled; it gets the mutex in the end
   although the selector takes it again in every iteration.  Nothing is
   assumed of the descriptors: they need never become ready. *)
Fairness ==
  /\ WF_vars(SelectorStep)
  /\ WF_vars(HandlerReturns)
  /\ \A f \in FDs : SF_vars(EnqueueJob(f)) /\ WF_vars(SignalSelector(f))

Spec == Init /\ [][Next]_vars

FairSpec == Spec /\ Fairness
-----------------------------------------------------------------------------
SetsMirrorItems ==
  /\ master_r = {f \in used : "READ" \in interest[f]}
  /\ master_w = {f \in used : "WRITE" \in interest[f]}

MaxFdIsTight ==
  /\ \A f \in used : f <= max_fd
  /\ max_fd # 0 => max_fd \in used

(* The sets given to pselect and its nfds argument say what the items say,
   whatever handlers do to the table in the middle of an iteration: a
   descriptor left out would never be served, one left in would be polled
   after it was closed. *)
TableMirrorsItems == SetsMirrorItems /\ MaxFdIsTight

(* Every descriptor that waits for a job has exactly one: with its thread, or
   once in the list.  No result is dropped or handed out twice. *)
OneJobPerWaiter ==
  /\ waiting = working \cup ToSet(jobs)
  /\ working \cap ToSet(jobs) = {}
  /\ IsInjective(jobs)

(* selector.h promises that a job's result reaches its handler: no wake-up is
   lost between the list and pselect, even if no descriptor is ever ready and
   the timeout never expires. *)
JobsDelivered == \A f \in FDs : f \in waiting ~> f \notin waiting
=============================================================================
