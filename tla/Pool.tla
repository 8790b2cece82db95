-------------------------------- MODULE Pool --------------------------------
(***************************************************************************)
(* The memory of connections: the pools of struct socks5 that socks5nio.c  *)
(* and management.c keep, the references that tell when a struct goes back *)
(* to one, and what main does with all of it when a signal ends the        *)
(* process.  What a connection does meanwhile is in Socks5 and Management; *)
(* here it registers and unregisters descriptors.                          *)
(***************************************************************************)
EXTENDS Integers, Sequences, FiniteSets, Functions

CONSTANTS
  Blocks,       \* the memory that malloc may give for a struct
  fd_size,      \* items of the selector
  max_pool,     \* 50: of each pool
  MaxReferences \* bound of the model: how far RegistersTwice may take references

ASSUME PoolAssumption == fd_size \in Nat /\ max_pool \in Nat

VARIABLES
  memory,       \* of each block: "free", or the kind of connection it is allocated to
  references,   \* of each block, the field
  pool,         \* of each kind, the list from its head: pool, mng_pool
  pool_size,    \* of each kind: pool_size, mng_pool_size
  item,         \* of each descriptor: the struct registered for it, and as what
  resolving,    \* the structs that a resolver thread works for
  pc,           \* of main
  freed_twice,  \* history: the structs that were used or freed after they were freed
  overcounted   \* history: the structs with a reference too many

heapVars == <<memory, references, pool, pool_size, freed_twice>>
vars == <<heapVars, item, resolving, pc, overcounted>>

Kinds == {"socks", "mng"}
Descriptors == 0..(fd_size - 1)
Items == [block : Blocks, role : {"client", "origin"}]
Unused == [role |-> "unused"]

ItemsOf(b) == {f \in Descriptors : item[f] # Unused /\ item[f].block = b}
ItemsAs(b, role) == {f \in ItemsOf(b) : item[f].role = role}

\* main: the loop, the index of the loop of selector_destroy, and the pools one by one.
Serving == [at |-> "serving"]
Unregistering(i) == [at |-> "selector_destroy", next |-> i]
Destroying(k) == [at |-> "pool_destroy", kind |-> k]
Exited == [at |-> "exited"]

Init ==
  /\ memory = [b \in Blocks |-> "free"] /\ references = [b \in Blocks |-> 0]
  /\ pool = [k \in Kinds |-> << >>] /\ pool_size = [k \in Kinds |-> 0]
  /\ item = [f \in Descriptors |-> Unused]
  /\ resolving = {} /\ pc = Serving
  /\ freed_twice = {} /\ overcounted = {}
-----------------------------------------------------------------------------
(* The heap as one record, so that a handler may call twice. *)

Heap ==
  [memory |-> memory, references |-> references, pool |-> pool, pool_size |-> pool_size,
   freed_twice |-> freed_twice]

HeapBecomes(h) ==
  /\ memory' = h.memory /\ references' = h.references
  /\ pool' = h.pool /\ pool_size' = h.pool_size
  /\ freed_twice' = h.freed_twice

\* A mutated form: the struct stays in the pool.
Reused_Kept(h, k) == [h EXCEPT !.references[Head(h.pool[k])] = 1]

\* The head of the pool; pool_size stays.
Reused(h, k) ==
  [h EXCEPT !.pool[k] = Tail(@), !.references[Head(h.pool[k])] = 1]

Malloc(h, k, b) == [h EXCEPT !.memory[b] = k, !.references[b] = 1]

\* What socks5_new may give.  malloc may fail, and then nothing comes of the connection.
socks5_new(h, k) ==
  IF h.pool[k] # << >> THEN {[block |-> Head(h.pool[k]), heap |-> Reused(h, k)]}
  ELSE {[block |-> b, heap |-> Malloc(h, k, b)] : b \in {x \in Blocks : h.memory[x] = "free"}}

Free(h, b) == [h EXCEPT !.memory[b] = "free",
                            !.freed_twice = IF h.memory[b] = "free" THEN @ \cup {b} ELSE @]

Push(h, k, b) == [h EXCEPT !.pool[k] = <<b>> \o @, !.pool_size[k] = @ + 1]

\* A mutated form: the size is not tested.
GiveBack_Always(h, k, b) == Push(h, k, b)

GiveBack(h, k, b) == IF h.pool_size[k] < max_pool THEN Push(h, k, b) ELSE Free(h, b)

WithoutOne(h, b) == [h EXCEPT !.references[b] = @ - 1]

\* A mutated form: the references are not looked at.
socks5_destroy_AtOnce(h, k, b) == GiveBack(h, k, b)

\* socks5_destroy and mng_destroy.
socks5_destroy(h, k, b) ==
  CASE h.memory[b] = "free"                        -> [h EXCEPT !.freed_twice = @ \cup {b}]
    [] h.memory[b] # "free" /\ h.references[b] = 1 -> GiveBack(h, k, b)
    [] OTHER                                       -> WithoutOne(h, b)

\* selector_unregister_fd calls handle_close of the item's handler.
Closed(h, f) == LET b == item[f].block IN socks5_destroy(h, memory[b], b)
-----------------------------------------------------------------------------
(* The main thread, serving. *)

IsServing == pc = Serving

\* socksv5_passive_accept, mng_passive_accept.
passive_accept(k, f) ==
  /\ IsServing /\ item[f] = Unused
  /\ \E new \in socks5_new(Heap, k) :
       /\ HeapBecomes(new.heap)
       /\ item' = [item EXCEPT ![f] = [block |-> new.block, role |-> "client"]]
  /\ UNCHANGED <<resolving, pc, overcounted>>

\* ... selector_register refuses a descriptor that select cannot handle.
AcceptFails(k) ==
  /\ IsServing
  /\ \E new \in socks5_new(Heap, k) : HeapBecomes(socks5_destroy(new.heap, k, new.block))
  /\ UNCHANGED <<item, resolving, pc, overcounted>>

\* A connection without an origin yet.
IsAlone(b) == memory[b] = "socks" /\ ItemsAs(b, "client") # {} /\ references[b] = 1

\* connection(): the origin's descriptor is registered for the same struct.
RegistersOrigin(b, f) ==
  /\ IsServing /\ IsAlone(b) /\ b \notin resolving
  /\ item[f] = Unused
  /\ item' = [item EXCEPT ![f] = [block |-> b, role |-> "origin"]]
  /\ references' = [references EXCEPT ![b] = @ + 1]
  /\ UNCHANGED <<memory, pool, pool_size, freed_twice, resolving, pc, overcounted>>

\* ... it is registered already, which is found out after references went up.
RegistersTwice(b) ==
  /\ IsServing /\ references[b] < MaxReferences
  /\ ItemsAs(b, "client") # {} /\ ItemsAs(b, "origin") # {}
  /\ references' = [references EXCEPT ![b] = @ + 1]
  /\ overcounted' = overcounted \cup {b}
  /\ UNCHANGED <<memory, pool, pool_size, freed_twice, item, resolving, pc>>

\* connecting_write gives up the origin's number, perhaps one that another
\* connection has left behind.
GivesUpOrigin(f) ==
  /\ IsServing /\ item[f] # Unused /\ item[f].role = "origin"
  /\ HeapBecomes(Closed(Heap, f))
  /\ item' = [item EXCEPT ![f] = Unused]
  /\ UNCHANGED <<resolving, pc, overcounted>>

\* socksv5_done, mng_done: the client's descriptor and the origin's, if the
\* struct knows of it.
Done(f) ==
  /\ IsServing /\ item[f] # Unused /\ item[f].role = "client"
  /\ LET b == item[f].block IN
     /\ b \notin resolving
     /\ \/ HeapBecomes(Closed(Heap, f)) /\ item' = [item EXCEPT ![f] = Unused]
        \/ \E o \in ItemsAs(b, "origin") :
             /\ HeapBecomes(Closed(Closed(Heap, f), o))
             /\ item' = [item EXCEPT ![f] = Unused, ![o] = Unused]
  /\ UNCHANGED <<resolving, pc, overcounted>>

\* request_process: pthread_create.
StartsResolver(b) ==
  /\ IsServing /\ IsAlone(b)
  /\ resolving' = resolving \cup {b}
  /\ UNCHANGED <<heapVars, item, pc, overcounted>>

\* selector_notify_block and what the thread did before; the process is still there.
ResolverEnds(b) ==
  /\ pc # Exited /\ b \in resolving
  /\ resolving' = resolving \ {b}
  /\ UNCHANGED <<heapVars, item, pc, overcounted>>
-----------------------------------------------------------------------------
(* The end of main. *)

\* SIGTERM, SIGINT, or pselect failed.
Stops ==
  /\ IsServing /\ pc' = Unregistering(0)
  /\ UNCHANGED <<heapVars, item, resolving, overcounted>>

\* A mutated form: the last item is left out.
IsLastItem_Early(i) == i >= fd_size - 1
IsLastItem(i) == i >= fd_size

\* One turn of the loop of selector_destroy.
selector_destroy ==
  /\ pc.at = "selector_destroy"
  /\ IF IsLastItem(pc.next)
       THEN pc' = Destroying("mng") /\ UNCHANGED <<heapVars, item>>
       ELSE /\ pc' = Unregistering(pc.next + 1)
            /\ IF item[pc.next] = Unused THEN UNCHANGED <<heapVars, item>>
               ELSE /\ HeapBecomes(Closed(Heap, pc.next))
                    /\ item' = [item EXCEPT ![pc.next] = Unused]
  /\ UNCHANGED <<resolving, overcounted>>

\* mng_pool_destroy, then socksv5_pool_destroy: next is read before the free.
pool_destroy ==
  /\ pc.at = "pool_destroy"
  /\ LET list == Range(pool[pc.kind]) IN
     /\ memory' = [b \in Blocks |-> IF b \in list THEN "free" ELSE memory[b]]
     /\ freed_twice' = freed_twice \cup
          {b \in list : memory[b] = "free" \/ ~IsInjective(pool[pc.kind])}
  /\ pc' = IF pc.kind = "mng" THEN Destroying("socks") ELSE Exited
  /\ UNCHANGED <<references, pool, pool_size, item, resolving, overcounted>>
-----------------------------------------------------------------------------
Next ==
  \/ \E k \in Kinds : AcceptFails(k) \/ \E f \in Descriptors : passive_accept(k, f)
  \/ \E b \in Blocks : RegistersTwice(b) \/ \E f \in Descriptors : RegistersOrigin(b, f)
  \/ \E f \in Descriptors : GivesUpOrigin(f) \/ Done(f)
  \/ \E b \in Blocks : StartsResolver(b) \/ ResolverEnds(b)
  \/ Stops \/ selector_destroy \/ pool_destroy

Spec == Init /\ [][Next]_vars
-----------------------------------------------------------------------------
Places ==
  {Serving, Exited} \cup {Unregistering(i) : i \in 0..fd_size} \cup {Destroying(k) : k \in Kinds}

TypeOK ==
  /\ memory \in [Blocks -> Kinds \cup {"free"}]
  /\ references \in [Blocks -> Nat]
  /\ pool \in [Kinds -> Seq(Blocks)] /\ pool_size \in [Kinds -> 0..max_pool]
  /\ item \in [Descriptors -> Items \cup {Unused}]
  /\ resolving \subseteq Blocks /\ overcounted \subseteq Blocks /\ freed_twice \subseteq Blocks
  /\ pc \in Places

\* A pool is in order until main destroys it.
Keeps(k) ==
  \/ pc.at \in {"serving", "selector_destroy"}
  \/ pc.at = "pool_destroy" /\ (pc.kind = k \/ k = "socks")

(* socks5_new and socks5_destroy: no struct is at the same time in the pool and
   behind a descriptor, nor twice in the pool, nor in the pool of the other
   protocol, where two connections would get the same one. *)
PoolsAreSound ==
  \A k \in Kinds : Keeps(k) =>
    /\ IsInjective(pool[k]) /\ Len(pool[k]) <= pool_size[k]
    /\ \A b \in Range(pool[k]) : memory[b] = k /\ ItemsOf(b) = {}

(* References, pools and the loops at the end of main free each struct once,
   and no descriptor leads to a freed one. *)
FreedOnce ==
  /\ freed_twice = {}
  /\ \A f \in Descriptors : item[f] # Unused => memory[item[f].block] # "free"

(* When the process ends every struct has been freed, pooled or not, open
   connection or not, but those with a reference too many. *)
AllFreedInTheEnd == pc = Exited => \A b \in Blocks : memory[b] # "free" => b \in overcounted
=============================================================================
