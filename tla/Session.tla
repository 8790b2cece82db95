------------------------------ MODULE Session -------------------------------
(***************************************************************************)
(* What the proxy promises of each client's session, whatever happens to   *)
(* the others: it goes through the phases of a SOCKSv5 dialogue in order,  *)
(* holds the descriptors of its two ends exactly from when it gets them to *)
(* when it is closed, relays only while it has both, and no step of        *)
(* another session touches it.                                             *)
(***************************************************************************)
CONSTANT Conns

VARIABLES phase, ends

Phases == {"closed", "greeting", "authenticating", "requesting", "resolving",
           "connecting", "answering", "relaying"}

Both == {"client", "origin"}

\* The phases that may come after each one.
Follows ==
  [closed |-> {}, greeting |-> {"authenticating", "requesting"},
   authenticating |-> {"requesting"}, requesting |-> {"resolving", "connecting"},
   resolving |-> {"connecting", "answering"}, connecting |-> {"connecting", "answering"},
   answering |-> {"relaying"}, relaying |-> {}]

Init == /\ phase = [c \in Conns |-> "closed"]
        /\ ends = [c \in Conns |-> {}]

Move(c, p, e) == /\ phase' = [phase EXCEPT ![c] = p]
                 /\ ends' = [ends EXCEPT ![c] = e]

Open(c) == phase[c] = "closed" /\ Move(c, "greeting", {"client"})

Proceed(c) ==
  \E p \in Follows[phase[c]] :
    /\ p = "relaying" => ends[c] = Both
    /\ \E e \in {{"client"}, Both} :
         /\ "connecting" \notin {p, phase[c]} => e = ends[c]
         /\ Move(c, p, e)

Close(c) == phase[c] # "closed" /\ Move(c, "closed", {})

Next == \E c \in Conns : Open(c) \/ Proceed(c) \/ Close(c)

Spec == Init /\ [][Next]_<<phase, ends>>
=============================================================================
