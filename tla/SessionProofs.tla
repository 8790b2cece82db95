---------------------------- MODULE SessionProofs ----------------------------
(***************************************************************************)
(* Proof that Socks5 implements Session: descriptor numbers are reused and *)
(* handlers unregister and close by number, yet every connection goes      *)
(* through the phases of its dialogue with its own two descriptors, and a  *)
(* step of one connection is a stutter of every other.                     *)
(*                                                                         *)
(* Then, with the same division of steps, that the references of a struct  *)
(* socks5 count its registered descriptors, and at the end that attempts   *)
(* to connect run out.                                                     *)
(***************************************************************************)
EXTENDS Socks5Proofs, FiniteSetTheorems

\* A connection that is over kept no item at the numbers of its descriptors,
\* which others have by now.
EndedInv ==
  \A c \in Conns : State(c) = "DONE" =>
    \A f \in FDs : item[f] = c => f # ClientFd(c) /\ f # OriginFd(c)

SessionInv == ProxyInv /\ EndedInv

\* What Session's ends are of a connection.
HasOrigin(c) == OriginFd(c) # NoFd /\ item[OriginFd(c)] = c

EndsOf(c) == IF ~Live(c) THEN {}
             ELSE IF HasOrigin(c) THEN {"client", "origin"} ELSE {"client"}

EndsAgree == \A c \in Conns : Ends(c) = EndsOf(c)

(* The abstract ends of every connection. *)
LEMMA EndsAreEndsOf == SessionInv => EndsAgree
<1> SUFFICES ASSUME SessionInv, NEW c \in Conns PROVE Ends(c) = EndsOf(c)
  BY DEF EndsAgree
<1>1. /\ EndsInv(c) /\ ItemsInv(c) /\ conn[c] \in Connections
  BY ProxyFacts DEF SessionInv
<1>2. CASE Live(c)
  <2>1. Holds(c, ClientFd(c))
    BY <1>1, <1>2 DEF EndsInv, Holds
  <2>2. Holds(c, OriginFd(c)) <=> HasOrigin(c)
    BY <1>1, <1>2, NoFdIsNoFD DEF EndsInv, Holds, HasOrigin, OriginFd, Connections
  <2> QED BY <1>2, <2>1, <2>2 DEF Ends, EndsOf, ClientFd, OriginFd
<1>3. CASE ~Live(c)
  <2>1. ~Holds(c, ClientFd(c)) /\ ~Holds(c, OriginFd(c))
    BY <1>1, <1>3 DEF ItemsInv, Holds, SessionInv, EndedInv, Live, State
  <2> QED BY <1>3, <2>1 DEF Ends, EndsOf, ClientFd, OriginFd
<1> QED BY <1>2, <1>3

\* What a step for one connection does to another one, d: nothing that Session
\* sees.  (A struct without items may be given back, an item left behind lost.)
Undisturbed(d) ==
  /\ \A f \in FDs : item'[f] = d => item[f] = d
  /\ \/ /\ State(d)' = State(d)
        /\ ClientFd(d)' = ClientFd(d) /\ OriginFd(d)' = OriginFd(d)
        /\ HasOrigin(d) /\ Live(d) => HasOrigin(d)'
     \/ ~Live(d) /\ State(d)' = "free"

(* A connection that is undisturbed keeps its phase and its ends. *)
LEMMA UndisturbedFacts ==
  ASSUME SessionInv, NEW d \in Conns, Undisturbed(d)
  PROVE  Phase(d)' = Phase(d) /\ EndsOf(d)' = EndsOf(d)
<1>1. CASE ~Live(d) /\ State(d)' = "free"
  BY <1>1 DEF Phase, EndsOf, Live, State
<1>2. CASE /\ State(d)' = State(d)
           /\ ClientFd(d)' = ClientFd(d) /\ OriginFd(d)' = OriginFd(d)
           /\ HasOrigin(d) /\ Live(d) => HasOrigin(d)'
  <2>1. Phase(d)' = Phase(d)
    BY <1>2 DEF Phase, State
  <2>2. Live(d)' <=> Live(d)
    BY <1>2 DEF Live, State
  <2>3. Live(d) => (HasOrigin(d)' <=> HasOrigin(d))
    <3>1. conn[d] \in Connections
      BY ProxyFacts DEF SessionInv
    <3>2. OriginFd(d) \in FDs \cup {NoFd}
      BY <3>1 DEF OriginFd, Connections
    <3> QED BY <1>2, <3>2 DEF HasOrigin, Undisturbed
  <2> QED BY <2>1, <2>2, <2>3 DEF EndsOf
<1> QED BY <1>1, <1>2 DEF Undisturbed

(* The phase of each state. *)
LEMMA Phases ==
  ASSUME NEW c \in Conns, conn[c] \in Connections
  PROVE  /\ Live(c) <=> Phase(c) # "closed"
         /\ State(c) \in {"free", "DONE"} => Phase(c) = "closed"
         /\ State(c) \in {"HELLO_READ", "HELLO_WRITE"} => Phase(c) = "greeting"
         /\ State(c) \in {"USERPASS_READ", "USERPASS_WRITE"} => Phase(c) = "authenticating"
         /\ State(c) = "REQUEST_READ" => Phase(c) = "requesting"
         /\ State(c) = "REQUEST_RESOLV" => Phase(c) = "resolving"
         /\ State(c) = "REQUEST_CONNECTING" => Phase(c) = "connecting"
         /\ State(c) = "REQUEST_WRITE" => Phase(c) = "answering"
         /\ State(c) = "COPY" => Phase(c) = "relaying"
<1>1. State(c) \in States
  BY DEF State, Connections
<1> QED BY <1>1 DEF Phase, Live, State, States
-----------------------------------------------------------------------------
(* The moves of Session. *)

\* The states that one step of a handler may lead to, but for the end of the
\* connection.
Leads ==
  {<<"HELLO_READ", "HELLO_READ">>, <<"HELLO_READ", "HELLO_WRITE">>,
   <<"HELLO_WRITE", "HELLO_WRITE">>, <<"HELLO_WRITE", "USERPASS_READ">>,
   <<"HELLO_WRITE", "REQUEST_READ">>,
   <<"USERPASS_READ", "USERPASS_READ">>, <<"USERPASS_READ", "USERPASS_WRITE">>,
   <<"USERPASS_WRITE", "USERPASS_WRITE">>, <<"USERPASS_WRITE", "REQUEST_READ">>,
   <<"REQUEST_READ", "REQUEST_READ">>, <<"REQUEST_READ", "REQUEST_RESOLV">>,
   <<"REQUEST_READ", "REQUEST_CONNECTING">>,
   <<"REQUEST_RESOLV", "REQUEST_RESOLV">>, <<"REQUEST_RESOLV", "REQUEST_CONNECTING">>,
   <<"REQUEST_RESOLV", "REQUEST_WRITE">>,
   <<"REQUEST_CONNECTING", "REQUEST_CONNECTING">>, <<"REQUEST_CONNECTING", "REQUEST_WRITE">>,
   <<"REQUEST_WRITE", "REQUEST_WRITE">>, <<"REQUEST_WRITE", "COPY">>, <<"COPY", "COPY">>}

\* The record r has the descriptors and the references of connection c.
SameEnds(r, c) ==
  /\ r.client_fd = ClientFd(c) /\ r.origin_fd = OriginFd(c)
  /\ r.references = conn[c].references

\* What a step does to the connection c it is for.
GoesOn(c) ==
  /\ <<State(c), State(c)'>> \in Leads
  /\ State(c)' # "REQUEST_CONNECTING" /\ State(c) # "REQUEST_CONNECTING" =>
       /\ SameEnds(conn'[c], c) /\ UNCHANGED <<item, sock>>
       /\ \A d \in Conns \ {c} : conn'[d] = conn[d]
Opens(c) == ~Live(c) /\ Live(c)' /\ State(c)' = "HELLO_READ"
Closes(c) == Live(c) /\ ~Live(c)' /\ socksv5_done(c)

(* The initial phases and what may follow each. *)
LEMMA FollowsFacts ==
  /\ {"authenticating", "requesting"} \subseteq Sessions!Follows["greeting"]
  /\ "requesting" \in Sessions!Follows["authenticating"]
  /\ {"resolving", "connecting"} \subseteq Sessions!Follows["requesting"]
  /\ {"connecting", "answering"} \subseteq Sessions!Follows["resolving"]
  /\ {"connecting", "answering"} \subseteq Sessions!Follows["connecting"]
  /\ "relaying" \in Sessions!Follows["answering"]
BY DEF Sessions!Follows

(* A step that leaves all but one connection alone, and does one of these to
   that one, is a step of Session or a stutter. *)
LEMMA SessionMoves ==
  ASSUME SessionInv, SessionInv', EndsAgree', NEW c \in Conns, \A d \in Conns \ {c} : Undisturbed(d),
         GoesOn(c) \/ Opens(c) \/ Closes(c)
  PROVE  Sessions!Next \/ UNCHANGED <<[d \in Conns |-> Phase(d)], [d \in Conns |-> Ends(d)]>>
<1>1. /\ \A d \in Conns : Ends(d) = EndsOf(d) /\ Ends(d)' = EndsOf(d)'
      /\ \A d \in Conns \ {c} : Phase(d)' = Phase(d) /\ Ends(d)' = Ends(d)
  BY EndsAreEndsOf, UndisturbedFacts DEF EndsAgree
<1>2. ASSUME NEW p, NEW e, Phase(c)' = p, Ends(c)' = e PROVE Sessions!Move(c, p, e)
  <2>1. [d \in Conns |-> Phase(d)]' = [[d \in Conns |-> Phase(d)] EXCEPT ![c] = p]
    BY <1>1, <1>2
  <2>2. [d \in Conns |-> Ends(d)]' = [[d \in Conns |-> Ends(d)] EXCEPT ![c] = e]
    BY <1>1, <1>2
  <2> QED BY <2>1, <2>2 DEF Sessions!Move
<1>3. /\ EndsInv(c) /\ conn[c] \in Connections
      /\ (EndsInv(c))' /\ conn'[c] \in Connections
  BY ProxyFacts DEF SessionInv, ProxyInv, ConnInv, TypeOK
<1>4. /\ Live(c) <=> Phase(c) # "closed"
      /\ (Live(c) <=> Phase(c) # "closed")'
  <2>1. Live(c) <=> Phase(c) # "closed"
    BY <1>3, Phases
  <2>2. (Live(c) <=> Phase(c) # "closed")'
    BY <1>3 DEF Phase, Live, Connections, States
  <2> QED BY <2>1, <2>2
<1>6. CASE Opens(c)
  <2>1. /\ Phase(c) = "closed" /\ Phase(c)' = "greeting" /\ Ends(c)' = {"client"}
    BY <1>1, <1>3, <1>4, <1>6 DEF Opens, EndsInv, EndsOf, HasOrigin, EarlyStates, Phase, State
  <2>2. Sessions!Open(c)
    BY <1>2, <2>1 DEF Sessions!Open
  <2> QED BY <2>2 DEF Sessions!Next
<1>7. CASE Closes(c)
  <2>1. Phase(c) # "closed" /\ Phase(c)' = "closed" /\ Ends(c)' = {}
    BY <1>1, <1>4, <1>7 DEF Closes, EndsOf
  <2>2. Sessions!Close(c)
    BY <1>2, <2>1 DEF Sessions!Close
  <2> QED BY <2>2 DEF Sessions!Next
<1>8. CASE GoesOn(c)
  <2>1. Live(c) /\ Live(c)'
    BY <1>8 DEF GoesOn, Leads, Live, State
  <2>2. Ends(c)' \in {{"client"}, Sessions!Both}
    BY <1>1, <2>1 DEF EndsOf, Sessions!Both
  <2>3. State(c)' # "REQUEST_CONNECTING" /\ State(c) # "REQUEST_CONNECTING" => Ends(c)' = Ends(c)
    BY <1>1, <1>8, <2>1 DEF EndsOf, GoesOn, SameEnds, HasOrigin, OriginFd
  <2>4. \/ Phase(c)' = Phase(c) /\ State(c) # "REQUEST_CONNECTING" /\ State(c)' # "REQUEST_CONNECTING"
        \/ /\ Phase(c)' \in Sessions!Follows[Phase(c)]
           /\ Phase(c)' = "relaying" => State(c) = "REQUEST_WRITE" /\ State(c)' = "COPY"
           /\ "connecting" \notin {Phase(c)', Phase(c)} =>
                State(c)' # "REQUEST_CONNECTING" /\ State(c) # "REQUEST_CONNECTING"
    BY <1>8, FollowsFacts DEF GoesOn, Leads, Phase, State
  <2>5. CASE Phase(c)' = Phase(c) /\ State(c) # "REQUEST_CONNECTING" /\ State(c)' # "REQUEST_CONNECTING"
    <3>1. \A d \in Conns : Phase(d)' = Phase(d) /\ Ends(d)' = Ends(d)
      BY <1>1, <2>3, <2>5
    <3> QED BY <3>1
  <2>6. CASE /\ Phase(c)' \in Sessions!Follows[Phase(c)]
             /\ Phase(c)' = "relaying" => State(c) = "REQUEST_WRITE" /\ State(c)' = "COPY"
             /\ "connecting" \notin {Phase(c)', Phase(c)} =>
                  State(c)' # "REQUEST_CONNECTING" /\ State(c) # "REQUEST_CONNECTING"
    <3>1. Phase(c)' = "relaying" => Ends(c) = Sessions!Both
      <4>1. State(c)' = "COPY" => HasOrigin(c)'
        BY <1>3, <2>1, ProxyFacts DEF SessionInv, ProxyInv, ConnInv, PolledInv, EndsInv, HasOrigin
      <4>2. State(c) = "REQUEST_WRITE" /\ State(c)' = "COPY" => Ends(c)' = Sessions!Both
        BY <1>1, <2>1, <4>1 DEF EndsOf, Sessions!Both
      <4> QED BY <2>3, <2>6, <4>2
    <3>2. Sessions!Move(c, Phase(c)', Ends(c)')
      BY <1>2
    <3>3. Sessions!Proceed(c)
      <4>1. [d \in Conns |-> Phase(d)][c] = Phase(c) /\ [d \in Conns |-> Ends(d)][c] = Ends(c)
        OBVIOUS
      <4> QED BY <2>2, <2>3, <2>6, <3>1, <3>2, <4>1 DEF Sessions!Proceed
    <3> QED BY <3>3 DEF Sessions!Next
  <2> QED BY <2>4, <2>5, <2>6
<1> QED BY <1>6, <1>7, <1>8
-----------------------------------------------------------------------------
(* What the handlers' steps do, as Session sees them. *)

StepOf(c) ==
  /\ \A d \in Conns \ {c} : Undisturbed(d)
  /\ GoesOn(c) \/ Opens(c) \/ Closes(c)
  /\ EndedInv'

(* The connections a step does not disturb keep their part of EndedInv. *)
LEMMA EndedKept ==
  ASSUME SessionInv, NEW c \in Conns, \A d \in Conns \ {c} : Undisturbed(d),
         State(c)' = "DONE" =>
           \A f \in FDs : item'[f] = c => f # ClientFd(c)' /\ f # OriginFd(c)'
  PROVE  EndedInv'
BY DEF SessionInv, EndedInv, Undisturbed

\* The struct of c becomes r; its items stay, or one is added for a new number.
Becomes(c, r) ==
  /\ conn' = [conn EXCEPT ![c] = r]
  /\ \/ item' = item
     \/ \E o \in FDs : item[o] = None /\ item' = [item EXCEPT ![o] = c]

(* Every other connection is undisturbed by that. *)
LEMMA BecomesFacts ==
  ASSUME SessionInv, NEW c \in Conns, NEW r, Becomes(c, r)
  PROVE  /\ conn'[c] = r /\ State(c)' = r.state
         /\ \A d \in Conns \ {c} : Undisturbed(d) /\ conn'[d] = conn[d]
<1>0. TypeOK
  BY DEF SessionInv, ProxyInv
<1>1. conn'[c] = r /\ \A d \in Conns \ {c} : conn'[d] = conn[d]
  BY <1>0 DEF Becomes, TypeOK
<1>2. ASSUME NEW d \in Conns \ {c} PROVE \A f \in FDs : item'[f] = d <=> item[f] = d
  BY <1>0, NoneAssumption DEF Becomes, TypeOK
<1>3. ASSUME NEW d \in Conns \ {c} PROVE HasOrigin(d) => HasOrigin(d)'
  <2>1. OriginFd(d) \in FDs \cup {NoFd} /\ OriginFd(d)' = OriginFd(d)
    BY <1>0, <1>1 DEF TypeOK, Connections, OriginFd
  <2> QED BY <1>2, <2>1 DEF HasOrigin
<1> QED BY <1>1, <1>2, <1>3 DEF Undisturbed, State, ClientFd, OriginFd

(* A handler that goes on: one of the state machine's steps. *)
LEMMA GoesOnStep ==
  ASSUME SessionInv, NEW c \in Conns, NEW r, Becomes(c, r), <<State(c), r.state>> \in Leads,
         r.state # "REQUEST_CONNECTING" /\ State(c) # "REQUEST_CONNECTING" =>
           SameEnds(r, c) /\ UNCHANGED <<item, sock>>
  PROVE  StepOf(c)
<1>1. State(c)' # "DONE"
  BY BecomesFacts DEF Leads
<1>2. EndedInv'
  BY <1>1, BecomesFacts, EndedKept
<1>3. GoesOn(c)
  BY BecomesFacts DEF GoesOn
<1> QED BY <1>2, <1>3, BecomesFacts DEF StepOf

(* socksv5_done: the end of the connection, whose descriptors are its own. *)
LEMMA DoneIsClose ==
  ASSUME SessionInv, NEW c \in Conns, Live(c), State(c) # "REQUEST_CONNECTING", socksv5_done(c)
  PROVE  StepOf(c)
<1> DEFINE cf == ClientFd(c)
           of == OriginFd(c)
           r == [conn[c] EXCEPT !.state = "DONE"]
           n(d) == Held(d, cf) + Held(d, of)
<1>0. /\ ProxyInv /\ TypeOK /\ EndsInv(c) /\ conn[c] \in Connections
  BY ProxyFacts DEF SessionInv
<1>1. /\ cf \in FDs /\ item[cf] = c /\ of \in FDs \cup {NoFd}
      /\ of # NoFd => (of \in FDs /\ item[of] = c)
  BY <1>0 DEF EndsInv, Connections, OriginFd
<1>2. /\ conn'[c] = Released(r, n(c))
      /\ \A d \in Conns \ {c} : conn'[d] = Released(conn[d], n(d))
      /\ \A f \in FDs : item'[f] = IF f \in {cf, of} THEN None ELSE item[f]
  BY DEF socksv5_done, unregister_and_close, ClientFd, OriginFd
<1>3. r \in Connections /\ r.state = "DONE" /\ r.client_fd = cf /\ r.origin_fd = of
  <2>1. r \in Connections
    BY <1>0, FieldTypes DEF States
  <2> QED BY <1>0, <2>1 DEF Connections, ClientFd, OriginFd
<1>4. n(c) \in Nat /\ \A d \in Conns \ {c} : n(d) = 0
  BY <1>1, NoFdIsNoFD DEF Held
<1> HIDE DEF n, r
<1>5. /\ State(c)' \in {"free", "DONE"}
      /\ State(c)' = "DONE" => ClientFd(c)' = cf /\ OriginFd(c)' = of
  <2>1. r.references \in Nat
    BY <1>3 DEF Connections
  <2>2. CASE r.references <= n(c)
    BY <1>2, <1>3, <1>4, <2>2, ReleasedFacts, FreeConnectionFacts DEF State
  <2>3. CASE r.references > n(c)
    BY <1>2, <1>3, <1>4, <2>3, ReleasedFacts DEF State, ClientFd, OriginFd, Connections
  <2> QED BY <1>4, <2>1, <2>2, <2>3
<1>6. Closes(c)
  BY <1>5 DEF Closes, Live, State
<1>7. ASSUME NEW d \in Conns \ {c} PROVE Undisturbed(d)
  <2>1. \A f \in FDs : item'[f] = d <=> item[f] = d
    BY <1>1, <1>2, NoneAssumption, NoFdIsNoFD
  <2>2. conn'[d] = Released(conn[d], 0)
    BY <1>2, <1>4
  <2>3. CASE conn'[d] = conn[d]
    <3>1. OriginFd(d) \in FDs \cup {NoFd} /\ OriginFd(d)' = OriginFd(d)
      BY <1>0, <2>3 DEF TypeOK, Connections, OriginFd
    <3> QED BY <2>1, <2>3, <3>1 DEF Undisturbed, HasOrigin, State, ClientFd
  <2>4. CASE conn'[d] = FreeConnection /\ \A f \in FDs : item[f] # d
    BY <1>0, <2>1, <2>4, FreeConnectionFacts, ProxyFacts DEF Undisturbed, EndsInv, State
  <2> QED BY <1>0, <2>2, <2>3, <2>4, ReleaseNothing
<1>8. EndedInv'
  BY <1>2, <1>5, <1>7, EndedKept, NoneAssumption
<1> QED BY <1>6, <1>7, <1>8 DEF StepOf

(* Giving the origin up: an item another connection left behind at the number
   goes with it, which is not one of that connection's ends. *)
LEMMA GiveUpGoesOn ==
  ASSUME SessionInv, NEW c \in Conns, State(c) = "REQUEST_CONNECTING", GiveUpOrigin(c)
  PROVE  StepOf(c)
<1> DEFINE o == OriginFd(c)
           w == WithoutOrigin(conn[c])
           m == ToRequestWrite(w)
           n(d) == Held(d, NoFd) + Held(d, o)
<1>0. /\ ProxyInv /\ TypeOK /\ EndsInv(c) /\ ReferencesInv(c) /\ BuffersInv(c)
      /\ conn[c] \in Connections /\ Live(c)
  BY ProxyFacts DEF SessionInv, Live, State
<1>1. /\ ClientFd(c) \in FDs /\ item[ClientFd(c)] = c /\ sock[ClientFd(c)] = "peer"
      /\ o \in FDs \cup {NoFd} /\ o # ClientFd(c)
  BY <1>0, NoFdIsNoFD DEF EndsInv, Connections, OriginFd
<1>2. /\ conn'[c] = Released(m, n(c))
      /\ \A d \in Conns \ {c} : conn'[d] = Released(conn[d], n(d))
      /\ \A f \in FDs : item'[f] = IF f = o THEN None ELSE item[f]
  BY NoFdIsNoFD DEF GiveUpOrigin, unregister_and_close, OriginFd
<1>3. /\ m \in Connections /\ m.state = "REQUEST_WRITE" /\ m.references = conn[c].references
  <2>1. /\ w \in Connections /\ w.references = conn[c].references
        /\ WellFormed(w.read_buffer) /\ WellFormed(w.write_buffer)
    <3>1. w \in Connections
      BY <1>0, FieldTypes DEF WithoutOrigin
    <3> QED BY <1>0, <3>1 DEF WithoutOrigin, Connections, BuffersInv
  <2> HIDE DEF w
  <2> QED BY <2>1, ToRequestWriteFacts
<1>4. \A d \in Conns : n(d) = IF o # NoFd /\ item[o] = d THEN 1 ELSE 0
  BY <1>1, NoFdIsNoFD DEF Held
<1> HIDE DEF m, n
<1>5. State(c)' = "REQUEST_WRITE"
  <2>1. conn[c].references \in Nat /\ conn[c].references >= 1
    BY <1>0, <1>1 DEF ReferencesInv, Connections
  <2>2. o # NoFd /\ item[o] = c => conn[c].references >= 2
    BY <1>0, <1>1 DEF ReferencesInv, ClientFd
  <2>3. n(c) \in Nat /\ m.references > n(c)
    BY <1>3, <1>4, <2>1, <2>2
  <2>4. conn'[c] = [m EXCEPT !.references = @ - n(c)]
    BY <1>2, <1>3, <2>3, ReleasedFacts
  <2> QED BY <1>3, <2>4 DEF State, Connections
<1>6. GoesOn(c)
  BY <1>5 DEF GoesOn, Leads
<1>7. ASSUME NEW d \in Conns \ {c} PROVE Undisturbed(d)
  <2>0. /\ ItemsInv(d) /\ ReferencesInv(d) /\ EndsInv(d) /\ conn[d] \in Connections
    BY <1>0, ProxyFacts
  <2>1. \A f \in FDs : item'[f] = d => item[f] = d
    BY <1>2, NoneAssumption
  <2>2. CASE o # NoFd /\ item[o] = d
    <3>1. o \in FDs /\ ~IsEnd(d, o)
      BY <1>0, <1>1, <2>2, EndsAreDisjoint DEF IsEnd
    <3>2. /\ conn[d].references \in Nat /\ conn[d].references >= 1
          /\ Live(d) => conn[d].references >= 2 /\ OriginFd(d) = NoFd
      BY <2>0, <2>2, <3>1 DEF ItemsInv, ReferencesInv, IsEnd, Connections, Live, State
    <3>3. conn'[d] = Released(conn[d], 1)
      BY <1>2, <1>4, <2>2
    <3>4. CASE conn[d].references > 1
      <4>1. conn'[d] = [conn[d] EXCEPT !.references = @ - 1]
        BY <2>0, <3>3, <3>4, ReleasedFacts
      <4>2. /\ State(d)' = State(d) /\ ClientFd(d)' = ClientFd(d)
            /\ OriginFd(d)' = OriginFd(d)
        BY <2>0, <4>1 DEF State, ClientFd, OriginFd, Connections
      <4> QED BY <2>1, <3>2, <4>2 DEF Undisturbed, HasOrigin
    <3>5. CASE ~(conn[d].references > 1)
      <4>1. ~Live(d) /\ conn'[d] = FreeConnection
        BY <2>0, <3>2, <3>3, <3>5, ReleasedFacts
      <4> QED BY <2>1, <4>1, FreeConnectionFacts DEF Undisturbed, State
    <3> QED BY <3>4, <3>5
  <2>3. CASE ~(o # NoFd /\ item[o] = d)
    <3>1. conn'[d] = Released(conn[d], 0)
      BY <1>2, <1>4, <2>3
    <3>2. \A f \in FDs : item'[f] = d <=> item[f] = d
      BY <1>2, <2>3, NoneAssumption, NoFdIsNoFD
    <3>3. CASE conn'[d] = conn[d]
      <4>1. OriginFd(d) \in FDs \cup {NoFd} /\ OriginFd(d)' = OriginFd(d)
        BY <2>0, <3>3 DEF Connections, OriginFd
      <4> QED BY <3>2, <3>3, <4>1 DEF Undisturbed, HasOrigin, State, ClientFd
    <3>4. CASE conn'[d] = FreeConnection /\ \A f \in FDs : item[f] # d
      BY <2>0, <3>2, <3>4, FreeConnectionFacts DEF Undisturbed, EndsInv, State
    <3> QED BY <1>0, <3>1, <3>3, <3>4, ReleaseNothing
  <2> QED BY <2>2, <2>3
<1>8. EndedInv'
  BY <1>5, <1>7, EndedKept
<1> QED BY <1>6, <1>7, <1>8 DEF StepOf

(* connection(), whatever it comes to. *)
LEMMA ConnectionGoesOn ==
  ASSUME SessionInv, NEW c \in Conns,
         State(c) \in {"REQUEST_READ", "REQUEST_RESOLV", "REQUEST_CONNECTING"},
         NEW r \in Connections, r.state = "REQUEST_CONNECTING", WellFormed(r.write_buffer),
         NEW k, NEW s, s = "fresh" => r.origin_fd \in FDs, connection(c, r, k, s)
  PROVE  StepOf(c)
<1> DEFINE failed == [r EXCEPT !.status = "failed"]
           again == [AddReference(r) EXCEPT !.status = "failed"]
<1>1. ASSUME NEW m, m.state = "REQUEST_CONNECTING", Becomes(c, m) PROVE StepOf(c)
  BY <1>1, GoesOnStep DEF Leads
<1>2. AddReference(r) \in Connections /\ AddReference(r).state = "REQUEST_CONNECTING"
      /\ AddReference(r).write_buffer = r.write_buffer
  <2>1. r.references + 1 \in Nat
    BY DEF Connections
  <2>2. [r EXCEPT !.references = r.references + 1] \in Connections
    BY <2>1, FieldTypes
  <2> QED BY <2>2 DEF AddReference, Connections
<1>3. failed \in Connections /\ failed.state = "REQUEST_CONNECTING"
      /\ failed.write_buffer = r.write_buffer
  <2>1. failed \in Connections
    BY FieldTypes
  <2> QED BY <2>1 DEF Connections
<1>4. again \in Connections /\ again.state = "REQUEST_CONNECTING"
      /\ again.write_buffer = r.write_buffer
  <2> DEFINE a == AddReference(r)
  <2> HIDE DEF a
  <2>1. [a EXCEPT !.status = "failed"] \in Connections
    BY <1>2, FieldTypes DEF a
  <2> QED BY <1>2, <2>1 DEF Connections, a
<1> HIDE DEF failed, again
<1>5. CASE ConnectFails(c, r, s)
  <2>1. Becomes(c, request_marshall(failed))
    BY <1>5 DEF ConnectFails, Becomes, failed
  <2> QED BY <1>1, <1>3, <2>1, MarshallFields
<1>6. CASE ConnectStarts(c, r, k, s)
  <2>1. Becomes(c, AddReference(r))
    BY <1>6 DEF ConnectStarts, Becomes
  <2> QED BY <1>1, <1>2, <2>1
<1>7. CASE ConnectStartsOnUsedItem(c, r, s)
  <2> DEFINE w == request_marshall(failed)
  <2>1. Becomes(c, WithoutOrigin(w))
    BY <1>7 DEF ConnectStartsOnUsedItem, Becomes, failed
  <2>2. w \in Connections /\ w.state = "REQUEST_CONNECTING"
    BY <1>3, MarshallFields
  <2> HIDE DEF w
  <2>3. WithoutOrigin(w).state = "REQUEST_CONNECTING"
    BY <2>2 DEF WithoutOrigin, Connections
  <2> QED BY <1>1, <2>1, <2>3
<1>8. CASE ConnectFindsItConnected(c, r, k, s)
  <2>1. Becomes(c, request_marshall(again))
    BY <1>8 DEF ConnectFindsItConnected, Becomes, again
  <2> QED BY <1>1, <1>4, <2>1, MarshallFields
<1> QED BY <1>5, <1>6, <1>7, <1>8 DEF connection

(* connecting_init: the first attempt. *)
LEMMA InitGoesOn ==
  ASSUME SessionInv, NEW c \in Conns, State(c) \in {"REQUEST_READ", "REQUEST_RESOLV"},
         NEW r \in Connections, WellFormed(r.write_buffer), NEW k, connecting_init(c, r, k)
  PROVE  StepOf(c)
<1> DEFINE r1 == [r EXCEPT !.state = "REQUEST_CONNECTING", !.status = "succeeded"]
<1>1. /\ r1 \in Connections /\ r1.state = "REQUEST_CONNECTING"
      /\ r1.write_buffer = r.write_buffer
  <2>1. r1 \in Connections
    BY FieldTypes DEF States
  <2> QED BY <2>1 DEF Connections
<1> HIDE DEF r1
<1>2. ASSUME NEW o \in FDs, connection(c, [r1 EXCEPT !.origin_fd = o], k, "fresh")
      PROVE  StepOf(c)
  <2> DEFINE r2 == [r1 EXCEPT !.origin_fd = o]
  <2>1. /\ r2 \in Connections /\ r2.state = "REQUEST_CONNECTING" /\ r2.origin_fd = o
        /\ r2.write_buffer = r.write_buffer
    <3>1. r2 \in Connections
      BY <1>1, FieldTypes
    <3> QED BY <1>1, <3>1 DEF Connections
  <2>2. connection(c, r2, k, "fresh")
    BY <1>2
  <2> HIDE DEF r2
  <2> QED BY <2>1, <2>2, ConnectionGoesOn
<1>3. CASE /\ conn' = [conn EXCEPT ![c] = request_marshall([r1 EXCEPT !.status = "failed"])]
           /\ UNCHANGED <<sock, item>>
  <2> DEFINE w == [r1 EXCEPT !.status = "failed"]
  <2>1. /\ w \in Connections /\ w.state = "REQUEST_CONNECTING"
        /\ w.write_buffer = r.write_buffer
    <3>1. w \in Connections
      BY <1>1, FieldTypes
    <3> QED BY <1>1, <3>1 DEF Connections
  <2>2. Becomes(c, request_marshall(w))
    BY <1>3 DEF Becomes
  <2> HIDE DEF w
  <2> QED BY <2>1, <2>2, MarshallFields, GoesOnStep DEF Leads
<1> QED BY <1>2, <1>3 DEF connecting_init, r1
-----------------------------------------------------------------------------
(* The handlers, one by one. *)

(* A step that changes the struct of c only, and not its descriptors. *)
LEMMA LocalGoesOn ==
  ASSUME SessionInv, NEW c \in Conns, NEW r, conn' = [conn EXCEPT ![c] = r],
         UNCHANGED <<item, sock>>, SameEnds(r, c), <<State(c), r.state>> \in Leads
  PROVE  StepOf(c)
BY GoesOnStep DEF Becomes

(* ... and there one of the buffers only. *)
LEMMA BufferGoesOn ==
  ASSUME SessionInv, NEW c \in Conns, <<State(c), State(c)>> \in Leads, NEW b, UNCHANGED <<item, sock>>,
         \/ conn' = [conn EXCEPT ![c].read_buffer = b]
         \/ conn' = [conn EXCEPT ![c].write_buffer = b]
  PROVE  StepOf(c)
<1>1. conn[c] \in Connections
  BY ProxyFacts DEF SessionInv
<1>2. CASE conn' = [conn EXCEPT ![c].read_buffer = b]
  <2> DEFINE r == [conn[c] EXCEPT !.read_buffer = b]
  <2>1. r.state = State(c) /\ SameEnds(r, c) /\ conn' = [conn EXCEPT ![c] = r]
    BY <1>1, <1>2 DEF State, SameEnds, ClientFd, OriginFd, Connections
  <2> HIDE DEF r
  <2> QED BY <2>1, LocalGoesOn
<1>3. CASE conn' = [conn EXCEPT ![c].write_buffer = b]
  <2> DEFINE r == [conn[c] EXCEPT !.write_buffer = b]
  <2>1. r.state = State(c) /\ SameEnds(r, c) /\ conn' = [conn EXCEPT ![c] = r]
    BY <1>1, <1>3 DEF State, SameEnds, ClientFd, OriginFd, Connections
  <2> HIDE DEF r
  <2> QED BY <2>1, LocalGoesOn
<1> QED BY <1>2, <1>3

(* The dialogue with the client, up to the authentication. *)
LEMMA GreetingGoesOn ==
  ASSUME SessionInv, NEW c \in Conns, NEW f \in FDs,
         \/ hello_read(f, c) \/ hello_write(f, c) \/ auth_read(f, c) \/ auth_write(f, c)
  PROVE  StepOf(c)
<1> DEFINE r == conn[c]
<1>1. r \in Connections
  BY ProxyFacts DEF SessionInv
<1>2. CASE hello_read(f, c)
  <2>1. State(c) = "HELLO_READ" /\ Live(c)
    BY <1>2 DEF hello_read, State, Live
  <2>2. ASSUME NEW b, NEW m,
               conn' = [conn EXCEPT ![c] =
                          [r EXCEPT !.state = "HELLO_WRITE", !.method = m, !.read_buffer = b,
                                    !.write_buffer = WithReply(@)]], UNCHANGED <<item, sock>>
        PROVE  StepOf(c)
    <3> DEFINE w == [r EXCEPT !.state = "HELLO_WRITE", !.method = m, !.read_buffer = b,
                              !.write_buffer = WithReply(@)]
    <3>1. w.state = "HELLO_WRITE" /\ SameEnds(w, c)
      BY <1>1 DEF Connections, SameEnds, ClientFd, OriginFd
    <3> HIDE DEF w
    <3>2. conn' = [conn EXCEPT ![c] = w]
      BY <2>2 DEF w
    <3> QED BY <2>1, <2>2, <3>1, <3>2, LocalGoesOn DEF Leads
  <2> QED BY <1>2, <2>1, <2>2, DoneIsClose, BufferGoesOn DEF hello_read, Leads
<1>3. CASE hello_write(f, c)
  <2>1. State(c) = "HELLO_WRITE" /\ Live(c)
    BY <1>3 DEF hello_write, State, Live
  <2>2. ASSUME NEW b, conn' = [conn EXCEPT ![c] = AfterHello([r EXCEPT !.write_buffer = b])],
               UNCHANGED <<item, sock>>
        PROVE  StepOf(c)
    <3> DEFINE w == AfterHello([r EXCEPT !.write_buffer = b])
    <3>1. w.state \in {"REQUEST_READ", "USERPASS_READ"} /\ SameEnds(w, c)
      BY <1>1 DEF Connections, SameEnds, ClientFd, OriginFd, AfterHello
    <3> HIDE DEF w
    <3>2. conn' = [conn EXCEPT ![c] = w]
      BY <2>2 DEF w
    <3> QED BY <2>1, <2>2, <3>1, <3>2, LocalGoesOn DEF Leads
  <2> QED BY <1>3, <2>1, <2>2, DoneIsClose, BufferGoesOn DEF hello_write, Leads
<1>4. CASE auth_read(f, c)
  <2>1. State(c) = "USERPASS_READ" /\ Live(c)
    BY <1>4 DEF auth_read, State, Live
  <2>2. ASSUME NEW b, NEW a,
               conn' = [conn EXCEPT ![c] =
                          [r EXCEPT !.state = "USERPASS_WRITE", !.authentication = a,
                                    !.accepted = (a = 0), !.read_buffer = b]], UNCHANGED <<item, sock>>
        PROVE  StepOf(c)
    <3> DEFINE w == [r EXCEPT !.state = "USERPASS_WRITE", !.authentication = a,
                              !.accepted = (a = 0), !.read_buffer = b]
    <3>1. w.state = "USERPASS_WRITE" /\ SameEnds(w, c)
      BY <1>1 DEF Connections, SameEnds, ClientFd, OriginFd
    <3> HIDE DEF w
    <3>2. conn' = [conn EXCEPT ![c] = w]
      BY <2>2 DEF w
    <3> QED BY <2>1, <2>2, <3>1, <3>2, LocalGoesOn DEF Leads
  \* The process dies: the connection stays as it is.
  <2>3. CASE UNCHANGED <<item, sock, conn>>
    <3>1. conn' = [conn EXCEPT ![c] = r]
      BY <2>3, ProxyFacts DEF SessionInv, TypeOK
    <3> QED BY <2>1, <2>3, <3>1, LocalGoesOn DEF Leads, State, SameEnds, ClientFd, OriginFd
  <2> QED BY <1>4, <2>1, <2>2, <2>3, DoneIsClose, BufferGoesOn DEF auth_read, Leads
<1>5. CASE auth_write(f, c)
  <2>1. State(c) = "USERPASS_WRITE" /\ Live(c)
    BY <1>5 DEF auth_write, State, Live
  <2>2. ASSUME NEW b,
               conn' = [conn EXCEPT ![c] =
                          [r EXCEPT !.state = "REQUEST_READ", !.parser = "reading",
                                    !.write_buffer = b]], UNCHANGED <<item, sock>>
        PROVE  StepOf(c)
    <3> DEFINE w == [r EXCEPT !.state = "REQUEST_READ", !.parser = "reading", !.write_buffer = b]
    <3>1. w.state = "REQUEST_READ" /\ SameEnds(w, c)
      BY <1>1 DEF Connections, SameEnds, ClientFd, OriginFd
    <3> HIDE DEF w
    <3>2. conn' = [conn EXCEPT ![c] = w]
      BY <2>2 DEF w
    <3> QED BY <2>1, <2>2, <3>1, <3>2, LocalGoesOn DEF Leads
  <2> QED BY <1>5, <2>1, <2>2, DoneIsClose, BufferGoesOn DEF auth_write, Leads
<1> QED BY <1>2, <1>3, <1>4, <1>5

(* request_read: REQUEST_CONNECTING or REQUEST_RESOLV, or more to read. *)
LEMMA RequestGoesOn ==
  ASSUME SessionInv, NEW c \in Conns, NEW f \in FDs, request_read(f, c)
  PROVE  StepOf(c)
<1> DEFINE r == conn[c]
<1>1. /\ r \in Connections /\ WellFormed(r.write_buffer)
      /\ State(c) = "REQUEST_READ" /\ Live(c)
  BY ProxyFacts DEF SessionInv, BuffersInv, request_read, State, Live
<1>2. CASE /\ conn' = [conn EXCEPT ![c] = [r EXCEPT !.parser = "rejected", !.read_buffer = Drained]]
           /\ UNCHANGED <<item, sock>>
  <2> DEFINE w == [r EXCEPT !.parser = "rejected", !.read_buffer = Drained]
  <2>1. w.state = "REQUEST_READ" /\ SameEnds(w, c)
    BY <1>1 DEF Connections, SameEnds, ClientFd, OriginFd, State
  <2> HIDE DEF w
  <2>2. conn' = [conn EXCEPT ![c] = w]
    BY <1>2 DEF w
  <2> QED BY <1>1, <1>2, <2>1, <2>2, LocalGoesOn DEF Leads
<1>3. ASSUME NEW b \in AfterMessage(r.read_buffer), request_process(f, c, [r EXCEPT !.read_buffer = b])
      PROVE  StepOf(c)
  <2> DEFINE w == [r EXCEPT !.read_buffer = b]
  <2>1. /\ w \in Connections /\ w.write_buffer = r.write_buffer /\ SameEnds(w, c)
    <3>1. b \in Cursors
      BY <1>3, AfterMessageIsWellFormed, WellFormedIsCursors, ProxyFacts DEF SessionInv, BuffersInv
    <3>2. w \in Connections
      BY <1>1, <3>1, FieldTypes
    <3> QED BY <1>1, <3>2 DEF Connections, SameEnds, ClientFd, OriginFd
  <2>2. request_process(f, c, w)
    BY <1>3
  <2> HIDE DEF w
  <2>3. CASE connecting_init(c, request_close(w, "address"), f)
    <3> DEFINE v == request_close(w, "address")
    <3>1. v \in Connections /\ v.write_buffer = r.write_buffer
      <4>1. v = [w EXCEPT !.parser = "none"]
        BY DEF request_close
      <4>2. [w EXCEPT !.parser = "none"] \in Connections
        BY <2>1, FieldTypes
      <4> QED BY <2>1, <4>1, <4>2 DEF Connections
    <3>2. connecting_init(c, v, f)
      BY <2>3
    <3> HIDE DEF v
    <3> QED BY <1>1, <3>1, <3>2, InitGoesOn
  <2>4. ASSUME NEW thread, UNCHANGED <<item, sock>>,
               conn' = [conn EXCEPT ![c] = [request_close(w, "name") EXCEPT
                                              !.state = "REQUEST_RESOLV", !.resolver = thread]]
        PROVE  StepOf(c)
    <3> DEFINE v == [w EXCEPT !.state = "REQUEST_RESOLV", !.resolver = thread]
    <3>1. v.state = "REQUEST_RESOLV" /\ SameEnds(v, c)
      BY <2>1 DEF Connections, SameEnds
    <3>2. conn' = [conn EXCEPT ![c] = v]
      BY <2>4 DEF request_close
    <3> HIDE DEF v
    <3> QED BY <1>1, <2>4, <3>1, <3>2, LocalGoesOn DEF Leads
  <2> QED BY <2>2, <2>3, <2>4 DEF request_process
<1> QED BY <1>1, <1>2, <1>3, DoneIsClose, BufferGoesOn DEF request_read, Leads

(* The resolver's thread, and the job it leaves. *)
LEMMA ResolverGoesOn ==
  ASSUME SessionInv, NEW c \in Conns,
         request_resolv_blocking(c) \/ \E f \in FDs : request_resolv_done(f, c)
  PROVE  StepOf(c)
<1> DEFINE r == conn[c]
<1>1. r \in Connections /\ WellFormed(r.write_buffer) /\ ThreadInv(c)
  BY ProxyFacts DEF SessionInv, BuffersInv
<1>2. CASE request_resolv_blocking(c)
  <2>1. PICK n \in 0..MaxAddrs :
          conn' = [conn EXCEPT ![c] = [r EXCEPT !.addrs = n, !.resolver = NoFd]]
    BY <1>2 DEF request_resolv_blocking
  <2> DEFINE w == [r EXCEPT !.addrs = n, !.resolver = NoFd]
  <2>2. State(c) = "REQUEST_RESOLV" /\ UNCHANGED <<item, sock>>
    BY <1>1, <1>2 DEF request_resolv_blocking, ThreadInv
  <2>3. w.state = State(c) /\ SameEnds(w, c)
    BY <1>1 DEF Connections, SameEnds, ClientFd, OriginFd, State
  <2> HIDE DEF w
  <2>4. conn' = [conn EXCEPT ![c] = w]
    BY <2>1 DEF w
  <2> QED BY <2>2, <2>3, <2>4, LocalGoesOn DEF Leads
<1>3. ASSUME NEW f \in FDs, request_resolv_done(f, c) PROVE StepOf(c)
  <2>1. State(c) = "REQUEST_RESOLV"
    BY <1>3 DEF request_resolv_done, State
  <2>2. CASE connecting_init(c, r, f)
    BY <1>1, <2>1, <2>2, InitGoesOn
  <2>3. CASE /\ conn' = [conn EXCEPT ![c] =
                           request_marshall([r EXCEPT !.state = "REQUEST_WRITE", !.status = "failed"])]
             /\ UNCHANGED <<item, sock>>
    <3> DEFINE w == [r EXCEPT !.state = "REQUEST_WRITE", !.status = "failed"]
    <3>1. /\ w \in Connections /\ w.state = "REQUEST_WRITE" /\ SameEnds(w, c)
          /\ w.write_buffer = r.write_buffer
      <4>1. w \in Connections
        BY <1>1, FieldTypes DEF States
      <4> QED BY <1>1, <4>1 DEF Connections, SameEnds, ClientFd, OriginFd
    <3>2. conn' = [conn EXCEPT ![c] = request_marshall(w)]
      BY <2>3
    <3> HIDE DEF w
    <3>3. LET v == request_marshall(w) IN v.state = "REQUEST_WRITE" /\ SameEnds(v, c)
      BY <1>1, <3>1, MarshallFields DEF SameEnds
    <3> QED BY <2>1, <2>3, <3>2, <3>3, LocalGoesOn DEF Leads
  <2> QED BY <1>3, <2>2, <2>3 DEF request_resolv_done
<1> QED BY <1>2, <1>3

(* connecting_write: another attempt, or on to REQUEST_WRITE. *)
LEMMA ConnectingGoesOn ==
  ASSUME SessionInv, NEW c \in Conns, NEW f \in FDs, connecting_write(f, c)
  PROVE  StepOf(c)
<1> DEFINE r == conn[c]
           failed == [r EXCEPT !.status = "failed"]
<1>1. /\ State(c) = "REQUEST_CONNECTING" /\ TypeOK /\ r \in Connections
      /\ WellFormed(r.read_buffer) /\ WellFormed(r.write_buffer)
  BY ProxyFacts DEF SessionInv, BuffersInv, connecting_write, State
<1>2. /\ failed \in Connections /\ failed.state = r.state /\ failed.origin_fd = r.origin_fd
      /\ failed.read_buffer = r.read_buffer /\ failed.write_buffer = r.write_buffer
  <2>1. failed \in Connections
    BY <1>1, FieldTypes
  <2> QED BY <1>1, <2>1 DEF Connections
<1> HIDE DEF failed
<1>3. ASSUME NEW w \in {r, failed}, HasNextAddress(w), NEW s,
             s = "fresh" => r.origin_fd # NoFd, connection(c, NextAddress(w), f, s)
      PROVE  StepOf(c)
  <2> DEFINE v == NextAddress(w)
  <2>1. /\ w \in Connections /\ w.state = r.state /\ w.origin_fd = r.origin_fd
        /\ w.write_buffer = r.write_buffer
    BY <1>1, <1>2
  <2>2. v = [w EXCEPT !.addrs = w.addrs - 1] /\ w.addrs - 1 \in 0..MaxAddrs
    BY <1>3, <2>1, Socks5Assumption DEF NextAddress, HasNextAddress, Connections
  <2>3. v \in Connections
    BY <2>1, <2>2, FieldTypes
  <2>4. /\ v.state = "REQUEST_CONNECTING" /\ v.write_buffer = r.write_buffer
        /\ s = "fresh" => v.origin_fd \in FDs
    BY <1>1, <1>3, <2>1, <2>2 DEF Connections, State
  <2>5. connection(c, v, f, s)
    BY <1>3
  <2> HIDE DEF v
  <2> QED BY <1>1, <2>3, <2>4, <2>5, ConnectionGoesOn
<1>4. ASSUME NEW w \in {r, failed}, conn' = [conn EXCEPT ![c] = ToRequestWrite(w)], UNCHANGED <<item, sock>>
      PROVE  StepOf(c)
  <2>1. /\ ToRequestWrite(w).state = "REQUEST_WRITE"
    BY <1>1, <1>2, ToRequestWriteFacts
  <2>2. Becomes(c, ToRequestWrite(w))
    BY <1>4 DEF Becomes
  <2> QED BY <1>1, <2>1, <2>2, GoesOnStep DEF Leads
<1>5. CASE ConnectingAfterFailure(f, c)
  <2>1. CASE HasNextAddress(r)
    BY <1>3, <1>5, <2>1 DEF ConnectingAfterFailure
  <2>2. CASE ~HasNextAddress(r)
    BY <1>1, <1>5, <2>2, GiveUpGoesOn DEF ConnectingAfterFailure
  <2> QED BY <2>1, <2>2
<1>6. CASE ConnectingSucceeds(f, c)
  BY <1>4, <1>6 DEF ConnectingSucceeds
<1>7. CASE ConnectingFails(f, c)
  <2>1. CASE HasNextAddress(failed)
    BY <1>3, <1>7, <2>1 DEF ConnectingFails, failed
  <2>2. CASE ~HasNextAddress(failed)
    BY <1>4, <1>7, <2>2 DEF ConnectingFails, failed
  <2> QED BY <2>1, <2>2
<1> QED BY <1>5, <1>6, <1>7 DEF connecting_write

(* request_write: into the relay, with both ends, or to the end. *)
LEMMA AnswerGoesOn ==
  ASSUME SessionInv, NEW c \in Conns, NEW f \in FDs, request_write(f, c)
  PROVE  StepOf(c)
<1> DEFINE r == conn[c]
<1>1. r \in Connections /\ State(c) = "REQUEST_WRITE" /\ Live(c)
  BY ProxyFacts DEF SessionInv, request_write, State, Live
<1>2. ASSUME NEW b, UNCHANGED <<item, sock>>,
             conn' = [conn EXCEPT ![c] = copy_init([r EXCEPT !.write_buffer = b])]
      PROVE  StepOf(c)
  <2> DEFINE w == copy_init([r EXCEPT !.write_buffer = b])
  <2>1. w.state = "COPY" /\ SameEnds(w, c)
    BY <1>1 DEF Connections, SameEnds, ClientFd, OriginFd, copy_init
  <2> HIDE DEF w
  <2>2. conn' = [conn EXCEPT ![c] = w]
    BY <1>2 DEF w
  <2> QED BY <1>1, <1>2, <2>1, <2>2, LocalGoesOn DEF Leads
<1> QED BY <1>1, <1>2, DoneIsClose, BufferGoesOn DEF request_write, Leads

(* The relay: masks and buffers, or the end. *)
LEMMA RelayGoesOn ==
  ASSUME SessionInv, NEW c \in Conns, NEW f \in FDs, copy_read(f, c) \/ copy_write(f, c)
  PROVE  StepOf(c)
<1> DEFINE r == conn[c]
           s == SideOf(f, r)
<1>1. r \in Connections /\ State(c) = "COPY" /\ Live(c)
  BY ProxyFacts DEF SessionInv, copy_read, copy_write, State, Live
<1>2. ASSUME NEW w, CopyStep(c, w, s), w.state = "COPY", SameEnds(w, c)
      PROVE  StepOf(c)
  <2>1. CASE socksv5_done(c)
    BY <1>1, <2>1, DoneIsClose
  <2>2. CASE conn' = [conn EXCEPT ![c] = w] /\ UNCHANGED <<item, sock>>
    BY <1>1, <1>2, <2>2, LocalGoesOn DEF Leads
  <2> QED BY <1>2, <2>1, <2>2 DEF CopyStep
<1>3. \A b : /\ [r EXCEPT !.read_buffer = b].state = "COPY"
             /\ SameEnds([r EXCEPT !.read_buffer = b], c)
             /\ [r EXCEPT !.write_buffer = b].state = "COPY"
             /\ SameEnds([r EXCEPT !.write_buffer = b], c)
  BY <1>1 DEF Connections, State, SameEnds, ClientFd, OriginFd
<1>4. /\ EndOfInput(r, s).state = "COPY" /\ SameEnds(EndOfInput(r, s), c)
      /\ EndOfOutput(r, s).state = "COPY" /\ SameEnds(EndOfOutput(r, s), c)
  BY <1>1 DEF EndOfInput, EndOfOutput, Connections, State, SameEnds, ClientFd, OriginFd
<1> HIDE DEF s
<1>5. CASE copy_read(f, c)
  <2>1. ASSUME NEW n, CopyStep(c, [r EXCEPT !.read_buffer = buffer_write_adv(@, n)], s)
        PROVE  StepOf(c)
    BY <1>2, <1>3, <2>1
  <2>2. ASSUME NEW n, CopyStep(c, [r EXCEPT !.write_buffer = buffer_write_adv(@, n)], s)
        PROVE  StepOf(c)
    BY <1>2, <1>3, <2>2
  <2>3. CASE CopyStep(c, EndOfInput(r, s), s)
    BY <1>2, <1>4, <2>3
  <2> QED BY <1>5, <2>1, <2>2, <2>3 DEF copy_read, s
<1>6. CASE copy_write(f, c)
  <2>1. ASSUME NEW b, CopyStep(c, [r EXCEPT !.read_buffer = b], s) PROVE StepOf(c)
    BY <1>2, <1>3, <2>1
  <2>2. ASSUME NEW b, CopyStep(c, [r EXCEPT !.write_buffer = b], s) PROVE StepOf(c)
    BY <1>2, <1>3, <2>2
  <2>3. CASE CopyStep(c, EndOfOutput(r, s), s)
    BY <1>2, <1>4, <2>3
  <2> QED BY <1>6, <2>1, <2>2, <2>3 DEF copy_write, s
<1> QED BY <1>5, <1>6

(* accept: a struct that was free gets the new client. *)
LEMMA AcceptOpens ==
  ASSUME SessionInv, socksv5_passive_accept
  PROVE  \E c \in Conns : StepOf(c)
<1>1. PICK f \in FDs, c \in Conns :
        /\ item[f] = None /\ conn[c].state = "free"
        /\ conn' = [conn EXCEPT ![c] = NewConnection(f)]
        /\ item' = [item EXCEPT ![f] = c]
  BY DEF socksv5_passive_accept
<1>2. Becomes(c, NewConnection(f)) /\ NewConnection(f).state = "HELLO_READ"
  BY <1>1, NewConnectionFacts DEF Becomes
<1>3. State(c)' = "HELLO_READ" /\ \A d \in Conns \ {c} : Undisturbed(d)
  BY <1>2, BecomesFacts
<1>4. Opens(c)
  BY <1>1, <1>3 DEF Opens, Live, State
<1>5. EndedInv'
  BY <1>3, EndedKept
<1> QED BY <1>3, <1>4, <1>5 DEF StepOf

(* Steps that no connection sees. *)
LEMMA NothingSeen ==
  ASSUME SessionInv, UNCHANGED <<item, conn>>
  PROVE  EndedInv' /\ \A c \in Conns : Undisturbed(c)
BY DEF SessionInv, EndedInv, Undisturbed, State, ClientFd, OriginFd, HasOrigin, Live

(* Every step of the proxy is for one connection, or for none. *)
LEMMA NextIsForOne ==
  ASSUME SessionInv, [Next]_vars
  PROVE  \/ \E c \in Conns : StepOf(c)
         \/ EndedInv' /\ \A c \in Conns : Undisturbed(c)
<1>1. ASSUME NEW f \in FDs, NEW c \in Conns, Handler(f, c) PROVE StepOf(c)
  BY <1>1, GreetingGoesOn, RequestGoesOn, AnswerGoesOn, ResolverGoesOn, ConnectingGoesOn,
     RelayGoesOn DEF Handler
<1>2. CASE selector_select \/ SkipEvent \/ (\E o \in FDs : ConnectEnds(o)) \/ UNCHANGED vars
  BY <1>2, NothingSeen DEF selector_select, SkipEvent, ConnectEnds, vars
<1> QED BY <1>1, <1>2, AcceptOpens, ResolverGoesOn DEF Next, MainLoop
-----------------------------------------------------------------------------
(* The refinement. *)

LEMMA InitSession ==
  Init => SessionInv /\ Sessions!Init
<1> SUFFICES ASSUME Init PROVE SessionInv /\ Sessions!Init
  OBVIOUS
<1>1. ProxyInv
  BY InitProxy
<1>2. /\ \A c \in Conns : State(c) = "free"
      /\ \A f \in FDs, c \in Conns : item[f] # c
  BY FreeConnectionFacts, NoneAssumption DEF Init, State
<1>3. SessionInv
  BY <1>1, <1>2 DEF SessionInv, EndedInv
<1>4. \A c \in Conns : Phase(c) = "closed" /\ Ends(c) = {}
  BY <1>2 DEF Phase, Ends, Holds, State
<1> QED BY <1>3, <1>4 DEF Sessions!Init

(* Both invariants hold of every behaviour. *)
LEMMA NextSession == SessionInv /\ [Next]_vars => SessionInv'
<1> SUFFICES ASSUME SessionInv, [Next]_vars PROVE SessionInv'
  OBVIOUS
<1>1. ProxyInv'
  BY NextProxy DEF SessionInv
<1> QED BY <1>1, NextIsForOne DEF SessionInv, StepOf

(* The handlers of socks5nio.c implement the sessions the proxy promises: for
   any number of connections and descriptors, each connection goes through the
   phases of its dialogue in order, holds the descriptors of its two ends from
   when it gets them to when it is closed, and no handler, unregistering and
   closing by numbers that are reused all the time, touches another's. *)
THEOREM ProxyImplementsSessions == Spec => ImplementsSessions
<1>1. SessionInv /\ [Next]_vars /\ SessionInv' /\ EndsAgree' =>
        [Sessions!Next]_<<[c \in Conns |-> Phase(c)], [c \in Conns |-> Ends(c)]>>
  <2> SUFFICES ASSUME SessionInv, [Next]_vars, SessionInv', EndsAgree'
               PROVE  \/ Sessions!Next
                      \/ UNCHANGED <<[c \in Conns |-> Phase(c)], [c \in Conns |-> Ends(c)]>>
    OBVIOUS
  <2>1. CASE \E c \in Conns : StepOf(c)
    BY <2>1, SessionMoves DEF StepOf
  <2>2. CASE \A c \in Conns : Undisturbed(c)
    <3>1. \A c \in Conns : Phase(c)' = Phase(c) /\ Ends(c)' = Ends(c)
      BY <2>2, EndsAreEndsOf, UndisturbedFacts DEF EndsAgree
    <3> QED BY <3>1
  <2> QED BY <2>1, <2>2, NextIsForOne
<1> QED
  BY <1>1, InitSession, NextSession, EndsAreEndsOf, PTL
     DEF Spec, ImplementsSessions, Sessions!Spec
-----------------------------------------------------------------------------
(* The references of a connection count its items exactly, as long as a name
   has no more than two addresses: the third attempt would find the item of the
   first, and connection() would count it again. *)

TwoAddresses == MaxAddrs <= 2

\* No item is left behind, so that a connection that is done is given back;
\* and an attempt after which there is a next one has either nothing
\* registered or not failed yet.
CountInv(c) ==
  /\ State(c) # "DONE"
  /\ \A f \in FDs : item[f] = c => IsEnd(c, f)
  /\ conn[c].references = IF ~Live(c) THEN 0 ELSE IF HasOrigin(c) THEN 2 ELSE 1
  /\ State(c) = "REQUEST_CONNECTING" =>
       /\ HasOrigin(c) => conn[c].status = "succeeded" \/ ~HasNextAddress(conn[c])
       /\ OriginFd(c) # NoFd /\ ~HasOrigin(c) => sock[OriginFd(c)] = "fresh"

CountsInv == SessionInv /\ \A c \in Conns : CountInv(c)

\* What a step for one connection leaves of another one, d.
Keeps(d) ==
  /\ \A f \in FDs : item'[f] = d <=> item[f] = d
  /\ conn'[d] = conn[d] \/ (conn'[d] = FreeConnection /\ \A f \in FDs : item[f] # d)
  /\ OriginFd(d) \in FDs /\ Live(d) /\ sock[OriginFd(d)] = "fresh" =>
       sock'[OriginFd(d)] = "fresh"

(* The parts of the invariant, for one connection. *)
LEMMA CountFacts ==
  ASSUME CountsInv, NEW c \in Conns
  PROVE  /\ SessionInv /\ ProxyInv /\ TypeOK /\ CountInv(c)
         /\ conn[c] \in Connections /\ EndsInv(c) /\ PolledInv(c) /\ BuffersInv(c)
         /\ ClientFd(c) \in FDs \cup {NoFd} /\ OriginFd(c) \in FDs \cup {NoFd}
<1>1. SessionInv /\ ProxyInv /\ TypeOK /\ CountInv(c)
  BY DEF CountsInv, SessionInv, ProxyInv
<1>2. conn[c] \in Connections /\ EndsInv(c) /\ PolledInv(c) /\ BuffersInv(c)
  BY <1>1, ProxyFacts
<1> QED BY <1>1, <1>2 DEF Connections, ClientFd, OriginFd

(* A connection that is kept keeps its count. *)
LEMMA KeptCount ==
  ASSUME CountsInv, NEW d \in Conns, Keeps(d)
  PROVE  CountInv(d)'
<1>0. CountInv(d) /\ EndsInv(d) /\ OriginFd(d) \in FDs \cup {NoFd}
  BY CountFacts
<1>1. CASE conn'[d] = FreeConnection /\ \A f \in FDs : item[f] # d
  BY <1>1, FreeConnectionFacts DEF Keeps, CountInv, State, Live
<1>2. CASE conn'[d] = conn[d]
  <2>1. /\ State(d)' = State(d) /\ ClientFd(d)' = ClientFd(d) /\ OriginFd(d)' = OriginFd(d)
        /\ Live(d)' <=> Live(d)
        /\ \A f : IsEnd(d, f)' <=> IsEnd(d, f)
    BY <1>2 DEF State, ClientFd, OriginFd, Live, IsEnd
  <2>2. HasOrigin(d)' <=> HasOrigin(d)
    BY <1>0, <2>1 DEF HasOrigin, Keeps
  <2>3. State(d) = "REQUEST_CONNECTING" => Live(d)
    BY DEF State, Live
  <2>4. (State(d) = "REQUEST_CONNECTING" =>
           /\ HasOrigin(d) => conn[d].status = "succeeded" \/ ~HasNextAddress(conn[d])
           /\ OriginFd(d) # NoFd /\ ~HasOrigin(d) => sock[OriginFd(d)] = "fresh")'
    BY <1>0, <1>2, <2>1, <2>2, <2>3 DEF CountInv, Keeps
  <2> QED BY <1>0, <1>2, <2>1, <2>2, <2>4 DEF CountInv, Keeps
<1> QED BY <1>1, <1>2 DEF Keeps

\* A step for the connection c, as far as counts are concerned.
CountStep(c) == CountInv(c)' /\ \A d \in Conns \ {c} : Keeps(d)

(* Handlers that neither attempt nor end change no descriptor. *)
LEMMA LocalCounts ==
  ASSUME CountsInv, NEW c \in Conns, GoesOn(c),
         State(c) # "REQUEST_CONNECTING", State(c)' # "REQUEST_CONNECTING"
  PROVE  CountStep(c)
<1>1. SameEnds(conn'[c], c) /\ UNCHANGED <<item, sock>> /\ \A d \in Conns \ {c} : conn'[d] = conn[d]
  BY DEF GoesOn
<1>2. Live(c) /\ Live(c)' /\ State(c)' # "DONE"
  BY DEF GoesOn, Leads, Live, State
<1>3. (HasOrigin(c)' <=> HasOrigin(c)) /\ \A f : IsEnd(c, f)' <=> IsEnd(c, f)
  BY <1>1, <1>2 DEF HasOrigin, IsEnd, SameEnds, ClientFd, OriginFd
<1>4. conn'[c].references = conn[c].references
  BY <1>1 DEF SameEnds
<1>5. CountInv(c)'
  BY <1>1, <1>2, <1>3, <1>4, CountFacts DEF CountInv
<1> QED BY <1>1, <1>5 DEF CountStep, Keeps

(* socksv5_done: as many items go as there are references. *)
LEMMA DoneCounts ==
  ASSUME CountsInv, NEW c \in Conns, Live(c), State(c) # "REQUEST_CONNECTING", socksv5_done(c)
  PROVE  CountStep(c)
<1> DEFINE cf == ClientFd(c)
           of == OriginFd(c)
           r == [conn[c] EXCEPT !.state = "DONE"]
           n(d) == Held(d, cf) + Held(d, of)
<1>0. /\ SessionInv /\ ProxyInv /\ TypeOK /\ CountInv(c) /\ EndsInv(c)
      /\ conn[c] \in Connections /\ of \in FDs \cup {NoFd}
  BY CountFacts
<1>1. /\ cf \in FDs /\ item[cf] = c /\ sock[cf] = "peer"
      /\ of # NoFd => (of \in FDs /\ item[of] = c /\ sock[of] # "peer")
  BY <1>0 DEF EndsInv
<1>2. /\ conn'[c] = Released(r, n(c))
      /\ \A d \in Conns \ {c} : conn'[d] = Released(conn[d], n(d))
      /\ \A f \in FDs : /\ item'[f] = IF f \in {cf, of} THEN None ELSE item[f]
                        /\ sock'[f] = IF f \in {cf, of} THEN "closed" ELSE sock[f]
  BY DEF socksv5_done, unregister_and_close, ClientFd, OriginFd
<1>3. r \in Connections /\ r.references = conn[c].references
  <2>1. r \in Connections
    BY <1>0, FieldTypes DEF States
  <2> QED BY <1>0, <2>1 DEF Connections
<1>4. /\ n(c) = IF of # NoFd THEN 2 ELSE 1
      /\ \A d \in Conns \ {c} : n(d) = 0
  BY <1>1, NoFdIsNoFD DEF Held
<1> HIDE DEF n, r
<1>5. r.references = n(c) /\ n(c) \in Nat
  BY <1>0, <1>1, <1>3, <1>4 DEF CountInv, HasOrigin
<1>6. conn'[c] = FreeConnection
  BY <1>2, <1>3, <1>5, ReleasedFacts
<1>7. \A f \in FDs : item'[f] # c
  BY <1>0, <1>2, NoneAssumption DEF CountInv, IsEnd
<1>8. CountInv(c)'
  BY <1>6, <1>7, FreeConnectionFacts DEF CountInv, State, Live
<1>9. ASSUME NEW d \in Conns \ {c} PROVE Keeps(d)
  <2>1. \A f \in FDs : item'[f] = d <=> item[f] = d
    BY <1>1, <1>2, NoneAssumption, NoFdIsNoFD
  <2>2. conn'[d] = conn[d] \/ (conn'[d] = FreeConnection /\ \A f \in FDs : item[f] # d)
    BY <1>0, <1>2, <1>4, ReleaseNothing
  <2>3. ASSUME OriginFd(d) \in FDs, Live(d) PROVE OriginFd(d) \notin {cf, of}
    BY <1>0, <2>3, EndsAreDisjoint DEF IsEnd
  <2> QED BY <1>2, <2>1, <2>2, <2>3 DEF Keeps
<1> QED BY <1>8, <1>9 DEF CountStep

(* accept: the struct that was free has the client's item and a reference. *)
LEMMA AcceptCounts ==
  ASSUME CountsInv, socksv5_passive_accept
  PROVE  \E c \in Conns : CountStep(c)
<1>1. PICK f \in FDs, c \in Conns :
        /\ sock[f] = "closed" /\ item[f] = None /\ conn[c].state = "free"
        /\ conn' = [conn EXCEPT ![c] = NewConnection(f)]
        /\ sock' = [sock EXCEPT ![f] = "peer"]
        /\ item' = [item EXCEPT ![f] = c]
  BY DEF socksv5_passive_accept, IsNextFd
<1>2. TypeOK /\ CountInv(c)
  BY CountFacts
<1>3. /\ conn'[c] = NewConnection(f) /\ \A d \in Conns \ {c} : conn'[d] = conn[d]
      /\ \A g \in FDs : /\ item'[g] = IF g = f THEN c ELSE item[g]
                        /\ sock'[g] = IF g = f THEN "peer" ELSE sock[g]
  BY <1>1, <1>2 DEF TypeOK
<1>4. \A g \in FDs : item[g] # c
  BY <1>1, <1>2 DEF CountInv, IsEnd, Live
<1>5. CountInv(c)'
  <2>1. /\ State(c)' = "HELLO_READ" /\ ClientFd(c)' = f /\ OriginFd(c)' = NoFd
        /\ conn'[c].references = 1
    BY <1>3, NewConnectionFacts DEF State, ClientFd, OriginFd
  <2>2. Live(c)' /\ ~HasOrigin(c)'
    BY <2>1 DEF Live, State, HasOrigin
  <2> QED BY <1>3, <1>4, <2>1, <2>2 DEF CountInv, IsEnd
<1>6. ASSUME NEW d \in Conns \ {c} PROVE Keeps(d)
  BY <1>1, <1>3, NoneAssumption DEF Keeps
<1> QED BY <1>5, <1>6 DEF CountStep

\* A record that connection() is called with, and its socket's state: the next
\* address is tried only after an attempt that failed or was given up.
Attempt(c, r, s) ==
  /\ r \in Connections /\ r.state = "REQUEST_CONNECTING" /\ WellFormed(r.write_buffer)
  /\ r.client_fd = ClientFd(c) /\ r.references = conn[c].references
  /\ OriginFd(c) \in {NoFd, r.origin_fd}
  /\ HasNextAddress(r) => r.status = "succeeded" /\ ~HasOrigin(c)
  /\ \/ s = "none" /\ r.origin_fd = NoFd
     \/ s = "refused" /\ HasOrigin(c)
     \/ /\ s = "fresh" /\ ~HasOrigin(c) /\ r.origin_fd \in FDs /\ item[r.origin_fd] = None
        /\ sock[r.origin_fd] \in {"closed", "fresh"} /\ \A d \in Conns \ {c} : ~IsEnd(d, r.origin_fd)

(* A connection that goes on with the record r, its descriptors registered. *)
LEMMA AttemptCounts ==
  ASSUME CountsInv, NEW c \in Conns, Live(c), NEW r, NEW s, Attempt(c, r, s), NEW m,
         conn' = [conn EXCEPT ![c] = m],
         m.state = "REQUEST_CONNECTING", m.client_fd = r.client_fd, m.origin_fd = r.origin_fd,
         m.addrs = r.addrs,
         \/ /\ s = "fresh" /\ m.references = r.references + 1 /\ m.status = r.status
            /\ item' = [item EXCEPT ![r.origin_fd] = c]
            /\ sock' = [sock EXCEPT ![r.origin_fd] = "connecting"]
         \/ /\ m.references = r.references /\ item' = item
            /\ sock' = IF r.origin_fd = NoFd THEN sock
                       ELSE [sock EXCEPT ![r.origin_fd] = "fresh"]
  PROVE  CountStep(c)
<1> DEFINE o == r.origin_fd
<1>0. /\ ProxyInv /\ TypeOK /\ CountInv(c) /\ EndsInv(c) /\ o \in FDs \cup {NoFd}
      /\ OriginFd(c) \in FDs \cup {NoFd}
  BY CountFacts DEF Attempt, Connections
<1>1. /\ conn'[c] = m /\ \A d \in Conns \ {c} : conn'[d] = conn[d]
      /\ State(c)' = "REQUEST_CONNECTING" /\ Live(c)'
      /\ ClientFd(c)' = ClientFd(c) /\ OriginFd(c)' = o
  BY <1>0 DEF TypeOK, State, Live, ClientFd, OriginFd, Attempt
<1>2. HasOrigin(c) => o = OriginFd(c)
  BY <1>0 DEF Attempt, HasOrigin
<1>3. \A f \in FDs : item[f] = c => f = ClientFd(c) \/ (f = o /\ HasOrigin(c))
  BY <1>0, <1>2, NoFdIsNoFD DEF CountInv, IsEnd, HasOrigin
<1>4. conn[c].references = IF HasOrigin(c) THEN 2 ELSE 1
  BY <1>0 DEF CountInv
<1>5. ASSUME NEW d \in Conns \ {c} PROVE Keeps(d)
  <2>1. OriginFd(d) \in FDs /\ Live(d) => OriginFd(d) # o
    <3>1. CASE HasOrigin(c)
      BY <1>0, <1>2, <3>1, EndsAreDisjoint DEF IsEnd
    <3>2. CASE s = "fresh"
      BY <3>2 DEF Attempt, IsEnd
    <3>3. CASE s = "none"
      BY <3>3, NoFdIsNoFD DEF Attempt
    <3> QED BY <3>1, <3>2, <3>3 DEF Attempt
  <2>2. \A f \in FDs : item'[f] = d <=> item[f] = d
    BY <1>0, NoneAssumption DEF TypeOK, Attempt
  <2>3. OriginFd(d) \in FDs /\ Live(d) => sock'[OriginFd(d)] = sock[OriginFd(d)]
    BY <1>0, <2>1 DEF TypeOK
  <2> QED BY <1>1, <2>2, <2>3 DEF Keeps
<1>6. CASE /\ s = "fresh" /\ m.references = r.references + 1 /\ m.status = r.status
           /\ item' = [item EXCEPT ![o] = c]
  <2>1. o \in FDs /\ ~HasOrigin(c) /\ item'[o] = c
    BY <1>0, <1>6 DEF Attempt, TypeOK
  <2>2. HasOrigin(c)'
    BY <1>1, <2>1, NoFdIsNoFD DEF HasOrigin
  <2>3. \A f \in FDs : item'[f] = c => IsEnd(c, f)'
    BY <1>0, <1>1, <1>3, <1>6, <2>1 DEF IsEnd, TypeOK
  <2>4. conn'[c].references = 2
    BY <1>1, <1>4, <1>6, <2>1 DEF Attempt
  <2>5. conn'[c].status = "succeeded" \/ ~HasNextAddress(conn'[c])
    BY <1>1, <1>6 DEF Attempt, HasNextAddress
  <2> QED BY <1>1, <1>5, <2>2, <2>3, <2>4, <2>5 DEF CountStep, CountInv
<1>7. CASE /\ m.references = r.references /\ item' = item
           /\ sock' = IF o = NoFd THEN sock ELSE [sock EXCEPT ![o] = "fresh"]
  <2>1. HasOrigin(c)' <=> HasOrigin(c)
    <3>1. CASE s = "fresh"
      BY <1>1, <1>7, <3>1, NoneAssumption DEF HasOrigin, Attempt
    <3>2. CASE s = "none"
      BY <1>0, <1>1, <1>2, <3>2 DEF HasOrigin, Attempt
    <3>3. CASE s = "refused"
      BY <1>1, <1>2, <1>7, <3>3 DEF HasOrigin, Attempt
    <3> QED BY <3>1, <3>2, <3>3 DEF Attempt
  <2>2. \A f \in FDs : item'[f] = c => IsEnd(c, f)'
    BY <1>1, <1>3, <1>7 DEF IsEnd
  <2>3. conn'[c].references = IF HasOrigin(c)' THEN 2 ELSE 1
    BY <1>1, <1>4, <1>7, <2>1 DEF Attempt
  <2>4. HasOrigin(c)' => ~HasNextAddress(conn'[c])
    BY <1>1, <2>1 DEF Attempt, HasNextAddress
  <2>5. OriginFd(c)' # NoFd => sock'[OriginFd(c)'] = "fresh"
    BY <1>0, <1>1, <1>7 DEF TypeOK
  <2> QED BY <1>1, <1>5, <2>2, <2>3, <2>4, <2>5 DEF CountStep, CountInv
<1> QED BY <1>6, <1>7

(* connection(): the number is free, or the item there is the connection's. *)
LEMMA ConnectionCounts ==
  ASSUME CountsInv, NEW c \in Conns, Live(c), NEW r, NEW k, NEW s, Attempt(c, r, s),
         connection(c, r, k, s)
  PROVE  CountStep(c)
<1>0. r \in Connections /\ WellFormed(r.write_buffer) /\ r.state = "REQUEST_CONNECTING"
  BY DEF Attempt
<1>1. CASE ConnectFails(c, r, s)
  <2> DEFINE failed == [r EXCEPT !.status = "failed"]
             m == request_marshall(failed)
  <2>1. /\ failed \in Connections /\ WellFormed(failed.write_buffer)
        /\ failed.state = r.state /\ failed.client_fd = r.client_fd
        /\ failed.origin_fd = r.origin_fd /\ failed.references = r.references
        /\ failed.addrs = r.addrs
    <3>1. failed \in Connections
      BY <1>0, FieldTypes
    <3> QED BY <1>0, <3>1 DEF Connections
  <2>2. conn' = [conn EXCEPT ![c] = m] /\ item' = item
    BY <1>1 DEF ConnectFails
  <2>3. sock' = IF r.origin_fd = NoFd THEN sock ELSE [sock EXCEPT ![r.origin_fd] = "fresh"]
    BY <1>1 DEF ConnectFails, AfterFailedConnect, Attempt
  <2> HIDE DEF failed
  <2>4. /\ m.state = r.state /\ m.client_fd = r.client_fd /\ m.origin_fd = r.origin_fd
        /\ m.references = r.references /\ m.addrs = r.addrs
    BY <2>1, MarshallFields
  <2> HIDE DEF m
  <2> QED BY <1>0, <2>2, <2>3, <2>4, AttemptCounts
<1>2. CASE ConnectStarts(c, r, k, s)
  <2> DEFINE m == AddReference(r)
  <2>1. /\ m.state = r.state /\ m.client_fd = r.client_fd /\ m.origin_fd = r.origin_fd
        /\ m.references = r.references + 1 /\ m.addrs = r.addrs /\ m.status = r.status
    BY <1>0 DEF AddReference, Connections
  <2>2. /\ conn' = [conn EXCEPT ![c] = m] /\ s = "fresh"
        /\ item' = [item EXCEPT ![r.origin_fd] = c]
        /\ sock' = [sock EXCEPT ![r.origin_fd] = "connecting"]
    BY <1>2 DEF ConnectStarts
  <2> HIDE DEF m
  <2> QED BY <1>0, <2>1, <2>2, AttemptCounts
<1> QED
  BY <1>1, <1>2 DEF connection, ConnectStartsOnUsedItem, ConnectFindsItConnected, Attempt

(* connecting_init: the first attempt, on a number that nobody has. *)
LEMMA InitCounts ==
  ASSUME CountsInv, NEW c \in Conns, State(c) \in {"REQUEST_READ", "REQUEST_RESOLV"},
         NEW r \in Connections, WellFormed(r.write_buffer), SameEnds(r, c), NEW k,
         connecting_init(c, r, k)
  PROVE  CountStep(c)
<1> DEFINE r1 == [r EXCEPT !.state = "REQUEST_CONNECTING", !.status = "succeeded"]
<1>0. /\ ProxyInv /\ TypeOK /\ CountInv(c) /\ EndsInv(c) /\ Live(c)
      /\ OriginFd(c) = NoFd /\ ~HasOrigin(c)
  BY CountFacts DEF EndsInv, EarlyStates, Live, State, HasOrigin
<1>1. /\ r1 \in Connections /\ r1.state = "REQUEST_CONNECTING" /\ r1.status = "succeeded"
      /\ r1.client_fd = ClientFd(c) /\ r1.origin_fd = NoFd
      /\ r1.references = conn[c].references /\ WellFormed(r1.write_buffer)
  <2>1. r1 \in Connections
    BY FieldTypes DEF States
  <2> QED BY <1>0, <2>1 DEF Connections, SameEnds
<1> HIDE DEF r1
<1>2. ASSUME NEW o \in FDs, IsNextFd(o), connection(c, [r1 EXCEPT !.origin_fd = o], k, "fresh")
      PROVE  CountStep(c)
  <2> DEFINE r2 == [r1 EXCEPT !.origin_fd = o]
  <2>1. /\ r2 \in Connections /\ r2.state = "REQUEST_CONNECTING" /\ r2.status = "succeeded"
        /\ r2.client_fd = ClientFd(c) /\ r2.origin_fd = o
        /\ r2.references = conn[c].references /\ WellFormed(r2.write_buffer)
    <3>1. r2 \in Connections
      BY <1>1, FieldTypes
    <3> QED BY <1>1, <3>1 DEF Connections
  <2>2. connection(c, r2, k, "fresh")
    BY <1>2
  <2>3. sock[o] = "closed" /\ \A d \in Conns : ~IsEnd(d, o)
    BY <1>0, <1>2, EndsAreOpen DEF IsNextFd
  <2>4. item[o] = None
    BY <1>0, <2>3, CountFacts DEF CountInv, TypeOK
  <2> HIDE DEF r2
  <2>5. Attempt(c, r2, "fresh")
    BY <1>0, <2>1, <2>3, <2>4 DEF Attempt
  <2> QED BY <1>0, <2>2, <2>5, ConnectionCounts
<1>3. CASE /\ conn' = [conn EXCEPT ![c] = request_marshall([r1 EXCEPT !.status = "failed"])]
           /\ UNCHANGED <<sock, item>>
  <2> DEFINE w == [r1 EXCEPT !.status = "failed"]
             m == request_marshall(w)
  <2>1. /\ w \in Connections /\ w.state = "REQUEST_CONNECTING"
        /\ w.client_fd = ClientFd(c) /\ w.origin_fd = NoFd
        /\ w.references = conn[c].references /\ WellFormed(w.write_buffer)
    <3>1. w \in Connections
      BY <1>1, FieldTypes
    <3> QED BY <1>1, <3>1 DEF Connections
  <2>2. conn' = [conn EXCEPT ![c] = m]
    BY <1>3
  <2> HIDE DEF w
  <2>3. /\ m.state = "REQUEST_CONNECTING" /\ m.client_fd = ClientFd(c) /\ m.origin_fd = NoFd
        /\ m.references = conn[c].references
    BY <2>1, MarshallFields
  <2> HIDE DEF m
  <2>4. /\ conn'[c] = m /\ \A d \in Conns \ {c} : conn'[d] = conn[d]
    BY <1>0, <2>2 DEF TypeOK
  <2>5. /\ State(c)' = "REQUEST_CONNECTING" /\ Live(c)' /\ ClientFd(c)' = ClientFd(c)
        /\ OriginFd(c)' = NoFd /\ ~HasOrigin(c)'
    BY <2>3, <2>4 DEF State, Live, ClientFd, OriginFd, HasOrigin
  <2>6. CountInv(c)'
    BY <1>0, <1>3, <2>3, <2>4, <2>5, NoFdIsNoFD DEF CountInv, IsEnd
  <2> QED BY <1>3, <2>4, <2>6 DEF CountStep, Keeps
<1> QED BY <1>2, <1>3 DEF connecting_init, r1

(* Giving the origin up: its item, if it has one, goes with its reference. *)
LEMMA GiveUpCounts ==
  ASSUME CountsInv, NEW c \in Conns, State(c) = "REQUEST_CONNECTING", GiveUpOrigin(c)
  PROVE  CountStep(c)
<1> DEFINE o == OriginFd(c)
           w == WithoutOrigin(conn[c])
           m == ToRequestWrite(w)
           n(d) == Held(d, NoFd) + Held(d, o)
<1>0. /\ ProxyInv /\ TypeOK /\ CountInv(c) /\ EndsInv(c) /\ BuffersInv(c)
      /\ conn[c] \in Connections /\ Live(c) /\ o \in FDs \cup {NoFd}
  BY CountFacts DEF Live, State
<1>1. /\ ClientFd(c) \in FDs /\ item[ClientFd(c)] = c /\ o # ClientFd(c)
  BY <1>0, NoFdIsNoFD DEF EndsInv
<1>2. /\ conn'[c] = Released(m, n(c))
      /\ \A d \in Conns \ {c} : conn'[d] = Released(conn[d], n(d))
      /\ \A f \in FDs : /\ item'[f] = IF f = o THEN None ELSE item[f]
                        /\ sock'[f] = IF f = o THEN "closed" ELSE sock[f]
  BY NoFdIsNoFD DEF GiveUpOrigin, unregister_and_close, OriginFd
<1>3. /\ m \in Connections /\ m.state = "REQUEST_WRITE" /\ m.references = conn[c].references
      /\ m.client_fd = ClientFd(c) /\ m.origin_fd = NoFd
  <2>1. /\ w \in Connections /\ w.references = conn[c].references
        /\ w.client_fd = ClientFd(c) /\ w.origin_fd = NoFd
        /\ WellFormed(w.read_buffer) /\ WellFormed(w.write_buffer)
    <3>1. w \in Connections
      BY <1>0, FieldTypes DEF WithoutOrigin
    <3> QED BY <1>0, <3>1 DEF WithoutOrigin, Connections, BuffersInv, ClientFd
  <2> HIDE DEF w
  <2> QED BY <2>1, ToRequestWriteFacts
<1>4. o \in FDs => \A d \in Conns \ {c} : ~IsEnd(d, o) /\ item[o] # d
  BY <1>0, EndsAreDisjoint, CountFacts DEF CountInv, IsEnd
<1>5. /\ n(c) = IF HasOrigin(c) THEN 1 ELSE 0
      /\ \A d \in Conns \ {c} : n(d) = 0
  BY <1>0, <1>4, NoFdIsNoFD DEF Held, HasOrigin
<1> HIDE DEF m, n
<1>6. /\ State(c)' = "REQUEST_WRITE" /\ ClientFd(c)' = ClientFd(c) /\ OriginFd(c)' = NoFd
      /\ conn'[c].references = 1
  <2>1. m.references = n(c) + 1 /\ n(c) \in Nat
    BY <1>0, <1>3, <1>5 DEF CountInv
  <2>2. conn'[c] = [m EXCEPT !.references = @ - n(c)]
    BY <1>2, <1>3, <2>1, ReleasedFacts
  <2> QED BY <1>3, <2>1, <2>2 DEF State, ClientFd, OriginFd, Connections
<1>7. Live(c)' /\ ~HasOrigin(c)'
  BY <1>6 DEF Live, State, HasOrigin
<1>8. \A f \in FDs : item'[f] = c => IsEnd(c, f)'
  BY <1>0, <1>2, <1>6, <1>7, NoneAssumption DEF CountInv, IsEnd
<1>9. CountInv(c)'
  BY <1>6, <1>7, <1>8 DEF CountInv
<1>10. ASSUME NEW d \in Conns \ {c} PROVE Keeps(d)
  <2>1. conn'[d] = conn[d] \/ (conn'[d] = FreeConnection /\ \A f \in FDs : item[f] # d)
    BY <1>0, <1>2, <1>5, ReleaseNothing
  <2>2. \A f \in FDs : item'[f] = d <=> item[f] = d
    BY <1>2, <1>4, NoneAssumption
  <2>3. OriginFd(d) \in FDs /\ Live(d) => OriginFd(d) # o
    BY <1>4 DEF IsEnd
  <2> QED BY <1>2, <2>1, <2>2, <2>3 DEF Keeps
<1> QED BY <1>9, <1>10 DEF CountStep

(* request_read, when the request was read and names an address. *)
LEMMA RequestCounts ==
  ASSUME CountsInv, NEW c \in Conns, NEW f \in FDs, request_read(f, c)
  PROVE  CountStep(c)
<1> DEFINE r == conn[c]
<1>0. /\ SessionInv /\ r \in Connections /\ BuffersInv(c)
      /\ State(c) = "REQUEST_READ" /\ Live(c)
  BY CountFacts DEF request_read, State, Live
<1>1. ASSUME NEW b \in AfterMessage(r.read_buffer),
             connecting_init(c, request_close([r EXCEPT !.read_buffer = b], "address"), f)
      PROVE  CountStep(c)
  <2> DEFINE v == [r EXCEPT !.read_buffer = b, !.parser = "none"]
  <2>1. v \in Connections
    <3>1. b \in Cursors
      BY <1>0, <1>1, AfterMessageIsWellFormed, WellFormedIsCursors DEF BuffersInv
    <3> QED BY <1>0, <3>1, FieldTypes
  <2>2. SameEnds(v, c) /\ WellFormed(v.write_buffer)
    BY <1>0, <2>1 DEF SameEnds, Connections, ClientFd, OriginFd, BuffersInv
  <2>3. connecting_init(c, v, f)
    BY <1>1 DEF request_close
  <2> HIDE DEF v
  <2> QED BY <1>0, <2>1, <2>2, <2>3, InitCounts
<1>2. CASE socksv5_done(c)
  BY <1>0, <1>2, DoneCounts
<1>3. CASE State(c)' \in {"REQUEST_READ", "REQUEST_RESOLV"}
  <2>1. GoesOn(c)
    BY <1>0, <1>3, RequestGoesOn DEF StepOf, Opens, Closes, Live, State
  <2> QED BY <1>0, <1>3, <2>1, LocalCounts
<1>4. \/ socksv5_done(c)
      \/ State(c)' \in {"REQUEST_READ", "REQUEST_RESOLV"}
      \/ \E b \in AfterMessage(r.read_buffer) :
           connecting_init(c, request_close([r EXCEPT !.read_buffer = b], "address"), f)
  <2>1. ASSUME NEW w, conn' = [conn EXCEPT ![c] = w] PROVE State(c)' = w.state
    BY <1>0, <2>1 DEF SessionInv, ProxyInv, TypeOK, State
  <2>2. CASE conn' = [conn EXCEPT ![c].read_buffer = Drained]
    BY <1>0, <2>2 DEF SessionInv, ProxyInv, TypeOK, Connections, State
  <2>3. CASE conn' = [conn EXCEPT ![c] = [r EXCEPT !.parser = "rejected", !.read_buffer = Drained]]
    BY <1>0, <2>1, <2>3 DEF Connections, State
  <2>4. ASSUME NEW b, NEW t, conn' = [conn EXCEPT ![c] =
                 [request_close([r EXCEPT !.read_buffer = b], "name") EXCEPT
                    !.state = "REQUEST_RESOLV", !.resolver = t]]
        PROVE  State(c)' = "REQUEST_RESOLV"
    <3> DEFINE w == [r EXCEPT !.read_buffer = b]
               v == [w EXCEPT !.state = "REQUEST_RESOLV", !.resolver = t]
    <3>1. v.state = "REQUEST_RESOLV"
      BY <1>0 DEF Connections
    <3>2. conn' = [conn EXCEPT ![c] = v]
      BY <2>4 DEF request_close
    <3> HIDE DEF v
    <3> QED BY <2>1, <3>1, <3>2
  <2>5. ASSUME NEW b, request_process(f, c, [r EXCEPT !.read_buffer = b])
        PROVE  \/ State(c)' = "REQUEST_RESOLV"
               \/ connecting_init(c, request_close([r EXCEPT !.read_buffer = b], "address"), f)
    BY <2>4, <2>5 DEF request_process
  <2> QED BY <2>2, <2>3, <2>5 DEF request_read
<1> QED BY <1>1, <1>2, <1>3, <1>4

(* The resolver: a job with an address leads to the first attempt. *)
LEMMA ResolverCounts ==
  ASSUME CountsInv, NEW c \in Conns,
         request_resolv_blocking(c) \/ \E f \in FDs : request_resolv_done(f, c)
  PROVE  CountStep(c)
<1> DEFINE r == conn[c]
<1>0. SessionInv /\ TypeOK /\ r \in Connections /\ BuffersInv(c) /\ ThreadInv(c)
  BY CountFacts, ProxyFacts
<1>1. State(c) = "REQUEST_RESOLV"
  BY <1>0 DEF request_resolv_blocking, request_resolv_done, ThreadInv, State
<1>2. ASSUME NEW f \in FDs, connecting_init(c, r, f) PROVE CountStep(c)
  BY <1>0, <1>1, <1>2, InitCounts DEF SameEnds, ClientFd, OriginFd, BuffersInv
<1>3. CASE State(c)' # "REQUEST_CONNECTING" /\ Live(c)'
  <2>1. StepOf(c)
    BY <1>0, ResolverGoesOn
  <2>2. Live(c)
    BY <1>1 DEF Live, State
  <2>3. GoesOn(c)
    BY <1>3, <2>1, <2>2 DEF StepOf, Opens, Closes
  <2> QED BY <1>1, <1>3, <2>3, LocalCounts
<1>4. \/ \E f \in FDs : connecting_init(c, r, f)
      \/ State(c)' \in {"REQUEST_RESOLV", "REQUEST_WRITE"}
  <2>1. ASSUME NEW w, conn' = [conn EXCEPT ![c] = w] PROVE State(c)' = w.state
    BY <1>0, <2>1 DEF TypeOK, State
  <2>2. CASE request_resolv_blocking(c)
    <3>1. PICK n \in 0..MaxAddrs :
            conn' = [conn EXCEPT ![c] = [r EXCEPT !.addrs = n, !.resolver = NoFd]]
      BY <2>2 DEF request_resolv_blocking
    <3>2. [r EXCEPT !.addrs = n, !.resolver = NoFd].state = r.state
      BY <1>0 DEF Connections
    <3> QED BY <1>1, <2>1, <3>1, <3>2 DEF State
  <2>3. CASE conn' = [conn EXCEPT ![c] =
               request_marshall([r EXCEPT !.state = "REQUEST_WRITE", !.status = "failed"])]
    <3> DEFINE w == [r EXCEPT !.state = "REQUEST_WRITE", !.status = "failed"]
    <3>1. /\ w \in Connections /\ w.state = "REQUEST_WRITE" /\ WellFormed(w.write_buffer)
      <4>1. w \in Connections
        BY <1>0, FieldTypes DEF States
      <4> QED BY <1>0, <4>1 DEF Connections, BuffersInv
    <3>2. conn' = [conn EXCEPT ![c] = request_marshall(w)]
      BY <2>3
    <3> HIDE DEF w
    <3>3. request_marshall(w).state = "REQUEST_WRITE"
      BY <3>1, MarshallFields
    <3> QED BY <2>1, <3>2, <3>3
  <2> QED BY <2>2, <2>3 DEF request_resolv_done
<1> QED BY <1>2, <1>3, <1>4 DEF Live, State

(* A connection that has an answer for its client keeps its descriptors. *)
LEMMA AnswerCounts ==
  ASSUME CountsInv, NEW c \in Conns, Live(c), NEW m, conn' = [conn EXCEPT ![c] = m],
         SameEnds(m, c), m.state = "REQUEST_WRITE", UNCHANGED <<item, sock>>
  PROVE  CountStep(c)
<1>1. /\ CountInv(c) /\ conn'[c] = m /\ \A d \in Conns \ {c} : conn'[d] = conn[d]
  BY CountFacts DEF TypeOK
<1>2. /\ State(c)' = "REQUEST_WRITE" /\ Live(c)'
      /\ ClientFd(c)' = ClientFd(c) /\ OriginFd(c)' = OriginFd(c)
  BY <1>1 DEF State, Live, ClientFd, OriginFd, SameEnds
<1>3. (HasOrigin(c)' <=> HasOrigin(c)) /\ \A f : IsEnd(c, f)' <=> IsEnd(c, f)
  BY <1>2 DEF HasOrigin, IsEnd
<1>4. CountInv(c)'
  BY <1>1, <1>2, <1>3 DEF CountInv, SameEnds
<1> QED BY <1>1, <1>4 DEF CountStep, Keeps

(* connecting_write: with two addresses the second attempt is the last one, so
   whatever it finds registered it does not register again. *)
LEMMA ConnectingCounts ==
  ASSUME TwoAddresses, CountsInv, NEW c \in Conns, NEW f \in FDs, connecting_write(f, c)
  PROVE  CountStep(c)
<1> DEFINE r == conn[c]
           failed == [r EXCEPT !.status = "failed"]
           o == OriginFd(c)
<1>0. /\ ProxyInv /\ TypeOK /\ CountInv(c) /\ EndsInv(c) /\ PolledInv(c)
      /\ r \in Connections /\ WellFormed(r.read_buffer) /\ WellFormed(r.write_buffer)
      /\ State(c) = "REQUEST_CONNECTING" /\ Live(c) /\ item[f] = c /\ o \in FDs \cup {NoFd}
  BY CountFacts DEF BuffersInv, connecting_write, handle_write, handle_event, State, Live
<1>1. /\ failed \in Connections /\ failed.status = "failed"
      /\ failed.state = r.state /\ failed.addrs = r.addrs /\ SameEnds(failed, c)
      /\ failed.read_buffer = r.read_buffer /\ failed.write_buffer = r.write_buffer
  <2>1. failed \in Connections
    BY <1>0, FieldTypes
  <2> QED BY <1>0, <2>1 DEF Connections, SameEnds, ClientFd, OriginFd
<1>2. SameEnds(r, c)
  BY DEF SameEnds, ClientFd, OriginFd
<1> HIDE DEF failed
<1>3. ASSUME NEW w \in {r, failed}, HasNextAddress(w), NEW s, connection(c, NextAddress(w), f, s),
             \/ s = "none" /\ o = NoFd
             \/ s = "refused" /\ HasOrigin(c)
             \/ s = "fresh" /\ o \in FDs /\ ~HasOrigin(c) /\ sock[o] = "fresh"
      PROVE  CountStep(c)
  <2> DEFINE v == NextAddress(w)
  <2>1. /\ w \in Connections /\ w.state = "REQUEST_CONNECTING" /\ SameEnds(w, c)
        /\ WellFormed(w.write_buffer)
    BY <1>0, <1>1, <1>2 DEF State
  <2>2. /\ v = [w EXCEPT !.addrs = w.addrs - 1] /\ w.addrs - 1 \in 0..MaxAddrs
        /\ w.addrs - 1 < 2
    BY <1>3, <2>1, Socks5Assumption DEF NextAddress, HasNextAddress, Connections, TwoAddresses
  <2>3. v \in Connections
    BY <2>1, <2>2, FieldTypes
  <2>4. /\ v.state = "REQUEST_CONNECTING" /\ SameEnds(v, c) /\ v.write_buffer = w.write_buffer
        /\ ~HasNextAddress(v)
    BY <2>1, <2>2, <2>3 DEF Connections, SameEnds, HasNextAddress
  <2>5. connection(c, v, f, s)
    BY <1>3
  <2> HIDE DEF v
  <2>6. s = "fresh" => item[o] = None /\ \A d \in Conns \ {c} : ~IsEnd(d, o)
    <3>1. SUFFICES ASSUME o \in FDs, ~HasOrigin(c) PROVE item[o] = None /\ \A d \in Conns \ {c} : ~IsEnd(d, o)
      BY <1>3
    <3>2. \A d \in Conns \ {c} : ~IsEnd(d, o)
      BY <1>0, <3>1, EndsAreDisjoint DEF IsEnd
    <3>3. \A d \in Conns : item[o] # d
      BY <1>0, <3>1, <3>2, NoFdIsNoFD, CountFacts DEF CountInv, HasOrigin
    <3> QED BY <1>0, <3>1, <3>2, <3>3 DEF TypeOK
  <2>7. Attempt(c, v, s)
    BY <1>0, <1>3, <2>1, <2>3, <2>4, <2>6 DEF Attempt, SameEnds
  <2> QED BY <1>0, <2>5, <2>7, ConnectionCounts
<1>4. ASSUME NEW w \in {r, failed}, conn' = [conn EXCEPT ![c] = ToRequestWrite(w)],
             UNCHANGED <<item, sock>>
      PROVE  CountStep(c)
  <2>1. w \in Connections /\ SameEnds(w, c) /\ WellFormed(w.read_buffer) /\ WellFormed(w.write_buffer)
    BY <1>0, <1>1, <1>2
  <2>2. ToRequestWrite(w).state = "REQUEST_WRITE" /\ SameEnds(ToRequestWrite(w), c)
    BY <2>1, ToRequestWriteFacts DEF SameEnds
  <2> QED BY <1>0, <1>4, <2>2, AnswerCounts
<1>5. CASE ConnectingAfterFailure(f, c)
  <2>1. CASE HasNextAddress(r)
    <3>1. ~HasOrigin(c) /\ (o # NoFd => sock[o] = "fresh")
      BY <1>0, <1>5, <2>1 DEF ConnectingAfterFailure, CountInv
    <3>2. connection(c, NextAddress(r), f, IF o = NoFd THEN "none" ELSE sock[o])
      BY <1>5, <2>1 DEF ConnectingAfterFailure, OriginFd
    <3>3. CASE o = NoFd
      BY <1>3, <2>1, <3>2, <3>3
    <3>4. CASE o # NoFd
      <4>1. connection(c, NextAddress(r), f, "fresh")
        BY <3>1, <3>2, <3>4
      <4> QED BY <1>0, <1>3, <2>1, <3>1, <3>4, <4>1
    <3> QED BY <3>3, <3>4
  <2>2. CASE ~HasNextAddress(r)
    BY <1>0, <1>5, <2>2, GiveUpCounts DEF ConnectingAfterFailure
  <2> QED BY <2>1, <2>2
<1>6. CASE ConnectingSucceeds(f, c)
  BY <1>4, <1>6 DEF ConnectingSucceeds
<1>7. CASE ConnectingFails(f, c)
  <2>1. HasOrigin(c)
    BY <1>0, <1>7 DEF ConnectingFails, PolledInv, Attempting, GaveUp, HasOrigin
  <2>2. CASE HasNextAddress(failed)
    BY <1>3, <1>7, <2>1, <2>2 DEF ConnectingFails, failed
  <2>3. CASE ~HasNextAddress(failed)
    BY <1>4, <1>7, <2>3 DEF ConnectingFails, failed
  <2> QED BY <2>2, <2>3
<1> QED BY <1>5, <1>6, <1>7 DEF connecting_write

(* The other handlers go on with the same descriptors, or end. *)
LEMMA OtherCounts ==
  ASSUME CountsInv, NEW c \in Conns, NEW f \in FDs,
         \/ hello_read(f, c) \/ hello_write(f, c) \/ auth_read(f, c) \/ auth_write(f, c)
         \/ request_write(f, c) \/ copy_read(f, c) \/ copy_write(f, c)
  PROVE  CountStep(c)
<1>1. /\ SessionInv /\ Live(c)
      /\ State(c) \notin {"REQUEST_READ", "REQUEST_RESOLV", "REQUEST_CONNECTING"}
  BY CountFacts DEF hello_read, hello_write, auth_read, auth_write, request_write, copy_read,
     copy_write, State, Live
<1>2. StepOf(c)
  BY <1>1, GreetingGoesOn, AnswerGoesOn, RelayGoesOn
<1>3. CASE GoesOn(c)
  <2>1. State(c)' # "REQUEST_CONNECTING"
    BY <1>1, <1>3 DEF GoesOn, Leads
  <2> QED BY <1>1, <1>3, <2>1, LocalCounts
<1>4. CASE Closes(c)
  BY <1>1, <1>4, DoneCounts DEF Closes
<1> QED BY <1>1, <1>2, <1>3, <1>4 DEF StepOf, Opens

(* The kernel ends a handshake: one that is under way. *)
LEMMA HandshakeCounts ==
  ASSUME CountsInv, NEW o \in FDs, ConnectEnds(o)
  PROVE  \A c \in Conns : Keeps(c)
<1>1. PICK s \in {"established", "refused"} : sock' = [sock EXCEPT ![o] = s]
  BY DEF ConnectEnds
<1>2. sock[o] = "connecting" /\ UNCHANGED <<item, conn>>
  BY DEF ConnectEnds
<1> QED BY <1>1, <1>2, CountFacts DEF Keeps, TypeOK

(* Every step keeps every count. *)
LEMMA NextCounts ==
  ASSUME TwoAddresses, CountsInv, [Next]_vars
  PROVE  \A c \in Conns : CountInv(c)'
<1>1. ASSUME NEW c \in Conns, CountStep(c) PROVE \A d \in Conns : CountInv(d)'
  BY <1>1, KeptCount DEF CountStep
<1>2. ASSUME NEW f \in FDs, NEW c \in Conns, Handler(f, c) PROVE CountStep(c)
  BY <1>2, OtherCounts, RequestCounts, ResolverCounts, ConnectingCounts DEF Handler
<1>3. CASE selector_select \/ SkipEvent \/ UNCHANGED vars
  <2>1. \A c \in Conns : Keeps(c)
    BY <1>3 DEF selector_select, SkipEvent, vars, Keeps
  <2> QED BY <2>1, KeptCount
<1>4. CASE \E o \in FDs : ConnectEnds(o)
  BY <1>4, HandshakeCounts, KeptCount
<1>5. CASE socksv5_passive_accept
  BY <1>1, <1>5, AcceptCounts
<1>6. CASE \E c \in Conns : request_resolv_blocking(c)
  BY <1>1, <1>6, ResolverCounts
<1> QED BY <1>1, <1>2, <1>3, <1>4, <1>5, <1>6 DEF Next, MainLoop

(* With no connection there is nothing to count. *)
LEMMA InitCountsInv == Init => CountsInv
<1> SUFFICES ASSUME Init PROVE CountsInv
  OBVIOUS
<1>1. SessionInv
  BY InitSession
<1>2. /\ \A c \in Conns : conn[c] = FreeConnection
      /\ \A f \in FDs, c \in Conns : item[f] # c
  BY NoneAssumption DEF Init
<1>3. \A c \in Conns : CountInv(c)
  BY <1>2, FreeConnectionFacts DEF CountInv, State, Live
<1> QED BY <1>1, <1>3 DEF CountsInv

(* One item for each reference. *)
LEMMA ReferencesFromCounts == CountsInv => ReferencesCountItems
<1> SUFFICES ASSUME CountsInv, NEW c \in Conns
             PROVE  conn[c].references = Cardinality({f \in FDs : item[f] = c})
  BY DEF ReferencesCountItems
<1> DEFINE items == {f \in FDs : item[f] = c}
<1>0. CountInv(c) /\ EndsInv(c) /\ OriginFd(c) \in FDs \cup {NoFd}
  BY CountFacts
<1>1. CASE ~Live(c)
  <2>1. items = {}
    BY <1>0, <1>1 DEF CountInv, IsEnd
  <2> QED BY <1>0, <1>1, <2>1, FS_EmptySet DEF CountInv
<1>2. CASE Live(c) /\ ~HasOrigin(c)
  <2>1. items = {ClientFd(c)}
    BY <1>0, <1>2, NoFdIsNoFD DEF CountInv, EndsInv, IsEnd, HasOrigin
  <2> QED BY <1>0, <1>2, <2>1, FS_Singleton DEF CountInv
<1>3. CASE Live(c) /\ HasOrigin(c)
  <2>1. items = {ClientFd(c)} \cup {OriginFd(c)} /\ ClientFd(c) # OriginFd(c)
    BY <1>0, <1>3, NoFdIsNoFD DEF CountInv, EndsInv, IsEnd, HasOrigin
  <2>2. /\ IsFiniteSet({ClientFd(c)}) /\ Cardinality({ClientFd(c)}) = 1
        /\ OriginFd(c) \notin {ClientFd(c)}
    BY <2>1, FS_Singleton
  <2>3. Cardinality({ClientFd(c)} \cup {OriginFd(c)}) = 2
    BY <2>2, FS_AddElement
  <2> QED BY <1>0, <1>3, <2>1, <2>3 DEF CountInv
<1> QED BY <1>1, <1>2, <1>3

(* socks5_destroy gives a struct socks5 back exactly when the last of its
   descriptors is unregistered: for any number of connections and descriptors,
   as long as no name has more than two addresses.  (With three, connection()
   counts the origin's descriptor again when it connects it again, and the
   struct is never given back.) *)
THEOREM ReferencesAreExact ==
  ASSUME TwoAddresses
  PROVE  Spec => []ReferencesCountItems
<1>1. CountsInv /\ [Next]_vars => CountsInv'
  BY NextSession, NextCounts DEF CountsInv
<1> QED BY <1>1, InitCountsInv, ReferencesFromCounts, PTL DEF Spec
-----------------------------------------------------------------------------
(* Attempts run out: the variant by which ConnectingEnds holds. *)

\* A step for another connection leaves the struct of d alone, but perhaps for
\* references.
NoMoreThanReleased(d) ==
  conn'[d] = conn[d] \/ \E n \in Nat : conn'[d] = Released(conn[d], n)

(* So it has as many addresses left as before, as long as it is connecting. *)
LEMMA ReleasedKeepsAddresses ==
  ASSUME TypeOK, NEW d \in Conns, NoMoreThanReleased(d), State(d)' = "REQUEST_CONNECTING"
  PROVE  conn'[d].addrs = conn[d].addrs
<1>1. SUFFICES ASSUME NEW n \in Nat, conn'[d] = Released(conn[d], n)
               PROVE  conn'[d].addrs = conn[d].addrs
  BY DEF NoMoreThanReleased
<1>2. conn[d] \in Connections /\ conn[d].references \in Nat
  BY DEF TypeOK, Connections
<1>3. CASE conn[d].references <= n
  BY <1>1, <1>2, <1>3, ReleasedFacts, FreeConnectionFacts DEF State
<1>4. CASE conn[d].references > n
  <2>1. conn'[d] = [conn[d] EXCEPT !.references = @ - n]
    BY <1>1, <1>2, <1>4, ReleasedFacts
  <2> QED BY <1>2, <2>1 DEF Connections
<1> QED BY <1>2, <1>3, <1>4

(* unregister_and_close gives references of others back, if anything. *)
LEMMA UnregisterReleases ==
  ASSUME NEW c \in Conns, NEW d \in Conns \ {c}, NEW r, NEW fd1, NEW fd2, NEW table,
         unregister_and_close(c, r, fd1, fd2, table)
  PROVE  NoMoreThanReleased(d)
<1>1. conn'[d] = Released(conn[d], Held(d, fd1) + Held(d, fd2))
  BY DEF unregister_and_close
<1>2. Held(d, fd1) + Held(d, fd2) \in Nat
  BY DEF Held
<1> QED BY <1>1, <1>2 DEF NoMoreThanReleased

(* connection() and connecting_init change their own struct only. *)
LEMMA AttemptIsForOne ==
  ASSUME TypeOK, NEW c \in Conns, NEW d \in Conns \ {c}, NEW r, NEW k,
         connecting_init(c, r, k) \/ \E s : connection(c, r, k, s)
  PROVE  conn'[d] = conn[d]
<1>1. ASSUME NEW w, NEW s, connection(c, w, k, s) PROVE conn'[d] = conn[d]
  BY <1>1 DEF TypeOK, connection, ConnectFails, ConnectStarts, ConnectStartsOnUsedItem,
     ConnectFindsItConnected
<1>2. CASE connecting_init(c, r, k)
  <2>1. CASE \E w : connection(c, w, k, "fresh")
    BY <1>1, <2>1
  <2>2. CASE \E w : conn' = [conn EXCEPT ![c] = w]
    BY <2>2 DEF TypeOK
  <2> QED BY <1>2, <2>1, <2>2, Zenon DEF connecting_init
<1> QED BY <1>1, <1>2

(* The state that each handler is for. *)
LEMMA HandlerStates ==
  ASSUME NEW f \in FDs, NEW c \in Conns
  PROVE  /\ hello_read(f, c) => State(c) = "HELLO_READ"
         /\ hello_write(f, c) => State(c) = "HELLO_WRITE"
         /\ auth_read(f, c) => State(c) = "USERPASS_READ"
         /\ auth_write(f, c) => State(c) = "USERPASS_WRITE"
         /\ request_read(f, c) => State(c) = "REQUEST_READ"
         /\ request_write(f, c) => State(c) = "REQUEST_WRITE"
         /\ request_resolv_done(f, c) => State(c) = "REQUEST_RESOLV"
         /\ copy_read(f, c) => State(c) = "COPY"
         /\ copy_write(f, c) => State(c) = "COPY"
<1>1. hello_read(f, c) => State(c) = "HELLO_READ"
  BY Zenon DEF hello_read, State
<1>2. hello_write(f, c) => State(c) = "HELLO_WRITE"
  BY Zenon DEF hello_write, State
<1>3. auth_read(f, c) => State(c) = "USERPASS_READ"
  BY Zenon DEF auth_read, State
<1>4. auth_write(f, c) => State(c) = "USERPASS_WRITE"
  BY Zenon DEF auth_write, State
<1>5. request_read(f, c) => State(c) = "REQUEST_READ"
  BY Zenon DEF request_read, State
<1>6. request_write(f, c) => State(c) = "REQUEST_WRITE"
  BY Zenon DEF request_write, State
<1>7. request_resolv_done(f, c) => State(c) = "REQUEST_RESOLV"
  BY Zenon DEF request_resolv_done, State
<1>8. copy_read(f, c) => State(c) = "COPY"
  BY Zenon DEF copy_read, State
<1>9. copy_write(f, c) => State(c) = "COPY"
  BY Zenon DEF copy_write, State
<1> QED BY <1>1, <1>2, <1>3, <1>4, <1>5, <1>6, <1>7, <1>8, <1>9, Zenon

(* Every handler, for the connections that it is not for. *)
LEMMA HandlersRelease ==
  ASSUME SessionInv, NEW f \in FDs, NEW c \in Conns, Handler(f, c), NEW d \in Conns \ {c}
  PROVE  NoMoreThanReleased(d)
<1>1. TypeOK
  BY DEF SessionInv, ProxyInv
<1>2. CASE socksv5_done(c) \/ GiveUpOrigin(c)
  BY <1>2, UnregisterReleases DEF socksv5_done, GiveUpOrigin
<1>3. CASE connecting_write(f, c)
  <2>1. CASE ConnectingAfterFailure(f, c)
    BY <1>1, <1>2, <2>1, AttemptIsForOne DEF ConnectingAfterFailure, NoMoreThanReleased
  <2>2. CASE ConnectingSucceeds(f, c)
    BY <1>1, <2>2 DEF ConnectingSucceeds, TypeOK, NoMoreThanReleased
  <2>3. CASE ConnectingFails(f, c)
    <3>1. CASE \E w, s : connection(c, w, f, s)
      BY <1>1, <3>1, AttemptIsForOne DEF NoMoreThanReleased
    <3>2. CASE \E w : conn' = [conn EXCEPT ![c] = w]
      BY <1>1, <3>2 DEF TypeOK, NoMoreThanReleased
    <3> QED BY <2>3, <3>1, <3>2 DEF ConnectingFails
  <2> QED BY <1>3, <2>1, <2>2, <2>3 DEF connecting_write
<1>4. CASE request_read(f, c)
  <2>1. CASE \E w : conn' = [conn EXCEPT ![c] = w]
    BY <1>1, <2>1 DEF TypeOK, NoMoreThanReleased
  <2>2. CASE \E w : connecting_init(c, w, f)
    BY <1>1, <2>2, AttemptIsForOne DEF NoMoreThanReleased
  <2>3. CASE \E b \in AfterMessage(conn[c].read_buffer) :
               request_process(f, c, [conn[c] EXCEPT !.read_buffer = b])
    <3> PICK b \in AfterMessage(conn[c].read_buffer) :
               request_process(f, c, [conn[c] EXCEPT !.read_buffer = b])
      BY <2>3, Zenon
    <3>1. CASE connecting_init(c, request_close([conn[c] EXCEPT !.read_buffer = b], "address"), f)
      BY <2>2, <3>1, Zenon
    <3>2. CASE \E thread \in {f} \cup (IF ThreadsFail THEN {NoFd} ELSE {}) :
                 conn' = [conn EXCEPT ![c] =
                            [request_close([conn[c] EXCEPT !.read_buffer = b], "name")
                               EXCEPT !.state = "REQUEST_RESOLV", !.resolver = thread]]
      BY <2>1, <3>2, Zenon
    <3> QED BY <3>1, <3>2, Zenon DEF request_process
  <2> QED BY <1>2, <1>4, <2>1, <2>3 DEF request_read
<1>5. CASE request_resolv_done(f, c)
  BY <1>1, <1>5, AttemptIsForOne DEF request_resolv_done, TypeOK, NoMoreThanReleased
<1>6. CASE \/ hello_read(f, c) \/ hello_write(f, c) \/ auth_read(f, c) \/ auth_write(f, c)
           \/ request_write(f, c) \/ copy_read(f, c) \/ copy_write(f, c)
  <2>0. /\ Live(c)
        /\ State(c) \notin {"REQUEST_READ", "REQUEST_RESOLV", "REQUEST_CONNECTING"}
    <3>1. State(c) \in {"HELLO_READ", "HELLO_WRITE", "USERPASS_READ", "USERPASS_WRITE",
                       "REQUEST_WRITE", "COPY"}
      BY <1>6, HandlerStates
    <3> QED BY <3>1 DEF Live, State
  <2>1. StepOf(c)
    BY <1>6, <2>0, GreetingGoesOn, AnswerGoesOn, RelayGoesOn
  <2>2. CASE GoesOn(c)
    BY <2>0, <2>2 DEF GoesOn, Leads, NoMoreThanReleased
  <2>3. CASE Closes(c)
    BY <1>2, <2>3 DEF Closes
  <2> QED BY <2>0, <2>1, <2>2, <2>3 DEF StepOf, Opens
<1> QED BY <1>3, <1>4, <1>5, <1>6 DEF Handler

(* connection() takes no address, and gives none back. *)
LEMMA AttemptKeepsAddresses ==
  ASSUME TypeOK, NEW c \in Conns, NEW r \in Connections, WellFormed(r.write_buffer),
         NEW k, NEW s, connection(c, r, k, s)
  PROVE  conn'[c].addrs = r.addrs
<1> DEFINE failed == [r EXCEPT !.status = "failed"]
           a == AddReference(r)
           again == [a EXCEPT !.status = "failed"]
<1>0. \A m : conn' = [conn EXCEPT ![c] = m] => conn'[c] = m
  BY DEF TypeOK
<1>1. a \in Connections /\ a.addrs = r.addrs /\ a.write_buffer = r.write_buffer
  <2>1. r.references + 1 \in Nat
    BY DEF Connections
  <2>2. [r EXCEPT !.references = r.references + 1] \in Connections
    BY <2>1, FieldTypes
  <2> QED BY <2>2 DEF AddReference, Connections
<1>2. failed \in Connections /\ failed.addrs = r.addrs /\ failed.write_buffer = r.write_buffer
  <2>1. failed \in Connections
    BY FieldTypes
  <2> QED BY <2>1 DEF Connections
<1> HIDE DEF a
<1>3. again \in Connections /\ again.addrs = r.addrs /\ again.write_buffer = r.write_buffer
  <2>1. again \in Connections
    BY <1>1, FieldTypes
  <2> QED BY <1>1, <2>1 DEF Connections
<1> HIDE DEF failed, again
<1>4. CASE ConnectFails(c, r, s)
  <2>1. conn'[c] = request_marshall(failed)
    BY <1>0, <1>4 DEF ConnectFails, failed
  <2> QED BY <1>2, <2>1, MarshallFields
<1>5. CASE ConnectStarts(c, r, k, s)
  BY <1>0, <1>1, <1>5 DEF ConnectStarts, a
<1>6. CASE ConnectStartsOnUsedItem(c, r, s)
  <2> DEFINE w == request_marshall(failed)
  <2>1. conn'[c] = WithoutOrigin(w)
    BY <1>0, <1>6 DEF ConnectStartsOnUsedItem, failed
  <2>2. w \in Connections /\ w.addrs = r.addrs
    BY <1>2, MarshallFields
  <2> HIDE DEF w
  <2> QED BY <2>1, <2>2 DEF WithoutOrigin, Connections
<1>7. CASE ConnectFindsItConnected(c, r, k, s)
  <2>1. conn'[c] = request_marshall(again)
    BY <1>0, <1>7 DEF ConnectFindsItConnected, again, a
  <2> QED BY <1>3, <2>1, MarshallFields
<1> QED BY <1>4, <1>5, <1>6, <1>7 DEF connection

(* connecting_write that stays in REQUEST_CONNECTING has used an address up. *)
LEMMA ConnectingTakesAnAddress ==
  ASSUME SessionInv, NEW c \in Conns, NEW f \in FDs, connecting_write(f, c),
         State(c)' = "REQUEST_CONNECTING"
  PROVE  conn'[c].addrs < conn[c].addrs
<1> DEFINE r == conn[c]
           failed == [r EXCEPT !.status = "failed"]
<1>1. /\ ProxyInv /\ TypeOK /\ r \in Connections /\ State(c) = "REQUEST_CONNECTING"
      /\ WellFormed(r.read_buffer) /\ WellFormed(r.write_buffer)
  BY ProxyFacts DEF SessionInv, BuffersInv, connecting_write, State
<1>2. /\ failed \in Connections /\ failed.addrs = r.addrs
      /\ failed.read_buffer = r.read_buffer /\ failed.write_buffer = r.write_buffer
  <2>1. failed \in Connections
    BY <1>1, FieldTypes
  <2> QED BY <1>1, <2>1 DEF Connections
<1> HIDE DEF failed
<1>3. ASSUME NEW w \in {r, failed}, HasNextAddress(w), NEW s, connection(c, NextAddress(w), f, s)
      PROVE  conn'[c].addrs < r.addrs
  <2> DEFINE v == NextAddress(w)
  <2>1. w \in Connections /\ w.addrs = r.addrs /\ WellFormed(w.write_buffer)
    BY <1>1, <1>2
  <2>2. v = [w EXCEPT !.addrs = w.addrs - 1] /\ w.addrs - 1 \in 0..MaxAddrs
    BY <1>3, <2>1, Socks5Assumption DEF NextAddress, HasNextAddress, Connections
  <2>3. v \in Connections
    BY <2>1, <2>2, FieldTypes
  <2>4. v.addrs = r.addrs - 1 /\ v.write_buffer = w.write_buffer /\ r.addrs \in Nat
    BY <1>1, <2>1, <2>2, <2>3, Socks5Assumption DEF Connections
  <2>5. connection(c, v, f, s)
    BY <1>3
  <2> HIDE DEF v
  <2>6. conn'[c].addrs = v.addrs
    BY <1>1, <2>1, <2>3, <2>4, <2>5, AttemptKeepsAddresses
  <2> QED BY <2>4, <2>6
<1>4. ASSUME NEW w \in {r, failed}, conn' = [conn EXCEPT ![c] = ToRequestWrite(w)] PROVE FALSE
  <2>1. ToRequestWrite(w).state = "REQUEST_WRITE"
    BY <1>1, <1>2, ToRequestWriteFacts
  <2> QED BY <1>1, <1>4, <2>1 DEF TypeOK, State
<1>5. CASE ConnectingAfterFailure(f, c)
  <2>1. CASE HasNextAddress(r)
    BY <1>3, <1>5, <2>1 DEF ConnectingAfterFailure
  <2>2. CASE GiveUpOrigin(c)
    <3> DEFINE w == WithoutOrigin(r)
               m == ToRequestWrite(w)
               n == Held(c, NoFd) + Held(c, OriginFd(c))
    <3>1. m \in Connections /\ m.state = "REQUEST_WRITE"
      <4>1. w \in Connections
        BY <1>1, FieldTypes DEF WithoutOrigin
      <4>2. WellFormed(w.read_buffer) /\ WellFormed(w.write_buffer)
        BY <1>1, <4>1 DEF WithoutOrigin, Connections
      <4> HIDE DEF w
      <4> QED BY <4>1, <4>2, ToRequestWriteFacts
    <3>2. conn'[c] = Released(m, n) /\ n \in Nat
      BY <2>2 DEF GiveUpOrigin, unregister_and_close, OriginFd, Held
    <3> HIDE DEF m, n
    <3>3. m.references \in Nat
      BY <3>1 DEF Connections
    <3>4. CASE m.references <= n
      BY <3>1, <3>2, <3>4, ReleasedFacts, FreeConnectionFacts DEF State
    <3>5. CASE m.references > n
      <4>1. conn'[c] = [m EXCEPT !.references = @ - n]
        BY <3>1, <3>2, <3>5, ReleasedFacts
      <4> QED BY <3>1, <4>1 DEF State, Connections
    <3> QED BY <3>2, <3>3, <3>4, <3>5
  <2> QED BY <1>5, <2>1, <2>2 DEF ConnectingAfterFailure
<1>6. CASE ConnectingSucceeds(f, c)
  BY <1>4, <1>6 DEF ConnectingSucceeds
<1>7. CASE ConnectingFails(f, c)
  <2>1. CASE HasNextAddress(failed)
    BY <1>3, <1>7, <2>1 DEF ConnectingFails, failed
  <2>2. CASE ~HasNextAddress(failed)
    BY <1>4, <1>7, <2>2 DEF ConnectingFails, failed
  <2> QED BY <2>1, <2>2
<1> QED BY <1>5, <1>6, <1>7 DEF connecting_write

(* While a connection is in REQUEST_CONNECTING nothing gives it more addresses,
   not its resolver's thread either, and each event that connecting_write handles without
   leaving the state leaves it fewer: "vuelve a probar la siguiente ip" ends
   however many addresses there are and whatever becomes of each.  This is the
   safety half of ConnectingEnds; that there is such an event while it is in
   that state is FailureReachesClient and the kernel's. *)
THEOREM AttemptsRunOut ==
  Spec => [][\A c \in Conns :
               conn[c].state = "REQUEST_CONNECTING" /\ conn'[c].state = "REQUEST_CONNECTING" =>
                 /\ conn'[c].addrs <= conn[c].addrs
                 /\ (\E f \in FDs : connecting_write(f, c)) => conn'[c].addrs < conn[c].addrs]_vars
<1> DEFINE Fewer(d) ==
             State(d) = "REQUEST_CONNECTING" /\ State(d)' = "REQUEST_CONNECTING" =>
               /\ conn'[d].addrs <= conn[d].addrs
               /\ (\E f \in FDs : connecting_write(f, d)) => conn'[d].addrs < conn[d].addrs
<1>1. ASSUME SessionInv, [Next]_vars, NEW d \in Conns PROVE Fewer(d)
  <2> SUFFICES ASSUME State(d) = "REQUEST_CONNECTING", State(d)' = "REQUEST_CONNECTING",
                      ~\E f \in FDs : connecting_write(f, d)
               PROVE  conn'[d].addrs <= conn[d].addrs
    <3>1. conn[d].addrs \in Nat /\ conn'[d].addrs \in Nat
      <4>1. conn[d] \in Connections /\ conn'[d] \in Connections
        BY <1>1, NextProxy DEF SessionInv, ProxyInv, TypeOK
      <4> QED BY <4>1, Socks5Assumption DEF Connections
    <3> QED BY <1>1, <3>1, ConnectingTakesAnAddress
  <2>1. /\ TypeOK /\ ThreadInv(d) /\ conn[d].addrs \in Nat
    <3>1. TypeOK /\ ThreadInv(d) /\ conn[d] \in Connections
      BY <1>1, ProxyFacts DEF SessionInv, ProxyInv
    <3> QED BY <3>1, Socks5Assumption DEF Connections
  <2>2. CASE NoMoreThanReleased(d)
    BY <2>1, <2>2, ReleasedKeepsAddresses
  <2>3. ASSUME NEW f \in FDs, NEW c \in Conns, Handler(f, c) PROVE NoMoreThanReleased(d)
    <3>1. c # d
      BY <2>3, HandlerStates DEF Handler
    <3> QED BY <1>1, <2>3, <3>1, HandlersRelease
  <2>4. CASE socksv5_passive_accept \/ \E c \in Conns : request_resolv_blocking(c)
    <3>1. ASSUME NEW c \in Conns, NEW m, c # d, conn' = [conn EXCEPT ![c] = m]
          PROVE  NoMoreThanReleased(d)
      BY <2>1, <3>1 DEF TypeOK, NoMoreThanReleased
    <3>2. CASE socksv5_passive_accept
      <4>1. PICK f \in FDs, c \in Conns :
              conn[c].state = "free" /\ conn' = [conn EXCEPT ![c] = NewConnection(f)]
        BY <3>2 DEF socksv5_passive_accept
      <4>2. c # d
        BY <4>1 DEF State
      <4>3. conn'[d] = conn[d]
        BY <2>1, <4>1, <4>2 DEF TypeOK
      <4> QED BY <2>2, <4>3 DEF NoMoreThanReleased
    <3>3. CASE \E c \in Conns : request_resolv_blocking(c)
      BY <2>1, <2>2, <3>1, <3>3 DEF request_resolv_blocking, ThreadInv
    <3> QED BY <2>4, <3>2, <3>3
  <2>5. CASE UNCHANGED conn
    BY <2>2, <2>5 DEF NoMoreThanReleased
  <2> QED
    BY <1>1, <2>2, <2>3, <2>4, <2>5
    DEF Next, MainLoop, selector_select, SkipEvent, ConnectEnds, vars
<1>2. SessionInv /\ [Next]_vars =>
        [\A c \in Conns :
           conn[c].state = "REQUEST_CONNECTING" /\ conn'[c].state = "REQUEST_CONNECTING" =>
             /\ conn'[c].addrs <= conn[c].addrs
             /\ (\E f \in FDs : connecting_write(f, c)) => conn'[c].addrs < conn[c].addrs]_vars
  BY <1>1 DEF State
<1> QED BY <1>2, InitSession, NextSession, PTL DEF Spec
=============================================================================
