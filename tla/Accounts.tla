------------------------------ MODULE Accounts ------------------------------
(***************************************************************************)
(* What the management protocol promises about the users of the proxy: a   *)
(* list of accounts in the order in which they were added, bounded, that   *)
(* only the pending requests of administrators change, each answered with  *)
(* what became of it; and users who are let in by an account of the list.  *)
(* Management implements it, with its table of pointers for the list.      *)
(***************************************************************************)
EXTENDS Naturals, Sequences

CONSTANTS
  Admins, Sessions,
  Names, Credentials,   \* what a user is called, and an account: a name and a password
  Room,                 \* accounts that fit
  Nobody                \* not a name

VARIABLES
  accounts,   \* the list
  pending,    \* the change that each administrator is asking for
  answer,     \* the last answer to each administrator
  holder      \* who each session was let in as

vars == <<accounts, pending, answer, holder>>

Changes == {"none", "add_user", "delete_user"}
Answers == {"none", "succeeded", "index_not_supported", "max_users_reached"}

Init ==
  /\ accounts \in Seq(Credentials) /\ Len(accounts) <= Room
  /\ pending = [m \in Admins |-> "none"]
  /\ answer = [m \in Admins |-> "none"]
  /\ holder = [s \in Sessions |-> Nobody]

Answered(m, a) ==
  /\ pending' = [pending EXCEPT ![m] = "none"]
  /\ answer' = [answer EXCEPT ![m] = a]

\* Anything but a change of the list, which may be asked for next.
Asks(m, change, a) ==
  /\ pending[m] = "none"
  /\ pending' = [pending EXCEPT ![m] = change]
  /\ answer' = [answer EXCEPT ![m] = a]
  /\ UNCHANGED <<accounts, holder>>

\* The connection ends before its request was carried out.
GivesUp(m) ==
  /\ Answered(m, "none")
  /\ UNCHANGED <<accounts, holder>>

AddsUser(m, c) ==
  /\ pending[m] = "add_user"
  /\ \/ Len(accounts) < Room /\ accounts' = Append(accounts, c) /\ Answered(m, "succeeded")
     \/ Len(accounts) = Room /\ UNCHANGED accounts /\ Answered(m, "max_users_reached")
  /\ UNCHANGED holder

Holding(name) == {k \in DOMAIN accounts : accounts[k].name = name}
IsFirst(k, name) == k \in Holding(name) /\ \A j \in Holding(name) : k <= j

\* The others keep their order.
Without(k) ==
  [i \in 1..(Len(accounts) - 1) |-> IF i < k THEN accounts[i] ELSE accounts[i + 1]]

\* To delete nobody is a success.
DeletesUser(m, name) ==
  /\ pending[m] = "delete_user"
  /\ \/ Holding(name) = {} /\ UNCHANGED accounts
     \/ \E k \in DOMAIN accounts : IsFirst(k, name) /\ accounts' = Without(k)
  /\ Answered(m, "succeeded")
  /\ UNCHANGED holder

LetsIn(s, k) ==
  /\ holder[s] = Nobody
  /\ holder' = [holder EXCEPT ![s] = accounts[k].name]
  /\ UNCHANGED <<accounts, pending, answer>>

Leaves(s) ==
  /\ holder' = [holder EXCEPT ![s] = Nobody]
  /\ UNCHANGED <<accounts, pending, answer>>

Next ==
  \/ \E m \in Admins :
       \/ \E change \in Changes, a \in Answers : Asks(m, change, a)
       \/ GivesUp(m)
       \/ \E c \in Credentials : AddsUser(m, c)
       \/ \E name \in Names : DeletesUser(m, name)
  \/ \E s \in Sessions : (\E k \in DOMAIN accounts : LetsIn(s, k)) \/ Leaves(s)

Spec == Init /\ [][Next]_vars
=============================================================================
