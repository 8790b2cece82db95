----------------------------- MODULE MCDialogue -----------------------------
(* Bounds for model checking Dialogue. *)
EXTENDS Dialogue

\* Names and passwords are of the letters 7 and 8; addresses are of 1 and 2 bytes.
MCMessages ==
  [socks |->
     [hello |-> {<<5, 1, 0>>, <<5, 2, 1, 2>>, <<5, 0>>, <<4, 1, 0>>},
      credentials |-> {<<1, 1, 7, 1, 8>>, <<1, 0, 1, 8>>, <<1, 1, 7, 0>>, <<2, 1>>},
      request |-> {<<5, 1, 0, 1, 7, 8, 9>>, <<5, 1, 0, 4, 7, 8, 9, 9>>,
                   <<5, 1, 0, 3, 2, 7, 8, 9, 9>>, <<5, 1, 0, 3, 0, 9, 8>>,
                   <<5, 1, 0, 3, 3>>, <<5, 2>>, <<5, 1, 0, 2>>},
      data |-> {<<10>>}],
   mng |->
     [hello |-> {<<1, 1, 2>>, <<1, 1, 0>>},
      credentials |-> {<<1, 1, 7, 1, 8>>, <<1, 1, 8, 0>>},
      request |-> {<<1>>, <<10, 1, 7, 1, 8>>, <<10, 0, 1, 8>>, <<11, 1, 7>>, <<12, 0>>, <<14>>},
      data |-> {<<10>>}]]

MCAccounts ==
  [socks |-> {[name |-> <<7>>, pass |-> <<8>>], [name |-> << >>, pass |-> <<8>>]},
   mng |-> {[name |-> <<7>>, pass |-> <<8>>]}]

MCUserWord == <<117, 117>>
MCPassWord == <<10, 117>>

\* No message goes on after its end.
ASSUME MCMessagesAssumption == MessagesEnd
=============================================================================
