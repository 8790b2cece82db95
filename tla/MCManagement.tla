---------------------------- MODULE MCManagement ----------------------------
(* Bounds for model checking Management. *)
EXTENDS Management, TLC

\* The list of users with these names fits, overflows or is given up.
MCNameLength == "" :> 0 @@ "bo" :> 2
=============================================================================
