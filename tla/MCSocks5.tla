------------------------------ MODULE MCSocks5 ------------------------------
(* Bounds for model checking Socks5.  The struct socks5 objects are
   interchangeable: nothing depends on which one malloc or the pool returns. *)
EXTENDS Socks5, TLC

ConnSymmetry == Permutations(Conns)
=============================================================================
