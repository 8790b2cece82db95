------------------------------ MODULE Grammar ------------------------------
(***************************************************************************)
(* The messages of the handshake as their formats say, quoted from RFC     *)
(* 1928 and RFC 1929 in hello.h, authentication.h and request.h: what a    *)
(* sequence of bytes means as a whole, however it is cut on the way.       *)
(***************************************************************************)
EXTENDS Integers, Sequences

CONSTANTS V4, V6     \* bytes of an address

\* VER, NMETHODS, METHODS
IsHello(version, m) == Len(m) >= 2 /\ m[1] = version /\ Len(m) = 2 + m[2]
Offered(m) == {m[i] : i \in 3..Len(m)}

\* What strcmp sees of a string.
CString(s) ==
  LET ends == {i \in 1..Len(s) : s[i] = 0} IN
  IF ends = {} THEN s ELSE SubSeq(s, 1, (CHOOSE i \in ends : \A j \in ends : i <= j) - 1)

\* ULEN, UNAME, PLEN, PASSWD
IsNameAndPassword(m) ==
  Len(m) >= 1 /\ Len(m) >= m[1] + 2 /\ Len(m) = m[1] + 2 + m[m[1] + 2]
Name(m) == SubSeq(m, 2, m[1] + 1)
Password(m) == SubSeq(m, m[1] + 3, Len(m))

\* VER and the rest.
IsCredentials(m) == Len(m) >= 1 /\ m[1] = 1 /\ IsNameAndPassword(Tail(m))

\* VER, CMD, RSV, ATYP, DST.ADDR, DST.PORT.  A name is of one byte at least.
FirstOfAddress(m) == IF m[4] = 3 THEN 6 ELSE 5
AddressBytes(m) == CASE m[4] = 1 -> V4 [] m[4] = 3 -> m[5] [] m[4] = 4 -> V6
IsRequest(m) ==
  /\ Len(m) >= 5 /\ m[1] = 5 /\ m[2] = 1 /\ m[4] \in {1, 3, 4}
  /\ AddressBytes(m) >= 1
  /\ Len(m) = FirstOfAddress(m) + AddressBytes(m) + 1
Destination(m) ==
  [type |-> m[4],
   address |-> SubSeq(m, FirstOfAddress(m), FirstOfAddress(m) + AddressBytes(m) - 1),
   port |-> SubSeq(m, Len(m) - 1, Len(m))]
=============================================================================
