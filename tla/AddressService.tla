--------------------------- MODULE AddressService ---------------------------
(***************************************************************************)
(* What an address server promises its clients: a client is granted an     *)
(* address that nobody holds, holds it alone, and keeps it until its       *)
(* tenure lapses.                                                          *)
(***************************************************************************)
CONSTANTS Client, Address, None

VARIABLE holds   \* client -> the address it holds, or None

ServiceInit == holds = [c \in Client |-> None]

Grant(c, a) ==
  /\ holds[c] = None
  /\ \A d \in Client : holds[d] # a
  /\ holds' = [holds EXCEPT ![c] = a]

\* The tenures of the clients of S end together.
Lapse(S) == holds' = [c \in Client |-> IF c \in S THEN None ELSE holds[c]]

ServiceNext ==
  \/ \E c \in Client, a \in Address : Grant(c, a)
  \/ \E S \in SUBSET Client : Lapse(S)

ServiceSpec == ServiceInit /\ [][ServiceNext]_holds
=============================================================================
