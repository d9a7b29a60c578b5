------------------------------ MODULE MCPolite ------------------------------
(* DhcpPolite, with an unordered set of clients and of greenlets.          *)
EXTENDS DhcpPolite, TLC

(***************************************************************************)
(* Clients that do not wait: they send DISCOVER again while a search of    *)
(* theirs sleeps, and accept an offer whatever else is under way.          *)
(***************************************************************************)
RepeatNext ==
  \/ \E m \in Mac, h \in Names :
       Discover(m, h) \/ \E req \in Requests : Confirm(m, req, h)
  \/ System

RepeatSpec == DhcpInit /\ [][RepeatNext]_dhcpVars

Symmetry == Permutations(Mac) \cup Permutations(Worker)
=============================================================================
