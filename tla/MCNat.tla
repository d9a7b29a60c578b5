-------------------------------- MODULE MCNat -------------------------------
(* NatTable with TCP, UDP, ICMP and protocols without ports.               *)
EXTENDS NatTable, TLC

Symmetry == Permutations(Host) \cup Permutations(Peer)
=============================================================================
