------------------------------ MODULE MCOrderly -----------------------------
(* DhcpOrderly, with an unordered set of clients and of greenlets.         *)
EXTENDS DhcpOrderly, TLC

Symmetry == Permutations(Mac) \cup Permutations(Worker) \cup Permutations(Hostname)
=============================================================================
