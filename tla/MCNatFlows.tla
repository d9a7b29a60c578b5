----------------------------- MODULE MCNatFlows -----------------------------
(* NatFlows, and the frames of its connections.                            *)
EXTENDS NatFlows, NatRewrite

\* Words that carry, and a sum that needs both carries.
Words == [x \in Host \cup Peer |-> IF x \in Host THEN 49320 ELSE 65535]
Sums == {0, 65535, 131071, 62858}
=============================================================================
