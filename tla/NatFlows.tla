------------------------------ MODULE NatFlows ------------------------------
(***************************************************************************)
(* NATTable when the internal hosts use TCP, UDP and protocols without     *)
(* ports, and no ICMP: every translated port then comes from _alloc_port.  *)
(* The table is then exactly a PortBinding.                                *)
(***************************************************************************)
EXTENDS NatTable

Flows == {k \in Keys : Proto(k) # "icmp"}

FlowsNext ==
  \/ \E k \in Flows : Traffic(k)
  \/ Replies({"tcp", "udp"})
  \/ Collect
  \/ Tick

(***************************************************************************)
(* The collector's loop never ends: hub.sleep(gc_interval) returns.        *)
(***************************************************************************)
FlowsSpec == NatInit /\ [][FlowsNext]_natVars
FlowsFairSpec == FlowsSpec /\ WF_natVars(Collect)

-----------------------------------------------------------------------------
(***************************************************************************)
(* The two tables are inverse to each other: the index entry of an open    *)
(* connection's port leads back to the connection, so a reply reaches the  *)
(* flow it answers.  A port could be handed out again while in use, or the *)
(* collector could remove an entry that has been reused since.             *)
(***************************************************************************)
IndexComplete ==
  \A k \in Keys : Open(k) => portIndex[connections[k].natPort] = k

natBinding ==
  [k \in Keys |-> IF Open(k) THEN connections[k].natPort ELSE None]

Binding == INSTANCE PortBinding
  WITH Flow <- Keys, binding <- natBinding, owner <- portIndex

(***************************************************************************)
(* The NAT implements PortBinding: a flow's port is its own from its first *)
(* packet to its collection, and never changes in between.                 *)
(***************************************************************************)
ImplementsBinding == Binding!BindingSpec

(***************************************************************************)
(* A connection that has been idle for longer than its timeout is used     *)
(* again or collected ("GC: expired connections are cleaned up").          *)
(***************************************************************************)
IdleCollected ==
  \A k \in Keys : Expired(k) ~> ~Expired(k)
=============================================================================
