----------------------------- MODULE DhcpPolite -----------------------------
(***************************************************************************)
(* DHCPServer serving patient clients: none sends a packet while one of    *)
(* its own is still being handled.  Packets of different clients still     *)
(* interleave freely.  It is an assumption on the clients, and the code    *)
(* does not see to it: one probe (probe_timeout) is shorter than their     *)
(* retransmission time, but a search that meets conflicts makes several.   *)
(* LeaseStates of DhcpServer fails without it.                             *)
(***************************************************************************)
EXTENDS DhcpServer

PoliteNext ==
  \/ \E m \in Mac : ~Busy(m) /\ FromClient(m)
  \/ System

PoliteSpec == DhcpInit /\ [][PoliteNext]_dhcpVars
PoliteFairSpec == PoliteSpec /\ DhcpFairness

-----------------------------------------------------------------------------
(***************************************************************************)
(* An entry of ip_to_mac names a client whose lease, in mac_to_lease, is   *)
(* ALLOCATED at that address.  The two tables are written at different     *)
(* places (a renewal writes one only, a release clears the other by        *)
(* address), and an entry can outlive the lease it was made for.           *)
(***************************************************************************)
IndexSound ==
  \A a \in Address : ipToMac[a] # None =>
    lease[ipToMac[a]].state = "ALLOCATED" /\ lease[ipToMac[a]].ip = a

(***************************************************************************)
(* A lease that has not expired keeps its address, and ends only when its  *)
(* client releases or declines it, or runs out of time: what other clients *)
(* do, and the searches that they have asleep, leave it alone.             *)
(***************************************************************************)
LeaseStable == [][
  \A m \in Mac : Live(m) =>
    \/ lease'[m].state = "ALLOCATED" /\ lease'[m].ip = lease[m].ip
    \/ \E h \in Names : Release(m, h) \/ Decline(m, h)]_dhcpVars

(***************************************************************************)
(* Two clients never hold unexpired leases of one address ("a lease is     *)
(* handed out after an ARP probe, to prevent duplicate assignment").  An   *)
(* address that is OFFERED does not count as used, so a search that starts *)
(* between a client's OFFER and its REQUEST may choose it, too.            *)
(***************************************************************************)
UniqueAllocation ==
  \A m, n \in Mac :
    Live(m) /\ Live(n) /\ lease[m].ip = lease[n].ip => m = n
=============================================================================
