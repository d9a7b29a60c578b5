---------------------------- MODULE TopologyCalm ----------------------------
(***************************************************************************)
(* The topology of a calmer network: a link probe is lost when the switch  *)
(* that sent it has left, and the DHCP server probes no address     *)
(* that ip_to_mac has an entry for.  Everything else interleaves as in     *)
(* Topology: switches come and go, wires are cut, hosts move.              *)
(***************************************************************************)
EXTENDS Topology

ProbeLost(s, t) ==
  /\ <<s, t>> \in queued /\ phase[s] = "down"
  /\ queued' = queued \ {<<s, t>>}
  /\ UNCHANGED <<networkVars, phase, links, hosts, ipToMac, probers, flows>>

CalmNext ==
  \/ Handlers
  \/ \E s, t \in Switch : phase[s] # "down" /\ ProbeArrives(s, t)
  \/ \E s, t \in Switch : ProbeLost(s, t)
  \/ Environment

CalmSpec == TopoInit /\ [][CalmNext]_topoVars

(***************************************************************************)
(* The controller's links join switches it has: a record of a link never   *)
(* outlives either end.                                                    *)
(***************************************************************************)
LinksJoinSwitches ==
  \A l \in links : {l[1], l[2]} \subseteq SwitchesOf(phase)

(***************************************************************************)
(* A round of _probe_loop sends a probe by each of the ports 1 to 8 of     *)
(* every switch, the loop has no exit, and each event in the queue is      *)
(* handled in the end.  Nothing is assumed of os-ken's own discovery.      *)
(***************************************************************************)
ProbeFairness ==
  \A s, t \in Switch :
    /\ []<>(probers > 0 /\ Probed(s, t) /\ Reaches(s, t) => <<s, t>> \in queued)
    /\ []<>(<<s, t>> \notin queued)

(***************************************************************************)
(* A wire that carries frames between two switches of the controller, with *)
(* one end or both at a port that is probed, is on record sooner or later, *)
(* if a probe loop runs: after starts, departures, cuts and repairs, and   *)
(* whatever link events came late or not at all.  A wire with both ends at *)
(* ports above 8 is found by os-ken's discovery or not at all.             *)
(***************************************************************************)
Carries(w) == w \in up /\ \A s \in w : phase[s] # "down"
OnRecord(w) == \E l \in links : {l[1], l[2]} = w

ProbedWires == {w \in Wires : \E s, t \in w : s # t /\ Probed(s, t)}

LinksFound == \A w \in ProbedWires : []<>(probers > 0 /\ Carries(w) => OnRecord(w))
=============================================================================
