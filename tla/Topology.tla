------------------------------ MODULE Topology ------------------------------
(***************************************************************************)
(* ControllerApp (controller.py): what it knows of switches, links and     *)
(* hosts, and the forwarding entries it installs for every host.           *)
(*                                                                         *)
(* Its event handlers run one at a time, to the end.  The network may have *)
(* changed, and switches may have left, since the event that is handled:   *)
(* the controller's own link probes (ethertype 0x9999) wait in its queue.  *)
(*                                                                         *)
(* Any two switches share at most one wire, so a port is known by what it  *)
(* leads to, the neighbour's number or a name of Access (its own number    *)
(* counts in _probe_loop alone: PortNumber), and a record of self.links by *)
(* its direction.  self.adjacency is always Adjacency(links).              *)
(* mac_to_ip and port_to_mac are never read and left out, as are the two   *)
(* gateway addresses that ip_to_mac has from the start.                    *)
(***************************************************************************)
EXTENDS Routing

CONSTANTS
  Switch,       \* datapath ids
  Wires,        \* the sets {s, t} of switches that are wired
  Access,       \* ports for hosts
  Sockets,      \* where hosts can be plugged in: records of dpid and port
  Mac, Ip,
  Internal,     \* the addresses of the DHCP network
  LinkWeight,   \* link_weights.json: wire -> weight
  PortNumber,   \* PortNumber[<<s, t>>]: the number of the port of s to t
  MaxProbers,   \* bound on the probe loops that are counted
  MaxQueued,    \* bound on the probes that wait in the queue
  MaxChanges    \* bound on the changes of the network

ASSUME TopologyAssumption ==
  /\ Switch \subseteq Nat /\ IsFiniteSet(Switch)
  /\ Wires \subseteq {{s, t} : s, t \in Switch}
  /\ \A s \in Switch : {s} \notin Wires
  /\ LinkWeight \in [Wires -> Nat \ {0}]
  /\ PortNumber \in [Switch \X Switch -> Nat]
  /\ Access \cap Switch = {}
  /\ Sockets \subseteq [dpid : Switch, port : Access]
  /\ None \notin Switch \cup Access \cup Mac
  /\ {MaxProbers, MaxQueued, MaxChanges} \subseteq Nat

VARIABLES
  up,        \* the wires that carry frames
  place,     \* where each host is plugged in
  changes,   \* how often these two have changed and switches have left
  queued,    \* probes <<s, t>>: sent by s, received by t, not yet handled
  phase,     \* a switch is down, known (features seen) or entered
  links,     \* self.links
  hosts,     \* self.hosts
  ipToMac,   \* self.ip_to_mac
  probers,   \* how many _probe_loop greenlets run
  flows      \* the output port of each switch's entry for each host

networkVars == <<up, place, changes>>
topoVars == <<up, place, changes, queued, phase, links, hosts, ipToMac, probers, flows>>

HostInfo == [ip : Ip, dpid : Switch, port : Switch \cup Access]

TopoTypeOK ==
  /\ up \subseteq Wires
  /\ place \in [Mac -> Sockets]
  /\ changes \in 0..MaxChanges
  /\ queued \subseteq Switch \X Switch
  /\ phase \in [Switch -> {"down", "known", "entered"}]
  /\ links \subseteq Switch \X Switch
  /\ hosts \in [Mac -> HostInfo \cup {None}]
  /\ ipToMac \in [Ip -> Mac \cup {None}]
  /\ probers \in 0..MaxProbers
  /\ flows \in [Switch -> [Mac -> Switch \cup Access \cup {None}]]

NetworkInit == up = Wires /\ place \in [Mac -> Sockets]

NothingKnown ==
  /\ queued = {}
  /\ hosts = [m \in Mac |-> None]
  /\ ipToMac = [i \in Ip |-> None]
  /\ flows = [s \in Switch |-> [m \in Mac |-> None]]

NoSwitches ==
  /\ phase = [s \in Switch |-> "down"]
  /\ links = {}
  /\ probers = 0

TopoInit == NetworkInit /\ changes = 0 /\ NothingKnown /\ NoSwitches

-----------------------------------------------------------------------------
(* Installing the forwarding entries                                       *)

\* self.switches: filled when a switch's features arrive.
SwitchesOf(ph) == {s \in Switch : ph[s] # "down"}
Located(hs) == {m \in Mac : hs[m] # None}

\* _update_topology: every record counts in both directions.
Adjacency(ls) == ls \cup {<<l[2], l[1]>> : l \in ls}

Graph(sws, ls) ==
  [node |-> sws,
   edge |-> Adjacency(ls),
   weight |-> [e \in Switch \X Switch |->
                 IF {e[1], e[2]} \in Wires THEN LinkWeight[{e[1], e[2]}] ELSE 1]]

\* Once a host of the DHCP network is known, the others are left to the NAT.
Skipped(hs, m) ==
  /\ hs[m].ip \notin Internal
  /\ \E n \in Located(hs) : hs[n].ip \in Internal

(***************************************************************************)
(* The searches that _print_topology makes: from every switch but the last *)
(* and, one of the hosts being the last, from the other hosts' switches.   *)
(***************************************************************************)
Printed(sws, hs) ==
  LET others == {s \in sws : \E t \in sws : s < t} IN
  IF Located(hs) = {} THEN {others}
  ELSE {others \cup {hs[m].dpid : m \in Located(hs) \ {last}} : last \in Located(hs)}

OutPort(g, hs, s, m) ==
  IF hs[m].dpid = s THEN hs[m].port
  ELSE NextHop(Dijkstra(g, s).prev, s, hs[m].dpid)

\* The switches from which a search raises.
Raising(sws, ls) == LET g == Graph(sws, ls) IN {s \in sws : Raises(g, s)}

\* Mutant: the host's own switch is left to the others.
WantedElsewhere(sws, hs) ==
  {p \in sws \X Located(hs) : ~Skipped(hs, p[2]) /\ p[1] # hs[p[2]].dpid}

\* The entries to write, and those whose search raises.
Wanted(sws, hs) == {p \in sws \X Located(hs) : ~Skipped(hs, p[2])}
Failing(sws, ls, hs) ==
  {p \in Wanted(sws, hs) : p[1] \in Raising(sws, ls) /\ hs[p[2]].dpid # p[1]}

(***************************************************************************)
(* _install_host_flows over the tables sws, ls and hs.  It prints the      *)
(* topology, then writes the entries pair by pair; a pair without a route  *)
(* is passed over, and its old entry stays.  A search that raises ends it  *)
(* there: while it prints, nothing is written; later, what comes before    *)
(* the failing pair is (the order of the dictionaries is left open).       *)
(***************************************************************************)
Install(printed, sws, ls, hs) ==
  LET g == Graph(sws, ls)
      failing == Failing(sws, ls, hs)
      port == [p \in Wanted(sws, hs) \ failing |-> OutPort(g, hs, p[1], p[2])]
      Written(done) ==
        flows' = [s \in Switch |-> [m \in Mac |->
          IF <<s, m>> \in done /\ port[<<s, m>>] # None THEN port[<<s, m>>] ELSE flows[s][m]]]
  IN IF printed \cap Raising(sws, ls) # {} THEN UNCHANGED flows
     ELSE \E done \in IF failing = {} THEN {DOMAIN port} ELSE SUBSET DOMAIN port :
            Written(done)

\* The end of every handler that changes what the entries depend on.
Reinstall ==
  \E printed \in Printed(SwitchesOf(phase'), hosts') :
    Install(printed, SwitchesOf(phase'), links', hosts')

-----------------------------------------------------------------------------
(* Switches                                                                *)

\* switch_features_handler; the switch comes back with its table or without.
Features(s) ==
  /\ phase[s] = "down"
  /\ phase' = [phase EXCEPT ![s] = "known"]
  /\ \/ UNCHANGED flows
     \/ flows' = [flows EXCEPT ![s] = [m \in Mac |-> None]]
  /\ UNCHANGED <<networkVars, queued, links, hosts, ipToMac, probers>>

\* handle_switch_add: the probe loop starts with the first switch, unless the
\* installation before it has raised (with one switch it can only in printing).
Enter(s) ==
  /\ phase[s] = "known"
  /\ phase' = [phase EXCEPT ![s] = "entered"]
  /\ \E printed \in Printed(SwitchesOf(phase'), hosts) :
       /\ Install(printed, SwitchesOf(phase'), links, hosts)
       /\ probers' = IF /\ SwitchesOf(phase') = {s}
                        /\ printed \cap Raising({s}, links) = {}
                        /\ probers < MaxProbers
                       THEN probers + 1 ELSE probers
  /\ UNCHANGED <<networkVars, queued, links, hosts, ipToMac>>

\* The hosts of ms are forgotten, and their addresses, whoever has them now.
ForgetHosts(ms) ==
  /\ hosts' = [m \in Mac |-> IF m \in ms THEN None ELSE hosts[m]]
  /\ ipToMac' = [i \in Ip |-> IF \E m \in ms : hosts[m].ip = i THEN None ELSE ipToMac[i]]

\* Mutant: only the links that the switch reported are removed.
LeaveHalf(s) ==
  /\ phase[s] = "entered"
  /\ changes < MaxChanges
  /\ changes' = changes + 1
  /\ \A p \in queued : p[2] # s
  /\ phase' = [phase EXCEPT ![s] = "down"]
  /\ links' = {l \in links : l[1] # s}
  /\ ForgetHosts({m \in Located(hosts) : hosts[m].dpid = s})
  /\ UNCHANGED <<up, place, queued, probers>>
  /\ Reinstall

\* handle_switch_delete; the packets it received have been handled before.
Leave(s) ==
  /\ phase[s] = "entered"
  /\ changes < MaxChanges
  /\ changes' = changes + 1
  /\ \A p \in queued : p[2] # s
  /\ phase' = [phase EXCEPT ![s] = "down"]
  /\ links' = {l \in links : s \notin {l[1], l[2]}}
  /\ ForgetHosts({m \in Located(hosts) : hosts[m].dpid = s})
  /\ UNCHANGED <<up, place, queued, probers>>
  /\ Reinstall

-----------------------------------------------------------------------------
(* Links                                                                   *)

\* handle_link_add
LinkAdd(s, t) ==
  /\ {s, t} \in up
  /\ phase[s] = "entered" /\ phase[t] = "entered"
  /\ links' = links \cup {<<s, t>>}
  /\ UNCHANGED <<networkVars, queued, phase, hosts, ipToMac, probers>>
  /\ Reinstall

\* Mutant: the entries are not installed again.
LinkDeleteOnly(s, t) ==
  /\ <<s, t>> \in links
  /\ {s, t} \notin up
  /\ links' = links \ {<<s, t>>}
  /\ UNCHANGED <<networkVars, queued, phase, hosts, ipToMac, probers, flows>>

\* handle_link_delete: one direction only.
LinkDelete(s, t) ==
  /\ <<s, t>> \in links
  /\ {s, t} \notin up
  /\ links' = links \ {<<s, t>>}
  /\ UNCHANGED <<networkVars, queued, phase, hosts, ipToMac, probers>>
  /\ Reinstall

\* Nothing is connected to port p of s.
Dark(s, p) ==
  IF p \in Switch THEN {s, p} \in Wires \ up
  ELSE \A m \in Mac : place[m] # [dpid |-> s, port |-> p]

\* handle_port_modify, and port_status_handler for a port that is gone.
PortDown(s, p) ==
  /\ phase[s] # "down"
  /\ Dark(s, p)
  /\ links' = links \ {<<s, p>>, <<p, s>>}
  /\ ForgetHosts({m \in Located(hosts) : hosts[m].dpid = s /\ hosts[m].port = p})
  /\ UNCHANGED <<networkVars, queued, phase, probers>>
  /\ Reinstall

\* port_status_handler for a port whose link is down: hosts are kept.
PortLinkDown(s, p) ==
  /\ phase[s] # "down"
  /\ Dark(s, p)
  /\ links' = links \ {<<s, p>>, <<p, s>>}
  /\ UNCHANGED <<networkVars, queued, phase, hosts, ipToMac, probers>>
  /\ Reinstall

\* A frame that s sends on its port to t comes back to the controller from t.
Reaches(s, t) == {s, t} \in up /\ phase[s] # "down" /\ phase[t] # "down"

\* The ports that _probe_loop sends probes on; a switch may have more.
ProbedPorts == 1..8
Probed(s, t) == PortNumber[<<s, t>>] \in ProbedPorts

\* One frame of _probe_loop, and its way to the neighbour.
ProbeSent(s, t) ==
  /\ probers > 0 /\ Cardinality(queued) < MaxQueued
  /\ Probed(s, t) /\ Reaches(s, t)
  /\ queued' = queued \cup {<<s, t>>}
  /\ UNCHANGED <<networkVars, phase, links, hosts, ipToMac, probers, flows>>

\* Mutant: a switch that has any link on record is passed over.
ProbeArrivesKnown(s, t) ==
  /\ <<s, t>> \in queued
  /\ queued' = queued \ {<<s, t>>}
  /\ UNCHANGED <<networkVars, phase, hosts, ipToMac, probers>>
  /\ IF \E l \in links : s \in {l[1], l[2]}
       THEN UNCHANGED <<links, flows>>
       ELSE links' = links \cup {<<s, t>>} /\ Reinstall

\* packet_in_handler for a probe: a link that is on record, in either
\* direction, has its ports already; any other is entered.
ProbeArrives(s, t) ==
  /\ <<s, t>> \in queued
  /\ queued' = queued \ {<<s, t>>}
  /\ UNCHANGED <<networkVars, phase, hosts, ipToMac, probers>>
  /\ IF <<s, t>> \in Adjacency(links)
       THEN UNCHANGED <<links, flows>>
       ELSE links' = links \cup {<<s, t>>} /\ Reinstall

-----------------------------------------------------------------------------
(* Hosts                                                                   *)

\* Mutant: switch and port are confused.
LocateSwapped(m, i, s, p) ==
  /\ hosts' = [hosts EXCEPT ![m] = [ip |-> i, dpid |-> p, port |-> s]]
  /\ ipToMac' = [ipToMac EXCEPT ![i] = m]
  /\ Reinstall

Locate(m, i, s, p) ==
  /\ hosts' = [hosts EXCEPT ![m] = [ip |-> i, dpid |-> s, port |-> p]]
  /\ ipToMac' = [ipToMac EXCEPT ![i] = m]
  /\ Reinstall

\* handle_host_add
HostAdd(m, i) ==
  /\ phase[place[m].dpid] = "entered"
  /\ UNCHANGED <<networkVars, queued, phase, links, probers>>
  /\ Locate(m, i, place[m].dpid, place[m].port)

(***************************************************************************)
(* _register_arp_host for an ARP packet of m that came in on port p of s.  *)
(* A host that is known on that switch is left as it is, if its address is *)
(* known, to be any host's.                                                *)
(***************************************************************************)
RegisterArpHost(m, i, s, p) ==
  IF ipToMac[i] # None /\ hosts[m] # None /\ hosts[m].dpid = s
    THEN UNCHANGED <<hosts, ipToMac, flows>>
    ELSE Locate(m, i, s, p)

\* packet_in_handler for an ARP packet that a host sends.
ArpHeard(m, i) ==
  /\ phase[place[m].dpid] # "down"
  /\ UNCHANGED <<networkVars, queued, phase, links, probers>>
  /\ RegisterArpHost(m, i, place[m].dpid, place[m].port)

(***************************************************************************)
(* DHCPServer's ARP probe for i leaves s on every port.  The neighbour t   *)
(* hands it to packet_in_handler, which answers it for the host it has in  *)
(* ip_to_mac, back to s; there the answer is an ARP reply of that host,    *)
(* which came in on the port to t.                                         *)
(***************************************************************************)
ArpProbeAnswered(i, s, t) ==
  /\ Reaches(s, t)
  /\ ipToMac[i] # None
  /\ UNCHANGED <<networkVars, queued, phase, links, probers>>
  /\ RegisterArpHost(ipToMac[i], i, s, t)

-----------------------------------------------------------------------------
(* The network                                                             *)

Cut(w)  == w \in up /\ up' = up \ {w} /\ UNCHANGED place
Mend(w) == w \notin up /\ up' = up \cup {w} /\ UNCHANGED place

Replug(m, at) ==
  /\ place[m] # at
  /\ place' = [place EXCEPT ![m] = at]
  /\ UNCHANGED up

Environment ==
  /\ changes < MaxChanges
  /\ changes' = changes + 1
  /\ \/ \E w \in Wires : Cut(w) \/ Mend(w)
     \/ \E m \in Mac, at \in Sockets : Replug(m, at)
  /\ UNCHANGED <<queued, phase, links, hosts, ipToMac, probers, flows>>

Handlers ==
  \/ \E s \in Switch : Features(s) \/ Enter(s) \/ Leave(s)
  \/ \E s, t \in Switch : LinkAdd(s, t) \/ LinkDelete(s, t) \/ ProbeSent(s, t)
  \/ \E s \in Switch, p \in Switch \cup Access : PortDown(s, p) \/ PortLinkDown(s, p)
  \/ \E m \in Mac, i \in Ip : HostAdd(m, i) \/ ArpHeard(m, i)

TopoNext ==
  \/ Handlers
  \/ \E s, t \in Switch : ProbeArrives(s, t)
  \/ \E i \in Ip, s, t \in Switch : ArpProbeAnswered(i, s, t)
  \/ Environment

TopoSpec == TopoInit /\ [][TopoNext]_topoVars

-----------------------------------------------------------------------------
(***************************************************************************)
(* The entries follow the topology the controller knows: at every switch   *)
(* that has entered and that is connected to a host's switch, the entry    *)
(* for the host is its port, or leads to a neighbour that is nearer to it  *)
(* ("when the topology changes, you should update the affected path        *)
(* rules").  Entries are never deleted, so each handler must put right     *)
(* every entry that its change made wrong.                                 *)
(***************************************************************************)
FlowsFollowTopology ==
  LET g == Graph(SwitchesOf(phase), {l \in links : {l[1], l[2]} \subseteq SwitchesOf(phase)})
      d == Distances(g)
  IN \A m \in Located(hosts), s \in g.node :
       LET t == hosts[m].dpid
           p == flows[s][m] IN
       phase[s] = "entered" /\ ~Skipped(hosts, m) =>
         IF s = t THEN p = hosts[m].port
         ELSE IF t \notin g.node THEN TRUE
         ELSE d[s][t] # None =>
                /\ <<s, p>> \in g.edge
                /\ d[s][t] = Weight(g, s, p) + d[p][t]

\* The hops that frames for m take over wires that carry frames.
Hops(m) == {h \in Switch \X Switch : flows[h[1]][m] = h[2] /\ {h[1], h[2]} \in up}

(***************************************************************************)
(* A packet never circles: whatever entries, new and left over from older  *)
(* topologies, the switches hold for a host, no set of switches passes     *)
(* its packets round ("the purpose is to achieve the shortest path between *)
(* any two hosts").                                                        *)
(***************************************************************************)
NoForwardingLoop ==
  \A m \in Mac, S \in (SUBSET Switch) \ {{}} :
    \E s \in S : \A t \in S : <<s, t>> \notin Hops(m)
=============================================================================
