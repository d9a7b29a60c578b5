----------------------------- MODULE PacketPath -----------------------------
(***************************************************************************)
(* The way of an IP frame: from a host into its switch's flow table, and   *)
(* from a table to a port, or to packet_in_handler (controller.py), which  *)
(* answers DNS queries, translates addresses or drops.  It composes the    *)
(* tables (FlowTable, Firewall), the host registry of Topology and the     *)
(* port bindings that the NAT implements (PortBinding).                    *)
(*                                                                         *)
(* ICMP to the outside is left to NatTable, DHCP to DhcpServer, ARP frames *)
(* and link probes to Topology, the answer's records to DnsResponder.      *)
(* Bindings do not end: their timeouts are longer than an exchange.        *)
(***************************************************************************)
EXTENDS Firewall, FiniteSets

CONSTANTS
  Host,          \* hosts, each with one address and one MAC
  Inside,        \* those with an address of the DHCP network
  ControllerIp,  \* DNSConfig.controller_ip, in the DHCP network too
  Nowhere,       \* an address outside of it that no host has
  Switch, PortNo,
  Lead,          \* Lead[s][p]: the host or <<switch, port>> at port p of s
  Place,         \* Place[h]: where h is, a record of dpid and port
  Toward,        \* Toward[s][t]: the port of s on the shortest way to t
  Pool,          \* the ports of the NAT
  Openings,      \* the headers of the frames that open an exchange
  MaxFlight,     \* bound on the frames under way
  None

Outside == Host \ Inside
Local == Inside \cup {ControllerIp}    \* what _ip_in_network finds inside

Header(f) ==
  [src |-> f.src, dst |-> f.dst, proto |-> f.proto, sport |-> f.sport, dport |-> f.dport]
Mirror(h) ==
  [src |-> h.dst, dst |-> h.src, proto |-> h.proto, sport |-> h.dport, dport |-> h.sport]
Frame(h, mac, smac) ==
  [type |-> "ip", mac |-> mac, smac |-> smac, src |-> h.src, dst |-> h.dst,
   proto |-> h.proto, sport |-> h.sport, dport |-> h.dport]

Addresses == Host \cup {NatIp, ControllerIp, Nowhere}
Headers ==
  [src : Addresses, dst : Addresses, proto : Protocols, sport : Nat, dport : Nat]

Macs == Host \cup {Gateway}
Frames ==
  [type : {"ip"}, mac : Macs, smac : Macs, src : Addresses, dst : Addresses,
   proto : Protocols, sport : Nat, dport : Nat]
Arrivals == [frame : Frames, seen : Frames, as : Headers, armed : BOOLEAN]

ASSUME PathAssumption ==
  /\ Inside \subseteq Host
  /\ {NatIp, ControllerIp, Nowhere, Gateway, None, Star} \cap Host = {}
  /\ Cardinality({NatIp, ControllerIp, Nowhere}) = 3
  /\ None \notin Arrivals
  /\ Openings \subseteq Headers
  /\ \A o \in Openings : o.src \in Host /\ (o.dst \in Local \/ o.proto \in {"tcp", "udp"})
  /\ Pool \subseteq Nat /\ 53 \notin Pool
  /\ MaxFlight \in Nat

\* A wire has two ends.
WireAt(s, p) ==
  \E t \in Switch, q \in PortNo : Lead[s][p] = <<t, q>> /\ Lead[t][q] = <<s, p>>

ASSUME WiringAssumption ==
  /\ \A h \in Host \cup {None} : h \notin Switch \X PortNo
  /\ \A s \in Switch, p \in PortNo : Lead[s][p] \notin Host \cup {None} => WireAt(s, p)
  /\ \A h \in Host : /\ Place[h].dpid \in Switch /\ Place[h].port \in PortNo
                      /\ Lead[Place[h].dpid][Place[h].port] = h
  /\ Controller \notin PortNo \cup {Toward[s][t] : s, t \in Switch}

VARIABLES
  phase,    \* of a switch: "off", "delayed" (rules are to come) or "armed"
  table,    \* its flow entries
  hosts,    \* the hosts in self.hosts and self.ip_to_mac
  bound,    \* the NAT's bindings: a flow, its port, the MAC of a reply
  flight,   \* frames that have reached a port of a switch
  inbox     \* what the latest frame to leave a switch for hosts left with them

pathVars == <<phase, table, hosts, bound, flight, inbox>>

(***************************************************************************)
(* A frame on its way: where it is, and (not in the code) `as`, the header *)
(* by which the exchange's opener knows it.  An arrival also says whether  *)
(* the switch it came from was armed and which frame that switch got.      *)
(***************************************************************************)
OnTheWay(s, p, f, as) == [at |-> s, port |-> p, frame |-> f, as |-> as]
Arrival(f, seen, as, armed) == [frame |-> f, seen |-> seen, as |-> as, armed |-> armed]

PathInit ==
  /\ phase = [s \in Switch |-> "off"]
  /\ table = [s \in Switch |-> {}]
  /\ hosts = {}
  /\ bound = {}
  /\ flight = {}
  /\ inbox = [h \in Host |-> None]

-----------------------------------------------------------------------------
(* The control plane: switches, rules, hosts                               *)

Known == {s \in Switch : phase[s] # "off"}

\* Mutant: outside hosts get entries, too.
DirectAll(hs) == hs

\* _install_host_flows: outside hosts are skipped once an inside one is known.
Direct(hs) == IF hs \cap Inside = {} THEN hs ELSE hs \cap Inside

WayTo(s, h) == IF Place[h].dpid = s THEN Place[h].port ELSE Toward[s][Place[h].dpid]

HostEntries(s, hs) == UNION {HostPair(h, WayTo(s, h)) : h \in Direct(hs)}

\* The deletion of a switch: its hosts are forgotten.  It may keep its table,
\* or lose it in a restart, and then the frames that it had, too.
Disconnect(s) ==
  /\ phase[s] # "off"
  /\ phase' = [phase EXCEPT ![s] = "off"]
  /\ hosts' = {h \in hosts : Place[h].dpid # s}
  /\ \/ /\ table' = [t \in Switch |->
             IF t \in Known \ {s} THEN Added(table[t], HostEntries(t, hosts')) ELSE table[t]]
        /\ UNCHANGED flight
     \/ /\ table' = [t \in Switch |->
             IF t = s THEN {}
             ELSE IF t \in Known THEN Added(table[t], HostEntries(t, hosts')) ELSE table[t]]
        /\ flight' = {x \in flight : x.at # s}
  /\ UNCHANGED <<bound, inbox>>

\* switch_features_handler: the rules are left to a greenlet that sleeps.
Features(s) ==
  /\ phase[s] = "off"
  /\ phase' = [phase EXCEPT ![s] = "delayed"]
  /\ table' = [table EXCEPT ![s] = Added(@, {TableMiss, DnsCapture, NatCapture})]
  /\ UNCHANGED <<hosts, bound, flight, inbox>>

\* _delayed_firewall
RulesArrive(s) ==
  /\ phase[s] = "delayed"
  /\ phase' = [phase EXCEPT ![s] = "armed"]
  /\ table' = [table EXCEPT ![s] = Added(@, DenyEntries)]
  /\ UNCHANGED <<hosts, bound, flight, inbox>>

\* A host is learned or forgotten: entries are written, and none is deleted.
Register(hs) ==
  /\ hosts' = hs
  /\ table' = [s \in Switch |->
       IF s \in Known THEN Added(table[s], HostEntries(s, hs)) ELSE table[s]]
  /\ UNCHANGED <<phase, bound, flight, inbox>>

Learn(h) == h \notin hosts /\ Place[h].dpid \in Known /\ Register(hosts \cup {h})
Forget(h) == h \in hosts /\ Register(hosts \ {h})

\* handle_switch_add
Enter == Known # {} /\ Register(hosts)

-----------------------------------------------------------------------------
(* The data plane                                                          *)

PortsOf(s) == {p \in PortNo : Lead[s][p] # None}
Spread(s, p) == IF p = All THEN PortsOf(s) ELSE {p} \cap PortsOf(s)

(***************************************************************************)
(* Frame f leaves switch x.at by the ports of ps, in place of x: to hosts, *)
(* or over wires to other switches.                                        *)
(***************************************************************************)
Leave(x, f, as, ps) ==
  LET ends == {Lead[x.at][p] : p \in ps}
      reached == ends \cap Host
  IN /\ inbox' = [h \in Host |->
          IF h \in reached THEN Arrival(f, x.frame, as, phase[x.at] = "armed") ELSE None]
     /\ flight' = (flight \ {x})
                    \cup {OnTheWay(e[1], e[2], f, as) : e \in ends \ Host}

Drop(x) == flight' = flight \ {x} /\ UNCHANGED inbox

\* Another entry than those to the controller: no frame goes back by the
\* port that it came in by.
Switched(x, e) ==
  /\ Controller \notin e.to
  /\ Leave(x, x.frame, x.as, (e.to \ {x.port}) \cap PortsOf(x.at))
  /\ UNCHANGED bound

-----------------------------------------------------------------------------
(* packet_in_handler                                                       *)

IsQuery(f) == f.proto = "udp" /\ f.dport = 53

\* handle_dns: the answer goes back by the port the query came in by.
Answered(x) ==
  /\ IsQuery(x.frame)
  /\ Leave(x, Frame(Mirror(Header(x.frame)), x.frame.smac, Gateway), Mirror(x.as), {x.port})
  /\ UNCHANGED bound

\* Mutant: nothing is sent to a host that is not known.
HostPortNone(a) == IF a \in hosts THEN Place[a].port ELSE 0

\* _get_host_port: the port that the address has on its own switch.
HostPort(a) == IF a \in hosts THEN Place[a].port ELSE All

\* handle_inbound, and out by the port of the host.
Inbound(x) ==
  LET bs == {b \in bound : b.port = x.frame.dport /\ b.flow.proto = x.frame.proto} IN
  /\ ~IsQuery(x.frame) /\ x.frame.dst = NatIp
  /\ IF bs = {} THEN Drop(x)
     ELSE \E b \in bs :
       Leave(x, [x.frame EXCEPT !.mac = b.mac, !.dst = b.flow.src, !.dport = b.flow.sport],
             x.as, Spread(x.at, HostPort(b.flow.src)))
  /\ UNCHANGED bound

Taken == {b.port : b \in bound}

\* Mutants: a host's binding serves another host with the same port; the port
\* of the flow is kept.
BindingShared(k, mac) ==
  LET old == {b \in bound : [b.flow EXCEPT !.src = k.src] = k} IN
  IF old # {} THEN old
  ELSE {[flow |-> k, port |-> p, mac |-> mac] :
          p \in {q \in Pool \ Taken : \A r \in Pool \ Taken : q <= r}}
BindingKept(k, mac) == {[flow |-> k, port |-> k.sport, mac |-> mac]}

\* The binding of flow k, a new one if there is none.
Binding(k, mac) ==
  LET old == {b \in bound : b.flow = k} IN
  IF old # {} THEN old
  ELSE {[flow |-> k, port |-> p, mac |-> mac] :
          p \in {q \in Pool \ Taken : \A r \in Pool \ Taken : q <= r}}

\* Mutant: the NAT's own address is outside.
IsOutboundOwn(f) == ~IsQuery(f) /\ f.dst \notin Local

\* "Outbound: internal host sends to external IP"
IsOutbound(f) == ~IsQuery(f) /\ f.dst # NatIp /\ f.dst \notin Local

\* handle_outbound, and out by the port of the outside host, if it is known.
Outbound(x) ==
  /\ IsOutbound(x.frame)
  /\ \E b \in Binding(Header(x.frame), x.frame.mac) :
       /\ bound' = bound \cup {b}
       /\ Leave(x, [x.frame EXCEPT
                      !.smac = Gateway,
                      !.mac = IF x.frame.dst \in hosts THEN x.frame.dst ELSE @,
                      !.src = NatIp, !.sport = b.port],
                x.as, Spread(x.at, HostPort(x.frame.dst)))

\* Inside addresses without an entry, and the controller's own.
Ignored(x) ==
  /\ ~IsQuery(x.frame) /\ x.frame.dst \in Local
  /\ Drop(x) /\ UNCHANGED bound

PacketIn(x) == Answered(x) \/ Inbound(x) \/ Outbound(x) \/ Ignored(x)

\* A switch handles a frame; without a matching entry it is dropped.
Handle(x) ==
  LET es == Chosen(table[x.at], x.frame) IN
  /\ \/ es = {} /\ Drop(x) /\ UNCHANGED bound
     \/ \E e \in es : Switched(x, e)
     \/ \E e \in es : Controller \in e.to /\ IF x.at \in Known THEN PacketIn(x)
                                            ELSE Drop(x) /\ UNCHANGED bound
  /\ UNCHANGED <<phase, table, hosts>>

-----------------------------------------------------------------------------
(* The hosts                                                               *)

Emit(h, f, as) ==
  /\ Cardinality(flight) < MaxFlight
  /\ flight' = flight \cup {OnTheWay(Place[h].dpid, Place[h].port, f, as)}
  /\ UNCHANGED <<phase, table, hosts, bound, inbox>>

\* Addresses of the own network are resolved, others may be: a host without
\* a gateway asks for them, and the controller answers for those it knows.
Open(o) ==
  \E mac \in IF o.dst \in Host THEN {o.dst} \cup (IF o.dst \in Inside THEN {} ELSE {Gateway})
             ELSE {Gateway} :
    Emit(o.src, Frame(o, mac, o.src), o)

Accepts(h) == inbox[h] # None /\ inbox[h].frame.mac = h /\ inbox[h].frame.dst = h

\* h answers what it got, to the MAC that it resolves the sender's address to.
Reply(h) ==
  /\ Accepts(h)
  /\ inbox[h].as \in Openings
  /\ LET f == inbox[h].frame IN
     Emit(h, Frame(Mirror(Header(f)), IF f.src \in Host THEN f.src ELSE Gateway, h),
          Mirror(inbox[h].as))

PathNext ==
  \/ \E s \in Switch : Features(s) \/ RulesArrive(s) \/ Disconnect(s)
  \/ Enter
  \/ \E h \in Host : Learn(h) \/ Forget(h) \/ Reply(h)
  \/ \E x \in flight : Handle(x)
  \/ \E o \in Openings : Open(o)

PathSpec == PathInit /\ [][PathNext]_pathVars

\* The inside hosts come first: while an outside host is known, so is one of them.
NatOrder == hosts' \cap Outside # {} => hosts' \cap Inside # {}

NatNext == PathNext /\ NatOrder
NatNetwork == PathInit /\ [][NatNext]_pathVars

-----------------------------------------------------------------------------
PathTypeOK ==
  /\ phase \in [Switch -> {"off", "delayed", "armed"}]
  /\ hosts \subseteq Host
  /\ \A b \in bound : b.flow \in Headers /\ b.port \in Pool /\ b.mac \in Host \cup {Gateway}
  /\ \A x \in flight : x.at \in Switch /\ x.port \in PortsOf(x.at) /\ x.as \in Headers

(***************************************************************************)
(* A frame that an installed rule denies goes no further than the switch   *)
(* that gets it: no host receives it or a translation of it, and it is not *)
(* answered as a query.  It depends on all the priorities, on every entry  *)
(* that is added later, and on the rules surviving a reconnection.  It is  *)
(* not so while the rules wait in their greenlet, nor for a reply that a   *)
(* rule denies by its inside address: it has that address only once it has *)
(* been translated, and is past the table by then.                         *)
(***************************************************************************)
DeniedNotForwarded ==
  \A h \in Host : inbox[h] # None /\ inbox[h].armed =>
    \A i \in Installed : ~Denies(Rules[i], inbox[h].seen)

(***************************************************************************)
(* A rule that a switch can carry out stops what it is meant to stop, and  *)
(* nothing else ("the flow entry matches packets according to the          *)
(* specified IP addresses, protocol, and ports").  A rule with ports and   *)
(* without a protocol stops all that its addresses match, and one for port *)
(* 0 all that its other fields match: neither is claimed here.             *)
(***************************************************************************)
RulesExact ==
  \A i \in Installed, x \in flight :
    WellFormed(Rules[i]) =>
      (Matches(DenyEntry(Rules[i]), x.frame) <=> Denies(Rules[i], x.frame))

(***************************************************************************)
(* DNS queries are the controller's, whatever address they are sent to: no *)
(* host receives one, and none is translated.  Entries for hosts, the NAT  *)
(* and the captures compete for them.                                      *)
(***************************************************************************)
QueriesStayLocal ==
  /\ \A h \in Host : inbox[h] # None => ~IsQuery(inbox[h].frame)
  /\ \A b \in bound : ~IsQuery(b.flow)

(***************************************************************************)
(* An outside host that a frame of an inside host is addressed to sees the *)
(* address of the NAT ("NAT must intercept packets to external             *)
(* destinations").  An entry for the outside host would lead past the NAT. *)
(***************************************************************************)
OutsideSeesNat ==
  \A h \in Outside : inbox[h] # None /\ inbox[h].frame.dst = h =>
    inbox[h].frame.src \notin Inside

(***************************************************************************)
(* Only frames of inside hosts are translated ("Outbound: internal host    *)
(* sends to external IP").                                                 *)
(***************************************************************************)
OnlyInsideTranslated == \A b \in bound : b.flow.src \in Inside

(***************************************************************************)
(* What a host gets from outside the NAT, or from the DNS server, looks as *)
(* if it had spoken to the other end directly: translating a frame, the    *)
(* reply to it and back again leaves addresses and ports as they were.     *)
(***************************************************************************)
RoundTrip ==
  \A h \in Inside :
    inbox[h] # None /\ inbox[h].frame.dst = h /\ inbox[h].as \notin Openings =>
      Header(inbox[h].frame) = inbox[h].as

(***************************************************************************)
(* A reply to the NAT's address, or a query, that the controller handles   *)
(* reaches the host that opened the exchange, known to it or not.  This is *)
(* said of one switch; of several it says too much, as the way takes more  *)
(* than one step.                                                          *)
(***************************************************************************)
ToController(x) == \E e \in Chosen(table[x.at], x.frame) : Controller \in e.to

AnswersReturn == [][
  \A x \in flight :
    Handle(x) /\ x.at \in Known /\ ToController(x) =>
      /\ IsQuery(x.frame) => inbox'[x.as.src] # None /\ inbox'[x.as.src].as = Mirror(x.as)
      /\ x.frame.dst = NatIp /\ x.as.dst \in Inside /\ ~IsQuery(x.frame) =>
           inbox'[x.as.dst] # None /\ inbox'[x.as.dst].as = x.as]_pathVars

(***************************************************************************)
(* A reply to the NAT's address goes the way to the host that opened the   *)
(* exchange when the controller knows that host ("look up the output port  *)
(* for a given IP address"): to the host, or over the wire towards it.     *)
(***************************************************************************)
ForKnown(x) == x.frame.dst = NatIp /\ ~IsQuery(x.frame) /\ x.as.dst \in Inside \cap hosts

RepliesTakeTheWay == [][
  \A x \in flight :
    Handle(x) /\ x.at \in Known /\ ToController(x) /\ ForKnown(x) =>
      LET end == Lead[x.at][WayTo(x.at, x.as.dst)] IN
      IF end = x.as.dst THEN inbox'[end] # None /\ inbox'[end].as = x.as
      ELSE \E y \in flight' : <<y.at, y.port>> = end /\ y.as = x.as]_pathVars
=============================================================================
