------------------------------ MODULE NatTable ------------------------------
(***************************************************************************)
(* NATTable (nat.py): connection tracking for source NAT.  Connections are *)
(* kept by key in _connections, and _port_index leads from the translated  *)
(* port of a reply back to the key.  Handlers run to the end without       *)
(* yielding, so each is one action; the collector runs between them.       *)
(*                                                                         *)
(* A packet is its key fields, the class of its TCP flags and its frame's  *)
(* destination; headers and checksums are left out.                        *)
(***************************************************************************)
EXTENDS Naturals

CONSTANTS
  Host,       \* internal hosts (address and MAC)
  Peer,       \* external endpoints: address and port
  HostPort,   \* source ports of TCP and UDP packets
  Ident,      \* identifiers of ICMP echo packets (0: not an echo)
  FirstPort,  \* 1024
  LastPort,   \* 65534
  TcpTimeout, UdpTimeout, IcmpTimeout, ClosingTimeout,   \* in ticks
  Gateway,    \* the destination MAC of frames that leave the subnet
  NoKey,      \* the key of a protocol that _conn_key does not know
  None

Pool == FirstPort..LastPort
Port == Pool \cup Ident

Key == [src : Host, port : HostPort, peer : Peer, proto : {"tcp", "udp"}]
         \cup [src : Host, port : Ident, peer : Peer, proto : {"icmp"}]
Keys == Key \cup {NoKey}

Timeout(proto, state) ==
  IF state = "CLOSING" THEN ClosingTimeout
  ELSE CASE proto = "tcp" -> TcpTimeout
         [] proto = "udp" -> UdpTimeout
         [] OTHER         -> IcmpTimeout

Entry ==
  {e \in [proto : {"tcp", "udp", "icmp", "other"},
          state : {"NEW", "ESTABLISHED", "CLOSING"},
          natPort : Port,
          mac : Host \cup {Gateway},
          idle : Nat] :                  \* ticks since last_seen
     e.idle <= Timeout(e.proto, e.state) + 1}

ASSUME NatAssumption ==
  /\ FirstPort \in Nat /\ LastPort \in Nat
  /\ Ident \subseteq Nat
  /\ {TcpTimeout, UdpTimeout, IcmpTimeout, ClosingTimeout} \subseteq Nat
  /\ FirstPort <= LastPort
  /\ NoKey \notin Key
  /\ None \notin Entry
  /\ None \notin Keys \cup Port

VARIABLES
  connections,   \* _connections: key -> entry
  portIndex,     \* _port_index: translated port -> key
  nextPort,      \* _next_port
  hung           \* _alloc_port found no free port and never returned

natVars == <<connections, portIndex, nextPort, hung>>

NatTypeOK ==
  /\ connections \in [Keys -> Entry \cup {None}]
  /\ \A k \in Keys : connections[k] # None =>
       connections[k].proto = IF k = NoKey THEN "other" ELSE k.proto
  /\ portIndex \in [Port -> Keys \cup {None}]
  /\ nextPort \in Pool
  /\ hung \in BOOLEAN

NatInit ==
  /\ connections = [k \in Keys |-> None]
  /\ portIndex = [p \in Port |-> None]
  /\ nextPort = FirstPort
  /\ hung = FALSE

-----------------------------------------------------------------------------
Open(k) == connections[k] # None

Proto(k) == IF k = NoKey THEN "other" ELSE k.proto

(***************************************************************************)
(* _update_tcp_state, by the class of the flags: FIN or RST, SYN alone,    *)
(* SYN+ACK, ACK alone, none of these.                                      *)
(***************************************************************************)
Flags == {"fin", "syn", "synack", "ack", "none"}

TcpState(proto, state, flags) ==
  CASE proto # "tcp"                    -> state
    [] flags = "fin"                    -> "CLOSING"
    [] flags = "synack"                 -> "ESTABLISHED"
    [] flags = "ack" /\ state = "NEW"   -> "ESTABLISHED"
    [] OTHER                            -> state

\* A packet of an open connection, in either direction.
Touched(e, flags) ==
  [e EXCEPT !.idle = 0, !.state = TcpState(e.proto, e.state, flags)]

\* _parse_eth_ip's "src_mac" is the first six bytes of the frame.
ParsedSrcMac(src, dst) == dst

NewEntry(k, p, src, flags) ==
  [proto |-> Proto(k),
   state |-> TcpState(Proto(k), IF Proto(k) = "tcp" THEN "NEW" ELSE "ESTABLISHED",
                      flags),
   natPort |-> p, mac |-> ParsedSrcMac(src, Gateway), idle |-> 0]

\* Mutant: no index entry is made.
CreateUnindexed(k, p, src, flags) ==
  /\ connections' = [connections EXCEPT ![k] = NewEntry(k, p, src, flags)]
  /\ UNCHANGED portIndex

\* _create_entry: the index entry of the port is overwritten.
CreateEntry(k, p, src, flags) ==
  /\ connections' = [connections EXCEPT ![k] = NewEntry(k, p, src, flags)]
  /\ portIndex' = [portIndex EXCEPT ![p] = k]

\* Mutants: no port is seen as taken; the search runs off the pool's end.
AllPorts == Pool
SuccessorUnwrapped(p) == p + 1

(***************************************************************************)
(* _alloc_port: the first port from _next_port on, around the pool, that   *)
(* is not in _port_index.                                                  *)
(***************************************************************************)
FreePorts == {p \in Pool : portIndex[p] = None}
Successor(p) == IF p < LastPort THEN p + 1 ELSE FirstPort
Distance(p) ==
  IF p >= nextPort THEN p - nextPort
  ELSE (p + (LastPort - FirstPort) + 1) - nextPort

-----------------------------------------------------------------------------
\* handle_outbound for a connection that is on record.
OutboundKnown(k, flags) ==
  /\ ~hung
  /\ Open(k)
  /\ connections' = [connections EXCEPT ![k] = Touched(connections[k], flags)]
  /\ UNCHANGED <<portIndex, nextPort, hung>>

\* ... for the first packet of an ICMP exchange: the identifier is the port.
OutboundIcmp(k) ==
  /\ ~hung
  /\ ~Open(k)
  /\ Proto(k) = "icmp"
  /\ CreateEntry(k, k.port, k.src, "none")
  /\ UNCHANGED <<nextPort, hung>>

\* Mutant: a connection on record is given another port.
OutboundAlways(k, src, flags) ==
  /\ ~hung
  /\ Proto(k) # "icmp"
  /\ \E p \in FreePorts :
       /\ \A q \in FreePorts : Distance(p) <= Distance(q)
       /\ CreateEntry(k, p, src, flags)
       /\ nextPort' = Successor(p)
  /\ UNCHANGED hung

\* ... for the first packet of any other connection: a port is allocated.
OutboundNew(k, src, flags) ==
  /\ ~hung
  /\ ~Open(k)
  /\ Proto(k) # "icmp"
  /\ \E p \in FreePorts :
       /\ \A q \in FreePorts : Distance(p) <= Distance(q)
       /\ CreateEntry(k, p, src, flags)
       /\ nextPort' = Successor(p)
  /\ UNCHANGED hung

\* ... and when every port is in the index, the search goes round for ever,
\* without yielding: no greenlet of the controller runs again.
OutboundHangs(k) ==
  /\ ~hung
  /\ ~Open(k)
  /\ Proto(k) # "icmp"
  /\ FreePorts = {}
  /\ hung' = TRUE
  /\ UNCHANGED <<connections, portIndex, nextPort>>

\* handle_inbound for a reply to port p; other packets change nothing.
Inbound(p, proto, flags) ==
  LET k == portIndex[p] IN
  /\ ~hung
  /\ k \in Key /\ k.proto = proto /\ Open(k)
  /\ connections' = [connections EXCEPT ![k] = Touched(connections[k], flags)]
  /\ UNCHANGED <<portIndex, nextPort, hung>>

-----------------------------------------------------------------------------
Expired(k) ==
  /\ Open(k)
  /\ connections[k].idle > Timeout(connections[k].proto, connections[k].state)

\* Mutant: the index entries stay.
RemoveKeepsIndex(old) ==
  /\ ~hung
  /\ old # {}
  /\ connections' = [k \in Keys |-> IF k \in old THEN None ELSE connections[k]]
  /\ UNCHANGED <<portIndex, nextPort, hung>>

\* The connections of old go; their index entries go by port, whoever they
\* lead to.
Remove(old) ==
  LET ports == {connections[k].natPort : k \in old} IN
  /\ ~hung
  /\ old # {}
  /\ connections' = [k \in Keys |-> IF k \in old THEN None ELSE connections[k]]
  /\ portIndex' = [p \in Port |-> IF p \in ports THEN None ELSE portIndex[p]]
  /\ UNCHANGED <<nextPort, hung>>

\* Mutants: a connection goes a tick too early; closing connections are
\* passed over.
CollectEarly ==
  Remove({k \in Keys : /\ Open(k)
                       /\ connections[k].idle >= Timeout(connections[k].proto,
                                                         connections[k].state)})
CollectOpen == Remove({k \in Keys : Expired(k) /\ connections[k].state # "CLOSING"})

\* One pass of _gc.
Collect == Remove({k \in Keys : Expired(k)})

\* Time passes; an idle time beyond its timeout is not told apart.
Tick ==
  /\ connections' = [k \in Keys |->
       IF Open(k) /\ ~Expired(k)
         THEN [connections[k] EXCEPT !.idle = connections[k].idle + 1]
         ELSE connections[k]]
  /\ UNCHANGED <<portIndex, nextPort, hung>>

-----------------------------------------------------------------------------
FlagsOf(k) == IF Proto(k) = "tcp" THEN Flags ELSE {"none"}
SendersOf(k) == IF k = NoKey THEN Host ELSE {k.src}

\* Packets of the connection with key k (NoKey: of any other protocol).
Traffic(k) ==
  \/ \E flags \in FlagsOf(k) :
       OutboundKnown(k, flags) \/ \E src \in SendersOf(k) : OutboundNew(k, src, flags)
  \/ OutboundIcmp(k)
  \/ OutboundHangs(k)

Replies(protos) ==
  \E p \in Port, proto \in protos, flags \in Flags : Inbound(p, proto, flags)

NatNext ==
  \/ \E k \in Keys : Traffic(k)
  \/ Replies({"tcp", "udp", "icmp"})
  \/ Collect
  \/ Tick

NatSpec == NatInit /\ [][NatNext]_natVars

-----------------------------------------------------------------------------
(***************************************************************************)
(* An index entry leads to an open connection that was given that port:    *)
(* whatever clashes of ports happened, no port is lost to the pool.  The   *)
(* index is overwritten by _create_entry and cleared by port in _gc, so a  *)
(* connection can lose its entry to another one and remove the other's.    *)
(* (Its own replies are lost then: CollectSparesLive is without ICMP.)     *)
(***************************************************************************)
NoDanglingIndex ==
  \A p \in Port : portIndex[p] # None =>
    Open(portIndex[p]) /\ connections[portIndex[p]].natPort = p

(***************************************************************************)
(* Two open connections are never translated to the same port: a reply has *)
(* one connection it can belong to ("independent NAT port translation").   *)
(***************************************************************************)
PortsDiffer ==
  \A j, k \in Keys :
    Open(j) /\ Open(k) /\ connections[j].natPort = connections[k].natPort
    => j = k

(***************************************************************************)
(* The collector leaves the index entries of connections that stay alone:  *)
(* what is not expired still gets its replies after a pass.                *)
(***************************************************************************)
CollectSparesLive == [][
  Collect => \A p \in Port :
    portIndex[p] # None /\ ~Expired(portIndex[p]) => portIndex'[p] = portIndex[p]]_natVars
=============================================================================
