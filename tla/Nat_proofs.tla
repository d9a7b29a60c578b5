------------------------------ MODULE Nat_proofs -----------------------------
(***************************************************************************)
(* For any hosts, ports, timeouts and pool: the types of NatTable, that no *)
(* port is lost to the pool, and that without ICMP the NAT implements      *)
(* PortBinding; for all addresses, lengths and payloads: two carries are   *)
(* enough for the sum of any frame's words, and what the NAT rewrites is   *)
(* accepted and is what the ends would have sent each other.               *)
(***************************************************************************)
EXTENDS NatFlows, NatRewrite, TLAPS

NatInv == NatTypeOK /\ NoDanglingIndex

-----------------------------------------------------------------------------
(* Entries                                                                 *)

\* _update_tcp_state stays among the three states.
LEMMA TcpStateType ==
  ASSUME NEW proto, NEW s \in {"NEW", "ESTABLISHED", "CLOSING"}, NEW flags
  PROVE  TcpState(proto, s, flags) \in {"NEW", "ESTABLISHED", "CLOSING"}
BY DEF TcpState

\* Every timeout is a number of ticks.
LEMMA TimeoutType ==
  ASSUME NEW proto, NEW s
  PROVE  Timeout(proto, s) \in Nat
BY NatAssumption DEF Timeout

\* An entry whose packet was seen keeps its port, protocol and MAC.
LEMMA TouchedEntry ==
  ASSUME NEW e \in Entry, NEW flags
  PROVE  /\ Touched(e, flags) \in Entry
         /\ Touched(e, flags).natPort = e.natPort
         /\ Touched(e, flags).proto = e.proto
<1>1. TcpState(e.proto, e.state, flags) \in {"NEW", "ESTABLISHED", "CLOSING"}
  BY TcpStateType DEF Entry
<1>2. 0 <= Timeout(e.proto, TcpState(e.proto, e.state, flags)) + 1
  BY TimeoutType
<1> DEFINE s == TcpState(e.proto, e.state, flags)
<1> HIDE DEF s
<1>3. /\ [e EXCEPT !.idle = 0, !.state = s] \in Entry
      /\ [e EXCEPT !.idle = 0, !.state = s].natPort = e.natPort
      /\ [e EXCEPT !.idle = 0, !.state = s].proto = e.proto
  BY <1>1, <1>2 DEF Entry, s
<1>4. QED
  BY <1>3 DEF Touched, s

\* The entry _create_entry makes.
LEMMA NewEntryType ==
  ASSUME NEW k \in Keys, NEW p \in Port, NEW src \in Host, NEW flags
  PROVE  /\ NewEntry(k, p, src, flags) \in Entry
         /\ NewEntry(k, p, src, flags).natPort = p
         /\ NewEntry(k, p, src, flags).proto = Proto(k)
<1> DEFINE s == TcpState(Proto(k),
                  IF Proto(k) = "tcp" THEN "NEW" ELSE "ESTABLISHED", flags)
<1>1. s \in {"NEW", "ESTABLISHED", "CLOSING"}
  BY TcpStateType
<1>2. Proto(k) \in {"tcp", "udp", "icmp", "other"}
  BY DEF Proto, Keys, Key
<1>3. 0 <= Timeout(Proto(k), s) + 1
  BY TimeoutType
<1> HIDE DEF s
<1>4. [proto |-> Proto(k), state |-> s, natPort |-> p, mac |-> Gateway,
       idle |-> 0] \in Entry
  BY <1>1, <1>2, <1>3 DEF Entry
<1>5. QED
  BY <1>4 DEF NewEntry, ParsedSrcMac, s

\* An entry that is not expired can grow a tick older.
LEMMA OlderEntry ==
  ASSUME NEW e \in Entry, ~(e.idle > Timeout(e.proto, e.state))
  PROVE  LET f == [e EXCEPT !.idle = e.idle + 1]
         IN  f \in Entry /\ f.natPort = e.natPort /\ f.proto = e.proto
<1>1. Timeout(e.proto, e.state) \in Nat
  BY TimeoutType
<1>2. e.idle + 1 \in Nat /\ e.idle + 1 <= Timeout(e.proto, e.state) + 1
  BY <1>1 DEF Entry
<1>3. QED
  BY <1>2 DEF Entry

-----------------------------------------------------------------------------
(* NoDanglingIndex                                                         *)

\* Steps that keep who is open and what port each has, and the index.
LEMMA SamePorts ==
  ASSUME NatInv,
         \A k \in Keys : /\ connections'[k] # None <=> connections[k] # None
                         /\ Open(k) => connections'[k].natPort = connections[k].natPort,
         UNCHANGED portIndex
  PROVE  NoDanglingIndex'
BY DEF NatInv, NatTypeOK, NoDanglingIndex, Open

\* A connection that was not open is entered under a port.
LEMMA CreateKeeps ==
  ASSUME NatInv, NEW k \in Keys, NEW p \in Port, NEW src \in Host, NEW flags,
         ~Open(k), CreateEntry(k, p, src, flags)
  PROVE  /\ NoDanglingIndex'
         /\ connections' \in [Keys -> Entry \cup {None}]
         /\ \A j \in Keys : connections'[j] # None => connections'[j].proto = Proto(j)
         /\ portIndex' \in [Port -> Keys \cup {None}]
         /\ connections'[k] # None /\ connections'[k].natPort = p
<1> DEFINE e == NewEntry(k, p, src, flags)
<1>1. e \in Entry /\ e # None /\ e.natPort = p /\ e.proto = Proto(k)
  BY NewEntryType, NatAssumption
<1>2. /\ connections' = [connections EXCEPT ![k] = e]
      /\ portIndex' = [portIndex EXCEPT ![p] = k]
  BY DEF CreateEntry
<1> HIDE DEF e
<1>3. /\ connections' \in [Keys -> Entry \cup {None}]
      /\ portIndex' \in [Port -> Keys \cup {None}]
      /\ \A j \in Keys : connections'[j] # None => connections'[j].proto = Proto(j)
      /\ connections'[k] # None /\ connections'[k].natPort = p
  BY <1>1, <1>2 DEF NatInv, NatTypeOK, Proto
<1>4. NoDanglingIndex'
  <2> SUFFICES ASSUME NEW q \in Port, portIndex'[q] # None
               PROVE  /\ connections'[portIndex'[q]] # None
                      /\ connections'[portIndex'[q]].natPort = q
    BY DEF NoDanglingIndex, Open
  <2>1. CASE q = p
    BY <1>2, <1>3, <2>1 DEF NatInv, NatTypeOK
  <2>2. CASE q # p
    <3>1. /\ portIndex'[q] = portIndex[q] /\ portIndex[q] \in Keys
          /\ Open(portIndex[q]) /\ connections[portIndex[q]].natPort = q
      BY <1>2, <2>2 DEF NatInv, NatTypeOK, NoDanglingIndex
    <3>2. portIndex[q] # k
      BY <3>1
    <3>3. QED
      BY <1>2, <3>1, <3>2 DEF NatInv, NatTypeOK, Open
  <2>3. QED
    BY <2>1, <2>2
<1>5. QED
  BY <1>3, <1>4

\* A packet of an open connection changes nothing but its entry's clocks.
LEMMA TouchKeeps ==
  ASSUME NatInv, NEW k \in Keys, NEW flags, Open(k),
         connections' = [connections EXCEPT ![k] = Touched(connections[k], flags)],
         UNCHANGED <<portIndex, nextPort, hung>>
  PROVE  /\ NatInv'
         /\ \A j \in Keys : /\ connections'[j] # None <=> connections[j] # None
                            /\ Open(j) => connections'[j].natPort = connections[j].natPort
<1> DEFINE e == Touched(connections[k], flags)
<1>1. connections[k] \in Entry
  BY DEF NatInv, NatTypeOK, Open
<1>2. /\ e \in Entry /\ e # None
      /\ e.natPort = connections[k].natPort /\ e.proto = connections[k].proto
  BY <1>1, TouchedEntry, NatAssumption
<1> HIDE DEF e
<1>3. /\ connections' \in [Keys -> Entry \cup {None}]
      /\ \A j \in Keys : /\ connections'[j] # None <=> connections[j] # None
                         /\ Open(j) => connections'[j].natPort = connections[j].natPort
                         /\ Open(j) => connections'[j].proto = connections[j].proto
  BY <1>2 DEF NatInv, NatTypeOK, Open, e
<1>4. NatTypeOK'
  BY <1>3 DEF NatInv, NatTypeOK, Open
<1>5. QED
  BY <1>3, <1>4, SamePorts DEF NatInv

\* The sender of a packet is a host.
LEMMA SendersAreHosts ==
  ASSUME NEW k \in Keys
  PROVE  SendersOf(k) \subseteq Host
BY DEF SendersOf, Keys, Key

\* A packet from inside.
LEMMA TrafficKeeps ==
  ASSUME NatInv, NEW k \in Keys, Traffic(k)
  PROVE  NatInv'
<1>1. ASSUME NEW flags, OutboundKnown(k, flags)
      PROVE  NatInv'
  BY <1>1, TouchKeeps DEF OutboundKnown
<1>2. ASSUME NEW flags, NEW src \in Host, OutboundNew(k, src, flags)
      PROVE  NatInv'
  <2>1. PICK p \in FreePorts :
          CreateEntry(k, p, src, flags) /\ nextPort' = Successor(p)
    BY <1>2 DEF OutboundNew
  <2>2. p \in Pool /\ p \in Port /\ Successor(p) \in Pool
    BY NatAssumption DEF FreePorts, Pool, Port, Successor
  <2>3. UNCHANGED hung /\ ~Open(k)
    BY <1>2 DEF OutboundNew
  <2>4. QED
    BY <2>1, <2>2, <2>3, CreateKeeps DEF NatInv, NatTypeOK, Proto
<1>3. ASSUME OutboundIcmp(k)
      PROVE  NatInv'
  <2>1. k \in Key /\ k.src \in Host /\ k.port \in Port
    BY <1>3 DEF OutboundIcmp, Proto, Keys, Key, Port
  <2>2. CreateEntry(k, k.port, k.src, "none") /\ ~Open(k) /\ UNCHANGED <<nextPort, hung>>
    BY <1>3 DEF OutboundIcmp
  <2>3. QED
    BY <2>1, <2>2, CreateKeeps DEF NatInv, NatTypeOK, Proto
<1>4. ASSUME OutboundHangs(k)
      PROVE  NatInv'
  BY <1>4 DEF OutboundHangs, NatInv, NatTypeOK, NoDanglingIndex, Open
<1>5. QED
  BY <1>1, <1>2, <1>3, <1>4, SendersAreHosts DEF Traffic

\* One pass of the collector: what is indexed afterwards was not expired.
LEMMA CollectKeeps ==
  ASSUME NatInv, Collect
  PROVE  NatInv'
<1> DEFINE old == {k \in Keys : Expired(k)}
           ports == {connections[k].natPort : k \in old}
<1>1. /\ connections' = [k \in Keys |-> IF k \in old THEN None ELSE connections[k]]
      /\ portIndex' = [p \in Port |-> IF p \in ports THEN None ELSE portIndex[p]]
      /\ UNCHANGED <<nextPort, hung>>
  BY DEF Collect, Remove
<1>2. NatTypeOK'
  BY <1>1 DEF NatInv, NatTypeOK
<1>3. NoDanglingIndex'
  <2> SUFFICES ASSUME NEW p \in Port, portIndex'[p] # None
               PROVE  /\ connections'[portIndex'[p]] # None
                      /\ connections'[portIndex'[p]].natPort = p
    BY DEF NoDanglingIndex, Open
  <2>1. /\ p \notin ports /\ portIndex'[p] = portIndex[p]
        /\ portIndex[p] \in Keys
        /\ Open(portIndex[p]) /\ connections[portIndex[p]].natPort = p
    BY <1>1 DEF NatInv, NatTypeOK, NoDanglingIndex
  <2>2. portIndex[p] \notin old
    BY <2>1
  <2>3. QED
    BY <1>1, <2>1, <2>2 DEF Open
<1>4. QED
  BY <1>2, <1>3 DEF NatInv

\* The clock changes idle times only.
LEMMA TickKeeps ==
  ASSUME NatInv, Tick
  PROVE  /\ NatInv'
         /\ \A j \in Keys : /\ connections'[j] # None <=> connections[j] # None
                            /\ Open(j) => connections'[j].natPort = connections[j].natPort
<1>1. \A j \in Keys :
        /\ connections'[j] \in Entry \cup {None}
        /\ connections'[j] # None <=> connections[j] # None
        /\ Open(j) => /\ connections'[j].natPort = connections[j].natPort
                      /\ connections'[j].proto = connections[j].proto
  <2> SUFFICES ASSUME NEW j \in Keys
               PROVE  /\ connections'[j] \in Entry \cup {None}
                      /\ connections'[j] # None <=> connections[j] # None
                      /\ Open(j) => /\ connections'[j].natPort = connections[j].natPort
                                    /\ connections'[j].proto = connections[j].proto
    OBVIOUS
  <2>1. CASE Open(j) /\ ~Expired(j)
    <3>1. connections[j] \in Entry
      BY <2>1 DEF NatInv, NatTypeOK, Open
    <3>2. connections'[j] = [connections[j] EXCEPT !.idle = connections[j].idle + 1]
      BY <2>1 DEF Tick
    <3>3. QED
      BY <2>1, <3>1, <3>2, OlderEntry, NatAssumption DEF Expired, Open
  <2>2. CASE ~(Open(j) /\ ~Expired(j))
    BY <2>2 DEF Tick, NatInv, NatTypeOK
  <2>3. QED
    BY <2>1, <2>2
<1>2. NatTypeOK'
  BY <1>1 DEF Tick, NatInv, NatTypeOK, Open
<1>3. NoDanglingIndex'
  BY <1>1, SamePorts DEF Tick
<1>4. QED
  BY <1>1, <1>2, <1>3 DEF NatInv

LEMMA InitNatInv ==
  ASSUME NatInit
  PROVE  NatInv
<1>1. nextPort \in Pool
  BY NatAssumption DEF NatInit, Pool
<1>2. \A k \in Keys : connections[k] = None
  BY DEF NatInit
<1>3. \A p \in Port : portIndex[p] = None
  BY DEF NatInit
<1>4. NatTypeOK
  BY <1>1, <1>2 DEF NatInit, NatTypeOK
<1>5. QED
  BY <1>3, <1>4 DEF NatInv, NoDanglingIndex

LEMMA NextNatInv ==
  ASSUME NatInv, [NatNext]_natVars
  PROVE  NatInv'
<1>1. ASSUME NEW p \in Port, NEW proto, NEW flags, Inbound(p, proto, flags)
      PROVE  NatInv'
  BY <1>1, TouchKeeps DEF Inbound, Keys
<1>2. CASE UNCHANGED natVars
  BY <1>2 DEF natVars, NatInv, NatTypeOK, NoDanglingIndex, Open
<1>3. QED
  BY <1>1, <1>2, TrafficKeeps, CollectKeeps, TickKeeps DEF NatNext, Replies

\* Whatever mix of protocols, the index entries lead to open connections.
THEOREM NoPortIsLost == NatSpec => []NoDanglingIndex
<1>1. NatInv /\ [NatNext]_natVars => NatInv'
  BY NextNatInv
<1>2. NatInv => NoDanglingIndex
  BY DEF NatInv
<1>3. QED
  BY <1>1, <1>2, InitNatInv, PTL DEF NatSpec

\* The tables have their types, idle times bounded by the timeouts.
THEOREM NatTypes == NatSpec => []NatTypeOK
<1>1. NatInv /\ [NatNext]_natVars => NatInv'
  BY NextNatInv
<1>2. NatInv => NatTypeOK
  BY DEF NatInv
<1>3. QED
  BY <1>1, <1>2, InitNatInv, PTL DEF NatSpec

-----------------------------------------------------------------------------
(* Without ICMP                                                            *)

FlowsInv == NatInv /\ IndexComplete

\* Steps that keep who is open, what port each has, and the index.
LEMMA SameBinding ==
  ASSUME FlowsInv,
         \A j \in Keys : /\ connections'[j] # None <=> connections[j] # None
                         /\ Open(j) => connections'[j].natPort = connections[j].natPort,
         UNCHANGED portIndex
  PROVE  IndexComplete' /\ UNCHANGED <<natBinding, portIndex>>
BY DEF FlowsInv, IndexComplete, natBinding, Open

\* The first packet of a flow binds a port that was free.
LEMMA NewFlowBinds ==
  ASSUME FlowsInv, NEW k \in Keys, NEW flags, NEW src \in Host,
         OutboundNew(k, src, flags)
  PROVE  IndexComplete' /\ Binding!BindingNext
<1> USE DEF FlowsInv
<1>1. PICK p \in FreePorts : CreateEntry(k, p, src, flags)
  BY DEF OutboundNew
<1>2. p \in Port /\ portIndex[p] = None /\ ~Open(k)
  BY <1>1 DEF FreePorts, Pool, Port, OutboundNew
<1>3. /\ connections' \in [Keys -> Entry \cup {None}]
      /\ connections'[k] # None /\ connections'[k].natPort = p
  BY <1>1, <1>2, CreateKeeps
<1>4. /\ \A j \in Keys \ {k} : connections'[j] = connections[j]
      /\ portIndex' = [portIndex EXCEPT ![p] = k]
  BY <1>1 DEF CreateEntry, NatInv, NatTypeOK
<1>5. \A j \in Keys : Open(j) => /\ connections[j].natPort \in Port
                                 /\ connections[j].natPort # p
  BY <1>2, NatAssumption DEF IndexComplete, NatInv, NatTypeOK, Open, Entry
<1>6. IndexComplete'
  BY <1>2, <1>3, <1>4, <1>5 DEF IndexComplete, NatInv, NatTypeOK, Open
<1>7. Binding!Bind(k, p)
  <2>1. natBinding[k] = None
    BY <1>2 DEF natBinding
  <2>2. p # None
    BY <1>2, NatAssumption
  <2>3. \A j \in Keys : natBinding[j] # p
    BY <1>5, <2>2 DEF natBinding
  <2>4. natBinding' = [natBinding EXCEPT ![k] = p]
    BY <1>2, <1>3, <1>4 DEF natBinding, Open
  <2>5. QED
    BY <1>4, <2>1, <2>3, <2>4 DEF Binding!Bind
<1>8. QED
  BY <1>2, <1>6, <1>7 DEF Binding!BindingNext

\* A pass of the collector unbinds the flows it removes, and no other.
LEMMA CollectUnbinds ==
  ASSUME FlowsInv, Collect
  PROVE  /\ IndexComplete' /\ Binding!BindingNext
         /\ \A p \in Port : portIndex[p] # None /\ ~Expired(portIndex[p]) =>
              portIndex'[p] = portIndex[p]
<1> USE DEF FlowsInv
<1> DEFINE old == {k \in Keys : Expired(k)}
           ports == {connections[k].natPort : k \in old}
<1>1. /\ connections' = [k \in Keys |-> IF k \in old THEN None ELSE connections[k]]
      /\ portIndex' = [p \in Port |-> IF p \in ports THEN None ELSE portIndex[p]]
  BY DEF Collect, Remove
<1>2. \A p \in Port : p \in ports <=> portIndex[p] \in old
  <2> SUFFICES ASSUME NEW p \in Port
               PROVE  p \in ports <=> portIndex[p] \in old
    OBVIOUS
  <2>1. ASSUME NEW k \in old, connections[k].natPort = p
        PROVE  portIndex[p] \in old
    BY <2>1 DEF IndexComplete, Expired
  <2>2. ASSUME portIndex[p] \in old
        PROVE  p \in ports
    BY <2>2, NatAssumption DEF NatInv, NoDanglingIndex
  <2>3. QED
    BY <2>1, <2>2
<1>3. IndexComplete'
  <2> SUFFICES ASSUME NEW k \in Keys, connections'[k] # None
               PROVE  portIndex'[connections'[k].natPort] = k
    BY DEF IndexComplete, Open
  <2>1. k \notin old /\ connections'[k] = connections[k] /\ Open(k)
    BY <1>1 DEF Open
  <2>2. connections[k].natPort \in Port /\ portIndex[connections[k].natPort] = k
    BY <2>1 DEF IndexComplete, NatInv, NatTypeOK, Open, Entry
  <2>3. connections[k].natPort \notin ports
    BY <1>2, <2>1, <2>2
  <2>4. QED
    BY <1>1, <2>1, <2>2, <2>3
<1>4. Binding!Unbind(old)
  <2>1. natBinding' = [k \in Keys |-> IF k \in old THEN None ELSE natBinding[k]]
    BY <1>1 DEF natBinding, Open
  <2>2. portIndex' = [p \in Port |-> IF portIndex[p] \in old THEN None
                                     ELSE portIndex[p]]
    BY <1>1, <1>2
  <2>3. QED
    BY <2>1, <2>2 DEF Binding!Unbind
<1>5. \A p \in Port : portIndex[p] # None /\ ~Expired(portIndex[p]) =>
        portIndex'[p] = portIndex[p]
  BY <1>1, <1>2
<1>6. QED
  BY <1>3, <1>4, <1>5 DEF Binding!BindingNext

LEMMA NextFlows ==
  ASSUME FlowsInv, [FlowsNext]_natVars
  PROVE  /\ FlowsInv'
         /\ [Binding!BindingNext]_<<natBinding, portIndex>>
<1>1. NatInv'
  <2>1. [NatNext]_natVars
    BY DEF FlowsNext, NatNext, Flows, Replies
  <2>2. QED
    BY <2>1, NextNatInv DEF FlowsInv
<1>2. IndexComplete' /\ [Binding!BindingNext]_<<natBinding, portIndex>>
  <2>1. ASSUME NEW k \in Keys, NEW flags, OutboundKnown(k, flags)
        PROVE  IndexComplete' /\ UNCHANGED <<natBinding, portIndex>>
    BY <2>1, TouchKeeps, SameBinding DEF OutboundKnown, FlowsInv
  <2>2. ASSUME NEW p \in Port, NEW proto, NEW flags, Inbound(p, proto, flags)
        PROVE  IndexComplete' /\ UNCHANGED <<natBinding, portIndex>>
    BY <2>2, TouchKeeps, SameBinding DEF Inbound, FlowsInv, Keys
  <2>3. ASSUME Tick
        PROVE  IndexComplete' /\ UNCHANGED <<natBinding, portIndex>>
    BY <2>3, TickKeeps, SameBinding DEF Tick, FlowsInv
  <2>4. ASSUME NEW k, OutboundHangs(k) \/ UNCHANGED natVars
        PROVE  IndexComplete' /\ UNCHANGED <<natBinding, portIndex>>
    BY <2>4, SameBinding DEF OutboundHangs, natVars, Open
  <2>5. ASSUME NEW k \in Flows, Traffic(k)
        PROVE  IndexComplete' /\ [Binding!BindingNext]_<<natBinding, portIndex>>
    BY <2>1, <2>4, <2>5, NewFlowBinds, SendersAreHosts DEF Traffic, Flows, OutboundIcmp
  <2>6. QED
    BY <2>2, <2>3, <2>4, <2>5, CollectUnbinds DEF FlowsNext, Replies
<1>3. QED
  BY <1>1, <1>2 DEF FlowsInv

LEMMA InitFlows ==
  ASSUME NatInit
  PROVE  FlowsInv /\ Binding!BindingInit
<1>1. \A k \in Keys : ~Open(k)
  BY DEF NatInit, Open
<1>2. IndexComplete
  BY <1>1 DEF IndexComplete
<1>3. Binding!BindingInit
  BY <1>1 DEF NatInit, Binding!BindingInit, natBinding
<1>4. QED
  BY <1>2, <1>3, InitNatInv DEF FlowsInv

\* Without ICMP the NAT implements PortBinding: ports are bound one to one.
THEOREM NatImplementsBinding == FlowsSpec => ImplementsBinding
<1>1. FlowsInv /\ [FlowsNext]_natVars => FlowsInv'
  BY NextFlows
<1>2. FlowsInv /\ [FlowsNext]_natVars =>
        [Binding!BindingNext]_<<natBinding, portIndex>>
  BY NextFlows
<1>3. NatInit => FlowsInv /\ Binding!BindingInit
  BY InitFlows
<1>4. QED
  BY <1>1, <1>2, <1>3, PTL
     DEF FlowsSpec, ImplementsBinding, Binding!BindingSpec, Binding!bindingVars

\* Without ICMP the index leads from a connection's port back to it, so that a
\* reply finds its own.
THEOREM FlowsHavePorts == FlowsSpec => []IndexComplete
<1>1. FlowsInv /\ [FlowsNext]_natVars => FlowsInv'
  BY NextFlows
<1>2. FlowsInv => IndexComplete
  BY DEF FlowsInv
<1>3. NatInit => FlowsInv
  BY InitFlows
<1>4. QED
  BY <1>1, <1>2, <1>3, PTL DEF FlowsSpec

\* Without ICMP no two open connections share a port.
THEOREM PortsNeverShared == FlowsSpec => []PortsDiffer
<1>1. IndexComplete => PortsDiffer
  BY DEF IndexComplete, PortsDiffer
<1>2. QED
  BY <1>1, FlowsHavePorts, PTL

\* Without ICMP the collector touches nothing but what has expired.
THEOREM CollectorSparesLive == FlowsSpec => CollectSparesLive
<1>1. FlowsInv /\ [FlowsNext]_natVars => FlowsInv'
  BY NextFlows
<1>2. FlowsInv /\ [FlowsNext]_natVars =>
        [Collect => \A p \in Port :
           portIndex[p] # None /\ ~Expired(portIndex[p]) =>
             portIndex'[p] = portIndex[p]]_natVars
  BY CollectUnbinds
<1>3. NatInit => FlowsInv
  BY InitFlows
<1>4. QED
  BY <1>1, <1>2, <1>3, PTL DEF FlowsSpec, CollectSparesLive

-----------------------------------------------------------------------------
(* The checksum                                                            *)

\* How often 65535 has been taken from s when it is folded.
Carries(s) ==
  LET h == s \div 65536 IN h + (h + (s % 65536)) \div 65536

(***************************************************************************)
(* Two carries are enough: the two halves h and l of a sum, added, leave   *)
(* a word that is the same modulo 65535.                                   *)
(***************************************************************************)
LEMMA HalvesFold ==
  ASSUME NEW h \in Nat, h <= 65535, NEW l \in Nat, l <= 65535,
         NEW c \in Nat, c = (h + l) \div 65536,
         NEW f, f = (h + l + c) % 65536
  PROVE  /\ f \in Nat /\ f <= 65535
         /\ c <= 1
         /\ f + 65535 * c = h + l
         /\ f = 0 => h + l = 0
<1>1. CASE h + l < 65536
  <2>1. c = 0
    BY <1>1, SMT
  <2>2. (h + l) % 65536 = h + l
    BY <1>1, SMT
  <2>3. f = h + l
    BY <2>1, <2>2, SMT
  <2> QED
    BY <1>1, <2>1, <2>3, SMT
<1>2. CASE h + l >= 65536
  <2>1. c = 1
    BY <1>2, SMT
  <2>2. PICK n \in Nat : n = h + l + 1 /\ n >= 65536 /\ n < 131072
    BY <1>2, SMT
  <2>3. n % 65536 = n - 65536
    BY <2>2, SMT
  <2>4. f = n - 65536
    BY <2>1, <2>2, <2>3, SMT
  <2>5. f \in Nat /\ f <= 65535
    BY <2>2, <2>4, SMT
  <2>6. f + 65535 * c = h + l
    BY <2>1, <2>2, <2>4, SMT
  <2>7. f # 0
    BY <1>2, <2>1, <2>6, SMT
  <2> QED
    BY <2>1, <2>5, <2>6, <2>7, SMT
<1> QED
  BY <1>1, <1>2, SMT

(***************************************************************************)
(* Folding keeps the sum modulo 65535, and only 0 folds to 0.              *)
(***************************************************************************)
LEMMA FoldedIsResidue ==
  ASSUME NEW s \in Nat, s < 4294967296
  PROVE  /\ Folded(s) \in Nat
         /\ Folded(s) <= 65535
         /\ Carries(s) \in Nat
         /\ s = 65535 * Carries(s) + Folded(s)
         /\ Folded(s) = 0 => s = 0
<1>1. PICK h \in Nat : h = s \div 65536
  BY SMT
<1>2. h <= 65535
  BY <1>1, SMT
<1>3. PICK l \in Nat : l = s % 65536
  BY SMT
<1>4. l <= 65535
  BY <1>3, SMT
<1>5. s = 65536 * h + l
  BY <1>1, <1>3, SMT
<1>6. PICK c \in Nat : c = (h + l) \div 65536
  BY SMT
<1>7. Folded(s) = (h + l + c) % 65536
  BY <1>1, <1>3, <1>6, SMT DEF Folded
<1>8. Carries(s) = h + c
  BY <1>1, <1>3, <1>6, SMT DEF Carries
<1>9. /\ Folded(s) \in Nat
      /\ Folded(s) <= 65535
      /\ Folded(s) + 65535 * c = h + l
      /\ Folded(s) = 0 => h + l = 0
  BY <1>2, <1>4, <1>6, <1>7, HalvesFold, SMT
<1>10. s = 65535 * (h + c) + Folded(s)
  BY <1>5, <1>9, SMT
<1>11. Folded(s) = 0 => s = 0
  BY <1>5, <1>9, SMT
<1> QED
  BY <1>8, <1>9, <1>10, <1>11, SMT

(***************************************************************************)
(* A multiple of 65535 that is not 0 folds to all ones.                    *)
(***************************************************************************)
LEMMA MultipleFolds ==
  ASSUME NEW n \in Nat, n < 4294967296, n > 0, NEW p \in Nat, n = 65535 * p
  PROVE  Folded(n) = 65535
<1>1. /\ Folded(n) \in Nat
      /\ Folded(n) <= 65535
      /\ Carries(n) \in Nat
      /\ n = 65535 * Carries(n) + Folded(n)
      /\ Folded(n) = 0 => n = 0
  BY FoldedIsResidue, SMT
<1> PICK q \in Nat : q = Carries(n)
  BY <1>1, SMT
<1> PICK f \in Nat : f = Folded(n)
  BY <1>1, SMT
<1>2. f <= 65535 /\ f > 0 /\ n = 65535 * q + f
  BY <1>1, SMT
<1>3. 65535 * p = 65535 * q + f
  BY <1>2, SMT
<1>4. p = q + 1
  BY <1>2, <1>3, SMT
<1>5. f = 65535
  BY <1>3, <1>4, SMT
<1> QED
  BY <1>5, SMT

\* c brings s to p times 65535, and not to 0.
Completes(s, c, p) == s + c = 65535 * p /\ s + c > 0

(***************************************************************************)
(* A word that brings a sum to such a multiple verifies it.                *)
(***************************************************************************)
LEMMA MultipleVerifies ==
  ASSUME NEW s \in Nat, s < 4294900000, NEW c \in Nat, c <= 65535,
         NEW p \in Nat, Completes(s, c, p)
  PROVE  Verifies(s, c)
<1>1. PICK n \in Nat : n = s + c
  BY SMT
<1>2. n = 65535 * p
  BY <1>1, SMT DEF Completes
<1>3. n > 0
  BY <1>1, SMT DEF Completes
<1>4. n < 4294967296
  BY <1>1, SMT
<1>5. Folded(n) = 65535
  BY <1>2, <1>3, <1>4, MultipleFolds, SMT
<1> QED
  BY <1>1, <1>5, SMT DEF Verifies

(***************************************************************************)
(* The checksum of any sum of words verifies, and so does all ones in the  *)
(* place of a checksum of 0.                                               *)
(***************************************************************************)
LEMMA ChecksumVerifies ==
  ASSUME NEW s \in Nat, s < 4294900000
  PROVE  /\ ChecksumOf(s) \in Nat
         /\ Verifies(s, ChecksumOf(s))
         /\ ChecksumOf(s) = 0 => Verifies(s, 65535)
<1>1. /\ Folded(s) \in Nat
      /\ Folded(s) <= 65535
      /\ Carries(s) \in Nat
      /\ s = 65535 * Carries(s) + Folded(s)
      /\ Folded(s) = 0 => s = 0
  BY FoldedIsResidue, SMT
<1> PICK q \in Nat : q = Carries(s)
  BY <1>1, SMT
<1> PICK f \in Nat : f = Folded(s)
  BY <1>1, SMT
<1>2. s = 65535 * q + f
  BY <1>1, SMT
<1>3. f <= 65535 /\ (f = 0 => s = 0)
  BY <1>1, SMT
<1> PICK c \in Nat : c = 65535 - f
  BY <1>3, SMT
<1>4. c = ChecksumOf(s)
  BY SMT DEF ChecksumOf
<1>5. c + f = 65535 /\ c <= 65535
  BY <1>3, SMT
<1> PICK p \in Nat : p = q + 1
  BY SMT
<1>6. Verifies(s, c)
  <2>1. s + c = 65535 * p
    BY <1>2, <1>5, SMT
  <2>2. s + c > 0
    <3>1. f <= s
      BY <1>2, SMT
    <3> QED
      BY <1>5, <3>1, SMT
  <2>3. Completes(s, c, p)
    BY <2>1, <2>2, SMT DEF Completes
  <2> QED
    BY <1>5, <2>3, MultipleVerifies, SMT
<1>7. ASSUME c = 0 PROVE Verifies(s, 65535)
  <2> PICK r \in Nat : r = p + 1
    BY SMT
  <2>1. f = 65535
    BY <1>5, <1>7, SMT
  <2>2. s + 65535 = 65535 * r
    BY <1>2, <2>1, SMT
  <2>3. Completes(s, 65535, r)
    BY <2>2, SMT DEF Completes
  <2> QED
    BY <2>3, MultipleVerifies, SMT
<1> QED
  BY <1>4, <1>6, <1>7, SMT

-----------------------------------------------------------------------------
(* The frames                                                              *)

Protocol == {"tcp", "udp", "icmp"}
Pad == {0, 6}
BodySum == {n \in Nat : n <= 2147000000}

Frame ==
  [proto : Protocol, src : Word, sport : Word, dst : Word, dport : Word,
   len : Word, body : BodySum, pad : Pad, ipsum : Nat, sum : Nat]

\* The ranges as inequalities, for arithmetic.
LEMMA WordIsShort ==
  ASSUME NEW w \in Word
  PROVE  w \in Nat /\ w <= 65535
BY SMTT(30) DEF Word

LEMMA BodyIsShort ==
  ASSUME NEW b \in BodySum
  PROVE  b \in Nat /\ b <= 2147000000
BY SMT DEF BodySum

LEMMA NumberIsShort ==
  ASSUME NEW p \in Protocol
  PROVE  Number(p) \in Nat /\ Number(p) <= 17
BY SMT DEF Protocol, Number

\* The fields of a frame.
LEMMA FrameFields ==
  ASSUME NEW f \in Frame
  PROVE  /\ f.proto \in Protocol
         /\ f.src \in Word /\ f.sport \in Word
         /\ f.dst \in Word /\ f.dport \in Word
         /\ f.len \in Word /\ f.body \in BodySum /\ f.pad \in Pad
BY DEF Frame

\* Filling in the checksums keeps the other fields.
LEMMA SealFields ==
  ASSUME NEW g \in Frame, NEW src, NEW dst, NEW pad
  PROVE  LET h == Seal(g, src, dst, pad) IN
         /\ h.proto = g.proto
         /\ h.src = g.src /\ h.sport = g.sport
         /\ h.dst = g.dst /\ h.dport = g.dport
         /\ h.len = g.len /\ h.body = g.body /\ h.pad = g.pad
         /\ h.ipsum = ChecksumOf(IpSum(g))
         /\ LET sum == ChecksumOf(Segment(g) + Pseudo(g, src, dst, g.len + pad))
            IN  h.sum = IF g.proto = "udp" /\ sum = 0 THEN 65535 ELSE sum
BY SMT DEF Seal, WithSums, SegmentSum, Frame

(***************************************************************************)
(* What covers a frame's checksums is not too much for two carries.        *)
(***************************************************************************)
LEMMA FrameSumsAreShort ==
  ASSUME NEW f \in Frame
  PROVE  /\ IpSum(f) \in Nat
         /\ IpSum(f) < 4294900000
         /\ Segment(f) + Pseudo(f, f.src, f.dst, f.len) \in Nat
         /\ Segment(f) + Pseudo(f, f.src, f.dst, f.len) < 4294900000
<1> PICK a \in Nat : a = f.src /\ a <= 65535
  BY FrameFields, WordIsShort, SMT
<1> PICK b \in Nat : b = f.dst /\ b <= 65535
  BY FrameFields, WordIsShort, SMT
<1> PICK l \in Nat : l = f.len /\ l <= 65535
  BY FrameFields, WordIsShort, SMT
<1> PICK c \in Nat : c = f.sport /\ c <= 65535
  BY FrameFields, WordIsShort, SMT
<1> PICK d \in Nat : d = f.dport /\ d <= 65535
  BY FrameFields, WordIsShort, SMT
<1> PICK e \in Nat : e = f.body /\ e <= 2147000000
  BY FrameFields, BodyIsShort, SMT
<1> PICK n \in Nat : n = Number(f.proto) /\ n <= 17
  BY FrameFields, NumberIsShort, SMT
<1>1. IpSum(f) = a + b + l + n
  BY SMT DEF IpSum
<1>2. IpSum(f) \in Nat
  BY <1>1, SMT
<1>3. IpSum(f) < 4294900000
  BY <1>1, SMT
<1>4. Segment(f) = c + d + e
  BY SMT DEF Segment
<1> PICK t \in Nat : t = c + d + e
  BY SMT
<1>5. t <= 2147131070
  BY SMT
<1>6. /\ Pseudo(f, f.src, f.dst, f.len) \in Nat
      /\ Pseudo(f, f.src, f.dst, f.len) <= 200000
  <2>1. CASE f.proto \in Ported
    <3>1. Pseudo(f, f.src, f.dst, f.len) = a + b + n + l
      BY <2>1, SMT DEF Pseudo
    <3> QED
      BY <3>1, SMT
  <2>2. CASE f.proto \notin Ported
    <3>1. Pseudo(f, f.src, f.dst, f.len) = 0
      BY <2>2, SMT DEF Pseudo
    <3> QED
      BY <3>1, SMT
  <2> QED
    BY <2>1, <2>2
<1> PICK u \in Nat : u = Pseudo(f, f.src, f.dst, f.len)
  BY <1>6, SMT
<1>7. Segment(f) + Pseudo(f, f.src, f.dst, f.len) = t + u
  BY <1>4, SMT
<1>8. t + u < 4294900000
  BY <1>5, <1>6, SMT
<1> QED
  BY <1>2, <1>3, <1>7, <1>8, SMT

(***************************************************************************)
(* A frame with checksums over its own addresses is accepted.              *)
(***************************************************************************)
LEMMA SealedAccepted ==
  ASSUME NEW g \in Frame, NEW pad, g.len + pad = g.len
  PROVE  Accepted(Seal(g, g.src, g.dst, pad))
<1> DEFINE h == Seal(g, g.src, g.dst, pad)
           s == Segment(g) + Pseudo(g, g.src, g.dst, g.len)
<1>1. /\ h.proto = g.proto
      /\ h.src = g.src /\ h.sport = g.sport
      /\ h.dst = g.dst /\ h.dport = g.dport
      /\ h.len = g.len /\ h.body = g.body
      /\ h.ipsum = ChecksumOf(IpSum(g))
      /\ h.sum = IF g.proto = "udp" /\ ChecksumOf(s) = 0 THEN 65535 ELSE ChecksumOf(s)
  BY SealFields, SMT
<1> HIDE DEF h
<1>2. IpSum(h) = IpSum(g)
  BY <1>1, SMT DEF IpSum
<1>3. Segment(h) = Segment(g)
  BY <1>1, SMT DEF Segment
<1>4. Pseudo(h, h.src, h.dst, h.len) = Pseudo(g, g.src, g.dst, g.len)
  BY <1>1, SMT DEF Pseudo
<1>5. Verifies(IpSum(g), ChecksumOf(IpSum(g)))
  BY FrameSumsAreShort, ChecksumVerifies, SMT
<1>6. /\ Verifies(s, ChecksumOf(s))
      /\ ChecksumOf(s) = 0 => Verifies(s, 65535)
  BY FrameSumsAreShort, ChecksumVerifies, SMT
<1> HIDE DEF s
<1>7. Verifies(s, h.sum)
  BY <1>1, <1>6, SMT
<1>8. Verifies(Segment(h) + Pseudo(h, h.src, h.dst, h.len), h.sum)
  BY <1>3, <1>4, <1>7, SMT DEF s
<1>9. Accepted(h)
  BY <1>1, <1>2, <1>5, <1>8, SMT DEF Accepted
<1> QED
  BY <1>9, SMT DEF h

\* Frames stay frames when checksums are filled in.
LEMMA WithSumsIsFrame ==
  ASSUME NEW g \in Frame, NEW x \in Nat, NEW y \in Nat
  PROVE  WithSums(g, x, y) \in Frame
BY DEF Frame, WithSums

LEMMA SealIsFrame ==
  ASSUME NEW g \in Frame, NEW pad, g.len + pad = g.len
  PROVE  Seal(g, g.src, g.dst, pad) \in Frame
<1> DEFINE x == ChecksumOf(IpSum(g))
           z == ChecksumOf(Segment(g) + Pseudo(g, g.src, g.dst, g.len))
           y == SegmentSum(g, g.src, g.dst, pad)
<1>1. x \in Nat
  BY FrameSumsAreShort, ChecksumVerifies, SMT
<1>2. z \in Nat
  BY FrameSumsAreShort, ChecksumVerifies, SMT
<1>3. y \in Nat
  BY <1>2, SMT DEF SegmentSum
<1>4. WithSums(g, x, y) \in Frame
  BY <1>1, <1>3, WithSumsIsFrame, SMT
<1> QED
  BY <1>4, SMT DEF Seal

\* Frames with the same fields are the same.
LEMMA FramesEqual ==
  ASSUME NEW f \in Frame, NEW g \in Frame,
         f.proto = g.proto, f.src = g.src, f.sport = g.sport, f.dst = g.dst,
         f.dport = g.dport, f.len = g.len, f.body = g.body, f.pad = g.pad,
         f.ipsum = g.ipsum, f.sum = g.sum
  PROVE  f = g
BY SMT DEF Frame

(***************************************************************************)
(* Frames that differ in their checksums alone get the same checksums.     *)
(***************************************************************************)
LEMMA SealedAlike ==
  ASSUME NEW f \in Frame, NEW g \in Frame, NEW pad, g.len + pad = g.len,
         f.proto = g.proto, f.src = g.src, f.sport = g.sport, f.dst = g.dst,
         f.dport = g.dport, f.len = g.len, f.body = g.body, f.pad = g.pad
  PROVE  Seal(f, f.src, f.dst, pad) = Seal(g, g.src, g.dst, pad)
<1> DEFINE h == Seal(f, f.src, f.dst, pad)
           k == Seal(g, g.src, g.dst, pad)
<1>1. IpSum(f) = IpSum(g)
  BY SMT DEF IpSum
<1>2. Segment(f) = Segment(g)
  BY SMT DEF Segment
<1>3. Pseudo(f, f.src, f.dst, f.len + pad) = Pseudo(g, g.src, g.dst, g.len + pad)
  BY SMT DEF Pseudo
<1>4. /\ h.proto = k.proto
      /\ h.src = k.src /\ h.sport = k.sport
      /\ h.dst = k.dst /\ h.dport = k.dport
      /\ h.len = k.len /\ h.body = k.body /\ h.pad = k.pad
      /\ h.ipsum = k.ipsum
  BY <1>1, SealFields, SMT
<1>5. h.sum = k.sum
  BY <1>2, <1>3, SealFields, SMT
<1>6. h \in Frame /\ k \in Frame
  BY SealIsFrame, SMT
<1> HIDE DEF h, k
<1>7. h = k
  BY <1>4, <1>5, <1>6, FramesEqual, SMT
<1> QED
  BY <1>7, SMT DEF h, k

-----------------------------------------------------------------------------
(* What is sent and what is rewritten                                      *)

\* A frame as it is before its checksums are filled in.
Blank(proto, src, sport, dst, dport, len, body, pad) ==
  [proto |-> proto, src |-> src, sport |-> sport, dst |-> dst, dport |-> dport,
   len |-> len, body |-> body, pad |-> pad, ipsum |-> 0, sum |-> 0]

\* f is a frame with these fields.
HasFields(f, proto, src, sport, dst, dport, len, body, pad) ==
  /\ f \in Frame
  /\ f.proto = proto
  /\ f.src = src /\ f.sport = sport
  /\ f.dst = dst /\ f.dport = dport
  /\ f.len = len /\ f.body = body /\ f.pad = pad

\* What an end sends is a frame with the fields it was made of.
LEMMA SentIsFrame ==
  ASSUME NEW proto \in Protocol, NEW src \in Word, NEW sport \in Word,
         NEW dst \in Word, NEW dport \in Word, NEW len \in Word,
         NEW body \in BodySum, NEW pad \in Pad
  PROVE  /\ HasFields(Sent(proto, src, sport, dst, dport, len, body, pad),
                      proto, src, sport, dst, dport, len, body, pad)
         /\ HasFields(Blank(proto, src, sport, dst, dport, len, body, pad),
                      proto, src, sport, dst, dport, len, body, pad)
<1> DEFINE b == Blank(proto, src, sport, dst, dport, len, body, pad)
           f == Sent(proto, src, sport, dst, dport, len, body, pad)
<1>1. b \in Frame
  BY DEF Frame, Blank
<1>2. /\ b.proto = proto /\ b.src = src /\ b.sport = sport
      /\ b.dst = dst /\ b.dport = dport
      /\ b.len = len /\ b.body = body /\ b.pad = pad
  BY DEF Blank
<1>3. f = Seal(b, src, dst, 0)
  BY DEF Sent, Blank
<1> HIDE DEF b, f
<1>4. f = Seal(b, b.src, b.dst, 0)
  BY <1>2, <1>3
<1>5. b.len + 0 = b.len
  BY <1>1, FrameFields, WordIsShort, SMT
<1>6. f \in Frame
  BY <1>1, <1>4, <1>5, SealIsFrame
<1>7. /\ f.proto = b.proto
      /\ f.src = b.src /\ f.sport = b.sport
      /\ f.dst = b.dst /\ f.dport = b.dport
      /\ f.len = b.len /\ f.body = b.body /\ f.pad = b.pad
  BY <1>1, <1>4, SealFields, SMT
<1>8. /\ HasFields(f, proto, src, sport, dst, dport, len, body, pad)
      /\ HasFields(b, proto, src, sport, dst, dport, len, body, pad)
  BY <1>1, <1>2, <1>6, <1>7 DEF HasFields
<1> QED
  BY <1>8 DEF b, f

\* Rewriting changes the addresses and ports it is to change.
LEMMA Readdressed ==
  ASSUME NEW f, NEW proto, NEW src, NEW sport, NEW dst, NEW dport,
         NEW len, NEW body, NEW pad, NEW w \in Word, NEW p \in Word,
         HasFields(f, proto, src, sport, dst, dport, len, body, pad)
  PROVE  /\ HasFields(From(f, w, p), proto, w, p, dst, dport, len, body, pad)
         /\ HasFields(To(f, w, p), proto, src, sport, w, p, len, body, pad)
<1>1. HasFields(From(f, w, p), proto, w, p, dst, dport, len, body, pad)
  BY DEF HasFields, Frame, From
<1>2. HasFields(To(f, w, p), proto, src, sport, w, p, len, body, pad)
  BY DEF HasFields, Frame, To
<1> QED
  BY <1>1, <1>2

\* ... and filling in the checksums changes nothing else.
LEMMA SealedHasFields ==
  ASSUME NEW g, NEW proto, NEW src, NEW sport, NEW dst, NEW dport,
         NEW len, NEW body, NEW pad,
         HasFields(g, proto, src, sport, dst, dport, len, body, pad)
  PROVE  /\ HasFields(Seal(g, src, dst, 0),
                      proto, src, sport, dst, dport, len, body, pad)
         /\ Accepted(Seal(g, src, dst, 0))
<1>1. /\ g \in Frame /\ g.src = src /\ g.dst = dst
      /\ g.len + 0 = g.len
  BY FrameFields, WordIsShort, SMT DEF HasFields
<1>2. /\ Seal(g, g.src, g.dst, 0) \in Frame
      /\ Accepted(Seal(g, g.src, g.dst, 0))
  BY <1>1, SealIsFrame, SealedAccepted
<1> DEFINE h == Seal(g, src, dst, 0)
<1>3. h \in Frame /\ Accepted(h)
  BY <1>1, <1>2
<1>4. /\ h.proto = g.proto
      /\ h.src = g.src /\ h.sport = g.sport
      /\ h.dst = g.dst /\ h.dport = g.dport
      /\ h.len = g.len /\ h.body = g.body /\ h.pad = g.pad
  BY <1>1, SealFields, SMT
<1> HIDE DEF h
<1>5. HasFields(h, proto, src, sport, dst, dport, len, body, pad)
  BY <1>3, <1>4 DEF HasFields
<1> QED
  BY <1>3, <1>5 DEF h

\* Only the fields decide the checksums.
LEMMA SealedEqual ==
  ASSUME NEW f, NEW g, NEW proto, NEW src, NEW sport, NEW dst, NEW dport,
         NEW len, NEW body, NEW pad,
         HasFields(f, proto, src, sport, dst, dport, len, body, pad),
         HasFields(g, proto, src, sport, dst, dport, len, body, pad)
  PROVE  Seal(f, src, dst, 0) = Seal(g, src, dst, 0)
<1>1. g.len + 0 = g.len
  BY FrameFields, WordIsShort, SMT DEF HasFields
<1>2. Seal(f, f.src, f.dst, 0) = Seal(g, g.src, g.dst, 0)
  BY <1>1, SealedAlike DEF HasFields
<1> QED
  BY <1>2 DEF HasFields

\* The words that the NAT puts in a frame.
LEMMA TrackedTypes ==
  ASSUME NatTypeOK, NEW k \in Tracked
  PROVE  /\ k.proto \in Protocol
         /\ k.port \in Word
         /\ AddressWord[k.src] \in Word /\ AddressWord[k.peer] \in Word
         /\ k.proto \in Ported => connections[k].natPort \in Word
<1>1. CASE k \in Key /\ Open(k)
  <2>1. /\ k.proto \in Protocol
        /\ k.src \in Host /\ k.peer \in Peer
        /\ k.port \in HostPort \cup Ident
    BY <1>1 DEF Key, Protocol
  <2>2. connections[k] \in Entry
    BY <1>1 DEF NatTypeOK, Open, Keys
  <2>3. connections[k].natPort \in Pool \cup Ident
    BY <2>2 DEF Entry, Port
  <2> QED
    BY <2>1, <2>3, RewriteAssumption
<1>2. CASE k \in Echoes
  <2>1. /\ k.proto \in Protocol /\ k.proto \notin Ported
        /\ k.src \in Host /\ k.peer \in Peer
        /\ k.port \in HostPort
    BY <1>2 DEF Echoes, Protocol, Ported
  <2> QED
    BY <2>1, RewriteAssumption
<1> QED
  BY <1>1, <1>2 DEF Tracked

(***************************************************************************)
(* The way of a frame through the NAT and of its answer back: what comes   *)
(* out on either side is accepted, and the answer is what it would have    *)
(* been without the NAT.                                                   *)
(***************************************************************************)
LEMMA RoundTrip ==
  ASSUME NatTypeOK, NEW k \in Tracked, NEW len \in Lengths, NEW body \in Bodies,
         NEW pad \in {0, 6}, k.proto = "tcp" => pad = 0
  PROVE  LET f == Asked(k, len, body, pad)
             out == RewriteOutbound(f, k)
             back == RewriteInbound(Answered(out, len, body, pad), k)
         IN  Accepted(out) /\ Accepted(back) /\ back = Answered(f, len, body, pad)
<1> DEFINE a == AddressWord[k.src]
           c == AddressWord[k.peer]
           q == IF k.proto \in Ported THEN PeerPort ELSE 0
           p == IF k.proto \in Ported THEN connections[k].natPort ELSE k.port
           f == Asked(k, len, body, pad)
           out == RewriteOutbound(f, k)
           r == Answered(out, len, body, pad)
           back == RewriteInbound(r, k)
           want == Answered(f, len, body, pad)
<1>1. /\ k.proto \in Protocol /\ k.port \in Word /\ a \in Word /\ c \in Word
      /\ k.proto \in Ported => connections[k].natPort \in Word
  BY TrackedTypes
<1>2. /\ len \in Word /\ body \in BodySum /\ pad \in Pad
      /\ NatWord \in Word /\ PeerPort \in Word
  BY RewriteAssumption DEF BodySum, Pad
<1>3. q \in Word
  <2>1. 0 \in Word
    BY SMT DEF Word
  <2> QED
    BY <1>2, <2>1
<1>4. p \in Word
  BY <1>1
<1>5. f = Sent(k.proto, a, k.port, c, q, len, body, pad)
  BY DEF Asked
<1> HIDE DEF a, c, q, p, f
<1>6. HasFields(f, k.proto, a, k.port, c, q, len, body, pad)
  BY <1>1, <1>2, <1>3, <1>5, SentIsFrame
<1>7. Counted(f) = 0
  BY <1>6 DEF Counted, HasFields
<1>8. out = Seal(From(f, NatWord, p), NatWord, c, 0)
  BY <1>6, <1>7 DEF RewriteOutbound, HasFields, p, c
<1>9. HasFields(From(f, NatWord, p), k.proto, NatWord, p, c, q, len, body, pad)
  BY <1>2, <1>4, <1>6, Readdressed
<1> HIDE DEF out
<1>10. /\ HasFields(out, k.proto, NatWord, p, c, q, len, body, pad)
       /\ Accepted(out)
  BY <1>8, <1>9, SealedHasFields
<1>11. r = Sent(k.proto, c, IF k.proto \in Ported THEN q ELSE p, NatWord,
                IF k.proto \in Ported THEN p ELSE q, len, body, pad)
  BY <1>10 DEF Answered, HasFields
<1> HIDE DEF r
<1>12. HasFields(r, k.proto, c, IF k.proto \in Ported THEN q ELSE p, NatWord,
                 IF k.proto \in Ported THEN p ELSE q, len, body, pad)
  <2>1. CASE k.proto \in Ported
    BY <1>1, <1>2, <1>3, <1>4, <1>11, <2>1, SentIsFrame
  <2>2. CASE k.proto \notin Ported
    BY <1>1, <1>2, <1>3, <1>4, <1>11, <2>2, SentIsFrame
  <2> QED
    BY <2>1, <2>2
<1>13. Counted(r) = 0
  BY <1>12 DEF Counted, HasFields
<1> DEFINE s == IF k.proto \in Ported THEN q ELSE k.port
           d == IF k.proto \in Ported THEN k.port ELSE q
           h == To(r, a, d)
<1>14. s \in Word /\ d \in Word
  BY <1>1, <1>3
<1>15. back = Seal(h, c, a, 0)
  <2>1. (IF r.proto \in Ported THEN k.port ELSE r.dport) = d
    BY <1>12 DEF HasFields
  <2> HIDE DEF d
  <2> QED
    BY <1>13, <2>1 DEF RewriteInbound, a, c
<1>16. (IF k.proto \in Ported THEN q ELSE p) = s
  BY DEF p
<1>17. want = Sent(k.proto, c, s, a, d, len, body, pad)
  BY <1>6 DEF Answered, HasFields
<1> HIDE DEF s, d, want, back
<1>18. HasFields(h, k.proto, c, s, a, d, len, body, pad)
  BY <1>1, <1>12, <1>14, <1>16, Readdressed
<1> HIDE DEF h
<1>19. Accepted(back)
  BY <1>15, <1>18, SealedHasFields
<1>20. back = want
  <2> DEFINE b == Blank(k.proto, c, s, a, d, len, body, pad)
  <2>1. want = Seal(b, c, a, 0)
    BY <1>17 DEF Sent, Blank
  <2>2. HasFields(b, k.proto, c, s, a, d, len, body, pad)
    BY <1>1, <1>2, <1>14, SentIsFrame
  <2> HIDE DEF b
  <2> QED
    BY <1>15, <1>18, <2>1, <2>2, SealedEqual
<1> QED
  BY <1>10, <1>19, <1>20 DEF f, out, r, back, want

-----------------------------------------------------------------------------
(***************************************************************************)
(* What leaves the NAT is accepted by its receiver, whatever the           *)
(* addresses, ports and payload: _rewrite_outbound and _rewrite_inbound    *)
(* fill in every checksum for the addresses that the frame ends up with.   *)
(***************************************************************************)
THEOREM FramesAccepted == NatSpec => []RewrittenAccepted
<1>1. NatTypeOK => RewrittenAccepted
  BY RoundTrip DEF RewrittenAccepted
<1> QED
  BY <1>1, NatTypes, PTL

(***************************************************************************)
(* A host cannot tell the answer it gets from one without the NAT.         *)
(***************************************************************************)
THEOREM NatTransparent == NatSpec => []Transparent
<1>1. NatTypeOK => Transparent
  BY RoundTrip DEF Transparent
<1> QED
  BY <1>1, NatTypes, PTL
=============================================================================
