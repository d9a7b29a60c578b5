-------------------------- MODULE PacketPath_proofs --------------------------
(***************************************************************************)
(* Theorems about the firewall's rules and the way of a frame, for every   *)
(* network, every file of rules and any number of frames under way.        *)
(***************************************************************************)
EXTENDS PacketPath, FiniteSetTheorems, TLAPS

-----------------------------------------------------------------------------
(* What is assumed of a network                                            *)

LEMMA NamesDiffer ==
  /\ Inside \subseteq Host
  /\ NatIp \notin Host /\ ControllerIp \notin Host /\ Nowhere \notin Host
  /\ Gateway \notin Host /\ None \notin Host /\ Star \notin Host
  /\ NatIp # ControllerIp /\ NatIp # Nowhere /\ ControllerIp # Nowhere
<1>1. Inside \subseteq Host /\ {NatIp, ControllerIp, Nowhere, Gateway, None, Star} \cap Host = {}
  BY PathAssumption
<1>2. Cardinality({NatIp, ControllerIp, Nowhere}) = 3
  BY PathAssumption
<1>3. \A u, v : Cardinality({u, v}) \in Nat /\ Cardinality({u, v}) <= 2
  <2> SUFFICES ASSUME NEW u, NEW v PROVE Cardinality({u, v}) \in Nat /\ Cardinality({u, v}) <= 2
    OBVIOUS
  <2>1. IsFiniteSet({u}) /\ Cardinality({u}) = 1
    BY FS_Singleton
  <2>2. /\ IsFiniteSet({u} \cup {v})
        /\ Cardinality({u} \cup {v}) = IF v \in {u} THEN Cardinality({u}) ELSE Cardinality({u}) + 1
    BY <2>1, FS_AddElement
  <2>3. {u} \cup {v} = {u, v}
    OBVIOUS
  <2> QED
    BY <2>1, <2>2, <2>3
<1>4. NatIp # ControllerIp /\ NatIp # Nowhere /\ ControllerIp # Nowhere
  <2>1. \A u, v : Cardinality({u, v}) # 3
    BY <1>3
  <2>2. CASE NatIp = ControllerIp
    <3>1. {NatIp, ControllerIp, Nowhere} = {NatIp, Nowhere}
      BY <2>2
    <3> QED
      BY <1>2, <2>1, <3>1
  <2>3. CASE NatIp = Nowhere \/ ControllerIp = Nowhere
    <3>1. {NatIp, ControllerIp, Nowhere} = {NatIp, ControllerIp}
      BY <2>3
    <3> QED
      BY <1>2, <2>1, <3>1
  <2> QED
    BY <2>2, <2>3
<1> QED
  BY <1>1, <1>4

LEMMA WireEnds ==
  \A s \in Switch, p \in PortNo : Lead[s][p] \notin Host \cup {None} =>
    \E t \in Switch, q \in PortNo :
      Lead[s][p] = <<t, q>> /\ Lead[t][q] # None /\ Lead[t][q] \notin Host
<1>1. \A h \in Host \cup {None} : h \notin Switch \X PortNo
  BY WiringAssumption
<1>2. \A s \in Switch, p \in PortNo : Lead[s][p] \notin Host \cup {None} => WireAt(s, p)
  BY WiringAssumption
<1>3. \A s \in Switch, p \in PortNo : <<s, p>> # None /\ <<s, p>> \notin Host
  BY <1>1
<1> SUFFICES ASSUME NEW s \in Switch, NEW p \in PortNo, Lead[s][p] \notin Host \cup {None}
             PROVE  \E t \in Switch, q \in PortNo :
                      Lead[s][p] = <<t, q>> /\ Lead[t][q] # None /\ Lead[t][q] \notin Host
  OBVIOUS
<1>4. PICK t \in Switch, q \in PortNo : Lead[s][p] = <<t, q>> /\ Lead[t][q] = <<s, p>>
  BY <1>2 DEF WireAt
<1>5. Lead[t][q] # None /\ Lead[t][q] \notin Host
  BY <1>3, <1>4
<1> QED
  BY <1>4, <1>5

LEMMA HostPlaces ==
  \A h \in Host : /\ Place[h].dpid \in Switch /\ Place[h].port \in PortNo
                  /\ Lead[Place[h].dpid][Place[h].port] = h
BY WiringAssumption

LEMMA OpeningsTyped == Openings \subseteq Headers /\ \A o \in Openings : o.src \in Host
BY PathAssumption

LEMMA PortsApart ==
  /\ Pool \subseteq Nat /\ 53 \notin Pool
  /\ Controller \notin PortNo /\ \A s, t \in Switch : Toward[s][t] # Controller
<1>1. Pool \subseteq Nat /\ 53 \notin Pool
  BY PathAssumption
<1>2. Controller \notin PortNo \cup {Toward[s][t] : s, t \in Switch}
  BY WiringAssumption
<1> QED
  BY <1>1, <1>2

-----------------------------------------------------------------------------
(* The entry of a rule                                                     *)

(***************************************************************************)
(* Whatever a rule gives, its entry matches all the frames that it is      *)
(* meant to deny.                                                          *)
(***************************************************************************)
LEMMA DenyEntryMatches ==
  ASSUME NEW r, NEW f, Denies(r, f)
  PROVE  Matches(DenyEntry(r), f)
<1>1. DenyEntry(r).match["mac"] = Star
  BY DEF DenyEntry, Entry, Wild, Fields
<1>2. DenyEntry(r).match["type"] \in {Star, f["type"]}
  BY DEF DenyEntry, Entry, Wild, Fields, Denies
<1>3. /\ DenyEntry(r).match["src"] \in {Star, f["src"]}
      /\ DenyEntry(r).match["dst"] \in {Star, f["dst"]}
      /\ DenyEntry(r).match["sport"] \in {Star, f["sport"]}
      /\ DenyEntry(r).match["dport"] \in {Star, f["dport"]}
  BY DEF DenyEntry, Entry, Wild, Fields, Denies, PortField
<1>4. DenyEntry(r).match["proto"] \in {Star, f["proto"]}
  BY DEF DenyEntry, Entry, Wild, Fields, Denies, ProtoNumber
<1> QED
  BY <1>1, <1>2, <1>3, <1>4 DEF Matches, Looked

(***************************************************************************)
(* The entry of a rule that a switch can carry out matches no other frame. *)
(***************************************************************************)
LEMMA DenyEntryExact ==
  ASSUME NEW r, NEW f, WellFormed(r), Matches(DenyEntry(r), f)
  PROVE  Denies(r, f)
<1> DEFINE m == DenyEntry(r).match
<1>1. ProtoNumber(r.proto) = r.proto
  BY DEF WellFormed, ProtoNumber
<1>2. m["type"] = "ip"
  BY <1>1 DEF DenyEntry, Entry, Wild, Fields, WellFormed
<1>3. /\ m["src"] = r["src"] /\ m["dst"] = r["dst"] /\ m["proto"] = r["proto"]
      /\ m["sport"] = r["sport"] /\ m["dport"] = r["dport"]
  BY <1>1 DEF DenyEntry, Entry, Wild, Fields, PortField, WellFormed
<1> HIDE DEF m
<1>4. \A x \in Looked(m) : m[x] \in {Star, f[x]}
  BY DEF Matches, m
<1>5. f["type"] = "ip"
  BY <1>2, <1>4, FirewallAssumption DEF Looked
<1>6. /\ m["src"] \in {Star, f["src"]} /\ m["dst"] \in {Star, f["dst"]}
      /\ m["proto"] \in {Star, f["proto"]}
  BY <1>2, <1>4 DEF Looked
<1>7. m["sport"] \in {Star, f["sport"]} /\ m["dport"] \in {Star, f["dport"]}
  <2>1. CASE m["proto"] \in {"tcp", "udp"}
    BY <1>2, <1>4, <2>1 DEF Looked
  <2>2. CASE m["proto"] \notin {"tcp", "udp"}
    <3>1. r["sport"] = Star /\ r["dport"] = Star
      BY <1>3, <2>2 DEF WellFormed
    <3> QED
      BY <1>3, <3>1
  <2> QED
    BY <2>1, <2>2
<1> QED
  BY <1>3, <1>5, <1>6, <1>7 DEF Denies

(***************************************************************************)
(* RulesExact: a rule that a switch can carry out stops exactly the frames *)
(* that it is meant to stop (_install_firewall_rules).                     *)
(***************************************************************************)
THEOREM RulesAreExact == PathSpec => []RulesExact
<1>1. RulesExact
  BY DenyEntryMatches, DenyEntryExact DEF RulesExact
<1> QED
  BY <1>1, PTL

-----------------------------------------------------------------------------
(* What the tables hold                                                    *)

(***************************************************************************)
(* The strengthening of DeniedNotForwarded: nothing has a higher priority  *)
(* than the drop entries, whatever has theirs drops, and a switch that is  *)
(* armed has them all.                                                     *)
(***************************************************************************)
Ranked(entries) ==
  \A e \in entries :
    e.priority \in Nat /\ e.priority <= 60000 /\ (e.priority = 60000 => e.to = {})

TablesRight ==
  /\ table = [s \in Switch |-> table[s]]
  /\ \A s \in Switch : Ranked(table[s])
  /\ \A s \in Switch : phase[s] = "armed" => DenyEntries \subseteq table[s]

LEMMA AddedRanked ==
  ASSUME NEW entries, NEW new, Ranked(entries), Ranked(new)
  PROVE  Ranked(Added(entries, new))
BY DEF Ranked, Added

LEMMA DenyEntriesRanked == Ranked(DenyEntries)
BY DEF Ranked, DenyEntries, DenyEntry, Entry

LEMMA HostEntriesRanked ==
  ASSUME NEW s, NEW hs
  PROVE  /\ Ranked(HostEntries(s, hs))
         /\ \A e \in HostEntries(s, hs) : e.priority = 10
<1>1. \A e \in HostEntries(s, hs) : e.priority = 10
  BY DEF HostEntries, HostPair, Entry
<1> QED
  BY <1>1 DEF Ranked

LEMMA CapturesRanked == Ranked({TableMiss, DnsCapture, NatCapture})
BY DEF Ranked, TableMiss, DnsCapture, NatCapture, Entry

\* Entries for hosts take the place of no drop entry.
LEMMA DenyEntriesKept ==
  ASSUME NEW entries, NEW s, NEW hs, DenyEntries \subseteq entries
  PROVE  DenyEntries \subseteq Added(entries, HostEntries(s, hs))
<1>1. \A d \in DenyEntries : d.priority = 60000
  BY DEF DenyEntries, DenyEntry, Entry
<1> QED
  BY <1>1, HostEntriesRanked DEF Added, SameEntry
-----------------------------------------------------------------------------
(* Types                                                                   *)

FlightTyped ==
  /\ flight \subseteq [at : Switch, port : PortNo, frame : Frames, as : Headers]
  /\ \A x \in flight : x.port \in PortsOf(x.at)
InboxTyped == inbox \in [Host -> Arrivals \cup {None}]
BoundTyped == bound \subseteq [flow : Headers, port : Pool, mac : Macs]

PathTyped ==
  /\ phase \in [Switch -> {"off", "delayed", "armed"}]
  /\ hosts \subseteq Host
  /\ BoundTyped /\ FlightTyped /\ InboxTyped

LEMMA HeaderTyped ==
  ASSUME NEW f \in Frames
  PROVE  Header(f) \in Headers
BY DEF Frames, Header, Headers

LEMMA MirrorTyped ==
  ASSUME NEW k \in Headers
  PROVE  Mirror(k) \in Headers
BY DEF Mirror, Headers

LEMMA FrameTyped ==
  ASSUME NEW k \in Headers, NEW mac \in Macs, NEW smac \in Macs
  PROVE  Frame(k, mac, smac) \in Frames
BY DEF Frame, Frames, Headers

(***************************************************************************)
(* A frame that leaves a switch arrives at hosts, or at ports with wires.  *)
(***************************************************************************)
LEMMA LeaveTyped ==
  ASSUME PathTyped, NEW x \in flight, NEW f \in Frames, NEW as \in Headers,
         NEW ps, ps \subseteq PortsOf(x.at), Leave(x, f, as, ps)
  PROVE  FlightTyped' /\ InboxTyped'
<1> DEFINE ends == {Lead[x.at][p] : p \in ps}
<1>1. x.at \in Switch /\ x.frame \in Frames
  BY DEF PathTyped, FlightTyped
<1>2. InboxTyped'
  <2>1. Arrival(f, x.frame, as, phase[x.at] = "armed") \in Arrivals
    BY <1>1 DEF Arrival, Arrivals
  <2> QED
    BY <2>1 DEF Leave, InboxTyped
<1>3. ASSUME NEW e \in ends \ Host
      PROVE  /\ OnTheWay(e[1], e[2], f, as)
                  \in [at : Switch, port : PortNo, frame : Frames, as : Headers]
             /\ OnTheWay(e[1], e[2], f, as).port \in PortsOf(OnTheWay(e[1], e[2], f, as).at)
  <2>1. PICK p \in ps : e = Lead[x.at][p]
    OBVIOUS
  <2>2. p \in PortNo /\ e # None
    BY <2>1 DEF PortsOf
  <2>3. PICK t \in Switch, q \in PortNo : e = <<t, q>> /\ Lead[t][q] # None
    BY <1>1, <2>1, <2>2, WireEnds
  <2>4. e[1] = t /\ e[2] = q
    BY <2>3
  <2> QED
    BY <2>3, <2>4 DEF OnTheWay, PortsOf
<1>4. flight' = (flight \ {x}) \cup {OnTheWay(e[1], e[2], f, as) : e \in ends \ Host}
  BY DEF Leave
<1> HIDE DEF ends
<1>5. ASSUME NEW y \in flight'
      PROVE  /\ y \in [at : Switch, port : PortNo, frame : Frames, as : Headers]
             /\ y.port \in PortsOf(y.at)
  <2>1. CASE y \in flight
    BY <2>1 DEF FlightTyped, PathTyped
  <2>2. CASE \E e \in ends \ Host : y = OnTheWay(e[1], e[2], f, as)
    BY <2>2, <1>3
  <2> QED
    BY <1>4, <2>1, <2>2
<1>6. FlightTyped'
  BY <1>5 DEF FlightTyped, PortsOf
<1> QED
  BY <1>2, <1>6

LEMMA DropTyped ==
  ASSUME PathTyped, NEW x, Drop(x)
  PROVE  FlightTyped' /\ InboxTyped'
BY DEF Drop, PathTyped, FlightTyped, InboxTyped, PortsOf

\* Frames that leave have the types that Leave needs.
LEMMA HandleTyped ==
  ASSUME PathTyped, NEW x \in flight, Handle(x)
  PROVE  PathTyped'
<1>1. /\ x.at \in Switch /\ x.port \in PortsOf(x.at)
      /\ x.frame \in Frames /\ x.as \in Headers
  BY DEF PathTyped, FlightTyped
<1>2. ASSUME NEW p PROVE Spread(x.at, p) \subseteq PortsOf(x.at)
  BY DEF Spread
<1>3. UNCHANGED <<phase, table, hosts>>
  BY DEF Handle
<1>4. ASSUME Drop(x), UNCHANGED bound PROVE PathTyped'
  BY <1>3, <1>4, DropTyped DEF PathTyped, BoundTyped
<1>5. ASSUME NEW e, Switched(x, e) PROVE PathTyped'
  <2>1. FlightTyped' /\ InboxTyped'
    BY <1>1, <1>5, LeaveTyped DEF Switched
  <2> QED
    BY <1>3, <1>5, <2>1 DEF PathTyped, BoundTyped, Switched
<1>6. CASE Answered(x)
  <2>1. Frame(Mirror(Header(x.frame)), x.frame.smac, Gateway) \in Frames
    <3>1. x.frame.smac \in Macs /\ Gateway \in Macs
      BY <1>1 DEF Frames, Macs
    <3> QED
      BY <1>1, <3>1, HeaderTyped, MirrorTyped, FrameTyped
  <2>2. Mirror(x.as) \in Headers /\ {x.port} \subseteq PortsOf(x.at)
    BY <1>1, MirrorTyped
  <2>3. FlightTyped' /\ InboxTyped'
    BY <1>6, <2>1, <2>2, LeaveTyped DEF Answered
  <2> QED
    BY <1>3, <1>6, <2>3 DEF PathTyped, BoundTyped, Answered
<1>7. CASE Inbound(x)
  <2>1. ASSUME NEW b \in bound
        PROVE  [x.frame EXCEPT !.mac = b.mac, !.dst = b.flow.src, !.dport = b.flow.sport]
                 \in Frames
    <3>1. b.mac \in Macs /\ b.flow.src \in Addresses /\ b.flow.sport \in Nat
      BY DEF PathTyped, BoundTyped, Headers
    <3> QED
      BY <1>1, <3>1 DEF Frames
  <2>2. FlightTyped' /\ InboxTyped'
    <3>1. CASE Drop(x)
      BY <3>1, DropTyped
    <3>2. CASE \E b \in bound :
                 Leave(x, [x.frame EXCEPT !.mac = b.mac, !.dst = b.flow.src,
                                          !.dport = b.flow.sport],
                       x.as, Spread(x.at, HostPort(b.flow.src)))
      BY <1>1, <1>2, <2>1, <3>2, LeaveTyped
    <3> QED
      BY <1>7, <3>1, <3>2 DEF Inbound
  <2> QED
    BY <1>3, <1>7, <2>2 DEF PathTyped, BoundTyped, Inbound
<1>8. CASE Outbound(x)
  <2>1. PICK b \in Binding(Header(x.frame), x.frame.mac) :
          /\ bound' = bound \cup {b}
          /\ Leave(x, [x.frame EXCEPT
                         !.smac = Gateway,
                         !.mac = IF x.frame.dst \in hosts THEN x.frame.dst ELSE @,
                         !.src = NatIp, !.sport = b.port],
                   x.as, Spread(x.at, HostPort(x.frame.dst)))
    BY <1>8 DEF Outbound
  <2>2. b \in [flow : Headers, port : Pool, mac : Macs]
    <3>1. Header(x.frame) \in Headers /\ x.frame.mac \in Macs
      BY <1>1, HeaderTyped DEF Frames
    <3>2. CASE b \in bound
      BY <3>2 DEF PathTyped, BoundTyped
    <3>3. CASE \E p \in Pool : b = [flow |-> Header(x.frame), port |-> p, mac |-> x.frame.mac]
      BY <3>1, <3>3
    <3> QED
      BY <3>2, <3>3 DEF Binding
  <2>3. [x.frame EXCEPT
           !.smac = Gateway,
           !.mac = IF x.frame.dst \in hosts THEN x.frame.dst ELSE @,
           !.src = NatIp, !.sport = b.port] \in Frames
    <3>1. b.port \in Nat /\ Gateway \in Macs /\ NatIp \in Addresses
      BY <2>2, PortsApart DEF Macs, Addresses
    <3>2. (IF x.frame.dst \in hosts THEN x.frame.dst ELSE x.frame.mac) \in Macs
      BY <1>1 DEF Frames, PathTyped, Macs
    <3> QED
      BY <1>1, <3>1, <3>2 DEF Frames
  <2>4. FlightTyped' /\ InboxTyped'
    BY <1>1, <1>2, <2>1, <2>3, LeaveTyped
  <2> QED
    BY <1>3, <2>1, <2>2, <2>4 DEF PathTyped, BoundTyped
<1>9. CASE Ignored(x)
  BY <1>4, <1>9 DEF Ignored
<1> QED
  BY <1>4, <1>5, <1>6, <1>7, <1>8, <1>9 DEF Handle, PacketIn

LEMMA EmitTyped ==
  ASSUME PathTyped, NEW h \in Host, NEW f \in Frames, NEW as \in Headers, Emit(h, f, as)
  PROVE  PathTyped'
<1>1. /\ Place[h].dpid \in Switch /\ Place[h].port \in PortsOf(Place[h].dpid)
  BY HostPlaces, NamesDiffer DEF PortsOf
<1>2. OnTheWay(Place[h].dpid, Place[h].port, f, as)
        \in [at : Switch, port : PortNo, frame : Frames, as : Headers]
  BY <1>1 DEF OnTheWay, PortsOf
<1>3. /\ OnTheWay(Place[h].dpid, Place[h].port, f, as).at = Place[h].dpid
      /\ OnTheWay(Place[h].dpid, Place[h].port, f, as).port = Place[h].port
  BY DEF OnTheWay
<1> DEFINE y == OnTheWay(Place[h].dpid, Place[h].port, f, as)
<1>4. flight' = flight \cup {y}
  BY DEF Emit
<1> HIDE DEF y
<1>5. FlightTyped'
  BY <1>1, <1>2, <1>3, <1>4 DEF FlightTyped, PathTyped, PortsOf, y
<1> QED
  BY <1>5 DEF PathTyped, BoundTyped, InboxTyped, Emit

LEMMA RegisterTyped ==
  ASSUME PathTyped, NEW hs, hs \subseteq Host, Register(hs)
  PROVE  PathTyped'
BY DEF Register, PathTyped, BoundTyped, FlightTyped, InboxTyped, PortsOf

LEMMA StepTyped == PathTyped /\ [PathNext]_pathVars => PathTyped'
<1> SUFFICES ASSUME PathTyped, [PathNext]_pathVars PROVE PathTyped'
  OBVIOUS
<1>1. ASSUME NEW s \in Switch, Features(s) PROVE PathTyped'
  BY <1>1 DEF Features, PathTyped, BoundTyped, FlightTyped, InboxTyped, PortsOf
<1>2. ASSUME NEW s \in Switch, RulesArrive(s) PROVE PathTyped'
  BY <1>2 DEF RulesArrive, PathTyped, BoundTyped, FlightTyped, InboxTyped, PortsOf
<1>3. ASSUME NEW s \in Switch, Disconnect(s) PROVE PathTyped'
  <2>1. phase' \in [Switch -> {"off", "delayed", "armed"}] /\ hosts' \subseteq Host
    BY <1>3 DEF Disconnect, PathTyped
  <2>2. flight' \subseteq flight
    BY <1>3 DEF Disconnect
  <2> QED
    BY <1>3, <2>1, <2>2
       DEF Disconnect, PathTyped, BoundTyped, FlightTyped, InboxTyped, PortsOf
<1>4. CASE Enter
  BY <1>4, RegisterTyped DEF Enter, PathTyped
<1>5. ASSUME NEW h \in Host, Learn(h) PROVE PathTyped'
  <2>1. hosts \cup {h} \subseteq Host
    BY DEF PathTyped
  <2> QED
    BY <1>5, <2>1, RegisterTyped DEF Learn
<1>6. ASSUME NEW h \in Host, Forget(h) PROVE PathTyped'
  <2>1. hosts \ {h} \subseteq Host
    BY DEF PathTyped
  <2> QED
    BY <1>6, <2>1, RegisterTyped DEF Forget
<1>7. ASSUME NEW h \in Host, Reply(h) PROVE PathTyped'
  <2>1. inbox[h] \in Arrivals
    BY <1>7 DEF Reply, Accepts, PathTyped, InboxTyped
  <2>2. /\ inbox[h].frame \in Frames /\ inbox[h].as \in Headers
        /\ h \in Macs /\ Gateway \in Macs
    BY <2>1 DEF Arrivals, Macs
  <2>3. /\ Frame(Mirror(Header(inbox[h].frame)),
                 IF inbox[h].frame.src \in Host THEN inbox[h].frame.src ELSE Gateway, h)
             \in Frames
        /\ Mirror(inbox[h].as) \in Headers
    <3>1. (IF inbox[h].frame.src \in Host THEN inbox[h].frame.src ELSE Gateway) \in Macs
      BY DEF Macs
    <3> QED
      BY <2>2, <3>1, HeaderTyped, MirrorTyped, FrameTyped
  <2> QED
    BY <1>7, <2>3, EmitTyped DEF Reply
<1>8. ASSUME NEW x \in flight, Handle(x) PROVE PathTyped'
  BY <1>8, HandleTyped
<1>9. ASSUME NEW o \in Openings, Open(o) PROVE PathTyped'
  <2>1. o \in Headers /\ o.src \in Host
    BY OpeningsTyped
  <2>2. PICK mac \in Macs : Emit(o.src, Frame(o, mac, o.src), o)
    BY <1>9 DEF Open, Macs
  <2>3. Frame(o, mac, o.src) \in Frames
    BY <2>1, FrameTyped DEF Macs
  <2> QED
    BY <2>1, <2>2, <2>3, EmitTyped
<1>10. CASE UNCHANGED pathVars
  BY <1>10 DEF pathVars, PathTyped, BoundTyped, FlightTyped, InboxTyped, PortsOf
<1> QED
  BY <1>1, <1>2, <1>3, <1>4, <1>5, <1>6, <1>7, <1>8, <1>9, <1>10 DEF PathNext

LEMMA InitTyped == PathInit => PathTyped
BY DEF PathInit, PathTyped, BoundTyped, FlightTyped, InboxTyped

(***************************************************************************)
(* PathTypeOK: frames are where a wire or a host put them, and bindings    *)
(* have ports of the pool.                                                 *)
(***************************************************************************)
THEOREM PathTypeCorrect == PathSpec => []PathTypeOK
<1>1. PathTyped => PathTypeOK
  BY DEF PathTyped, BoundTyped, FlightTyped, PathTypeOK, Macs
<1> QED
  BY <1>1, InitTyped, StepTyped, PTL DEF PathSpec

-----------------------------------------------------------------------------
(* Denied frames                                                           *)

LEMMA InitRight == PathInit => TablesRight
BY DEF PathInit, TablesRight, Ranked

LEMMA RegisterRight ==
  ASSUME TablesRight, NEW hs, Register(hs)
  PROVE  TablesRight'
<1>1. ASSUME NEW s \in Switch
      PROVE  /\ Ranked(table'[s])
             /\ phase'[s] = "armed" => DenyEntries \subseteq table'[s]
  BY AddedRanked, HostEntriesRanked, DenyEntriesKept DEF Register, TablesRight
<1>2. table' = [s \in Switch |-> table'[s]]
  BY DEF Register
<1> QED
  BY <1>1, <1>2 DEF TablesRight

LEMMA StepRight == PathTyped /\ TablesRight /\ [PathNext]_pathVars => TablesRight'
<1> SUFFICES ASSUME PathTyped, TablesRight, [PathNext]_pathVars PROVE TablesRight'
  OBVIOUS
<1>1. ASSUME NEW s \in Switch, Features(s) PROVE TablesRight'
  <2>1. Ranked(Added(table[s], {TableMiss, DnsCapture, NatCapture}))
    BY AddedRanked, CapturesRanked DEF TablesRight
  <2> QED
    BY <1>1, <2>1 DEF Features, TablesRight, PathTyped
<1>2. ASSUME NEW s \in Switch, RulesArrive(s) PROVE TablesRight'
  <2>1. Ranked(Added(table[s], DenyEntries)) /\ DenyEntries \subseteq Added(table[s], DenyEntries)
    BY AddedRanked, DenyEntriesRanked DEF TablesRight, Added
  <2> QED
    BY <1>2, <2>1 DEF RulesArrive, TablesRight, PathTyped
<1>3. ASSUME NEW s \in Switch, Disconnect(s) PROVE TablesRight'
  <2>1. table' = [t \in Switch |-> table'[t]] /\ phase' = [phase EXCEPT ![s] = "off"]
    BY <1>3 DEF Disconnect
  <2>2. ASSUME NEW t \in Switch
        PROVE  \/ table'[t] = table[t]
               \/ table'[t] = Added(table[t], HostEntries(t, hosts'))
               \/ table'[t] = {} /\ t = s
    BY <1>3 DEF Disconnect
  <2>3. ASSUME NEW t \in Switch
        PROVE  /\ Ranked(table'[t])
               /\ phase'[t] = "armed" => DenyEntries \subseteq table'[t]
    <3>1. Ranked({})
      BY DEF Ranked
    <3>2. phase'[t] = "armed" => t # s /\ phase[t] = "armed"
      BY <2>1 DEF PathTyped
    <3>3. Ranked(table[t]) /\ (phase[t] = "armed" => DenyEntries \subseteq table[t])
      BY DEF TablesRight
    <3>4. Ranked(Added(table[t], HostEntries(t, hosts')))
      BY <3>3, AddedRanked, HostEntriesRanked
    <3>5. phase[t] = "armed" => DenyEntries \subseteq Added(table[t], HostEntries(t, hosts'))
      BY <3>3, DenyEntriesKept
    <3> QED
      BY <2>2, <3>1, <3>2, <3>3, <3>4, <3>5
  <2> QED
    BY <2>1, <2>3 DEF TablesRight
<1>4. CASE Enter
  BY <1>4, RegisterRight DEF Enter
<1>5. ASSUME NEW h \in Host, Learn(h) \/ Forget(h) PROVE TablesRight'
  BY <1>5, RegisterRight DEF Learn, Forget
<1>6. CASE UNCHANGED <<phase, table>>
  BY <1>6 DEF TablesRight
<1> QED
  BY <1>1, <1>2, <1>3, <1>4, <1>5, <1>6 DEF PathNext, pathVars, Reply, Open, Emit, Handle

(***************************************************************************)
(* On an armed switch only drop entries are chosen for a denied frame.     *)
(***************************************************************************)
LEMMA DeniedDropped ==
  ASSUME TablesRight, NEW x, x.at \in Switch, phase[x.at] = "armed",
         NEW i \in Installed, Denies(Rules[i], x.frame),
         NEW e \in Chosen(table[x.at], x.frame)
  PROVE  e.to = {}
<1> DEFINE d == DenyEntry(Rules[i])
<1>1. d \in table[x.at] /\ d.priority = 60000
  BY DEF TablesRight, DenyEntries, DenyEntry, Entry
<1>2. Matches(d, x.frame)
  BY DenyEntryMatches
<1> HIDE DEF d
<1>3. e.priority >= 60000
  BY <1>1, <1>2 DEF Chosen, Hits
<1>4. e \in table[x.at] /\ e.priority \in Nat /\ e.priority <= 60000
  BY DEF Chosen, Hits, TablesRight, Ranked
<1> QED
  BY <1>3, <1>4 DEF TablesRight, Ranked

LEMMA StepDenied ==
  PathTyped /\ TablesRight /\ DeniedNotForwarded /\ [PathNext]_pathVars => DeniedNotForwarded'
<1> SUFFICES ASSUME PathTyped, TablesRight, DeniedNotForwarded, [PathNext]_pathVars
             PROVE  DeniedNotForwarded'
  OBVIOUS
<1>1. CASE UNCHANGED inbox
  BY <1>1 DEF DeniedNotForwarded
<1>2. ASSUME NEW x \in flight, Handle(x) PROVE DeniedNotForwarded'
  <2>1. x.at \in Switch
    BY DEF PathTyped, FlightTyped
  <2>2. ASSUME NEW h \in Host, inbox'[h] # None, inbox'[h].armed, NEW f, NEW as, NEW ps,
               Leave(x, f, as, ps)
        PROVE  inbox'[h].seen = x.frame /\ phase[x.at] = "armed" /\ ps # {}
    <3>1. h \in {Lead[x.at][p] : p \in ps} \cap Host
      BY <2>2 DEF Leave
    <3>2. inbox'[h] = Arrival(f, x.frame, as, phase[x.at] = "armed")
      BY <2>2, <3>1 DEF Leave
    <3>3. inbox'[h].seen = x.frame /\ inbox'[h].armed = (phase[x.at] = "armed")
      BY <3>2 DEF Arrival
    <3> QED
      BY <2>2, <3>1, <3>3
  <2>3. ASSUME NEW h \in Host, inbox'[h] # None, inbox'[h].armed, NEW i \in Installed,
               Denies(Rules[i], inbox'[h].seen), UNCHANGED inbox
        PROVE  FALSE
    BY <2>3 DEF DeniedNotForwarded
  <2>4. ASSUME NEW h \in Host, inbox'[h] # None, inbox'[h].armed, NEW i \in Installed,
               Denies(Rules[i], inbox'[h].seen), NEW e \in Chosen(table[x.at], x.frame),
               Switched(x, e)
        PROVE  FALSE
    <3>1. /\ inbox'[h].seen = x.frame /\ phase[x.at] = "armed"
          /\ (e.to \ {x.port}) \cap PortsOf(x.at) # {}
      BY <2>2, <2>4 DEF Switched
    <3> QED
      BY <2>1, <2>4, <3>1, DeniedDropped
  <2>5. ASSUME NEW h \in Host, inbox'[h] # None, inbox'[h].armed, NEW i \in Installed,
               Denies(Rules[i], inbox'[h].seen), NEW e \in Chosen(table[x.at], x.frame),
               Controller \in e.to, PacketIn(x)
        PROVE  FALSE
    <3>1. CASE Drop(x)
      BY <2>3, <2>5, <3>1 DEF Drop
    <3>2. CASE \E f, as, ps : Leave(x, f, as, ps)
      <4>1. inbox'[h].seen = x.frame /\ phase[x.at] = "armed"
        BY <2>2, <2>5, <3>2
      <4> QED
        BY <2>1, <2>5, <4>1, DeniedDropped
    <3>3. Drop(x) \/ \E f, as, ps : Leave(x, f, as, ps)
      BY <2>5 DEF PacketIn, Answered, Inbound, Outbound, Ignored
    <3> QED
      BY <3>1, <3>2, <3>3
  <2>6. ASSUME NEW h \in Host, inbox'[h] # None, inbox'[h].armed, NEW i \in Installed,
               Denies(Rules[i], inbox'[h].seen)
        PROVE  FALSE
    BY <1>2, <2>3, <2>4, <2>5, <2>6 DEF Handle, Drop
  <2> QED
    BY <2>6 DEF DeniedNotForwarded
<1> QED
  BY <1>1, <1>2
     DEF PathNext, pathVars, Features, RulesArrive, Disconnect, Enter, Learn, Forget, Register,
         Reply, Open, Emit

(***************************************************************************)
(* DeniedNotForwarded: an armed switch passes on nothing that a rule       *)
(* denies, through every reconnection and whatever entries are added.      *)
(***************************************************************************)
THEOREM DeniedStop == PathSpec => []DeniedNotForwarded
<1>1. PathInit => DeniedNotForwarded
  BY DEF PathInit, DeniedNotForwarded
<1> QED
  BY <1>1, InitTyped, InitRight, StepTyped, StepRight, StepDenied, PTL DEF PathSpec

-----------------------------------------------------------------------------
(* Where entries lead                                                      *)

(***************************************************************************)
(* The entries that the controller writes: drops, captures and the table   *)
(* miss, and those for hosts, with MACs of M.                              *)
(***************************************************************************)
Kind(e, M) ==
  \/ e.to = {} /\ e.priority = 60000
  \/ e.to = {Controller} /\ e.priority \in {0, 50000, 55000}
  \/ e.priority = 10 /\ Controller \notin e.to /\ e.match["mac"] \in M

Kinds(entries, M) == \A e \in entries : Kind(e, M)

LEMMA AddedKinds ==
  ASSUME NEW M, NEW entries, NEW new, Kinds(entries, M), Kinds(new, M)
  PROVE  Kinds(Added(entries, new), M)
BY DEF Kinds, Added

LEMMA DirectHosts ==
  ASSUME NEW hs, hs \subseteq Host
  PROVE  /\ Direct(hs) \subseteq Host
         /\ (hs \cap Outside # {} => hs \cap Inside # {}) => Direct(hs) \subseteq Inside
BY DEF Direct, Outside

LEMMA OwnKinds ==
  ASSUME NEW M
  PROVE  /\ Kinds(DenyEntries, M) /\ Kinds({}, M)
         /\ Kinds({TableMiss, DnsCapture, NatCapture}, M)
BY DEF Kinds, Kind, DenyEntries, DenyEntry, TableMiss, DnsCapture, NatCapture, Entry

LEMMA HostKinds ==
  ASSUME NEW M, NEW s \in Switch, NEW hs, hs \subseteq Host, Direct(hs) \subseteq M
  PROVE  Kinds(HostEntries(s, hs), M)
<1> SUFFICES ASSUME NEW e \in HostEntries(s, hs) PROVE Kind(e, M)
  BY DEF Kinds
<1>1. PICK h \in Direct(hs) : e \in HostPair(h, WayTo(s, h))
  BY DEF HostEntries
<1>2. h \in Host /\ h \in M
  BY <1>1, DirectHosts
<1>3. WayTo(s, h) # Controller
  <2>1. Place[h].dpid \in Switch /\ Place[h].port \in PortNo
    BY <1>2, HostPlaces
  <2> QED
    BY <2>1, PortsApart DEF WayTo
<1>4. PICK type \in {"ip", "arp"} :
        e = Entry(10, [Wild EXCEPT !["type"] = type, !["mac"] = h], {WayTo(s, h)})
  BY <1>1 DEF HostPair
<1>5. e.priority = 10 /\ e.to = {WayTo(s, h)} /\ e.match["mac"] = h
  BY <1>4 DEF Entry, Wild, Fields
<1> QED
  BY <1>2, <1>3, <1>5 DEF Kind

(***************************************************************************)
(* What a step writes into the table of a switch.                          *)
(***************************************************************************)
Writes(t) ==
  \/ table'[t] = table[t] /\ phase'[t] \in {phase[t], "off"}
  \/ table'[t] = {} /\ phase'[t] = "off"
  \/ table'[t] = Added(table[t], {TableMiss, DnsCapture, NatCapture})
  \/ table'[t] = Added(table[t], DenyEntries) /\ phase[t] # "off"
  \/ table'[t] = Added(table[t], HostEntries(t, hosts')) /\ phase[t] # "off"

LEMMA RegisterWrites ==
  ASSUME NEW hs, Register(hs), NEW t \in Switch
  PROVE  Writes(t)
<1>1. /\ hosts' = hs /\ phase' = phase
      /\ table'[t] = IF phase[t] # "off" THEN Added(table[t], HostEntries(t, hs)) ELSE table[t]
  BY DEF Register, Known
<1> QED
  BY <1>1 DEF Writes

LEMMA StepWrites ==
  ASSUME PathTyped, table = [s \in Switch |-> table[s]], [PathNext]_pathVars, NEW t \in Switch
  PROVE  Writes(t)
<1>1. ASSUME NEW s \in Switch, Features(s) PROVE Writes(t)
  BY <1>1 DEF Features, Writes, PathTyped
<1>2. ASSUME NEW s \in Switch, RulesArrive(s) PROVE Writes(t)
  BY <1>2 DEF RulesArrive, Writes, PathTyped
<1>3. ASSUME NEW s \in Switch, Disconnect(s) PROVE Writes(t)
  <2>1. phase' = [phase EXCEPT ![s] = "off"] /\ phase \in [Switch -> {"off", "delayed", "armed"}]
    BY <1>3 DEF Disconnect, PathTyped
  <2>2. phase'[t] \in {phase[t], "off"} /\ (t = s => phase'[t] = "off")
    BY <2>1
  <2>3. \/ table'[t] = table[t]
        \/ table'[t] = {} /\ t = s
        \/ table'[t] = Added(table[t], HostEntries(t, hosts')) /\ t \in Known
    BY <1>3 DEF Disconnect
  <2> QED
    BY <2>2, <2>3 DEF Writes, Known
<1>4. CASE Enter
  BY <1>4, RegisterWrites DEF Enter
<1>5. ASSUME NEW h \in Host, Learn(h) \/ Forget(h) PROVE Writes(t)
  BY <1>5, RegisterWrites DEF Learn, Forget
<1>6. CASE UNCHANGED <<phase, table>>
  BY <1>6 DEF Writes
<1> QED
  BY <1>1, <1>2, <1>3, <1>4, <1>5, <1>6 DEF PathNext, pathVars, Reply, Open, Emit, Handle

LEMMA StepKinds ==
  ASSUME NEW M, PathTyped, PathTyped', TablesRight, [PathNext]_pathVars,
         Direct(hosts') \subseteq M, \A s \in Switch : Kinds(table[s], M)
  PROVE  \A s \in Switch : Kinds(table'[s], M)
<1> SUFFICES ASSUME NEW s \in Switch PROVE Kinds(table'[s], M)
  OBVIOUS
<1>1. Writes(s)
  BY StepWrites DEF TablesRight
<1>2. Kinds(table[s], M) /\ Kinds({}, M)
  BY OwnKinds
<1>3. Kinds(HostEntries(s, hosts'), M)
  <2>1. hosts' \subseteq Host
    BY DEF PathTyped
  <2> QED
    BY <2>1, HostKinds
<1>4. /\ Kinds(Added(table[s], {TableMiss, DnsCapture, NatCapture}), M)
      /\ Kinds(Added(table[s], DenyEntries), M)
      /\ Kinds(Added(table[s], HostEntries(s, hosts')), M)
  BY <1>2, <1>3, OwnKinds, AddedKinds
<1> QED
  BY <1>1, <1>2, <1>4 DEF Writes

(***************************************************************************)
(* Whom a frame reaches that leaves a switch.                              *)
(***************************************************************************)
Ends(x, ps) == {Lead[x.at][p] : p \in ps}

LEMMA LeaveReaches ==
  ASSUME NEW x \in flight, NEW f, NEW as, NEW ps, Leave(x, f, as, ps)
  PROVE  \A h \in Host : inbox'[h] # None =>
           inbox'[h].frame = f /\ inbox'[h].as = as /\ h \in Ends(x, ps)
<1> SUFFICES ASSUME NEW h \in Host, inbox'[h] # None
             PROVE  inbox'[h].frame = f /\ inbox'[h].as = as /\ h \in Ends(x, ps)
  OBVIOUS
<1>1. h \in {Lead[x.at][p] : p \in ps} \cap Host
  BY DEF Leave
<1>2. inbox'[h] = Arrival(f, x.frame, as, phase[x.at] = "armed")
  BY <1>1 DEF Leave
<1> QED
  BY <1>1, <1>2 DEF Arrival, Ends

-----------------------------------------------------------------------------
(* Queries                                                                 *)

\* The switches are not linked: every port leads to a host, if anywhere.
Unlinked == \A s \in Switch, p \in PortNo : Lead[s][p] \in Host \cup {None}

\* No exchange is opened from the port of the DNS.
QueryPortUnused == \A o \in Openings : o.proto = "udp" => o.sport # 53

Captured(t) == (phase[t] # "off" \/ table[t] # {}) => DnsCapture \in table[t]

FromQueryPort(k) == k.proto = "udp" /\ k.sport = 53

QueryInv ==
  /\ \A s \in Switch : Kinds(table[s], Host) /\ Captured(s)
  /\ \A x \in flight : ~FromQueryPort(x.frame)
  /\ \A b \in bound : ~FromQueryPort(b.flow)
  /\ QueriesStayLocal

LEMMA CaptureStays ==
  ASSUME NEW t \in Switch, Captured(t), Writes(t), PathTyped, PathTyped'
  PROVE  Captured(t)'
<1>1. DnsCapture \in Added(table[t], {TableMiss, DnsCapture, NatCapture})
  BY DEF Added
<1>2. ASSUME NEW new, \A e \in new : e.priority # 55000, phase[t] # "off"
      PROVE  DnsCapture \in Added(table[t], new)
  BY <1>2 DEF Captured, Added, SameEntry, DnsCapture, Entry
<1>3. \A e \in DenyEntries : e.priority = 60000
  BY DEF DenyEntries, DenyEntry, Entry
<1>4. \A e \in HostEntries(t, hosts') : e.priority = 10
  BY HostEntriesRanked
<1>5. /\ phase[t] # "off" => DnsCapture \in Added(table[t], DenyEntries)
      /\ phase[t] # "off" => DnsCapture \in Added(table[t], HostEntries(t, hosts'))
  BY <1>2, <1>3, <1>4
<1> QED
  BY <1>1, <1>5 DEF Writes, Captured

(***************************************************************************)
(* No entry that leads to a host is chosen for a query.                    *)
(***************************************************************************)
LEMMA QueryNotSwitched ==
  ASSUME QueryInv, PathTyped, NEW x \in flight, IsQuery(x.frame),
         NEW e \in Chosen(table[x.at], x.frame), Controller \notin e.to
  PROVE  e.to = {}
<1>1. x.at \in Switch /\ x.frame.type = "ip"
  BY DEF PathTyped, FlightTyped, Frames
<1>2. e \in table[x.at] /\ \A d \in Hits(table[x.at], x.frame) : d.priority <= e.priority
  BY DEF Chosen, Hits
<1>3. DnsCapture \in table[x.at]
  BY <1>1, <1>2 DEF QueryInv, Captured
<1>4. Matches(DnsCapture, x.frame)
  BY <1>1 DEF Matches, Looked, DnsCapture, Entry, Wild, Fields, IsQuery
<1>5. DnsCapture.priority = 55000
  BY DEF DnsCapture, Entry
<1>6. 55000 <= e.priority
  BY <1>2, <1>3, <1>4, <1>5 DEF Hits
<1>7. Kind(e, Host)
  BY <1>1, <1>2 DEF QueryInv, Kinds
<1> QED
  BY <1>6, <1>7 DEF Kind

LEMMA QueryHandled ==
  ASSUME Unlinked, QueryInv, PathTyped, NEW x \in flight, Handle(x)
  PROVE  /\ \A y \in flight' : y \in flight
         /\ \A b \in bound' : ~FromQueryPort(b.flow) /\ ~IsQuery(b.flow)
         /\ \A h \in Host : inbox'[h] # None => ~IsQuery(inbox'[h].frame)
<1>1. /\ x.at \in Switch /\ x.port \in PortsOf(x.at)
      /\ x.frame \in Frames /\ ~FromQueryPort(x.frame)
      /\ \A b \in bound : ~FromQueryPort(b.flow) /\ ~IsQuery(b.flow)
  BY DEF PathTyped, FlightTyped, QueryInv, QueriesStayLocal
<1>2. ASSUME NEW f, NEW as, NEW ps, ps \subseteq PortsOf(x.at), Leave(x, f, as, ps),
             UNCHANGED bound \/ \A b \in bound' : ~FromQueryPort(b.flow) /\ ~IsQuery(b.flow),
             ps = {} \/ ~IsQuery(f)
      PROVE  /\ \A y \in flight' : y \in flight
             /\ \A b \in bound' : ~FromQueryPort(b.flow) /\ ~IsQuery(b.flow)
             /\ \A h \in Host : inbox'[h] # None => ~IsQuery(inbox'[h].frame)
  <2>1. {Lead[x.at][p] : p \in ps} \ Host = {}
    BY <1>1, <1>2 DEF Unlinked, PortsOf
  <2>2. flight' = (flight \ {x})
                    \cup {OnTheWay(e[1], e[2], f, as) : e \in {Lead[x.at][p] : p \in ps} \ Host}
    BY <1>2 DEF Leave
  <2>3. flight' = flight \ {x}
    BY <2>1, <2>2
  <2>4. ASSUME NEW h \in Host, inbox'[h] # None PROVE ~IsQuery(inbox'[h].frame)
    <3>1. inbox'[h].frame = f /\ h \in Ends(x, ps)
      BY <1>2, <2>4, LeaveReaches
    <3>2. ps # {}
      BY <3>1 DEF Ends
    <3> QED
      BY <1>2, <3>1, <3>2
  <2> QED
    BY <1>1, <1>2, <2>3, <2>4
<1>3. ASSUME Drop(x), UNCHANGED bound
      PROVE  /\ \A y \in flight' : y \in flight
             /\ \A b \in bound' : ~FromQueryPort(b.flow) /\ ~IsQuery(b.flow)
             /\ \A h \in Host : inbox'[h] # None => ~IsQuery(inbox'[h].frame)
  BY <1>1, <1>3 DEF Drop, QueryInv, QueriesStayLocal
<1>4. ASSUME NEW e \in Chosen(table[x.at], x.frame), Switched(x, e)
      PROVE  /\ \A y \in flight' : y \in flight
             /\ \A b \in bound' : ~FromQueryPort(b.flow) /\ ~IsQuery(b.flow)
             /\ \A h \in Host : inbox'[h] # None => ~IsQuery(inbox'[h].frame)
  <2> DEFINE ps == (e.to \ {x.port}) \cap PortsOf(x.at)
  <2>1. Leave(x, x.frame, x.as, ps) /\ UNCHANGED bound /\ ps \subseteq PortsOf(x.at)
    BY <1>4 DEF Switched
  <2>2. ps = {} \/ ~IsQuery(x.frame)
    BY <1>4, QueryNotSwitched DEF Switched
  <2> HIDE DEF ps
  <2> QED
    BY <1>2, <2>1, <2>2
<1>5. CASE Answered(x)
  <2> DEFINE f == Frame(Mirror(Header(x.frame)), x.frame.smac, Gateway)
  <2>1. Leave(x, f, Mirror(x.as), {x.port}) /\ UNCHANGED bound /\ {x.port} \subseteq PortsOf(x.at)
    BY <1>1, <1>5 DEF Answered
  <2>2. ~IsQuery(f)
    BY <1>1 DEF FromQueryPort, IsQuery, Frame, Mirror, Header
  <2> HIDE DEF f
  <2> QED
    BY <1>2, <2>1, <2>2
<1>6. CASE Inbound(x)
  <2>1. CASE Drop(x)
    BY <1>3, <1>6, <2>1 DEF Inbound
  <2>2. CASE \E b \in bound :
               /\ b.flow.proto = x.frame.proto
               /\ Leave(x, [x.frame EXCEPT !.mac = b.mac, !.dst = b.flow.src,
                                           !.dport = b.flow.sport],
                        x.as, Spread(x.at, HostPort(b.flow.src)))
    <3>1. PICK b \in bound :
               /\ b.flow.proto = x.frame.proto
               /\ Leave(x, [x.frame EXCEPT !.mac = b.mac, !.dst = b.flow.src,
                                           !.dport = b.flow.sport],
                        x.as, Spread(x.at, HostPort(b.flow.src)))
      BY <2>2
    <3> DEFINE f == [x.frame EXCEPT !.mac = b.mac, !.dst = b.flow.src, !.dport = b.flow.sport]
    <3>2. f.proto = x.frame.proto /\ f.dport = b.flow.sport
      BY <1>1 DEF Frames
    <3>3. ~IsQuery(f)
      BY <1>1, <3>1, <3>2 DEF FromQueryPort, IsQuery
    <3>4. Leave(x, f, x.as, Spread(x.at, HostPort(b.flow.src)))
      BY <3>1
    <3> HIDE DEF f
    <3>5. UNCHANGED bound /\ Spread(x.at, HostPort(b.flow.src)) \subseteq PortsOf(x.at)
      BY <1>6 DEF Inbound, Spread
    <3> QED
      BY <1>2, <3>3, <3>4, <3>5
  <2> QED
    BY <1>6, <2>1, <2>2 DEF Inbound
<1>7. CASE Outbound(x)
  <2>1. PICK b \in Binding(Header(x.frame), x.frame.mac) :
          /\ bound' = bound \cup {b}
          /\ Leave(x, [x.frame EXCEPT
                         !.smac = Gateway,
                         !.mac = IF x.frame.dst \in hosts THEN x.frame.dst ELSE @,
                         !.src = NatIp, !.sport = b.port],
                   x.as, Spread(x.at, HostPort(x.frame.dst)))
    BY <1>7 DEF Outbound
  <2> DEFINE f == [x.frame EXCEPT
                     !.smac = Gateway,
                     !.mac = IF x.frame.dst \in hosts THEN x.frame.dst ELSE @,
                     !.src = NatIp, !.sport = b.port]
  <2>2. f.proto = x.frame.proto /\ f.dport = x.frame.dport
    BY <1>1 DEF Frames
  <2>3. ~IsQuery(x.frame)
    BY <1>7 DEF Outbound, IsOutbound
  <2>4. ~IsQuery(f)
    BY <2>2, <2>3 DEF IsQuery
  <2>5. Leave(x, f, x.as, Spread(x.at, HostPort(x.frame.dst)))
    BY <2>1
  <2> HIDE DEF f
  <2>6. Spread(x.at, HostPort(x.frame.dst)) \subseteq PortsOf(x.at)
    BY DEF Spread
  <2>7. b.flow = Header(x.frame)
    BY DEF Binding
  <2>8. ~FromQueryPort(b.flow) /\ ~IsQuery(b.flow)
    BY <1>1, <2>3, <2>7 DEF FromQueryPort, IsQuery, Header
  <2> QED
    BY <1>1, <1>2, <2>1, <2>4, <2>5, <2>6, <2>8
<1>8. CASE Ignored(x)
  BY <1>3, <1>8 DEF Ignored
<1> QED
  BY <1>3, <1>4, <1>5, <1>6, <1>7, <1>8 DEF Handle, PacketIn

LEMMA StepQuery ==
  ASSUME Unlinked, QueryPortUnused
  PROVE  PathTyped /\ PathTyped' /\ TablesRight /\ QueryInv /\ [PathNext]_pathVars => QueryInv'
<1> SUFFICES ASSUME PathTyped, PathTyped', TablesRight, QueryInv, [PathNext]_pathVars
             PROVE  QueryInv'
  OBVIOUS
<1>1. \A s \in Switch : Kinds(table'[s], Host)
  <2>1. Direct(hosts') \subseteq Host
    BY DirectHosts DEF PathTyped
  <2> QED
    BY <2>1, StepKinds DEF QueryInv
<1>2. ASSUME NEW s \in Switch PROVE Captured(s)'
  <2>1. Writes(s)
    BY StepWrites DEF TablesRight
  <2> QED
    BY <2>1, CaptureStays DEF QueryInv
<1>3. ASSUME UNCHANGED bound, UNCHANGED inbox, \A y \in flight' : ~FromQueryPort(y.frame)
      PROVE  QueryInv'
  BY <1>1, <1>2, <1>3 DEF QueryInv, QueriesStayLocal
<1>4. ASSUME NEW h, NEW f, NEW as, Emit(h, f, as), ~FromQueryPort(f) PROVE QueryInv'
  <2>1. \A y \in flight' : ~FromQueryPort(y.frame)
    <3> DEFINE y == OnTheWay(Place[h].dpid, Place[h].port, f, as)
    <3>1. y.frame = f
      BY DEF OnTheWay
    <3>2. flight' = flight \cup {y}
      BY <1>4 DEF Emit
    <3> HIDE DEF y
    <3> QED
      BY <1>4, <3>1, <3>2 DEF QueryInv
  <2> QED
    BY <1>3, <1>4, <2>1 DEF Emit
<1>5. ASSUME NEW h \in Host, Reply(h) PROVE QueryInv'
  <2> DEFINE f == inbox[h].frame
             r == Frame(Mirror(Header(f)), IF f.src \in Host THEN f.src ELSE Gateway, h)
  <2>1. Emit(h, r, Mirror(inbox[h].as)) /\ inbox[h] # None
    BY <1>5 DEF Reply, Accepts
  <2>2. ~IsQuery(f)
    BY <2>1 DEF QueryInv, QueriesStayLocal
  <2>3. ~FromQueryPort(r)
    BY <2>2 DEF FromQueryPort, IsQuery, Frame, Mirror, Header
  <2> HIDE DEF r
  <2> QED
    BY <1>4, <2>1, <2>3
<1>6. ASSUME NEW o \in Openings, Open(o) PROVE QueryInv'
  <2>1. PICK mac : Emit(o.src, Frame(o, mac, o.src), o)
    BY <1>6 DEF Open
  <2>2. ~FromQueryPort(Frame(o, mac, o.src))
    BY DEF FromQueryPort, Frame, QueryPortUnused
  <2> QED
    BY <1>4, <2>1, <2>2
<1>7. ASSUME NEW x \in flight, Handle(x) PROVE QueryInv'
  <2>1. /\ \A y \in flight' : y \in flight
        /\ \A b \in bound' : ~FromQueryPort(b.flow) /\ ~IsQuery(b.flow)
        /\ \A h \in Host : inbox'[h] # None => ~IsQuery(inbox'[h].frame)
    BY <1>7, QueryHandled
  <2> QED
    BY <1>1, <1>2, <2>1 DEF QueryInv, QueriesStayLocal
<1>8. CASE /\ UNCHANGED <<bound, inbox>>
           /\ \A y \in flight' : y \in flight
  BY <1>3, <1>8 DEF QueryInv
<1>9. ASSUME NEW s \in Switch, Features(s) \/ RulesArrive(s) \/ Disconnect(s)
      PROVE  UNCHANGED <<bound, inbox>> /\ \A y \in flight' : y \in flight
  BY <1>9 DEF Features, RulesArrive, Disconnect
<1>10. ASSUME Enter \/ \E h \in Host : Learn(h) \/ Forget(h)
       PROVE  UNCHANGED <<bound, inbox, flight>>
  BY <1>10 DEF Enter, Learn, Forget, Register
<1> QED
  BY <1>5, <1>6, <1>7, <1>8, <1>9, <1>10 DEF PathNext, pathVars

(***************************************************************************)
(* QueriesStayLocal: on switches that are not linked, a DNS query of a     *)
(* host reaches no host and gets no binding, whatever its address, and     *)
(* whatever entries, rules and bindings there are.  Answers that cross     *)
(* wires are frames from port 53, which the NAT may translate as any other.*)
(***************************************************************************)
THEOREM QueriesKept ==
  ASSUME Unlinked, QueryPortUnused
  PROVE  PathSpec => []QueriesStayLocal
<1>1. PathInit => QueryInv
  BY OwnKinds DEF PathInit, QueryInv, Captured, QueriesStayLocal
<1>2. PathTyped /\ PathTyped' /\ TablesRight /\ QueryInv /\ [PathNext]_pathVars => QueryInv'
  BY StepQuery
<1>3. QueryInv => QueriesStayLocal
  BY DEF QueryInv
<1> QED
  BY <1>1, <1>2, <1>3, InitTyped, InitRight, StepTyped, StepRight, PTL DEF PathSpec

-----------------------------------------------------------------------------
(* What outside hosts see                                                  *)

\* Exchanges are opened by inside hosts.
InsideOpens == \A o \in Openings : o.src \in Inside

Far == Outside \cup {Nowhere}

(***************************************************************************)
(* A frame for outside goes by no MAC of an inside host, so no entry for   *)
(* such a host takes it past the NAT; and neither would the answer to a    *)
(* frame from outside.                                                     *)
(***************************************************************************)
Veiled(f) ==
  /\ f.dst \in Far => f.mac \notin Inside /\ f.src \notin Far
  /\ f.src \in Far => f.smac \notin Inside

\* What an outside host sends is not for an inside address.
AtHost(x) == Lead[x.at][x.port] \in Outside => x.frame.dst \notin Inside

VeiledBound == \A b \in bound : b.flow.src \notin Far /\ b.mac \notin Inside

VeiledFrames ==
  /\ \A x \in flight : Veiled(x.frame) /\ AtHost(x)
  /\ \A h \in Host : inbox[h] # None => Veiled(inbox[h].frame)
  /\ OutsideSeesNat

VeilInv ==
  /\ \A s \in Switch : Kinds(table[s], Inside)
  /\ VeiledBound
  /\ VeiledFrames

LEMMA FarNames ==
  /\ Far \cap Inside = {} /\ NatIp \notin Far /\ ControllerIp \notin Far
  /\ NatIp \notin Inside /\ Gateway \notin Inside /\ Outside \subseteq Host
  /\ Inside \cap Outside = {} /\ Inside \subseteq Host
  /\ Host = Inside \cup Outside
BY NamesDiffer DEF Far, Outside

(***************************************************************************)
(* An entry that leads out of a switch otherwise than to the controller is *)
(* for the MAC of an inside host.                                          *)
(***************************************************************************)
LEMMA SwitchedByMac ==
  ASSUME NEW x, Kinds(table[x.at], Inside),
         NEW e \in Chosen(table[x.at], x.frame), Controller \notin e.to, e.to # {}
  PROVE  x.frame.mac \in Inside
<1>1. e \in table[x.at] /\ Matches(e, x.frame)
  BY DEF Chosen, Hits
<1>2. e.match["mac"] \in Inside
  BY <1>1 DEF Kinds, Kind
<1>3. e.match["mac"] \in {Star, x.frame["mac"]}
  BY <1>1 DEF Matches, Looked
<1>4. Star \notin Inside
  BY NamesDiffer
<1> QED
  BY <1>2, <1>3, <1>4

LEMMA VeilLeave ==
  ASSUME PathTyped, VeilInv, NEW x \in flight, NEW f, NEW as, NEW ps,
         ps \subseteq PortsOf(x.at), Leave(x, f, as, ps), Veiled(f),
         \A h \in Outside : h \in Ends(x, ps) /\ f.dst = h => f.src \notin Inside
  PROVE  VeiledFrames'
<1>1. \A h \in Host : inbox'[h] # None =>
        inbox'[h].frame = f /\ inbox'[h].as = as /\ h \in Ends(x, ps)
  BY LeaveReaches
<1>2. \A h \in Host : inbox'[h] # None => Veiled(inbox'[h].frame)
  BY <1>1
<1>3. OutsideSeesNat'
  BY <1>1, FarNames DEF OutsideSeesNat
<1>4. flight' = (flight \ {x}) \cup {OnTheWay(e[1], e[2], f, as) : e \in Ends(x, ps) \ Host}
  BY DEF Leave, Ends
<1>5. ASSUME NEW e \in Ends(x, ps) \ Host PROVE Lead[e[1]][e[2]] \notin Host
  <2>1. PICK p \in ps : e = Lead[x.at][p]
    BY DEF Ends
  <2>2. x.at \in Switch /\ p \in PortNo /\ e # None
    BY <2>1 DEF PortsOf, PathTyped, FlightTyped
  <2>3. PICK t \in Switch, q \in PortNo :
          e = <<t, q>> /\ Lead[t][q] # None /\ Lead[t][q] \notin Host
    BY <2>1, <2>2, WireEnds
  <2>4. e[1] = t /\ e[2] = q
    BY <2>3
  <2> QED
    BY <2>3, <2>4
<1>6. ASSUME NEW y \in flight' PROVE Veiled(y.frame) /\ AtHost(y)
  <2>1. CASE y \in flight
    BY <2>1 DEF VeilInv, VeiledFrames
  <2>2. ASSUME NEW e \in Ends(x, ps) \ Host, y = OnTheWay(e[1], e[2], f, as)
        PROVE  Veiled(y.frame) /\ AtHost(y)
    <3>1. y.frame = f /\ y.at = e[1] /\ y.port = e[2]
      BY <2>2 DEF OnTheWay
    <3>2. Lead[y.at][y.port] \notin Outside
      BY <1>5, <3>1, FarNames
    <3> QED
      BY <3>1, <3>2 DEF AtHost
  <2> QED
    BY <1>4, <2>1, <2>2
<1> QED
  BY <1>2, <1>3, <1>6 DEF VeiledFrames, AtHost

\* The binding by which a frame goes out.
LEMMA OutboundBinds ==
  ASSUME VeilInv, NEW x \in flight, x.frame.dst \in Far,
         NEW b \in Binding(Header(x.frame), x.frame.mac)
  PROVE  b.flow = Header(x.frame) /\ b.flow.src \notin Far /\ b.mac \notin Inside
<1>1. Veiled(x.frame)
  BY DEF VeilInv, VeiledFrames
<1>2. b.flow = Header(x.frame) /\ (b \in bound \/ b.mac = x.frame.mac)
  BY DEF Binding
<1>3. Header(x.frame).src = x.frame.src
  BY DEF Header
<1> QED
  BY <1>1, <1>2, <1>3 DEF Veiled, VeilInv, VeiledBound

\* What the NAT translates is for outside.
LEMMA OutboundFar ==
  ASSUME PathTyped, NEW x \in flight, IsOutbound(x.frame)
  PROVE  x.frame.dst \in Far
<1>1. x.frame.dst \in Addresses
  BY DEF PathTyped, FlightTyped, Frames
<1>2. x.frame.dst # NatIp /\ x.frame.dst \notin Inside /\ x.frame.dst # ControllerIp
  BY DEF IsOutbound, Local
<1> QED
  BY <1>1, <1>2 DEF Addresses, Far, Outside

LEMMA VeilHandled ==
  ASSUME PathTyped, VeilInv, NEW x \in flight, Handle(x)
  PROVE  VeiledBound' /\ VeiledFrames'
<1>1. /\ x.at \in Switch /\ x.port \in PortsOf(x.at) /\ x.frame \in Frames
      /\ Veiled(x.frame) /\ AtHost(x)
  BY DEF PathTyped, FlightTyped, VeilInv, VeiledFrames
<1>2. ASSUME NEW f, NEW as, NEW ps, ps \subseteq PortsOf(x.at), Leave(x, f, as, ps), Veiled(f),
             \A h \in Outside : h \in Ends(x, ps) /\ f.dst = h => f.src \notin Inside
      PROVE  VeiledFrames'
  BY <1>2, VeilLeave
<1>3. UNCHANGED bound => VeiledBound'
  BY DEF VeilInv, VeiledBound
<1>4. Drop(x) => VeiledFrames'
  BY DEF Drop, VeilInv, VeiledFrames, OutsideSeesNat, AtHost
<1>5. ASSUME NEW e \in Chosen(table[x.at], x.frame), Switched(x, e) PROVE VeiledBound' /\ VeiledFrames'
  <2> DEFINE ps == (e.to \ {x.port}) \cap PortsOf(x.at)
  <2>1. Leave(x, x.frame, x.as, ps) /\ UNCHANGED bound /\ ps \subseteq PortsOf(x.at)
    BY <1>5 DEF Switched
  <2>2. ps # {} => x.frame.mac \in Inside
    BY <1>1, <1>5, SwitchedByMac DEF Switched, VeilInv
  <2>3. \A h \in Outside : h \in Ends(x, ps) /\ x.frame.dst = h => FALSE
    BY <1>1, <2>2 DEF Ends, Veiled, Far
  <2> HIDE DEF ps
  <2> QED
    BY <1>1, <1>2, <1>3, <2>1, <2>3
<1>6. CASE Answered(x)
  <2> DEFINE f == Frame(Mirror(Header(x.frame)), x.frame.smac, Gateway)
  <2>1. /\ Leave(x, f, Mirror(x.as), {x.port}) /\ UNCHANGED bound
        /\ {x.port} \subseteq PortsOf(x.at)
    BY <1>1, <1>6 DEF Answered
  <2>2. /\ f.src = x.frame.dst /\ f.dst = x.frame.src
        /\ f.mac = x.frame.smac /\ f.smac = Gateway
    BY DEF Frame, Mirror, Header
  <2> HIDE DEF f
  <2>3. Veiled(f)
    BY <1>1, <2>2, FarNames DEF Veiled
  <2>4. \A h \in Outside : h \in Ends(x, {x.port}) /\ f.dst = h => f.src \notin Inside
    BY <1>1, <2>2 DEF Ends, AtHost
  <2> QED
    BY <1>2, <1>3, <2>1, <2>3, <2>4
<1>7. CASE Inbound(x)
  <2>1. UNCHANGED bound
    BY <1>7 DEF Inbound
  <2>2. CASE Drop(x)
    BY <1>3, <1>4, <2>1, <2>2
  <2>3. ASSUME NEW b \in bound,
               Leave(x, [x.frame EXCEPT !.mac = b.mac, !.dst = b.flow.src,
                                        !.dport = b.flow.sport],
                     x.as, Spread(x.at, HostPort(b.flow.src)))
        PROVE  VeiledFrames'
    <3> DEFINE f == [x.frame EXCEPT !.mac = b.mac, !.dst = b.flow.src, !.dport = b.flow.sport]
    <3>1. f.dst = b.flow.src /\ f.src = x.frame.src /\ f.smac = x.frame.smac
      BY <1>1 DEF Frames
    <3>2. Leave(x, f, x.as, Spread(x.at, HostPort(b.flow.src)))
      BY <2>3
    <3> HIDE DEF f
    <3>3. b.flow.src \notin Far
      BY DEF VeilInv, VeiledBound
    <3>4. Veiled(f)
      BY <1>1, <3>1, <3>3 DEF Veiled
    <3>5. \A h \in Outside : f.dst = h => FALSE
      BY <3>1, <3>3 DEF Far
    <3>6. Spread(x.at, HostPort(b.flow.src)) \subseteq PortsOf(x.at)
      BY DEF Spread
    <3> QED
      BY <1>2, <3>2, <3>4, <3>5, <3>6
  <2> QED
    BY <1>3, <1>7, <2>1, <2>2, <2>3 DEF Inbound
<1>8. CASE Outbound(x)
  <2>1. PICK b \in Binding(Header(x.frame), x.frame.mac) :
          /\ bound' = bound \cup {b}
          /\ Leave(x, [x.frame EXCEPT
                         !.smac = Gateway,
                         !.mac = IF x.frame.dst \in hosts THEN x.frame.dst ELSE @,
                         !.src = NatIp, !.sport = b.port],
                   x.as, Spread(x.at, HostPort(x.frame.dst)))
    BY <1>8 DEF Outbound
  <2> DEFINE f == [x.frame EXCEPT
                     !.smac = Gateway,
                     !.mac = IF x.frame.dst \in hosts THEN x.frame.dst ELSE @,
                     !.src = NatIp, !.sport = b.port]
  <2>2. /\ f.src = NatIp /\ f.dst = x.frame.dst
        /\ f.mac \in {x.frame.dst, x.frame.mac}
    BY <1>1 DEF Frames
  <2>3. Leave(x, f, x.as, Spread(x.at, HostPort(x.frame.dst)))
    BY <2>1
  <2> HIDE DEF f
  <2>4. x.frame.dst \in Far
    BY <1>8, OutboundFar DEF Outbound
  <2>5. Veiled(f)
    BY <1>1, <2>2, <2>4, FarNames DEF Veiled
  <2>6. f.src \notin Inside
    BY <2>2, FarNames
  <2>7. Spread(x.at, HostPort(x.frame.dst)) \subseteq PortsOf(x.at)
    BY DEF Spread
  <2>8. VeiledFrames'
    BY <1>2, <2>3, <2>5, <2>6, <2>7
  <2>9. b.flow.src \notin Far /\ b.mac \notin Inside
    BY <2>4, OutboundBinds
  <2> QED
    BY <2>1, <2>8, <2>9 DEF VeiledBound, VeilInv
<1>9. CASE Ignored(x)
  BY <1>3, <1>4, <1>9 DEF Ignored
<1>10. CASE Drop(x) /\ UNCHANGED bound
  BY <1>3, <1>4, <1>10
<1> QED
  BY <1>5, <1>6, <1>7, <1>8, <1>9, <1>10 DEF Handle, PacketIn

LEMMA VeilEmitted ==
  ASSUME VeilInv, NEW h \in Host, NEW f, NEW as, Emit(h, f, as), Veiled(f),
         h \in Outside => f.dst \notin Inside
  PROVE  \A y \in flight' : Veiled(y.frame) /\ AtHost(y)
<1> DEFINE y == OnTheWay(Place[h].dpid, Place[h].port, f, as)
<1>1. y.frame = f /\ Lead[y.at][y.port] = h
  BY HostPlaces DEF OnTheWay
<1>2. flight' = flight \cup {y}
  BY DEF Emit
<1> HIDE DEF y
<1>3. Veiled(y.frame) /\ AtHost(y)
  BY <1>1 DEF AtHost
<1> QED
  BY <1>2, <1>3 DEF VeilInv, VeiledFrames

LEMMA StepVeiled ==
  ASSUME InsideOpens
  PROVE  PathTyped /\ PathTyped' /\ TablesRight /\ VeilInv /\ [NatNext]_pathVars => VeilInv'
<1> SUFFICES ASSUME PathTyped, PathTyped', TablesRight, VeilInv, [NatNext]_pathVars
             PROVE  VeilInv'
  OBVIOUS
<1>1. \A s \in Switch : Kinds(table'[s], Inside)
  <2>1. CASE NatNext
    <3>1. Direct(hosts') \subseteq Inside
      BY <2>1, DirectHosts DEF PathTyped, NatNext, NatOrder
    <3> QED
      BY <2>1, <3>1, StepKinds DEF VeilInv, NatNext
  <2>2. CASE UNCHANGED pathVars
    BY <2>2 DEF pathVars, VeilInv
  <2> QED
    BY <2>1, <2>2
<1>2. ASSUME UNCHANGED bound, UNCHANGED inbox, \A y \in flight' : Veiled(y.frame) /\ AtHost(y)
      PROVE  VeilInv'
  BY <1>1, <1>2 DEF VeilInv, VeiledBound, VeiledFrames, OutsideSeesNat, AtHost
<1>3. ASSUME NEW h \in Host, Reply(h) PROVE VeilInv'
  <2> DEFINE f == inbox[h].frame
             r == Frame(Mirror(Header(f)), IF f.src \in Host THEN f.src ELSE Gateway, h)
  <2>1. Emit(h, r, Mirror(inbox[h].as)) /\ inbox[h] # None /\ f.dst = h
    BY <1>3 DEF Reply, Accepts
  <2>2. Veiled(f) /\ (h \in Outside => f.src \notin Inside)
    BY <2>1 DEF VeilInv, VeiledFrames, OutsideSeesNat
  <2>3. /\ r.src = h /\ r.dst = f.src /\ r.smac = h
        /\ r.mac = IF f.src \in Host THEN f.src ELSE Gateway
    BY <2>1 DEF Frame, Mirror, Header
  <2> HIDE DEF r, f
  <2>4. Veiled(r)
    BY <2>1, <2>2, <2>3, FarNames DEF Veiled, Far
  <2>5. h \in Outside => r.dst \notin Inside
    BY <2>2, <2>3
  <2>6. \A y \in flight' : Veiled(y.frame) /\ AtHost(y)
    BY <2>1, <2>4, <2>5, VeilEmitted
  <2> QED
    BY <1>2, <2>1, <2>6 DEF Emit
<1>4. ASSUME NEW o \in Openings, Open(o) PROVE VeilInv'
  <2>1. PICK mac : mac \in {Gateway} \cup ({o.dst} \cap Host) /\ Emit(o.src, Frame(o, mac, o.src), o)
    BY <1>4 DEF Open
  <2> DEFINE f == Frame(o, mac, o.src)
  <2>2. f.src = o.src /\ f.dst = o.dst /\ f.mac = mac /\ f.smac = o.src
    BY DEF Frame
  <2>3. o.src \in Inside /\ o.src \in Host
    BY FarNames DEF InsideOpens
  <2>4. Emit(o.src, f, o)
    BY <2>1
  <2> HIDE DEF f
  <2>5. Veiled(f)
    BY <2>1, <2>2, <2>3, FarNames DEF Veiled
  <2>6. \A y \in flight' : Veiled(y.frame) /\ AtHost(y)
    BY <2>3, <2>4, <2>5, FarNames, VeilEmitted
  <2> QED
    BY <1>2, <2>1, <2>6 DEF Emit
<1>5. ASSUME NEW x \in flight, Handle(x) PROVE VeilInv'
  <2>1. VeiledBound' /\ VeiledFrames'
    BY <1>5, VeilHandled
  <2> QED
    BY <1>1, <2>1 DEF VeilInv
<1>6. CASE UNCHANGED <<bound, inbox>> /\ \A y \in flight' : y \in flight
  BY <1>2, <1>6 DEF VeilInv, VeiledFrames
<1>7. ASSUME NEW s \in Switch, Features(s) \/ RulesArrive(s) \/ Disconnect(s)
      PROVE  UNCHANGED <<bound, inbox>> /\ \A y \in flight' : y \in flight
  BY <1>7 DEF Features, RulesArrive, Disconnect
<1>8. ASSUME Enter \/ \E h \in Host : Learn(h) \/ Forget(h)
      PROVE  UNCHANGED <<bound, inbox, flight>>
  BY <1>8 DEF Enter, Learn, Forget, Register
<1> QED
  BY <1>3, <1>4, <1>5, <1>6, <1>7, <1>8 DEF PathNext, pathVars, NatNext

LEMMA InitVeiled == PathInit => VeilInv
<1> SUFFICES ASSUME PathInit PROVE VeilInv
  OBVIOUS
<1>1. \A s \in Switch : Kinds(table[s], Inside)
  BY OwnKinds DEF PathInit
<1>2. VeiledBound /\ VeiledFrames
  BY DEF PathInit, VeiledBound, VeiledFrames, OutsideSeesNat, Outside
<1> QED
  BY <1>1, <1>2 DEF VeilInv

(***************************************************************************)
(* OutsideSeesNat: in every network, linked as it may be, in which the     *)
(* inside hosts are known first and open the exchanges, no outside host    *)
(* gets a frame that has the address of an inside one.                     *)
(***************************************************************************)
THEOREM InsideStaysHidden ==
  ASSUME InsideOpens
  PROVE  NatNetwork => []OutsideSeesNat
<1>1. PathTyped /\ PathTyped' /\ TablesRight /\ VeilInv /\ [NatNext]_pathVars => VeilInv'
  BY StepVeiled
<1>2. VeilInv => OutsideSeesNat
  BY DEF VeilInv, VeiledFrames
<1>3. [NatNext]_pathVars => [PathNext]_pathVars
  BY DEF NatNext
<1> QED
  BY <1>1, <1>2, <1>3, InitVeiled, InitTyped, InitRight, StepTyped, StepRight, PTL
     DEF NatNetwork

-----------------------------------------------------------------------------
(* Translation and back                                                    *)

\* The header that an outside host sees, of a frame that binding b translates.
Translated(b) ==
  [src |-> NatIp, dst |-> b.flow.dst, proto |-> b.flow.proto,
   sport |-> b.port, dport |-> b.flow.dport]

FromInside(x) ==
  Header(x.frame) = x.as /\ (x.frame.dst = NatIp => x.as \in Openings)

FromOutside(x) ==
  \E b \in bound : Header(x.frame) = Mirror(Translated(b)) /\ x.as = Mirror(b.flow)

(***************************************************************************)
(* A frame on its way is one that the host at its port has sent: an inside *)
(* host says what it means, and an outside host answers a translated       *)
(* frame, by a binding that there is.                                      *)
(***************************************************************************)
Spoken(x) ==
  /\ x.frame.src = Lead[x.at][x.port] /\ x.frame.src \in Host
  /\ x.frame.src \in Inside => FromInside(x)
  /\ x.frame.src \in Outside => FromOutside(x)

\* What host h may make of a frame that is addressed to it.
Heard(h, f, as) ==
  IF h \in Inside THEN Header(f) = as \/ (f.mac \notin Inside /\ as \in Openings)
  ELSE \E b \in bound : Header(f) = Translated(b) /\ as = b.flow

NatBound ==
  /\ \A b \in bound : b.flow.src \in Inside
  /\ \A b, c \in bound : b.port = c.port => b = c

NatFrames ==
  /\ \A x \in flight : Spoken(x)
  /\ \A h \in Host : inbox[h] # None /\ inbox[h].frame.dst = h =>
       Heard(h, inbox[h].frame, inbox[h].as)

NatInv == NatBound /\ NatFrames

LEMMA HeaderOfFrame ==
  ASSUME NEW k \in Headers, NEW mac, NEW smac
  PROVE  Header(Frame(k, mac, smac)) = k
BY DEF Headers, Header, Frame

LEMMA MirrorFields ==
  ASSUME NEW k
  PROVE  /\ Mirror(k).src = k.dst /\ Mirror(k).dst = k.src
         /\ Mirror(k).sport = k.dport /\ Mirror(k).dport = k.sport
         /\ Mirror(k).proto = k.proto
BY DEF Mirror

LEMMA HeaderFields ==
  ASSUME NEW f
  PROVE  /\ Header(f).src = f.src /\ Header(f).dst = f.dst
         /\ Header(f).sport = f.sport /\ Header(f).dport = f.dport
         /\ Header(f).proto = f.proto
BY DEF Header

\* What an outside host sends is for a port of the NAT.
LEMMA OutsideAnswers ==
  ASSUME PathTyped, NEW x, NEW b \in bound, Header(x.frame) = Mirror(Translated(b))
  PROVE  /\ x.frame.src = b.flow.dst /\ x.frame.dst = NatIp /\ x.frame.proto = b.flow.proto
         /\ x.frame.sport = b.flow.dport /\ x.frame.dport = b.port /\ b.port \in Pool
         /\ ~IsQuery(x.frame)
<1>1. b.flow \in Headers /\ b.port \in Pool
  BY DEF PathTyped, BoundTyped
<1>2. /\ Mirror(Translated(b)).src = b.flow.dst /\ Mirror(Translated(b)).dst = NatIp
      /\ Mirror(Translated(b)).proto = b.flow.proto
      /\ Mirror(Translated(b)).sport = b.flow.dport /\ Mirror(Translated(b)).dport = b.port
  BY MirrorFields DEF Translated
<1>3. /\ x.frame.src = b.flow.dst /\ x.frame.dst = NatIp /\ x.frame.proto = b.flow.proto
      /\ x.frame.sport = b.flow.dport /\ x.frame.dport = b.port
  BY <1>2, HeaderFields
<1>4. x.frame.dport # 53
  BY <1>1, <1>3, PortsApart
<1> QED
  BY <1>1, <1>3, <1>4 DEF IsQuery

LEMMA SpokenStays ==
  ASSUME bound \subseteq bound', NEW x, Spoken(x)
  PROVE  Spoken(x)'
BY DEF Spoken, FromInside, FromOutside

LEMMA NatLeave ==
  ASSUME Unlinked, PathTyped, NatFrames, bound \subseteq bound',
         NEW x \in flight, NEW f, NEW as, NEW ps,
         ps \subseteq PortsOf(x.at), Leave(x, f, as, ps),
         \A h \in Host : h \in Ends(x, ps) /\ f.dst = h => Heard(h, f, as)'
  PROVE  NatFrames'
<1>1. Ends(x, ps) \ Host = {}
  BY DEF Unlinked, PortsOf, Ends, PathTyped, FlightTyped
<1>2. flight' = (flight \ {x}) \cup {OnTheWay(e[1], e[2], f, as) : e \in Ends(x, ps) \ Host}
  BY DEF Leave, Ends
<1>3. flight' = flight \ {x}
  BY <1>1, <1>2
<1>4. \A y \in flight' : Spoken(y)'
  BY <1>3, SpokenStays DEF NatFrames
<1>5. \A h \in Host : inbox'[h] # None =>
        inbox'[h].frame = f /\ inbox'[h].as = as /\ h \in Ends(x, ps)
  BY LeaveReaches
<1>6. ASSUME NEW h \in Host, inbox'[h] # None, inbox'[h].frame.dst = h
      PROVE  Heard(h, inbox[h].frame, inbox[h].as)'
  <2>1. inbox'[h].frame = f /\ inbox'[h].as = as /\ h \in Ends(x, ps)
    BY <1>5, <1>6
  <2>2. Heard(h, f, as)'
    BY <1>6, <2>1
  <2> QED
    BY <2>1, <2>2 DEF Heard
<1> QED
  BY <1>4, <1>6 DEF NatFrames

LEMMA NatStays ==
  ASSUME NatInv, UNCHANGED <<bound, inbox>>, \A y \in flight' : y \in flight \/ Spoken(y)'
  PROVE  NatInv'
<1>1. \A y \in flight' : Spoken(y)'
  BY SpokenStays DEF NatInv, NatFrames
<1> QED
  BY <1>1 DEF NatInv, NatFrames, NatBound, Heard

LEMMA NatSwitched ==
  ASSUME Unlinked, PathTyped, VeilInv, NatInv, NEW x \in flight,
         NEW e \in Chosen(table[x.at], x.frame), Switched(x, e)
  PROVE  NatInv'
<1> DEFINE ps == (e.to \ {x.port}) \cap PortsOf(x.at)
<1>1. /\ Leave(x, x.frame, x.as, ps) /\ UNCHANGED bound /\ ps \subseteq PortsOf(x.at)
      /\ x.at \in Switch
  BY DEF Switched, PathTyped, FlightTyped
<1>2. ps # {} => x.frame.mac \in Inside
  BY <1>1, SwitchedByMac DEF Switched, VeilInv
<1> HIDE DEF ps
<1>3. Veiled(x.frame) /\ Spoken(x)
  BY DEF VeilInv, VeiledFrames, NatInv, NatFrames
<1>4. ASSUME NEW h \in Host, h \in Ends(x, ps), x.frame.dst = h
      PROVE  Heard(h, x.frame, x.as)'
  <2>1. x.frame.mac \in Inside
    BY <1>2, <1>4 DEF Ends
  <2>2. h \in Inside
    BY <1>3, <1>4, <2>1, FarNames DEF Veiled, Far
  <2>3. x.frame.src \in Inside
    <3>1. x.frame.src \notin Outside
      BY <1>3, <1>4, OutsideAnswers, NamesDiffer DEF Spoken, FromOutside
    <3> QED
      BY <1>3, <3>1, FarNames DEF Spoken
  <2> QED
    BY <1>3, <2>2, <2>3 DEF Spoken, FromInside, Heard
<1>5. NatFrames'
  BY <1>1, <1>4, NatLeave DEF NatInv
<1> QED
  BY <1>1, <1>5 DEF NatInv, NatBound

LEMMA NatAnswered ==
  ASSUME Unlinked, PathTyped, VeilInv, NatInv, NEW x \in flight, Answered(x)
  PROVE  NatInv'
<1> DEFINE f == Frame(Mirror(Header(x.frame)), x.frame.smac, Gateway)
<1>1. /\ Leave(x, f, Mirror(x.as), {x.port}) /\ UNCHANGED bound
      /\ {x.port} \subseteq PortsOf(x.at) /\ IsQuery(x.frame) /\ x.frame \in Frames
  BY DEF Answered, PathTyped, FlightTyped
<1>2. Spoken(x)
  BY DEF NatInv, NatFrames
<1>3. x.frame.src \in Inside
  <2>1. x.frame.src \notin Outside
    BY <1>1, <1>2, OutsideAnswers DEF Spoken, FromOutside
  <2> QED
    BY <1>2, <2>1, FarNames DEF Spoken
<1>4. Header(f) = Mirror(x.as)
  <2>1. Mirror(Header(x.frame)) \in Headers
    BY <1>1, HeaderTyped, MirrorTyped
  <2>2. Header(f) = Mirror(Header(x.frame))
    BY <2>1, HeaderOfFrame
  <2>3. Header(x.frame) = x.as
    BY <1>2, <1>3 DEF Spoken, FromInside
  <2> QED
    BY <2>2, <2>3
<1> HIDE DEF f
<1>5. ASSUME NEW h \in Host, h \in Ends(x, {x.port}), f.dst = h PROVE Heard(h, f, Mirror(x.as))'
  <2>1. h = x.frame.src
    BY <1>2, <1>5 DEF Ends, Spoken
  <2> QED
    BY <1>3, <1>4, <2>1 DEF Heard
<1>6. NatFrames'
  BY <1>1, <1>5, NatLeave DEF NatInv
<1> QED
  BY <1>1, <1>6 DEF NatInv, NatBound

LEMMA NatInbound ==
  ASSUME Unlinked, PathTyped, VeilInv, NatInv, NEW x \in flight, Inbound(x)
  PROVE  NatInv'
<1>1. UNCHANGED bound /\ x.frame.dst = NatIp /\ x.frame \in Frames
  BY DEF Inbound, PathTyped, FlightTyped
<1>2. CASE Drop(x)
  <2>1. UNCHANGED <<bound, inbox>> /\ \A y \in flight' : y \in flight
    BY <1>1, <1>2 DEF Drop
  <2> QED
    BY <2>1, NatStays
<1>3. ASSUME NEW b \in bound, b.port = x.frame.dport, b.flow.proto = x.frame.proto,
             Leave(x, [x.frame EXCEPT !.mac = b.mac, !.dst = b.flow.src,
                                      !.dport = b.flow.sport],
                   x.as, Spread(x.at, HostPort(b.flow.src)))
      PROVE  NatInv'
  <2> DEFINE f == [x.frame EXCEPT !.mac = b.mac, !.dst = b.flow.src, !.dport = b.flow.sport]
  <2>1. /\ f.mac = b.mac /\ f.dst = b.flow.src /\ f.dport = b.flow.sport
        /\ f.src = x.frame.src /\ f.proto = x.frame.proto /\ f.sport = x.frame.sport
    BY <1>1 DEF Frames
  <2>2. /\ Leave(x, f, x.as, Spread(x.at, HostPort(b.flow.src)))
        /\ Spread(x.at, HostPort(b.flow.src)) \subseteq PortsOf(x.at)
    BY <1>3 DEF Spread
  <2> HIDE DEF f
  <2>3. b.mac \notin Inside /\ b.flow.src \in Inside /\ Spoken(x)
    BY DEF VeilInv, VeiledBound, NatInv, NatBound, NatFrames
  <2>5. ASSUME NEW h \in Host, f.dst = h PROVE Heard(h, f, x.as)'
    <3>1. h \in Inside
      BY <2>1, <2>3, <2>5
    <3>2. CASE x.frame.src \in Inside
      BY <1>1, <2>1, <2>3, <3>1, <3>2 DEF Spoken, FromInside, Heard
    <3>3. CASE x.frame.src \in Outside
      <4>1. PICK c \in bound : Header(x.frame) = Mirror(Translated(c)) /\ x.as = Mirror(c.flow)
        BY <2>3, <3>3 DEF Spoken, FromOutside
      <4>2. /\ x.frame.src = c.flow.dst /\ x.frame.proto = c.flow.proto
            /\ x.frame.sport = c.flow.dport /\ x.frame.dport = c.port
        BY <4>1, OutsideAnswers
      <4>3. b = c
        BY <1>3, <4>2 DEF NatInv, NatBound
      <4>4. Header(f) = x.as
        BY <2>1, <4>1, <4>2, <4>3 DEF Header, Mirror
      <4> QED
        BY <3>1, <4>4 DEF Heard
    <3> QED
      BY <2>3, <3>2, <3>3, FarNames DEF Spoken
  <2>6. NatFrames'
    BY <1>1, <2>2, <2>5, NatLeave DEF NatInv
  <2> QED
    BY <1>1, <2>6 DEF NatInv, NatBound
<1> QED
  BY <1>2, <1>3 DEF Inbound

LEMMA NatOutbound ==
  ASSUME Unlinked, PathTyped, VeilInv, NatInv, NEW x \in flight, Outbound(x)
  PROVE  NatInv'
<1>1. PICK b \in Binding(Header(x.frame), x.frame.mac) :
        /\ bound' = bound \cup {b}
        /\ Leave(x, [x.frame EXCEPT
                       !.smac = Gateway,
                       !.mac = IF x.frame.dst \in hosts THEN x.frame.dst ELSE @,
                       !.src = NatIp, !.sport = b.port],
                 x.as, Spread(x.at, HostPort(x.frame.dst)))
  BY DEF Outbound
<1>2. x.frame \in Frames /\ Spoken(x) /\ Veiled(x.frame)
  BY DEF PathTyped, FlightTyped, NatInv, NatFrames, VeilInv, VeiledFrames
<1>3. PICK f :
        /\ f = [x.frame EXCEPT
                  !.smac = Gateway,
                  !.mac = IF x.frame.dst \in hosts THEN x.frame.dst ELSE @,
                  !.src = NatIp, !.sport = b.port]
        /\ Leave(x, f, x.as, Spread(x.at, HostPort(x.frame.dst)))
  BY <1>1
<1>4. /\ f.src = NatIp /\ f.sport = b.port /\ f.dst = x.frame.dst
      /\ f.proto = x.frame.proto /\ f.dport = x.frame.dport
      /\ Spread(x.at, HostPort(x.frame.dst)) \subseteq PortsOf(x.at)
  BY <1>2, <1>3 DEF Frames, Spread
<1>5. x.frame.dst \in Far
  BY OutboundFar DEF Outbound
<1>6. x.frame.src \in Inside
  BY <1>2, <1>5, FarNames DEF Veiled, Spoken, Far
<1>7. b.flow = Header(x.frame) /\ x.as = b.flow /\ b.flow \in Headers
  BY <1>2, <1>6, HeaderTyped DEF Binding, Spoken, FromInside
<1>8. NatBound'
  <2>1. b.flow.src \in Inside
    BY <1>6, <1>7, HeaderFields
  <2>2. CASE b \in bound
    <3>1. bound' = bound
      BY <1>1, <2>2
    <3> QED
      BY <3>1 DEF NatInv, NatBound
  <2>3. CASE b \notin bound
    <3>1. b.port \notin Taken
      BY <2>3 DEF Binding
    <3>2. \A c \in bound : c.port # b.port
      BY <3>1 DEF Taken
    <3> QED
      BY <1>1, <2>1, <3>2 DEF NatInv, NatBound
  <2> QED
    BY <2>2, <2>3
<1>9. ASSUME NEW h \in Host, f.dst = h PROVE Heard(h, f, x.as)'
  <2>1. h \notin Inside
    BY <1>4, <1>5, <1>9, FarNames
  <2>2. Header(f) = Translated(b)
    <3>1. b.flow.dst = f.dst /\ b.flow.proto = f.proto /\ b.flow.dport = f.dport
      BY <1>4, <1>7, HeaderFields
    <3> QED
      BY <1>4, <3>1 DEF Header, Translated
  <2>3. b \in bound'
    BY <1>1
  <2>4. \E c \in bound' : Header(f) = Translated(c) /\ x.as = c.flow
    BY <1>7, <2>2, <2>3
  <2> QED
    BY <2>1, <2>4 DEF Heard
<1>10. bound \subseteq bound' /\ NatFrames
  BY <1>1 DEF NatInv
<1>11. NatFrames'
  BY <1>3, <1>4, <1>9, <1>10, NatLeave
<1> QED
  BY <1>8, <1>11 DEF NatInv

LEMMA NatHandled ==
  ASSUME Unlinked, PathTyped, VeilInv, NatInv, NEW x \in flight, Handle(x)
  PROVE  NatInv'
<1>1. CASE Drop(x) /\ UNCHANGED bound
  <2>1. UNCHANGED <<bound, inbox>> /\ \A y \in flight' : y \in flight
    BY <1>1 DEF Drop
  <2> QED
    BY <2>1, NatStays
<1>2. CASE \E e \in Chosen(table[x.at], x.frame) : Switched(x, e)
  BY <1>2, NatSwitched
<1>3. CASE PacketIn(x)
  BY <1>1, <1>3, NatAnswered, NatInbound, NatOutbound DEF PacketIn, Ignored
<1> QED
  BY <1>1, <1>2, <1>3 DEF Handle

LEMMA NatEmitted ==
  ASSUME NatInv, NEW h \in Host, NEW f, NEW as, Emit(h, f, as), f.src = h,
         h \in Inside => Header(f) = as /\ (f.dst = NatIp => as \in Openings),
         h \in Outside => \E b \in bound : Header(f) = Mirror(Translated(b)) /\ as = Mirror(b.flow)
  PROVE  NatInv'
<1> DEFINE y == OnTheWay(Place[h].dpid, Place[h].port, f, as)
<1>1. y.frame = f /\ Lead[y.at][y.port] = h /\ y.as = as
  BY HostPlaces DEF OnTheWay
<1>2. flight' = flight \cup {y} /\ UNCHANGED <<bound, inbox>>
  BY DEF Emit
<1> HIDE DEF y
<1>3. Spoken(y)
  BY <1>1 DEF Spoken, FromInside, FromOutside
<1>4. Spoken(y)'
  BY <1>2, <1>3, SpokenStays
<1> QED
  BY <1>2, <1>4, NatStays

LEMMA StepNat ==
  ASSUME Unlinked, InsideOpens
  PROVE  PathTyped /\ VeilInv /\ NatInv /\ [NatNext]_pathVars => NatInv'
<1> SUFFICES ASSUME PathTyped, VeilInv, NatInv, [NatNext]_pathVars PROVE NatInv'
  OBVIOUS
<1>1. ASSUME NEW h \in Host, Reply(h) PROVE NatInv'
  <2> DEFINE f == inbox[h].frame
             k == Mirror(Header(f))
             r == Frame(k, IF f.src \in Host THEN f.src ELSE Gateway, h)
  <2>1. /\ Emit(h, r, Mirror(inbox[h].as)) /\ inbox[h] # None
        /\ f.dst = h /\ f.mac = h /\ inbox[h].as \in Openings
    BY <1>1 DEF Reply, Accepts
  <2>2. Heard(h, f, inbox[h].as) /\ f \in Frames
    BY <2>1 DEF NatInv, NatFrames, PathTyped, InboxTyped, Arrivals
  <2>3. Header(r) = k /\ r.src = f.dst /\ r.dst = f.src
    <3>1. k \in Headers
      BY <2>2, HeaderTyped, MirrorTyped
    <3>2. Header(r) = k
      BY <3>1, HeaderOfFrame
    <3>3. r.src = k.src /\ r.dst = k.dst
      BY DEF Frame
    <3> QED
      BY <3>2, <3>3, MirrorFields, HeaderFields
  <2>4. ASSUME h \in Inside
        PROVE  Header(r) = Mirror(inbox[h].as) /\ (r.dst = NatIp => Mirror(inbox[h].as) \in Openings)
    <3>1. Header(f) = inbox[h].as
      BY <2>1, <2>2, <2>4 DEF Heard
    <3>2. f.src \in Host
      BY <2>1, <3>1, HeaderFields, OpeningsTyped
    <3> QED
      BY <2>3, <3>1, <3>2, NamesDiffer
  <2>5. ASSUME h \in Outside
        PROVE  \E b \in bound : /\ Header(r) = Mirror(Translated(b))
                                /\ Mirror(inbox[h].as) = Mirror(b.flow)
    <3>1. PICK b \in bound : Header(f) = Translated(b) /\ inbox[h].as = b.flow
      BY <2>2, <2>5, FarNames DEF Heard
    <3> QED
      BY <2>3, <3>1
  <2> HIDE DEF r, f
  <2> QED
    BY <2>1, <2>3, <2>4, <2>5, NatEmitted
<1>2. ASSUME NEW o \in Openings, Open(o) PROVE NatInv'
  <2>1. PICK mac : Emit(o.src, Frame(o, mac, o.src), o)
    BY <1>2 DEF Open
  <2>2. o \in Headers /\ o.src \in Inside /\ o.src \in Host /\ o.src \notin Outside
    BY OpeningsTyped, FarNames DEF InsideOpens
  <2> DEFINE f == Frame(o, mac, o.src)
  <2>3. Header(f) = o /\ f.src = o.src
    BY <2>2, HeaderOfFrame DEF Frame
  <2>4. Emit(o.src, f, o)
    BY <2>1
  <2> HIDE DEF f
  <2> QED
    BY <2>2, <2>3, <2>4, NatEmitted
<1>3. ASSUME NEW x \in flight, Handle(x) PROVE NatInv'
  BY <1>3, NatHandled
<1>4. CASE UNCHANGED <<bound, inbox>> /\ \A y \in flight' : y \in flight
  BY <1>4, NatStays
<1>5. ASSUME NEW s \in Switch, Features(s) \/ RulesArrive(s) \/ Disconnect(s)
      PROVE  UNCHANGED <<bound, inbox>> /\ \A y \in flight' : y \in flight
  BY <1>5 DEF Features, RulesArrive, Disconnect
<1>6. ASSUME Enter \/ \E h \in Host : Learn(h) \/ Forget(h)
      PROVE  UNCHANGED <<bound, inbox, flight>>
  BY <1>6 DEF Enter, Learn, Forget, Register
<1> QED
  BY <1>1, <1>2, <1>3, <1>4, <1>5, <1>6 DEF PathNext, pathVars, NatNext

LEMMA InitNat == PathInit => NatInv
BY DEF PathInit, NatInv, NatBound, NatFrames
-----------------------------------------------------------------------------
LEMMA NatInvariant ==
  ASSUME Unlinked, InsideOpens
  PROVE  NatNetwork => [](PathTyped /\ VeilInv /\ NatInv)
<1>1. PathTyped /\ PathTyped' /\ TablesRight /\ VeilInv /\ [NatNext]_pathVars => VeilInv'
  BY StepVeiled
<1>2. PathTyped /\ VeilInv /\ NatInv /\ [NatNext]_pathVars => NatInv'
  BY StepNat
<1>3. [NatNext]_pathVars => [PathNext]_pathVars
  BY DEF NatNext
<1> QED
  BY <1>1, <1>2, <1>3, InitVeiled, InitNat, InitTyped, InitRight, StepTyped, StepRight, PTL
     DEF NatNetwork

(***************************************************************************)
(* OnlyInsideTranslated: on switches that are not linked, when inside      *)
(* hosts open the exchanges, each binding is of an inside host's flow.     *)
(* handle_outbound does not look at the source: it is what outside hosts   *)
(* answer, and where their frames can go, that makes it so.                *)
(***************************************************************************)
THEOREM InsideTranslated ==
  ASSUME Unlinked, InsideOpens
  PROVE  NatNetwork => []OnlyInsideTranslated
<1>1. NatInv => OnlyInsideTranslated
  BY DEF NatInv, NatBound, OnlyInsideTranslated
<1> QED
  BY <1>1, NatInvariant, PTL

(***************************************************************************)
(* RoundTrip: what an inside host gets of an exchange that is not being    *)
(* opened looks to it as if it came from the other end directly.           *)
(***************************************************************************)
THEOREM TranslatedBack ==
  ASSUME Unlinked, InsideOpens
  PROVE  NatNetwork => []RoundTrip
<1>1. NatInv => RoundTrip
  BY FarNames DEF NatInv, NatFrames, Heard, RoundTrip
<1> QED
  BY <1>1, NatInvariant, PTL

-----------------------------------------------------------------------------
(* Whom answers reach                                                      *)

\* There is one switch at most.
OneAtMost == \A s, t \in Switch : s = t

\* A frame that the controller gets is handled by no other entry.
LEMMA OnlyToController ==
  ASSUME PathTyped, VeilInv, NEW x \in flight, ToController(x),
         NEW e \in Chosen(table[x.at], x.frame)
  PROVE  Controller \in e.to
<1>1. Kinds(table[x.at], Inside)
  BY DEF PathTyped, FlightTyped, VeilInv
<1>2. PICK d \in Chosen(table[x.at], x.frame) : Controller \in d.to
  BY DEF ToController
<1>3. d.priority <= e.priority /\ e.priority <= d.priority
  BY DEF Chosen
<1>4. Kind(d, Inside) /\ Kind(e, Inside)
  BY <1>1 DEF Kinds, Chosen, Hits
<1>5. d.priority \in {0, 50000, 55000}
  BY <1>2, <1>4 DEF Kind
<1> QED
  BY <1>3, <1>4, <1>5 DEF Kind

LEMMA HandledByController ==
  ASSUME PathTyped, VeilInv, NEW x \in flight, Handle(x), x.at \in Known, ToController(x)
  PROVE  PacketIn(x)
<1>1. \A e \in Chosen(table[x.at], x.frame) : Controller \in e.to
  BY OnlyToController
<1>2. Chosen(table[x.at], x.frame) # {}
  BY DEF ToController
<1> QED
  BY <1>1, <1>2 DEF Handle, Switched

\* A host at one of the ports gets the frame.
LEMMA LeaveArrives ==
  ASSUME PathTyped, NEW x \in flight, NEW f \in Frames, NEW as \in Headers, NEW ps,
         Leave(x, f, as, ps), NEW h \in Host, h \in Ends(x, ps)
  PROVE  inbox'[h] # None /\ inbox'[h].as = as
<1> DEFINE r == Arrival(f, x.frame, as, phase[x.at] = "armed")
<1>1. inbox'[h] = r
  BY DEF Leave, Ends
<1>2. r \in Arrivals /\ r.as = as
  BY DEF Arrival, Arrivals, PathTyped, FlightTyped
<1>3. None \notin Arrivals
  BY PathAssumption
<1> QED
  BY <1>1, <1>2, <1>3

LEMMA QueryReturns ==
  ASSUME PathTyped, NatInv, NEW x \in flight, PacketIn(x), IsQuery(x.frame)
  PROVE  inbox'[x.as.src] # None /\ inbox'[x.as.src].as = Mirror(x.as)
<1>1. Answered(x)
  BY DEF PacketIn, Inbound, Outbound, IsOutbound, Ignored
<1> DEFINE f == Frame(Mirror(Header(x.frame)), x.frame.smac, Gateway)
<1>2. Leave(x, f, Mirror(x.as), {x.port})
  BY <1>1 DEF Answered
<1>3. x.frame \in Frames /\ x.as \in Headers /\ Spoken(x)
  BY DEF PathTyped, FlightTyped, NatInv, NatFrames
<1>4. x.frame.src \in Inside
  <2>1. x.frame.src \notin Outside
    BY <1>3, OutsideAnswers DEF Spoken, FromOutside
  <2> QED
    BY <1>3, <2>1, FarNames DEF Spoken
<1>5. x.as.src = x.frame.src
  <2>1. Header(x.frame) = x.as
    BY <1>3, <1>4 DEF Spoken, FromInside
  <2> QED
    BY <2>1, HeaderFields
<1>6. x.as.src \in Host /\ x.as.src \in Ends(x, {x.port})
  BY <1>3, <1>5 DEF Spoken, Ends
<1>7. f \in Frames /\ Mirror(x.as) \in Headers
  <2>1. Mirror(Header(x.frame)) \in Headers /\ x.frame.smac \in Macs /\ Gateway \in Macs
    BY <1>3, HeaderTyped, MirrorTyped DEF Frames, Macs
  <2> QED
    BY <1>3, <2>1, FrameTyped, MirrorTyped
<1> HIDE DEF f
<1> QED
  BY <1>2, <1>6, <1>7, LeaveArrives

LEMMA ReplyReturns ==
  ASSUME Unlinked, OneAtMost, PathTyped, NatInv, NEW x \in flight, PacketIn(x),
         ~IsQuery(x.frame), x.frame.dst = NatIp, x.as.dst \in Inside
  PROVE  inbox'[x.as.dst] # None /\ inbox'[x.as.dst].as = x.as
<1>1. Inbound(x)
  BY NamesDiffer DEF PacketIn, Answered, Outbound, IsOutbound, Ignored, Local
<1>2. x.frame \in Frames /\ x.as \in Headers /\ x.at \in Switch /\ Spoken(x)
  BY DEF PathTyped, FlightTyped, NatInv, NatFrames
<1>3. x.frame.src \notin Inside
  <2>1. Header(x.frame).dst = NatIp
    BY HeaderFields
  <2> QED
    BY <1>2, <2>1, FarNames DEF Spoken, FromInside
<1>4. PICK c \in bound : Header(x.frame) = Mirror(Translated(c)) /\ x.as = Mirror(c.flow)
  BY <1>2, <1>3, FarNames DEF Spoken, FromOutside
<1>5. x.frame.proto = c.flow.proto /\ x.frame.dport = c.port
  BY <1>4, OutsideAnswers
<1>6. PICK b \in bound :
        /\ b.port = x.frame.dport
        /\ Leave(x, [x.frame EXCEPT !.mac = b.mac, !.dst = b.flow.src, !.dport = b.flow.sport],
                 x.as, Spread(x.at, HostPort(b.flow.src)))
  BY <1>1, <1>5 DEF Inbound
<1>7. b = c
  BY <1>5, <1>6 DEF NatInv, NatBound
<1>8. x.as.dst = b.flow.src
  BY <1>4, <1>7, MirrorFields
<1> DEFINE h == b.flow.src
           f == [x.frame EXCEPT !.mac = b.mac, !.dst = b.flow.src, !.dport = b.flow.sport]
<1>9. h \in Host /\ h \in Ends(x, Spread(x.at, HostPort(h)))
  <2>1. h \in Host
    BY <1>8, FarNames
  <2>2. Place[h].port \in PortNo /\ Place[h].dpid = x.at /\ Lead[x.at][Place[h].port] = h
    BY <1>2, <2>1, HostPlaces DEF OneAtMost
  <2>3. Place[h].port \in PortsOf(x.at)
    BY <2>1, <2>2, NamesDiffer DEF PortsOf
  <2>4. Place[h].port \in Spread(x.at, HostPort(h))
    BY <2>3 DEF Spread, HostPort
  <2> QED
    BY <2>1, <2>2, <2>4 DEF Ends
<1>10. f \in Frames
  <2>1. b.mac \in Macs /\ b.flow.src \in Addresses /\ b.flow.sport \in Nat
    BY DEF PathTyped, BoundTyped, Headers
  <2> QED
    BY <1>2, <2>1 DEF Frames
<1>11. Leave(x, f, x.as, Spread(x.at, HostPort(h)))
  BY <1>6
<1> HIDE DEF h, f
<1>12. inbox'[h] # None /\ inbox'[h].as = x.as
  BY <1>2, <1>9, <1>10, <1>11, LeaveArrives
<1> QED
  BY <1>8, <1>12 DEF h

(***************************************************************************)
(* AnswersReturn: on one switch, the answer to each query that the         *)
(* controller gets reaches the host that asked, and each reply for the     *)
(* NAT's address reaches the host that opened the exchange, whatever the   *)
(* controller knows of it.                                                 *)
(***************************************************************************)
THEOREM AnswersGetHome ==
  ASSUME Unlinked, OneAtMost, InsideOpens
  PROVE  NatNetwork => AnswersReturn
<1> DEFINE Return ==
      \A x \in flight :
        Handle(x) /\ x.at \in Known /\ ToController(x) =>
          /\ IsQuery(x.frame) => inbox'[x.as.src] # None /\ inbox'[x.as.src].as = Mirror(x.as)
          /\ x.frame.dst = NatIp /\ x.as.dst \in Inside /\ ~IsQuery(x.frame) =>
               inbox'[x.as.dst] # None /\ inbox'[x.as.dst].as = x.as
<1>1. PathTyped /\ VeilInv /\ NatInv => Return
  BY HandledByController, QueryReturns, ReplyReturns
<1>2. PathTyped /\ VeilInv /\ NatInv => [Return]_pathVars
  BY <1>1
<1> QED
  BY <1>2, NatInvariant, PTL DEF AnswersReturn
=============================================================================
