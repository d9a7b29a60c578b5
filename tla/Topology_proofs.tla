--------------------------- MODULE Topology_proofs ---------------------------
(***************************************************************************)
(* The topology of TopologyCalm, for any number of switches, any wiring    *)
(* and any positive weights.  The entries after an installation are        *)
(* described by constants first (Installed), from what the searches return *)
(* (Routing_proofs); then every action keeps the invariant.                *)
(***************************************************************************)
EXTENDS TopologyCalm, Routing_proofs

-----------------------------------------------------------------------------
(* The graph of the controller's switches and links                        *)

LEMMA NamesApart ==
  None \notin Switch /\ None \notin Access /\ None \notin Mac /\ Access \cap Switch = {}
BY TopologyAssumption

LEMMA GraphSearchable ==
  ASSUME NEW sws, sws \subseteq Switch, NEW ls, ls \subseteq Switch \X Switch
  PROVE  Searchable(Graph(sws, ls))
<1> DEFINE g == Graph(sws, ls)
<1>1. g.node = sws /\ g.edge = Adjacency(ls)
  BY DEF Graph
<1>2. IsFiniteSet(sws) /\ sws \subseteq Nat
  <2>1. IsFiniteSet(Switch) /\ Switch \subseteq Nat
    BY TopologyAssumption
  <2> QED
    BY <2>1, FS_Subset
<1>3. Adjacency(ls) \subseteq Switch \X Switch
  BY DEF Adjacency
<1>4. IsFiniteSet(Switch \X Switch)
  BY TopologyAssumption, FS_Product
<1>5. IsFiniteSet(g.edge) /\ \A e \in g.edge : e = <<e[1], e[2]>>
  BY <1>1, <1>3, <1>4, FS_Subset
<1>6. ASSUME NEW u \in sws, NEW v \in sws PROVE Weight(g, u, v) \in Nat \ {0}
  <2>1. <<u, v>> \in Switch \X Switch
    OBVIOUS
  <2>2. Weight(g, u, v) = IF {u, v} \in Wires THEN LinkWeight[{u, v}] ELSE 1
    BY <2>1 DEF Weight, Graph
  <2>3. {u, v} \in Wires => LinkWeight[{u, v}] \in Nat \ {0}
    BY TopologyAssumption
  <2> QED
    BY <2>2, <2>3
<1> QED
  BY <1>1, <1>2, <1>5, <1>6 DEF Searchable

\* Every link joins two switches.
Joins(sws, ls) == \A l \in ls : {l[1], l[2]} \subseteq sws

LEMMA EdgesJoin ==
  ASSUME NEW sws, NEW ls, ls \subseteq Switch \X Switch, Joins(sws, ls)
  PROVE  \A e \in Adjacency(ls) : e[1] \in sws /\ e[2] \in sws
BY DEF Adjacency, Joins

LEMMA NoneRaises ==
  ASSUME NEW sws, NEW ls, ls \subseteq Switch \X Switch, Joins(sws, ls)
  PROVE  Raising(sws, ls) = {}
<1>1. \A e \in Adjacency(ls) : e[2] \in sws
  BY EdgesJoin
<1>2. Graph(sws, ls).edge = Adjacency(ls) /\ Graph(sws, ls).node = sws
  BY DEF Graph
<1> QED
  BY <1>1, <1>2 DEF Raising, Raises

-----------------------------------------------------------------------------
(* The tables after an installation                                        *)

\* The rest of TopoTypeOK, of the tables that the entries depend on.
TablesTyped(ls, hs) ==
  /\ ls \subseteq Switch \X Switch
  /\ hs \in [Mac -> HostInfo \cup {None}]

LEMMA HostLocated ==
  ASSUME NEW hs \in [Mac -> HostInfo \cup {None}], NEW m \in Located(hs)
  PROVE  m \in Mac /\ hs[m] \in HostInfo /\ hs[m].dpid \in Switch /\ hs[m].port \in Switch \cup Access
BY DEF Located, HostInfo

LEMMA OutPortTyped ==
  ASSUME NEW sws, sws \subseteq Switch, NEW ls, NEW hs, TablesTyped(ls, hs),
         NEW s \in sws, NEW m \in Located(hs)
  PROVE  OutPort(Graph(sws, ls), hs, s, m) \in Switch \cup Access \cup {None}
<1> DEFINE g == Graph(sws, ls)
           t == hs[m].dpid
           run == Dijkstra(g, s)
<1>1. Searchable(g) /\ g.node = sws
  BY GraphSearchable DEF Graph, TablesTyped
<1>2. t \in Switch /\ hs[m].port \in Switch \cup Access
  BY HostLocated DEF TablesTyped
<1> HIDE DEF g, t
<1>3. Solved(g, s, run)
  BY <1>1, DijkstraSolves
<1> HIDE DEF run
<1>4. CASE t = s \/ t \notin g.node \/ run.dist[t] = None
  <2>1. NextHop(run.prev, s, t) = None
    BY <1>1, <1>3, <1>4, NoNextHop DEF Solved
  <2> QED
    BY <1>2, <2>1 DEF OutPort, g, t, run
<1>5. CASE ~(t = s \/ t \notin g.node \/ run.dist[t] = None)
  <2>1. NextHop(run.prev, s, t) \in g.node
    BY <1>1, <1>3, <1>5, NextHopDescends
  <2> QED
    BY <1>1, <1>2, <2>1 DEF OutPort, g, t, run
<1> QED
  BY <1>4, <1>5

\* What an installation that does not raise makes of the entries fl.
Installed(sws, ls, hs, fl) ==
  [s \in Switch |-> [m \in Mac |->
     IF <<s, m>> \in Wanted(sws, hs) /\ OutPort(Graph(sws, ls), hs, s, m) # None
       THEN OutPort(Graph(sws, ls), hs, s, m) ELSE fl[s][m]]]

LEMMA InstallTyped ==
  ASSUME flows \in [Switch -> [Mac -> Switch \cup Access \cup {None}]],
         NEW sws, sws \subseteq Switch, NEW ls, NEW hs, TablesTyped(ls, hs),
         NEW printed, Install(printed, sws, ls, hs)
  PROVE  flows' \in [Switch -> [Mac -> Switch \cup Access \cup {None}]]
<1> DEFINE g == Graph(sws, ls)
           failing == Failing(sws, ls, hs)
           D == Wanted(sws, hs) \ failing
           port == [p \in D |-> OutPort(g, hs, p[1], p[2])]
           Ports == Switch \cup Access \cup {None}
<1>1. CASE UNCHANGED flows
  BY <1>1
<1>2. CASE \E done \in SUBSET D :
             flows' = [s \in Switch |-> [m \in Mac |->
               IF <<s, m>> \in done /\ port[<<s, m>>] # None THEN port[<<s, m>>] ELSE flows[s][m]]]
  <2>1. PICK done \in SUBSET D :
          flows' = [s \in Switch |-> [m \in Mac |->
               IF <<s, m>> \in done /\ port[<<s, m>>] # None THEN port[<<s, m>>] ELSE flows[s][m]]]
    BY <1>2
  <2>2. ASSUME NEW s \in Switch, NEW m \in Mac, <<s, m>> \in done
        PROVE  port[<<s, m>>] \in Ports
    <3>1. s \in sws /\ m \in Located(hs) /\ <<s, m>> \in D
      BY <2>2 DEF Wanted
    <3>2. port[<<s, m>>] = OutPort(g, hs, s, m)
      BY <3>1
    <3> QED
      BY <3>1, <3>2, OutPortTyped
  <2> HIDE DEF port, Ports
  <2>3. flows \in [Switch -> [Mac -> Ports]]
    BY DEF Ports
  <2>4. flows' \in [Switch -> [Mac -> Ports]]
    BY <2>1, <2>2, <2>3
  <2> QED
    BY <2>4 DEF Ports
<1>3. DOMAIN port = D
  OBVIOUS
<1>4. CASE printed \cap Raising(sws, ls) # {}
  BY <1>1, <1>4, Zenon DEF Install
<1>5. CASE printed \cap Raising(sws, ls) = {} /\ failing = {}
  <2>1. flows' = [s \in Switch |-> [m \in Mac |->
          IF <<s, m>> \in DOMAIN port /\ port[<<s, m>>] # None THEN port[<<s, m>>]
          ELSE flows[s][m]]]
    BY <1>5, Zenon DEF Install
  <2> QED
    BY <1>2, <1>3, <2>1, Zenon
<1>6. CASE printed \cap Raising(sws, ls) = {} /\ failing # {}
  <2>1. \E done \in SUBSET DOMAIN port :
          flows' = [s \in Switch |-> [m \in Mac |->
            IF <<s, m>> \in done /\ port[<<s, m>>] # None THEN port[<<s, m>>]
            ELSE flows[s][m]]]
    BY <1>6, Zenon DEF Install
  <2> QED
    BY <1>2, <1>3, <2>1, Zenon
<1> QED
  BY <1>4, <1>5, <1>6

LEMMA InstallWrites ==
  ASSUME flows \in [Switch -> [Mac -> Switch \cup Access \cup {None}]],
         NEW sws, sws \subseteq Switch, NEW ls, NEW hs, TablesTyped(ls, hs), Joins(sws, ls),
         NEW printed, Install(printed, sws, ls, hs)
  PROVE  flows' = Installed(sws, ls, hs, flows)
<1> DEFINE g == Graph(sws, ls)
           D == Wanted(sws, hs)
           port == [p \in D |-> OutPort(g, hs, p[1], p[2])]
<1>1. Raising(sws, ls) = {}
  BY NoneRaises DEF TablesTyped
<1>2. Failing(sws, ls, hs) = {} /\ D \ {} = D /\ printed \cap Raising(sws, ls) = {}
  BY <1>1 DEF Failing
<1>3. flows' = [s \in Switch |-> [m \in Mac |->
               IF <<s, m>> \in D /\ port[<<s, m>>] # None THEN port[<<s, m>>] ELSE flows[s][m]]]
  BY <1>2 DEF Install
<1>4. \A s, m : <<s, m>> \in D => port[<<s, m>>] = OutPort(g, hs, s, m)
  OBVIOUS
<1> HIDE DEF port
<1> QED
  BY <1>3, <1>4 DEF Installed

-----------------------------------------------------------------------------
(* No loop in the entries                                                  *)

\* No set of switches hands the packets of m on within itself.
LoopFree(fl) ==
  \A m \in Mac, S \in SUBSET Switch : S # {} => \E s \in S : fl[s][m] \notin S

(***************************************************************************)
(* An entry that leads from one switch to another leads to a switch that   *)
(* gets an entry too, and is nearer to the host.                           *)
(***************************************************************************)
LEMMA OutPortDescends ==
  ASSUME NEW sws, sws \subseteq Switch, NEW ls, NEW hs, TablesTyped(ls, hs),
         NEW m \in Located(hs), hs[m].port \in Access, NEW s \in sws,
         LET p == OutPort(Graph(sws, ls), hs, s, m) IN p # None /\ p \in Switch
  PROVE  LET g == Graph(sws, ls)
             p == OutPort(g, hs, s, m)
             t == hs[m].dpid
         IN /\ p \in sws /\ t \in sws /\ OutPort(g, hs, p, m) # None
            /\ Dijkstra(g, s).dist[t] \in Nat /\ Dijkstra(g, p).dist[t] \in Nat
            /\ Dijkstra(g, p).dist[t] < Dijkstra(g, s).dist[t]
<1> DEFINE g == Graph(sws, ls)
           t == hs[m].dpid
           run == Dijkstra(g, s)
           p == OutPort(g, hs, s, m)
           other == Dijkstra(g, p)
<1>1. Searchable(g) /\ g.node = sws
  BY GraphSearchable DEF Graph, TablesTyped
<1>2. t # s /\ p = NextHop(run.prev, s, t)
  BY NamesApart DEF OutPort
<1>3. p # None
  OBVIOUS
<1>4. hs[m].port # None
  BY NamesApart
<1> HIDE DEF g, t
<1>5. Solved(g, s, run)
  BY <1>1, DijkstraSolves
<1> HIDE DEF run, p
<1>6. t \in g.node /\ run.dist[t] # None
  BY <1>1, <1>2, <1>3, <1>5, NoNextHop DEF Solved
<1>7. /\ p \in g.node /\ <<s, p>> \in g.edge
      /\ \A o : Solved(g, p, o) => o.dist[t] \in Nat /\ o.dist[t] + Weight(g, s, p) <= run.dist[t]
  BY <1>1, <1>2, <1>5, <1>6, NextHopDescends
<1>8. Solved(g, p, other)
  BY <1>1, <1>7, DijkstraSolves
<1> HIDE DEF other
<1>9. other.dist[t] \in Nat /\ other.dist[t] + Weight(g, s, p) <= run.dist[t]
  BY <1>7, <1>8
<1>10. run.dist[t] \in Nat
  BY <1>5, <1>6 DEF Solved, Recorded
<1>11. Weight(g, s, p) \in Nat \ {0}
  BY <1>1, <1>7 DEF Searchable
<1>12. other.dist[t] < run.dist[t]
  BY <1>9, <1>10, <1>11
<1>13. OutPort(g, hs, p, m) # None
  <2>1. CASE p = t
    BY <1>4, <2>1 DEF OutPort, t
  <2>2. CASE p # t
    <3>1. other.dist[t] # None
      BY <1>9, RoutingAssumption
    <3>2. NextHop(other.prev, p, t) \in g.node
      BY <1>1, <1>6, <1>7, <1>8, <2>2, <3>1, NextHopDescends
    <3>3. None \notin g.node
      BY <1>1, NamesApart
    <3> QED
      BY <2>2, <3>2, <3>3 DEF OutPort, t, other
  <2> QED
    BY <2>1, <2>2
<1> QED
  BY <1>1, <1>6, <1>7, <1>9, <1>10, <1>12, <1>13 DEF g, t, run, p, other

LEMMA InstalledLoopFree ==
  ASSUME NEW sws, sws \subseteq Switch, NEW ls, NEW hs, TablesTyped(ls, hs),
         \A m \in Located(hs) : hs[m].port \in Access,
         NEW fl, LoopFree(fl)
  PROVE  LoopFree(Installed(sws, ls, hs, fl))
<1> DEFINE g == Graph(sws, ls)
           new == Installed(sws, ls, hs, fl)
<1>1. SUFFICES ASSUME NEW m \in Mac, NEW S \in SUBSET Switch, S # {},
                      \A s \in S : new[s][m] \in S
               PROVE  FALSE
  BY DEF LoopFree
<1> DEFINE Out(s) == OutPort(g, hs, s, m)
           Fresh == {s \in S : <<s, m>> \in Wanted(sws, hs) /\ Out(s) # None}
<1>2. ASSUME NEW s \in S
      PROVE  new[s][m] = IF s \in Fresh THEN Out(s) ELSE fl[s][m]
  BY DEF Installed
<1>3. \A s, p \in S : s \in Fresh /\ p \in sws /\ Out(p) # None => p \in Fresh
  BY DEF Wanted
<1>4. \A s \in Fresh : s \in S /\ s \in sws /\ m \in Located(hs) /\ Out(s) # None
  BY DEF Wanted
<1> HIDE DEF new, Fresh
<1>5. CASE Fresh = {}
  <2>1. \A s \in S : fl[s][m] \in S
    BY <1>1, <1>2, <1>5
  <2> QED
    BY <1>1, <2>1 DEF LoopFree
<1>6. CASE Fresh # {}
  <2> DEFINE t == hs[m].dpid
             D(s) == Dijkstra(g, s).dist[t]
             Ds == {D(s) : s \in Fresh}
  <2>1. ASSUME NEW s \in Fresh
        PROVE  Out(s) \in Fresh /\ D(s) \in Nat /\ D(Out(s)) < D(s)
    <3>1. s \in sws /\ s \in S /\ m \in Located(hs) /\ Out(s) # None /\ Out(s) \in S
      BY <1>1, <1>2, <1>4
    <3>2. Out(s) \in Switch /\ hs[m].port \in Access
      BY <3>1
    <3>3. Out(s) \in sws /\ Out(Out(s)) # None /\ D(s) \in Nat /\ D(Out(s)) < D(s)
      BY <3>1, <3>2, OutPortDescends
    <3> QED
      BY <1>3, <3>1, <3>3
  <2> HIDE DEF Out, D
  <2>2. Ds \subseteq Nat /\ Ds # {}
    BY <1>6, <2>1
  <2>3. PICK n \in Ds : \A k \in Ds : n <= k
    <3> HIDE DEF Ds
    <3> QED
      BY <2>2, LeastNat
  <2>4. PICK s \in Fresh : n = D(s)
    BY <2>3
  <2>5. D(Out(s)) \in Ds /\ D(Out(s)) \in Nat /\ D(s) \in Nat /\ D(Out(s)) < D(s)
    BY <2>1, <2>4
  <2>6. D(s) <= D(Out(s))
    BY <2>3, <2>4, <2>5
  <2> QED
    BY <2>5, <2>6
<1> QED
  BY <1>5, <1>6

-----------------------------------------------------------------------------
(* The entries lead along shortest paths                                   *)

\* FlowsFollowTopology, of given tables.
Follows(ph, ls, hs, fl) ==
  LET g == Graph(SwitchesOf(ph), ls) IN
  \A m \in Located(hs), s \in SwitchesOf(ph) :
    ph[s] = "entered" /\ ~Skipped(hs, m) =>
      IF s = hs[m].dpid THEN fl[s][m] = hs[m].port
      ELSE hs[m].dpid \in SwitchesOf(ph) /\ Distances(g)[s][hs[m].dpid] # None =>
             /\ <<s, fl[s][m]>> \in g.edge
             /\ Distances(g)[s][hs[m].dpid] =
                  Weight(g, s, fl[s][m]) + Distances(g)[fl[s][m]][hs[m].dpid]

LEMMA InstalledFollows ==
  ASSUME NEW ph, NEW ls, NEW hs, TablesTyped(ls, hs),
         \A m \in Located(hs) : hs[m].port \in Access, NEW fl
  PROVE  Follows(ph, ls, hs, Installed(SwitchesOf(ph), ls, hs, fl))
<1> DEFINE sws == SwitchesOf(ph)
           g == Graph(sws, ls)
           new == Installed(sws, ls, hs, fl)
<1>1. sws \subseteq Switch /\ g.node = sws
  BY DEF SwitchesOf, Graph
<1>2. Searchable(g)
  BY <1>1, GraphSearchable DEF TablesTyped
<1>3. SUFFICES ASSUME NEW m \in Located(hs), NEW s \in sws, ~Skipped(hs, m)
      PROVE  IF s = hs[m].dpid THEN new[s][m] = hs[m].port
             ELSE hs[m].dpid \in sws /\ Distances(g)[s][hs[m].dpid] # None =>
                    /\ <<s, new[s][m]>> \in g.edge
                    /\ Distances(g)[s][hs[m].dpid] =
                         Weight(g, s, new[s][m]) + Distances(g)[new[s][m]][hs[m].dpid]
  BY DEF Follows
<1> HIDE DEF g
<1> DEFINE t == hs[m].dpid
           p == OutPort(g, hs, s, m)
<1>4. m \in Mac /\ s \in Switch /\ <<s, m>> \in Wanted(sws, hs)
  BY <1>1, <1>3, HostLocated DEF Wanted, TablesTyped
<1>5. p # None => new[s][m] = p
  BY <1>4 DEF Installed, g
<1> HIDE DEF new, sws
<1>6. CASE s = t
  <2>1. p = hs[m].port
    BY <1>6 DEF OutPort
  <2>2. hs[m].port # None
    BY NamesApart
  <2> QED
    BY <1>5, <1>6, <2>1, <2>2
<1>7. CASE s # t
  <2>1. SUFFICES ASSUME t \in sws, Distances(g)[s][t] # None
                 PROVE  /\ <<s, new[s][m]>> \in g.edge
                        /\ Distances(g)[s][t] =
                             Weight(g, s, new[s][m]) + Distances(g)[new[s][m]][t]
    BY <1>7
  <2>2. p = NextHop(Dijkstra(g, s).prev, s, t)
    BY <1>7 DEF OutPort
  <2> HIDE DEF t, p
  <2>3. /\ p \in g.node /\ <<s, p>> \in g.edge
        /\ Distances(g)[s][t] = Weight(g, s, p) + Distances(g)[p][t]
    <3> DEFINE run == Dijkstra(g, s)
    <3>1. s \in g.node /\ t \in g.node
      BY <1>1, <2>1
    <3>2. Solved(g, s, run)
      BY <1>2, <3>1, DijkstraSolves
    <3> HIDE DEF run
    <3>3. LET h == NextHop(run.prev, s, t) IN
          /\ h \in g.node /\ <<s, h>> \in g.edge
          /\ Distances(g)[s][t] = Weight(g, s, h) + Distances(g)[h][t]
      BY <1>2, <1>7, <2>1, <3>1, <3>2, HopOnShortestPath
    <3> QED
      BY <2>2, <3>3 DEF run
  <2>4. p # None
    BY <1>1, <2>3, NamesApart
  <2> QED
    BY <1>5, <2>3, <2>4
<1> QED
  BY <1>6, <1>7

-----------------------------------------------------------------------------
(* Types                                                                   *)

LEMMA ReinstallTyped ==
  ASSUME TopoTypeOK, TablesTyped(links', hosts'), Reinstall
  PROVE  flows' \in [Switch -> [Mac -> Switch \cup Access \cup {None}]]
<1>1. SwitchesOf(phase') \subseteq Switch
  BY DEF SwitchesOf
<1>2. PICK printed : Install(printed, SwitchesOf(phase'), links', hosts')
  BY DEF Reinstall
<1>3. flows \in [Switch -> [Mac -> Switch \cup Access \cup {None}]]
  BY DEF TopoTypeOK
<1> QED
  BY <1>1, <1>2, <1>3, InstallTyped

LEMMA LocateTyped ==
  ASSUME TopoTypeOK, NEW m \in Mac, NEW i \in Ip, NEW s \in Switch, NEW p \in Switch \cup Access,
         Locate(m, i, s, p), links' = links
  PROVE  /\ hosts' \in [Mac -> HostInfo \cup {None}]
         /\ ipToMac' \in [Ip -> Mac \cup {None}]
         /\ flows' \in [Switch -> [Mac -> Switch \cup Access \cup {None}]]
<1>1. [ip |-> i, dpid |-> s, port |-> p] \in HostInfo
  BY DEF HostInfo
<1>2. hosts' \in [Mac -> HostInfo \cup {None}] /\ ipToMac' \in [Ip -> Mac \cup {None}]
  BY <1>1 DEF Locate, TopoTypeOK
<1>3. TablesTyped(links', hosts')
  BY <1>2 DEF TablesTyped, TopoTypeOK
<1> QED
  BY <1>2, <1>3, ReinstallTyped DEF Locate

LEMMA ForgetTyped ==
  ASSUME TopoTypeOK, NEW ms, ForgetHosts(ms)
  PROVE  /\ hosts' \in [Mac -> HostInfo \cup {None}]
         /\ ipToMac' \in [Ip -> Mac \cup {None}]
BY DEF ForgetHosts, TopoTypeOK

\* What a host is plugged in to.
LEMMA PlaceTyped ==
  ASSUME TopoTypeOK, NEW m \in Mac
  PROVE  place[m].dpid \in Switch /\ place[m].port \in Access
<1>1. place[m] \in Sockets
  BY DEF TopoTypeOK
<1>2. Sockets \subseteq [dpid : Switch, port : Access]
  BY TopologyAssumption
<1> QED
  BY <1>1, <1>2

LEMMA RegisterTyped ==
  ASSUME TopoTypeOK, NEW m \in Mac, NEW i \in Ip, NEW s \in Switch, NEW p \in Switch \cup Access,
         RegisterArpHost(m, i, s, p), links' = links
  PROVE  /\ hosts' \in [Mac -> HostInfo \cup {None}]
         /\ ipToMac' \in [Ip -> Mac \cup {None}]
         /\ flows' \in [Switch -> [Mac -> Switch \cup Access \cup {None}]]
<1>1. CASE UNCHANGED <<hosts, ipToMac, flows>>
  BY <1>1 DEF TopoTypeOK
<1>2. CASE Locate(m, i, s, p)
  BY <1>2, LocateTyped
<1> QED
  BY <1>1, <1>2 DEF RegisterArpHost

LEMMA TypeStep ==
  ASSUME TopoTypeOK, TopoNext \/ \E s, t \in Switch : ProbeLost(s, t)
  PROVE  TopoTypeOK'
<1> USE DEF networkVars
<1>1. ASSUME NEW s \in Switch, Features(s) PROVE TopoTypeOK'
  BY <1>1 DEF Features, TopoTypeOK
<1>2. ASSUME NEW s \in Switch, Enter(s) PROVE TopoTypeOK'
  <2>1. PICK printed : Install(printed, SwitchesOf(phase'), links, hosts)
    BY <1>2 DEF Enter
  <2>2. SwitchesOf(phase') \subseteq Switch /\ TablesTyped(links, hosts)
    BY DEF SwitchesOf, TopoTypeOK, TablesTyped
  <2>3. flows' \in [Switch -> [Mac -> Switch \cup Access \cup {None}]]
    BY <2>1, <2>2, InstallTyped DEF TopoTypeOK
  <2>4. probers' \in 0..MaxProbers
    <3>1. MaxProbers \in Nat
      BY TopologyAssumption
    <3>2. probers' = probers \/ (probers < MaxProbers /\ probers' = probers + 1)
      BY <1>2 DEF Enter
    <3> QED
      BY <3>1, <3>2 DEF TopoTypeOK
  <2> QED
    BY <1>2, <2>3, <2>4 DEF Enter, TopoTypeOK
<1>3. ASSUME NEW s \in Switch, Leave(s) PROVE TopoTypeOK'
  <2>1. changes' \in 0..MaxChanges
    <3>1. MaxChanges \in Nat
      BY TopologyAssumption
    <3> QED
      BY <1>3, <3>1 DEF Leave, TopoTypeOK
  <2>2. links' \subseteq Switch \X Switch
    BY <1>3 DEF Leave, TopoTypeOK
  <2>3. hosts' \in [Mac -> HostInfo \cup {None}] /\ ipToMac' \in [Ip -> Mac \cup {None}]
    BY <1>3, ForgetTyped DEF Leave
  <2>4. flows' \in [Switch -> [Mac -> Switch \cup Access \cup {None}]]
    BY <1>3, <2>2, <2>3, ReinstallTyped DEF Leave, TablesTyped
  <2> QED
    BY <1>3, <2>1, <2>2, <2>3, <2>4 DEF Leave, TopoTypeOK
<1>4. ASSUME NEW s \in Switch, NEW t \in Switch, LinkAdd(s, t) \/ LinkDelete(s, t)
      PROVE  TopoTypeOK'
  <2>1. links' \subseteq Switch \X Switch /\ hosts' = hosts
    BY <1>4 DEF LinkAdd, LinkDelete, TopoTypeOK
  <2>2. flows' \in [Switch -> [Mac -> Switch \cup Access \cup {None}]]
    BY <1>4, <2>1, ReinstallTyped DEF LinkAdd, LinkDelete, TopoTypeOK, TablesTyped
  <2> QED
    BY <1>4, <2>1, <2>2 DEF LinkAdd, LinkDelete, TopoTypeOK
<1>5. ASSUME NEW s \in Switch, NEW t \in Switch, ProbeSent(s, t) PROVE TopoTypeOK'
  BY <1>5 DEF ProbeSent, TopoTypeOK
<1>6. ASSUME NEW s \in Switch, NEW p \in Switch \cup Access, PortDown(s, p)
      PROVE  TopoTypeOK'
  <2>1. links' \subseteq Switch \X Switch
    BY <1>6 DEF PortDown, TopoTypeOK
  <2>2. hosts' \in [Mac -> HostInfo \cup {None}] /\ ipToMac' \in [Ip -> Mac \cup {None}]
    BY <1>6, ForgetTyped DEF PortDown
  <2>3. flows' \in [Switch -> [Mac -> Switch \cup Access \cup {None}]]
    BY <1>6, <2>1, <2>2, ReinstallTyped DEF PortDown, TablesTyped
  <2> QED
    BY <1>6, <2>1, <2>2, <2>3 DEF PortDown, TopoTypeOK
<1>7. ASSUME NEW s \in Switch, NEW p \in Switch \cup Access, PortLinkDown(s, p)
      PROVE  TopoTypeOK'
  <2>1. links' \subseteq Switch \X Switch /\ hosts' = hosts
    BY <1>7 DEF PortLinkDown, TopoTypeOK
  <2>2. flows' \in [Switch -> [Mac -> Switch \cup Access \cup {None}]]
    BY <1>7, <2>1, ReinstallTyped DEF PortLinkDown, TopoTypeOK, TablesTyped
  <2> QED
    BY <1>7, <2>1, <2>2 DEF PortLinkDown, TopoTypeOK
<1>8. ASSUME NEW m \in Mac, NEW i \in Ip, HostAdd(m, i) PROVE TopoTypeOK'
  <2>1. /\ hosts' \in [Mac -> HostInfo \cup {None}] /\ ipToMac' \in [Ip -> Mac \cup {None}]
        /\ flows' \in [Switch -> [Mac -> Switch \cup Access \cup {None}]]
    BY <1>8, PlaceTyped, LocateTyped DEF HostAdd
  <2> QED
    BY <1>8, <2>1 DEF HostAdd, TopoTypeOK
<1>9. ASSUME NEW m \in Mac, NEW i \in Ip, ArpHeard(m, i) PROVE TopoTypeOK'
  <2>1. /\ hosts' \in [Mac -> HostInfo \cup {None}] /\ ipToMac' \in [Ip -> Mac \cup {None}]
        /\ flows' \in [Switch -> [Mac -> Switch \cup Access \cup {None}]]
    BY <1>9, PlaceTyped, RegisterTyped DEF ArpHeard
  <2> QED
    BY <1>9, <2>1 DEF ArpHeard, TopoTypeOK
<1>10. ASSUME NEW s \in Switch, NEW t \in Switch, ProbeArrives(s, t) PROVE TopoTypeOK'
  <2>1. links' \subseteq Switch \X Switch /\ hosts' = hosts
    BY <1>10 DEF ProbeArrives, TopoTypeOK
  <2>2. flows' \in [Switch -> [Mac -> Switch \cup Access \cup {None}]]
    <3>1. CASE UNCHANGED flows
      BY <3>1 DEF TopoTypeOK
    <3>2. CASE Reinstall
      BY <2>1, <3>2, ReinstallTyped DEF TopoTypeOK, TablesTyped
    <3> QED
      BY <1>10, <3>1, <3>2 DEF ProbeArrives
  <2> QED
    BY <1>10, <2>1, <2>2 DEF ProbeArrives, TopoTypeOK
<1>11. ASSUME NEW i \in Ip, NEW s \in Switch, NEW t \in Switch, ArpProbeAnswered(i, s, t)
       PROVE  TopoTypeOK'
  <2>1. ipToMac[i] \in Mac
    BY <1>11 DEF ArpProbeAnswered, TopoTypeOK
  <2>2. /\ hosts' \in [Mac -> HostInfo \cup {None}] /\ ipToMac' \in [Ip -> Mac \cup {None}]
        /\ flows' \in [Switch -> [Mac -> Switch \cup Access \cup {None}]]
    BY <1>11, <2>1, RegisterTyped DEF ArpProbeAnswered
  <2> QED
    BY <1>11, <2>2 DEF ArpProbeAnswered, TopoTypeOK
<1>12. ASSUME Environment PROVE TopoTypeOK'
  <2>1. changes' \in 0..MaxChanges
    <3>1. MaxChanges \in Nat
      BY TopologyAssumption
    <3> QED
      BY <1>12, <3>1 DEF Environment, TopoTypeOK
  <2>2. up' \subseteq Wires /\ place' \in [Mac -> Sockets]
    BY <1>12 DEF Environment, Cut, Mend, Replug, TopoTypeOK
  <2> QED
    BY <1>12, <2>1, <2>2 DEF Environment, TopoTypeOK
<1>13. ASSUME NEW s \in Switch, NEW t \in Switch, ProbeLost(s, t) PROVE TopoTypeOK'
  BY <1>13 DEF ProbeLost, TopoTypeOK
<1> QED
  BY <1>1, <1>2, <1>3, <1>4, <1>5, <1>6, <1>7, <1>8, <1>9, <1>10, <1>11, <1>12, <1>13
  DEF TopoNext, Handlers

LEMMA TypeBegins == TopoInit => TopoTypeOK
<1>1. MaxChanges \in Nat /\ MaxProbers \in Nat
  BY TopologyAssumption
<1> QED
  BY <1>1 DEF TopoInit, NetworkInit, NothingKnown, NoSwitches, TopoTypeOK

-----------------------------------------------------------------------------
(* A switch that no link joins                                             *)

LEMMA Apart ==
  ASSUME NEW g, Searchable(g), NEW more, Searchable(more),
         g.node \subseteq more.node, more.edge = g.edge,
         \A e \in g.edge : e[1] \in g.node /\ e[2] \in g.node,
         \A u, v : Weight(more, u, v) = Weight(g, u, v),
         NEW s \in g.node
  PROVE  /\ \A t \in g.node : Distances(more)[s][t] = Distances(g)[s][t]
         /\ \A t \in more.node \ g.node : Distances(more)[s][t] = None
<1> DEFINE run == Dijkstra(more, s)
           part == [dist |-> [v \in g.node |-> run.dist[v]],
                    prev |-> [v \in g.node |-> run.prev[v]]]
<1>1. Solved(more, s, run)
  BY DijkstraSolves
<1> HIDE DEF run
<1>2. ASSUME NEW v \in more.node, run.prev[v] # None
      PROVE  v \in g.node /\ run.prev[v] \in g.node
  <2>1. <<run.prev[v], v>> \in g.edge
    BY <1>1, <1>2 DEF Solved, Recorded
  <2> QED
    BY <2>1
<1>3. Solved(g, s, part)
  <2>1. /\ part = [dist |-> part.dist, prev |-> part.prev]
        /\ \A v \in g.node : part.dist[v] = run.dist[v] /\ part.prev[v] = run.prev[v]
        /\ part.dist \in [g.node -> Nat \cup {None}]
        /\ part.prev \in [g.node -> g.node \cup {None}]
    BY <1>1, <1>2 DEF Solved, Recorded
  <2> HIDE DEF part
  <2>2. \A v \in g.node : v \in more.node
    OBVIOUS
  <2>3. Recorded(g, s, part)
    BY <1>1, <1>2, <2>1, <2>2 DEF Solved, Recorded
  <2>4. Settled(g, part.dist, {u \in g.node : part.dist[u] # None})
    BY <1>1, <2>1, <2>2 DEF Solved, Settled
  <2> QED
    BY <2>3, <2>4 DEF Solved
<1>4. ASSUME NEW t \in g.node PROVE Distances(more)[s][t] = Distances(g)[s][t]
  <2>1. t \in more.node /\ part.dist[t] = run.dist[t]
    OBVIOUS
  <2> HIDE DEF part
  <2>2. Distances(g)[s][t] = part.dist[t]
    BY <1>3, SolvedIsShortest
  <2>3. Distances(more)[s][t] = run.dist[t]
    BY <1>1, <2>1, SolvedIsShortest
  <2> QED
    BY <2>1, <2>2, <2>3
<1>5. ASSUME NEW t \in more.node \ g.node PROVE Distances(more)[s][t] = None
  <2>1. run.dist[t] = None
    BY <1>1, <1>2 DEF Solved, Recorded
  <2> QED
    BY <1>1, <2>1, SolvedIsShortest
<1> QED
  BY <1>4, <1>5

\* A switch that has just been seen gets its links and its entries later.
LEMMA FollowsWithMore ==
  ASSUME NEW ph, NEW ph2, NEW s0 \in Switch, ph[s0] = "down", ph2[s0] = "known",
         \A s \in Switch \ {s0} : ph2[s] = ph[s],
         NEW ls, NEW hs, TablesTyped(ls, hs), Joins(SwitchesOf(ph), ls),
         NEW fl, NEW fl2, \A s \in Switch \ {s0} : fl2[s] = fl[s],
         Follows(ph, ls, hs, fl)
  PROVE  Follows(ph2, ls, hs, fl2)
<1> DEFINE g == Graph(SwitchesOf(ph), ls)
           more == Graph(SwitchesOf(ph2), ls)
<1>1. SwitchesOf(ph2) = SwitchesOf(ph) \cup {s0} /\ s0 \notin SwitchesOf(ph)
      /\ SwitchesOf(ph) \subseteq Switch
  BY DEF SwitchesOf
<1>2. /\ g.node = SwitchesOf(ph) /\ more.node = SwitchesOf(ph2)
      /\ g.edge = Adjacency(ls) /\ more.edge = Adjacency(ls)
      /\ \A u, v : Weight(more, u, v) = Weight(g, u, v)
  BY DEF Graph, Weight
<1>3. Searchable(g) /\ Searchable(more)
  BY <1>1, GraphSearchable DEF TablesTyped
<1>4. \A e \in Adjacency(ls) : e[1] \in SwitchesOf(ph) /\ e[2] \in SwitchesOf(ph)
  BY EdgesJoin DEF TablesTyped
<1> SUFFICES ASSUME NEW m \in Located(hs), NEW s \in SwitchesOf(ph2),
                    ph2[s] = "entered", ~Skipped(hs, m)
             PROVE  IF s = hs[m].dpid THEN fl2[s][m] = hs[m].port
                    ELSE hs[m].dpid \in SwitchesOf(ph2) /\ Distances(more)[s][hs[m].dpid] # None =>
                           /\ <<s, fl2[s][m]>> \in more.edge
                           /\ Distances(more)[s][hs[m].dpid] =
                                Weight(more, s, fl2[s][m]) + Distances(more)[fl2[s][m]][hs[m].dpid]
  BY DEF Follows
<1> DEFINE t == hs[m].dpid
           p == fl[s][m]
<1>5. s \in SwitchesOf(ph) /\ fl2[s] = fl[s] /\ ph[s] = "entered"
  BY <1>1
<1>6. IF s = t THEN p = hs[m].port
      ELSE t \in SwitchesOf(ph) /\ Distances(g)[s][t] # None =>
             /\ <<s, p>> \in g.edge
             /\ Distances(g)[s][t] = Weight(g, s, p) + Distances(g)[p][t]
  BY <1>5 DEF Follows
<1> HIDE DEF g, more
<1>7. ASSUME NEW u \in g.node
      PROVE  /\ \A v \in g.node : Distances(more)[u][v] = Distances(g)[u][v]
             /\ \A v \in more.node \ g.node : Distances(more)[u][v] = None
  BY <1>1, <1>2, <1>3, <1>4, Apart
<1>8. CASE s = t
  BY <1>5, <1>6, <1>8
<1>9. CASE s # t /\ t \in SwitchesOf(ph2) /\ Distances(more)[s][t] # None
  <2>1. t \in g.node
    BY <1>2, <1>5, <1>7, <1>9
  <2>2. Distances(g)[s][t] # None
    BY <1>2, <1>5, <1>7, <1>9, <2>1
  <2>3. <<s, p>> \in g.edge /\ Distances(g)[s][t] = Weight(g, s, p) + Distances(g)[p][t]
    BY <1>2, <1>6, <1>9, <2>1, <2>2
  <2>4. p \in g.node
    BY <1>2, <1>4, <2>3
  <2>5. /\ Distances(more)[s][t] = Distances(g)[s][t]
        /\ Distances(more)[p][t] = Distances(g)[p][t]
    BY <1>2, <1>5, <1>7, <2>1, <2>4
  <2> QED
    BY <1>2, <1>5, <1>9, <2>3, <2>5
<1> QED
  BY <1>8, <1>9

-----------------------------------------------------------------------------
(* The calm network                                                        *)

(***************************************************************************)
(* What the entries of CalmSpec rest on: a probe waits for a switch that   *)
(* is there to have received it, and a host is at a host's port, as only   *)
(* the DHCP server's probes, answered, put one at a link's.                *)
(***************************************************************************)
Awaited(ph, qd) == \A p \in qd : ph[p[2]] # "down"
AtPorts(hs) == \A m \in Located(hs) : hs[m].port \in Access

CalmInv ==
  /\ TopoTypeOK
  /\ Joins(SwitchesOf(phase), links)
  /\ Awaited(phase, queued)
  /\ AtPorts(hosts)
  /\ LoopFree(flows)
  /\ Follows(phase, links, hosts, flows)

LEMMA InstallKeeps ==
  ASSUME TopoTypeOK, LoopFree(flows), NEW ph, NEW ls, NEW hs, TablesTyped(ls, hs),
         Joins(SwitchesOf(ph), ls), AtPorts(hs),
         NEW printed, Install(printed, SwitchesOf(ph), ls, hs)
  PROVE  LoopFree(flows') /\ Follows(ph, ls, hs, flows')
<1>1. SwitchesOf(ph) \subseteq Switch
  BY DEF SwitchesOf
<1>2. flows' = Installed(SwitchesOf(ph), ls, hs, flows)
  BY <1>1, InstallWrites DEF TopoTypeOK
<1>3. LoopFree(Installed(SwitchesOf(ph), ls, hs, flows))
  BY <1>1, InstalledLoopFree DEF AtPorts
<1>4. Follows(ph, ls, hs, Installed(SwitchesOf(ph), ls, hs, flows))
  BY InstalledFollows DEF AtPorts
<1> QED
  BY <1>2, <1>3, <1>4

LEMMA ReinstallKeeps ==
  ASSUME CalmInv, TopoTypeOK', Joins(SwitchesOf(phase'), links'),
         Awaited(phase', queued'), AtPorts(hosts'), Reinstall
  PROVE  CalmInv'
<1>1. TablesTyped(links', hosts')
  BY DEF TopoTypeOK, TablesTyped
<1>2. PICK printed : Install(printed, SwitchesOf(phase'), links', hosts')
  BY DEF Reinstall
<1>3. LoopFree(flows') /\ Follows(phase', links', hosts', flows')
  BY <1>1, <1>2, InstallKeeps DEF CalmInv
<1> QED
  BY <1>3 DEF CalmInv

LEMMA LocateKeeps ==
  ASSUME CalmInv, TopoTypeOK', NEW m \in Mac, NEW i, NEW s, NEW p \in Access,
         Locate(m, i, s, p), UNCHANGED <<phase, links, queued>>
  PROVE  CalmInv'
<1>1. hosts \in [Mac -> HostInfo \cup {None}]
      /\ hosts' = [hosts EXCEPT ![m] = [ip |-> i, dpid |-> s, port |-> p]]
  BY DEF CalmInv, TopoTypeOK, Locate
<1>2. \A n \in Mac : hosts'[n] = IF n = m THEN [ip |-> i, dpid |-> s, port |-> p] ELSE hosts[n]
  BY <1>1
<1>3. AtPorts(hosts')
  BY <1>2 DEF AtPorts, Located, CalmInv
<1> QED
  BY <1>3, ReinstallKeeps DEF Locate, CalmInv

LEMMA ForgetKeepsPorts ==
  ASSUME AtPorts(hosts), NEW ms, ForgetHosts(ms)
  PROVE  AtPorts(hosts')
BY DEF AtPorts, ForgetHosts, Located

LEMMA CalmBegins == TopoInit => CalmInv
<1> SUFFICES ASSUME TopoInit PROVE CalmInv
  OBVIOUS
<1>1. TopoTypeOK
  BY TypeBegins
<1>2. links = {} /\ queued = {} /\ Located(hosts) = {} /\ SwitchesOf(phase) = {}
  BY DEF TopoInit, NothingKnown, NoSwitches, Located, SwitchesOf
<1>3. LoopFree(flows)
  <2>1. flows = [s \in Switch |-> [m \in Mac |-> None]]
    BY DEF TopoInit, NothingKnown
  <2> QED
    BY <2>1, NamesApart DEF LoopFree
<1> QED
  BY <1>1, <1>2, <1>3 DEF CalmInv, Joins, Awaited, AtPorts, Follows

LEMMA CalmStep == CalmInv /\ [CalmNext]_topoVars => CalmInv'
<1> SUFFICES ASSUME CalmInv, [CalmNext]_topoVars PROVE CalmInv'
  OBVIOUS
<1>1. CASE UNCHANGED topoVars
  <2>1. TopoTypeOK'
    BY <1>1 DEF topoVars, TopoTypeOK, CalmInv
  <2> QED
    BY <1>1, <2>1 DEF topoVars, CalmInv
<1>2. CASE CalmNext
  <2>1. TopoTypeOK'
    BY <1>2, TypeStep DEF CalmNext, CalmInv, TopoNext
  <2>2. phase \in [Switch -> {"down", "known", "entered"}]
    BY DEF CalmInv, TopoTypeOK
  <2>3. queued \subseteq Switch \X Switch /\ links \subseteq Switch \X Switch
    BY DEF CalmInv, TopoTypeOK
  <2>4. /\ Joins(SwitchesOf(phase), links) /\ Awaited(phase, queued) /\ AtPorts(hosts)
        /\ LoopFree(flows) /\ Follows(phase, links, hosts, flows)
        /\ TablesTyped(links, hosts)
    BY DEF CalmInv, TopoTypeOK, TablesTyped
  <2>5. ASSUME NEW s \in Switch, Features(s) PROVE CalmInv'
    <3>1. /\ phase[s] = "down" /\ phase'[s] = "known"
          /\ \A t \in Switch \ {s} : phase'[t] = phase[t]
      BY <2>2, <2>5 DEF Features
    <3>2. SwitchesOf(phase) \subseteq SwitchesOf(phase')
      BY <3>1 DEF SwitchesOf
    <3>3. Joins(SwitchesOf(phase'), links')
      BY <2>4, <2>5, <3>2 DEF Joins, Features
    <3>4. Awaited(phase', queued')
      BY <2>3, <2>4, <2>5, <3>1 DEF Awaited, Features
    <3>5. flows' = flows \/ flows' = [flows EXCEPT ![s] = [m \in Mac |-> None]]
      BY <2>5 DEF Features
    <3>6. /\ \A t \in Switch \ {s} : flows'[t] = flows[t]
          /\ \A m \in Mac : flows'[s][m] = None \/ flows'[s][m] = flows[s][m]
      <4>1. flows \in [Switch -> [Mac -> Switch \cup Access \cup {None}]]
        BY DEF CalmInv, TopoTypeOK
      <4> QED
        BY <3>5, <4>1
    <3>7. LoopFree(flows')
      <4>1. SUFFICES ASSUME NEW m \in Mac, NEW S \in SUBSET Switch, S # {},
                            \A t \in S : flows'[t][m] \in S
                     PROVE  FALSE
        BY DEF LoopFree
      <4>2. \A t \in S : flows'[t][m] = flows[t][m]
        BY <3>6, <4>1, NamesApart
      <4> QED
        BY <2>4, <4>1, <4>2 DEF LoopFree
    <3>8. hosts' = hosts /\ links' = links
      BY <2>5 DEF Features
    <3>9. Follows(phase', links', hosts', flows')
      BY <2>4, <3>1, <3>6, <3>8, FollowsWithMore
    <3> QED
      BY <2>1, <2>4, <3>3, <3>4, <3>7, <3>8, <3>9 DEF CalmInv
  <2>6. ASSUME NEW s \in Switch, Enter(s) PROVE CalmInv'
    <3>1. \A t \in Switch : phase[t] # "down" <=> phase'[t] # "down"
      BY <2>2, <2>6 DEF Enter
    <3>2. SwitchesOf(phase') = SwitchesOf(phase)
      BY <3>1 DEF SwitchesOf
    <3>3. Awaited(phase', queued')
      BY <2>3, <2>4, <2>6, <3>1 DEF Awaited, Enter
    <3>4. hosts' = hosts /\ links' = links
      BY <2>6 DEF Enter
    <3>5. PICK printed : Install(printed, SwitchesOf(phase'), links', hosts')
      BY <2>6, <3>4 DEF Enter
    <3>6. LoopFree(flows') /\ Follows(phase', links', hosts', flows')
      BY <2>4, <3>2, <3>4, <3>5, InstallKeeps DEF CalmInv
    <3> QED
      BY <2>1, <2>4, <3>2, <3>3, <3>4, <3>6 DEF CalmInv
  <2>7. ASSUME NEW s \in Switch, Leave(s) PROVE CalmInv'
    <3>1. phase' = [phase EXCEPT ![s] = "down"] /\ links' = {l \in links : s \notin {l[1], l[2]}}
          /\ queued' = queued /\ \A p \in queued : p[2] # s
      BY <2>7 DEF Leave
    <3>2. Joins(SwitchesOf(phase'), links')
      BY <2>2, <2>4, <3>1 DEF Joins, SwitchesOf
    <3>3. Awaited(phase', queued')
      BY <2>2, <2>3, <2>4, <3>1 DEF Awaited
    <3>4. AtPorts(hosts')
      BY <2>4, <2>7, ForgetKeepsPorts DEF Leave
    <3> QED
      BY <2>1, <2>7, <3>2, <3>3, <3>4, ReinstallKeeps DEF Leave
  <2>8. ASSUME NEW s \in Switch, NEW t \in Switch, LinkAdd(s, t) PROVE CalmInv'
    <3>1. s \in SwitchesOf(phase) /\ t \in SwitchesOf(phase)
      BY <2>8 DEF LinkAdd, SwitchesOf
    <3>2. links' = links \cup {<<s, t>>} /\ phase' = phase /\ queued' = queued /\ hosts' = hosts
      BY <2>8 DEF LinkAdd
    <3>3. Joins(SwitchesOf(phase'), links')
      BY <2>4, <3>1, <3>2 DEF Joins
    <3> QED
      BY <2>1, <2>4, <2>8, <3>2, <3>3, ReinstallKeeps DEF LinkAdd
  <2>9. ASSUME NEW s \in Switch, NEW t \in Switch, LinkDelete(s, t) PROVE CalmInv'
    <3>1. links' \subseteq links /\ phase' = phase /\ queued' = queued /\ hosts' = hosts
      BY <2>9 DEF LinkDelete
    <3>2. Joins(SwitchesOf(phase'), links')
      BY <2>4, <3>1 DEF Joins
    <3> QED
      BY <2>1, <2>4, <2>9, <3>1, <3>2, ReinstallKeeps DEF LinkDelete
  <2>10. ASSUME NEW s \in Switch, NEW t \in Switch, ProbeSent(s, t) PROVE CalmInv'
    <3>1. /\ phase[t] # "down" /\ queued' = queued \cup {<<s, t>>}
          /\ UNCHANGED <<phase, links, hosts, flows>>
      BY <2>10 DEF ProbeSent, Reaches
    <3>2. Awaited(phase', queued')
      BY <2>4, <3>1 DEF Awaited
    <3> QED
      BY <2>1, <2>4, <3>1, <3>2 DEF CalmInv
  <2>11. ASSUME NEW s \in Switch, NEW p \in Switch \cup Access, PortDown(s, p)
         PROVE  CalmInv'
    <3>1. links' \subseteq links /\ phase' = phase /\ queued' = queued
      BY <2>11 DEF PortDown
    <3>2. Joins(SwitchesOf(phase'), links')
      BY <2>4, <3>1 DEF Joins
    <3>3. AtPorts(hosts')
      BY <2>4, <2>11, ForgetKeepsPorts DEF PortDown
    <3> QED
      BY <2>1, <2>4, <2>11, <3>1, <3>2, <3>3, ReinstallKeeps DEF PortDown
  <2>12. ASSUME NEW s \in Switch, NEW p \in Switch \cup Access, PortLinkDown(s, p)
         PROVE  CalmInv'
    <3>1. links' \subseteq links /\ phase' = phase /\ queued' = queued /\ hosts' = hosts
      BY <2>12 DEF PortLinkDown
    <3>2. Joins(SwitchesOf(phase'), links')
      BY <2>4, <3>1 DEF Joins
    <3> QED
      BY <2>1, <2>4, <2>12, <3>1, <3>2, ReinstallKeeps DEF PortLinkDown
  <2>13. ASSUME NEW m \in Mac, NEW i \in Ip, HostAdd(m, i) PROVE CalmInv'
    <3>1. place[m].port \in Access
      BY PlaceTyped DEF CalmInv
    <3> QED
      BY <2>1, <2>13, <3>1, LocateKeeps DEF HostAdd
  <2>14. ASSUME NEW m \in Mac, NEW i \in Ip, ArpHeard(m, i) PROVE CalmInv'
    <3>1. place[m].port \in Access
      BY PlaceTyped DEF CalmInv
    <3>2. CASE Locate(m, i, place[m].dpid, place[m].port)
      BY <2>1, <2>14, <3>1, <3>2, LocateKeeps DEF ArpHeard
    <3>3. CASE UNCHANGED <<hosts, ipToMac, flows>>
      BY <2>1, <2>4, <2>14, <3>3 DEF ArpHeard, CalmInv
    <3> QED
      BY <2>14, <3>2, <3>3 DEF ArpHeard, RegisterArpHost
  <2>15. ASSUME NEW s \in Switch, NEW t \in Switch, phase[s] # "down", ProbeArrives(s, t)
         PROVE  CalmInv'
    <3>1. /\ <<s, t>> \in queued /\ queued' \subseteq queued
          /\ phase' = phase /\ hosts' = hosts
      BY <2>15 DEF ProbeArrives
    <3>2. s \in SwitchesOf(phase) /\ t \in SwitchesOf(phase)
      BY <2>4, <2>15, <3>1 DEF Awaited, SwitchesOf
    <3>3. Awaited(phase', queued')
      BY <2>4, <3>1 DEF Awaited
    <3>4. CASE UNCHANGED <<links, flows>>
      BY <2>1, <2>4, <3>1, <3>3, <3>4 DEF CalmInv
    <3>5. CASE links' = links \cup {<<s, t>>} /\ Reinstall
      <4>1. Joins(SwitchesOf(phase'), links')
        BY <2>4, <3>1, <3>2, <3>5 DEF Joins
      <4> QED
        BY <2>1, <2>4, <3>1, <3>3, <3>5, <4>1, ReinstallKeeps
    <3> QED
      BY <2>15, <3>4, <3>5 DEF ProbeArrives
  <2>16. ASSUME NEW s \in Switch, NEW t \in Switch, ProbeLost(s, t) PROVE CalmInv'
    <3>1. queued' \subseteq queued /\ UNCHANGED <<phase, links, hosts, flows>>
      BY <2>16 DEF ProbeLost
    <3>2. Awaited(phase', queued')
      BY <2>4, <3>1 DEF Awaited
    <3> QED
      BY <2>1, <2>4, <3>1, <3>2 DEF CalmInv
  <2>17. ASSUME Environment PROVE CalmInv'
    BY <2>1, <2>4, <2>17 DEF Environment, CalmInv
  <2> QED
    BY <1>2, <2>5, <2>6, <2>7, <2>8, <2>9, <2>10, <2>11, <2>12, <2>13, <2>14, <2>15, <2>16, <2>17
    DEF CalmNext, Handlers
<1> QED
  BY <1>1, <1>2

-----------------------------------------------------------------------------
(***************************************************************************)
(* The controller's tables keep their types, in the calm network and in    *)
(* the other, where a search over a link to a switch that has left raises  *)
(* and the entries are written in part.                                    *)
(***************************************************************************)
THEOREM TopologyTyped == TopoSpec => []TopoTypeOK
<1>1. TopoTypeOK /\ [TopoNext]_topoVars => TopoTypeOK'
  <2> SUFFICES ASSUME TopoTypeOK, [TopoNext]_topoVars PROVE TopoTypeOK'
    OBVIOUS
  <2>1. CASE TopoNext
    BY <2>1, TypeStep
  <2>2. CASE UNCHANGED topoVars
    BY <2>2 DEF topoVars, TopoTypeOK
  <2> QED
    BY <2>1, <2>2
<1> QED
  BY <1>1, TypeBegins, PTL DEF TopoSpec

(***************************************************************************)
(* The invariant of the calm network, for any switches, wires, weights and *)
(* hosts.                                                                  *)
(***************************************************************************)
THEOREM CalmInvariant == CalmSpec => []CalmInv
BY CalmBegins, CalmStep, PTL DEF CalmSpec

(***************************************************************************)
(* The calm network keeps the types of the controller's tables.            *)
(***************************************************************************)
THEOREM CalmTyped == CalmSpec => []TopoTypeOK
<1>1. CalmInv => TopoTypeOK
  BY DEF CalmInv
<1> QED
  BY <1>1, CalmInvariant, PTL

(***************************************************************************)
(* No record of a link outlives either of its switches                     *)
(* (handle_switch_delete, and the probes that wait).                       *)
(***************************************************************************)
THEOREM NoGhostLinks == CalmSpec => []LinksJoinSwitches
<1>1. CalmInv => LinksJoinSwitches
  BY DEF CalmInv, Joins, LinksJoinSwitches
<1> QED
  BY <1>1, CalmInvariant, PTL

(***************************************************************************)
(* The entries lead along shortest paths of the topology that is known,    *)
(* after every handler (_install_host_flows).                              *)
(***************************************************************************)
THEOREM ShortestForwarding == CalmSpec => []FlowsFollowTopology
<1>1. CalmInv => FlowsFollowTopology
  <2> SUFFICES ASSUME CalmInv PROVE FlowsFollowTopology
    OBVIOUS
  <2> DEFINE L == {l \in links : {l[1], l[2]} \subseteq SwitchesOf(phase)}
             G(ls) == Graph(SwitchesOf(phase), ls)
             Leads(g, d, m, s, t, p) ==
               IF s = t THEN p = hosts[m].port
               ELSE IF t \notin g.node THEN TRUE
               ELSE d[s][t] # None => <<s, p>> \in g.edge /\ d[s][t] = Weight(g, s, p) + d[p][t]
             Right(g) ==
               \A m \in Located(hosts), s \in g.node :
                 phase[s] = "entered" /\ ~Skipped(hosts, m) =>
                   Leads(g, Distances(g), m, s, hosts[m].dpid, flows[s][m])
  <2>1. L = links
    BY DEF CalmInv, Joins
  <2>2. FlowsFollowTopology <=> Right(G(L))
    BY DEF FlowsFollowTopology
  <2>3. G(links).node = SwitchesOf(phase)
    BY DEF Graph
  <2>4. Follows(phase, links, hosts, flows)
    BY DEF CalmInv
  <2>5. Right(G(links))
    BY <2>3, <2>4 DEF Follows
  <2> HIDE DEF L, G, Right
  <2> QED
    BY <2>1, <2>2, <2>5
<1> QED
  BY <1>1, CalmInvariant, PTL

(***************************************************************************)
(* Entries old and new, of whatever topologies, never pass a packet round. *)
(***************************************************************************)
THEOREM LoopFreedom == CalmSpec => []NoForwardingLoop
<1>1. CalmInv => NoForwardingLoop
  BY DEF CalmInv, LoopFree, NoForwardingLoop, Hops
<1> QED
  BY <1>1, CalmInvariant, PTL
=============================================================================
