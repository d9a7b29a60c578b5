--------------------------- MODULE MCRouting_proofs ---------------------------
(***************************************************************************)
(* The routing computations are right on every graph that links coming and *)
(* going make, for every finite set of switches and every bound on the     *)
(* weights.  What one computation returns is proved in Routing_proofs;     *)
(* here it is that the graphs are ones the computations can be run on.     *)
(***************************************************************************)
EXTENDS MCRouting, Routing_proofs

\* A link has a weight as long as it is there.
LinksWeighed == link \in [Pairs -> (1..MaxWeight) \cup {None}]

LEMMA LinksStayWeighed == Spec => []LinksWeighed
<1>1. Init => LinksWeighed
  BY DEF Init, LinksWeighed
<1>2. LinksWeighed /\ [Next]_link => LinksWeighed'
  <2> SUFFICES ASSUME LinksWeighed, [Next]_link PROVE LinksWeighed'
    OBVIOUS
  <2>1. ASSUME NEW p \in Pairs, NEW w \in 1..MaxWeight, Connect(p, w) PROVE LinksWeighed'
    BY <2>1 DEF Connect, LinksWeighed
  <2>2. ASSUME NEW p \in Pairs, Disconnect(p) PROVE LinksWeighed'
    BY <2>2 DEF Disconnect, LinksWeighed
  <2>3. CASE UNCHANGED link
    BY <2>3 DEF LinksWeighed
  <2> QED
    BY <2>1, <2>2, <2>3 DEF Next
<1> QED
  BY <1>1, <1>2, PTL DEF Spec

LEMMA GraphSearchable ==
  ASSUME LinksWeighed
  PROVE  /\ Searchable(Graph) /\ Graph.node = Node
         /\ \A u, v : <<u, v>> \in Graph.edge => <<v, u>> \in Graph.edge
<1>1. Node \subseteq Nat /\ IsFiniteSet(Node) /\ MaxWeight \in Nat
  BY GraphAssumption
<1>2. Graph.node = Node /\ Graph.edge = Joined \cup {<<p[2], p[1]>> : p \in Joined}
  BY DEF Graph
<1>3. Joined \subseteq Node \X Node /\ \A p \in Joined : p = <<p[1], p[2]>> /\ p[1] < p[2]
  BY DEF Joined, Pairs
<1>4. Graph.edge \subseteq Node \X Node
  BY <1>2, <1>3
<1>5. IsFiniteSet(Graph.edge)
  <2>1. IsFiniteSet(Node \X Node)
    BY <1>1, FS_Product
  <2> QED
    BY <1>4, <2>1, FS_Subset
<1>6. ASSUME NEW u, NEW v, <<u, v>> \in Graph.edge PROVE <<v, u>> \in Graph.edge
  <2>1. <<u, v>> \in Joined \/ <<v, u>> \in Joined
    BY <1>2, <1>3, <1>6
  <2>2. ASSUME NEW p \in Joined PROVE <<p[1], p[2]>> \in Graph.edge /\ <<p[2], p[1]>> \in Graph.edge
    BY <1>2, <1>3
  <2> QED
    BY <2>1, <2>2
<1>7. ASSUME NEW u \in Node, NEW v \in Node, <<u, v>> \in Graph.edge
      PROVE  Weight(Graph, u, v) \in Nat \ {0}
  <2>1. Weight(Graph, u, v) = IF u < v THEN link[<<u, v>>]
                              ELSE IF v < u THEN link[<<v, u>>] ELSE None
    BY DEF Weight, Graph
  <2>2. <<u, v>> \in Joined \/ <<v, u>> \in Joined
    BY <1>2, <1>3, <1>7
  <2>3. \A p \in Joined : link[p] \in Nat \ {0}
    BY <1>1 DEF Joined, LinksWeighed
  <2>4. CASE <<u, v>> \in Joined
    <3>1. u < v
      BY <1>3, <2>4
    <3> QED
      BY <2>1, <2>3, <2>4, <3>1
  <2>5. CASE <<v, u>> \in Joined
    <3>1. v < u /\ ~(u < v)
      BY <1>1, <1>3, <2>5
    <3> QED
      BY <2>1, <2>3, <2>5, <3>1
  <2> QED
    BY <2>2, <2>4, <2>5
<1>8. \A e \in Graph.edge : e = <<e[1], e[2]>>
  BY <1>4
<1> QED
  BY <1>1, <1>2, <1>5, <1>6, <1>7, <1>8 DEF Searchable

-----------------------------------------------------------------------------
(* One graph                                                               *)

LEMMA BothShortest ==
  ASSUME LinksWeighed PROVE DistancesShortest
<1>1. Searchable(Graph) /\ Graph.node = Node
  BY GraphSearchable
<1> DEFINE g == Graph
<1> HIDE DEF g
<1>2. Searchable(g) /\ g.node = Node
  BY <1>1 DEF g
<1> SUFFICES ASSUME NEW s \in Node, NEW t \in Node
             PROVE  /\ Dijkstra(g, s).dist[t] = Distances(g)[s][t]
                    /\ BellmanFord(g, s).dist[t] = Distances(g)[s][t]
  BY DEF DistancesShortest, g
<1>3. ASSUME NEW run, Solved(g, s, run) PROVE run.dist[t] = Distances(g)[s][t]
  BY <1>2, <1>3, SolvedIsShortest
<1>4. Solved(g, s, Dijkstra(g, s)) /\ Solved(g, s, BellmanFord(g, s))
  BY <1>2, DijkstraSolves, BellmanFordSolves
<1> QED
  BY <1>3, <1>4

LEMMA EveryHopDescends ==
  ASSUME LinksWeighed PROVE HopsDescend
<1>1. Searchable(Graph) /\ Graph.node = Node
  BY GraphSearchable
<1> DEFINE g == Graph
<1> HIDE DEF g
<1>2. Searchable(g) /\ g.node = Node
  BY <1>1 DEF g
<1> SUFFICES ASSUME NEW s \in Node, NEW t \in Node,
                    NEW prev \in {Dijkstra(g, s).prev, BellmanFord(g, s).prev}
             PROVE  IF s = t \/ Distances(g)[s][t] = None THEN NextHop(prev, s, t) = None
                    ELSE LET h == NextHop(prev, s, t) IN
                         /\ <<s, h>> \in g.edge
                         /\ Distances(g)[s][t] = Weight(g, s, h) + Distances(g)[h][t]
  BY DEF HopsDescend, g
<1>3. PICK run : Solved(g, s, run) /\ prev = run.prev
  BY <1>2, DijkstraSolves, BellmanFordSolves
<1>4. Recorded(g, s, run) /\ run.dist[t] = Distances(g)[s][t]
  BY <1>2, <1>3, SolvedIsShortest DEF Solved
<1>5. CASE s = t \/ Distances(g)[s][t] = None
  BY <1>2, <1>3, <1>4, <1>5, NoNextHop
<1>6. CASE s # t /\ Distances(g)[s][t] # None
  BY <1>2, <1>3, <1>6, HopOnShortestPath
<1> QED
  BY <1>5, <1>6

LEMMA EveryPathShortest ==
  ASSUME LinksWeighed PROVE PathsCostDistance
<1>1. Searchable(Graph) /\ Graph.node = Node
  BY GraphSearchable
<1> DEFINE g == Graph
<1> HIDE DEF g
<1>2. Searchable(g) /\ g.node = Node
  BY <1>1 DEF g
<1> SUFFICES ASSUME NEW s \in Node, NEW t \in Node, s # t
             PROVE  LET p == BuildPath(Dijkstra(g, s).prev, s, t) IN
                    IF Distances(g)[s][t] = None THEN p = None
                    ELSE /\ <<s>> \o p \o <<t>> \in SimplePaths(g)
                         /\ Cost(g, <<s>> \o p \o <<t>>) = Distances(g)[s][t]
  BY DEF PathsCostDistance, g
<1> DEFINE run == Dijkstra(g, s)
<1>3. Solved(g, s, run)
  BY <1>2, DijkstraSolves
<1> HIDE DEF run
<1>4. Recorded(g, s, run) /\ run.dist[t] = Distances(g)[s][t]
  BY <1>2, <1>3, SolvedIsShortest DEF Solved
<1>5. CASE Distances(g)[s][t] = None
  <2>1. BuildPath(run.prev, s, t) = None
    BY <1>2, <1>4, <1>5 DEF BuildPath, Recorded
  <2> QED
    BY <1>5, <2>1 DEF run
<1>6. CASE Distances(g)[s][t] # None
  <2>1. LET q == <<s>> \o BuildPath(run.prev, s, t) \o <<t>> IN
        q \in SimplePaths(g) /\ Cost(g, q) = run.dist[t]
    BY <1>2, <1>3, <1>4, <1>6, PathBuilt
  <2> QED
    BY <1>4, <1>6, <2>1 DEF run
<1> QED
  BY <1>5, <1>6

LEMMA EveryPredecessor ==
  ASSUME LinksWeighed PROVE AllPredecessors
<1>1. /\ Searchable(Graph) /\ Graph.node = Node
      /\ \A u, v : <<u, v>> \in Graph.edge => <<v, u>> \in Graph.edge
  BY GraphSearchable
<1> DEFINE g == Graph
<1> HIDE DEF g
<1>2. Searchable(g) /\ g.node = Node
  BY <1>1 DEF g
<1> SUFFICES ASSUME NEW s \in Node, NEW t \in Node
             PROVE  DijkstraAll(g, s).prevs[t] =
                      {u \in Node : /\ <<u, t>> \in g.edge
                                    /\ Distances(g)[s][t] # None /\ Distances(g)[s][t] # 0
                                    /\ Distances(g)[s][t] = Distances(g)[s][u] + Weight(g, u, t)}
  BY DEF AllPredecessors, g
<1> DEFINE all == DijkstraAll(g, s)
           dist == all.run.dist
<1>3. /\ Solved(g, s, all.run)
      /\ all.prevs[t] = Best(g, dist, {u \in g.node : dist[u] # None}, t)
  BY <1>2, DijkstraAllFinds
<1> HIDE DEF all
<1>4. /\ dist \in [g.node -> Nat \cup {None}]
      /\ Settled(g, dist, {u \in g.node : dist[u] # None})
  BY <1>3 DEF Solved, Recorded
<1>5. \A v \in Node : Distances(g)[s][v] = dist[v]
  BY <1>2, <1>3, SolvedIsShortest
<1> HIDE DEF dist
<1>6. ASSUME NEW u \in Node, <<u, t>> \in g.edge
      PROVE  /\ Weight(g, u, t) \in Nat \ {0}
             /\ dist[t] # None => dist[u] # None
  <2>1. <<t, u>> \in g.edge
    BY <1>1, <1>6 DEF g
  <2> QED
    BY <1>2, <1>4, <1>6, <2>1 DEF Searchable, Settled
<1>7. ASSUME NEW u \in Node, <<u, t>> \in g.edge, dist[u] # None,
             dist[t] = dist[u] + Weight(g, u, t)
      PROVE  dist[t] # None /\ dist[t] # 0
  <2>1. dist[u] \in Nat /\ Weight(g, u, t) \in Nat /\ Weight(g, u, t) > 0
    BY <1>2, <1>4, <1>6, <1>7
  <2>2. dist[t] \in Nat /\ dist[t] # 0
    BY <1>7, <2>1
  <2> QED
    BY <2>2, RoutingAssumption
<1>8. Best(g, dist, {u \in g.node : dist[u] # None}, t) =
        {u \in Node : /\ <<u, t>> \in g.edge
                      /\ dist[t] # None /\ dist[t] # 0
                      /\ dist[t] = dist[u] + Weight(g, u, t)}
  BY <1>2, <1>6, <1>7 DEF Best
<1>9. all.prevs[t] = {u \in Node : /\ <<u, t>> \in g.edge
                                   /\ dist[t] # None /\ dist[t] # 0
                                   /\ dist[t] = dist[u] + Weight(g, u, t)}
  BY <1>3, <1>8
<1> QED
  BY <1>5, <1>9 DEF all

-----------------------------------------------------------------------------
(* Every graph that comes about                                            *)

(***************************************************************************)
(* _dijkstra, with its heap and the stale entries it skips, and            *)
(* _bellman_ford, with a round less than there are switches, both compute  *)
(* the length of a shortest path between any two switches.                 *)
(***************************************************************************)
THEOREM ShortestDistances == Spec => []DistancesShortest
<1>1. LinksWeighed => DistancesShortest
  BY BothShortest
<1> QED
  BY <1>1, LinksStayWeighed, PTL

(***************************************************************************)
(* _get_next_hop, read off a search of either algorithm, is on a shortest  *)
(* path, so it is nearer to the destination than the switch it leaves; it  *)
(* is None only for the switch itself and for what cannot be reached.      *)
(***************************************************************************)
THEOREM DescendingHops == Spec => []HopsDescend
<1>1. LinksWeighed => HopsDescend
  BY EveryHopDescends
<1> QED
  BY <1>1, LinksStayWeighed, PTL

(***************************************************************************)
(* _build_path gives a path without a switch twice, of the cost that is    *)
(* logged with it, or None when there is no path.                          *)
(***************************************************************************)
THEOREM ShortestPaths == Spec => []PathsCostDistance
<1>1. LinksWeighed => PathsCostDistance
  BY EveryPathShortest
<1> QED
  BY <1>1, LinksStayWeighed, PTL

(***************************************************************************)
(* _dijkstra_all keeps for every switch the last hops of all its shortest  *)
(* paths and no other switch.                                              *)
(***************************************************************************)
THEOREM CompletePredecessors == Spec => []AllPredecessors
<1>1. LinksWeighed => AllPredecessors
  BY EveryPredecessor
<1> QED
  BY <1>1, LinksStayWeighed, PTL
=============================================================================
