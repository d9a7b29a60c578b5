------------------------------ MODULE MCRouting -----------------------------
(* The routing computations on every graph of the switches Node whose links *)
(* have weights up to MaxWeight, links coming and going one at a time.      *)
EXTENDS Routing

CONSTANTS Node, MaxWeight

ASSUME GraphAssumption ==
  /\ Node \subseteq Nat /\ IsFiniteSet(Node)
  /\ MaxWeight \in Nat

VARIABLE link   \* pairs u < v -> the weight of their link, or None

Pairs == {p \in Node \X Node : p[1] < p[2]}

Init == link = [p \in Pairs |-> None]

Connect(p, w) == link[p] = None /\ link' = [link EXCEPT ![p] = w]
Disconnect(p) == link[p] # None /\ link' = [link EXCEPT ![p] = None]

Next ==
  \/ \E p \in Pairs, w \in 1..MaxWeight : Connect(p, w)
  \/ \E p \in Pairs : Disconnect(p)

Spec == Init /\ [][Next]_link

Joined == {p \in Pairs : link[p] # None}
Graph ==
  [node |-> Node,
   edge |-> Joined \cup {<<p[2], p[1]>> : p \in Joined},
   weight |-> [e \in Node \X Node |->
                 IF e[1] < e[2] THEN link[e]
                 ELSE IF e[2] < e[1] THEN link[<<e[2], e[1]>>] ELSE None]]

-----------------------------------------------------------------------------
(* Dijkstra's algorithm and Bellman-Ford compute the length of a shortest  *)
(* path, whatever the graph: the heap's order, the stale entries it skips  *)
(* and the number of rounds are right.                                     *)
DistancesShortest ==
  LET d == Distances(Graph) IN
  \A s, t \in Node : /\ Dijkstra(Graph, s).dist[t] = d[s][t]
                     /\ BellmanFord(Graph, s).dist[t] = d[s][t]

(* Each switch's next hop is computed by a search of its own, with ties    *)
(* broken as that search happens to; yet every hop brings a packet nearer  *)
(* to its destination, so hops chosen independently never form a loop.     *)
HopsDescend ==
  LET d == Distances(Graph) IN
  \A s, t \in Node : \A prev \in {Dijkstra(Graph, s).prev, BellmanFord(Graph, s).prev} :
    IF s = t \/ d[s][t] = None THEN NextHop(prev, s, t) = None
    ELSE LET h == NextHop(prev, s, t) IN
         /\ <<s, h>> \in Graph.edge
         /\ d[s][t] = Weight(Graph, s, h) + d[h][t]

(* The path that is logged for two switches is a path between them, and it *)
(* costs what the log says.                                                *)
PathsCostDistance ==
  LET d == Distances(Graph) IN
  \A s, t \in Node : LET p == BuildPath(Dijkstra(Graph, s).prev, s, t) IN
    s # t => IF d[s][t] = None THEN p = None
             ELSE /\ <<s>> \o p \o <<t>> \in SimplePaths(Graph)
                  /\ Cost(Graph, <<s>> \o p \o <<t>>) = d[s][t]

(* _dijkstra_all keeps exactly the last hops of shortest paths: a list is  *)
(* emptied when a shorter way is found and loses no equal one.             *)
AllPredecessors ==
  LET d == Distances(Graph) IN
  \A s, t \in Node :
    DijkstraAll(Graph, s).prevs[t] =
      {u \in Node : /\ <<u, t>> \in Graph.edge
                    /\ d[s][t] # None /\ d[s][t] # 0
                    /\ d[s][t] = d[s][u] + Weight(Graph, u, t)}
=============================================================================
