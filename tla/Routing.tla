------------------------------ MODULE Routing -------------------------------
(***************************************************************************)
(* The routing computations of ControllerApp (controller.py), over a graph *)
(* g: node is self.switches, edge the pairs that self.adjacency relates,   *)
(* weight the cost of an edge.  A port is known by the neighbour it leads  *)
(* to.  An unreachable node is at distance None (inf in the code).         *)
(*                                                                         *)
(* An edge to a node that is not in g.node makes the code raise KeyError:  *)
(* see Raises.  The other operators describe runs that do not raise.       *)
(***************************************************************************)
EXTENDS Naturals, SequencesExt

CONSTANT None

ASSUME RoutingAssumption == None \notin Nat

Weight(g, u, v) == g.weight[<<u, v>>]

Shorter(a, b) == a # None /\ (b = None \/ a < b)

Neighbours(g, u) == {e[2] : e \in {d \in g.edge : d[1] = u}}

-----------------------------------------------------------------------------
(* Single-source shortest paths                                            *)

Start(g, s) ==
  [dist |-> [v \in g.node \cup {s} |-> IF v = s THEN 0 ELSE None],
   prev |-> [v \in g.node \cup {s} |-> None]]

\* `for v in self.adjacency[u]`: a strictly shorter way to v goes through u.
Relax(g, st, u) ==
  LET alt == [v \in Neighbours(g, u) |-> st.dist[u] + Weight(g, u, v)]
      better == {v \in DOMAIN alt : Shorter(alt[v], st.dist[v])}
  IN [dist |-> [v \in DOMAIN st.dist |-> IF v \in better THEN alt[v] ELSE st.dist[v]],
      prev |-> [v \in DOMAIN st.prev |-> IF v \in better THEN u ELSE st.prev[v]]]

(***************************************************************************)
(* The heap holds pairs of a distance and a dpid, none of them twice: what *)
(* is pushed for a node gets shorter.  A pair is out of date when its node *)
(* has become nearer since.                                                *)
(***************************************************************************)
Top(heap) == CHOOSE e \in heap : \A d \in heap : e[1] < d[1] \/ (e[1] = d[1] /\ e[2] <= d[2])
OutOfDate(st) == LET e == Top(st.heap) IN e[1] # st.run.dist[e[2]]

Pop(g, st) ==
  LET rest == st.heap \ {Top(st.heap)}
      run == Relax(g, st.run, Top(st.heap)[2])
  IN IF st.heap = {} THEN st
     ELSE IF OutOfDate(st) THEN [st EXCEPT !.heap = rest]
     ELSE [st EXCEPT
             !.run = run,
             !.heap = rest \cup {<<run.dist[v], v>> :
                                  v \in {u \in DOMAIN run.dist : run.dist[u] # st.run.dist[u]}}]

\* No edge pushes more than one pair, as weights are not negative.
Dijkstra(g, s) ==
  LET n == Cardinality(g.edge) + 1
      after[i \in 0..n] ==
        IF i = 0 THEN [run |-> Start(g, s), heap |-> {<<0, s>>}]
        ELSE Pop(g, after[i - 1])
  IN after[n].run

\* Mutant: a nearer predecessor joins the others.
JoinAlways(g, st, u, v) ==
  IF v \notin Neighbours(g, u) THEN st.prevs[v]
  ELSE LET alt == st.run.dist[u] + Weight(g, u, v) IN
       st.prevs[v] \cup {x \in {u} : Shorter(alt, st.run.dist[v]) \/ alt = st.run.dist[v]}

\* u starts the list of v anew when it is nearer, and joins it when as near.
JoinPrevs(g, st, u, v) ==
  IF v \notin Neighbours(g, u) THEN st.prevs[v]
  ELSE LET alt == st.run.dist[u] + Weight(g, u, v) IN
       IF Shorter(alt, st.run.dist[v]) THEN {u}
       ELSE st.prevs[v] \cup {x \in {u} : alt = st.run.dist[v]}

\* _dijkstra_all keeps every predecessor on a shortest path.
DijkstraAll(g, s) ==
  LET n == Cardinality(g.edge) + 1
      after[i \in 0..n] ==
        IF i = 0
          THEN [run |-> Start(g, s), heap |-> {<<0, s>>},
                prevs |-> [v \in g.node \cup {s} |-> {}]]
        ELSE LET st == after[i - 1] IN
             IF st.heap = {} THEN st
             ELSE [Pop(g, st) EXCEPT !.prevs =
                     [v \in DOMAIN @ |-> IF OutOfDate(st) THEN @[v]
                                         ELSE JoinPrevs(g, st, Top(st.heap)[2], v)]]
  IN after[n]

(***************************************************************************)
(* Bellman-Ford: rounds over the switches in the order they were added,    *)
(* here that of their numbers; a round that changes nothing ends it.       *)
(***************************************************************************)
Nth(S, i) == CHOOSE v \in S : Cardinality({w \in S : w <= v}) = i

Round(g, st) ==
  LET turn[i \in 0..Cardinality(g.node)] ==
        IF i = 0 THEN st
        ELSE LET r == turn[i - 1]
                 u == Nth(g.node, i)
             IN IF r.dist[u] = None THEN r ELSE Relax(g, r, u)
  IN turn[Cardinality(g.node)]

Rounds(g, s, count) ==
  LET after[i \in 0..count] == IF i = 0 THEN Start(g, s) ELSE Round(g, after[i - 1])
  IN after[count]

\* Mutant: a round too few.
BellmanFordShort(g, s) == Rounds(g, s, Cardinality(g.node) - 2)

BellmanFord(g, s) == Rounds(g, s, Cardinality(g.node) - 1)

-----------------------------------------------------------------------------
(* Reading a path off the predecessors                                     *)

\* From t back to the source, as far as prev leads.
BackFrom(prev, t) ==
  LET n == Cardinality(DOMAIN prev)
      walk[i \in 0..n] ==
        IF i = 0 THEN <<t>>
        ELSE LET p == walk[i - 1] IN
             IF prev[Last(p)] = None THEN p ELSE Append(p, prev[Last(p)])
  IN walk[n]

\* Mutant: the walk back to the source is not made.
NextHopUnwalked(prev, s, t) ==
  IF s = t \/ t \notin DOMAIN prev THEN None ELSE prev[t]

\* _get_next_hop: the port of s towards t, None if there is none.
NextHop(prev, s, t) ==
  IF s = t \/ t \notin DOMAIN prev THEN None
  ELSE IF prev[t] = None THEN None
  ELSE LET p == BackFrom(prev, t) IN p[Len(p) - 1]

\* Mutant: the path is not reversed.
BuildPathBackwards(prev, s, t) ==
  IF s = t THEN <<>>
  ELSE IF prev[t] = None THEN None
  ELSE LET p == BackFrom(prev, t) IN SubSeq(p, 2, Len(p) - 1)

\* _build_path: the switches strictly between s and t, None if no path.
BuildPath(prev, s, t) ==
  IF s = t THEN <<>>
  ELSE IF prev[t] = None THEN None
  ELSE LET p == BackFrom(prev, t) IN Reverse(SubSeq(p, 2, Len(p) - 1))

-----------------------------------------------------------------------------
(* A node's neighbours that the code cannot look up                        *)

Reached(g, s) ==
  LET R[i \in 0..Cardinality(g.node)] ==
        IF i = 0 THEN {s}
        ELSE R[i - 1] \cup UNION {Neighbours(g, u) : u \in R[i - 1]}
  IN R[Cardinality(g.node)]

\* A search from s meets a node that is not a switch: dist[v] is a KeyError.
Raises(g, s) ==
  \E e \in g.edge : e[2] \notin g.node \cup {s} /\ e[1] \in Reached(g, s)

-----------------------------------------------------------------------------
(* What a shortest path is                                                 *)

SimplePaths(g) ==
  {p \in SeqOf(g.node, Cardinality(g.node)) :
     /\ p # <<>>
     /\ Cardinality(ToSet(p)) = Len(p)
     /\ \A i \in 1..Len(p) - 1 : <<p[i], p[i + 1]>> \in g.edge}

Cost(g, p) ==
  LET sum[i \in 0..Len(p)] ==
        IF i <= 1 THEN 0 ELSE sum[i - 1] + Weight(g, p[i - 1], p[i])
  IN sum[Len(p)]

\* The length of a shortest path between any two nodes.
Distances(g) ==
  LET paths == SimplePaths(g)
      Costs(s, t) == {Cost(g, p) : p \in {q \in paths : q[1] = s /\ Last(q) = t}}
  IN [s \in g.node |-> [t \in g.node |->
       IF Costs(s, t) = {} THEN None ELSE Min(Costs(s, t))]]
=============================================================================
