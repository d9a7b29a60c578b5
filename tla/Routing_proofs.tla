---------------------------- MODULE Routing_proofs ----------------------------
(***************************************************************************)
(* What the routing computations return, on every finite graph whose       *)
(* weights are positive.  Induction over the numbers is by their least     *)
(* element (WFMin), as the induction theorems of the library take an       *)
(* operator.                                                               *)
(***************************************************************************)
EXTENDS Routing, FiniteSetTheorems, TLAPS

-----------------------------------------------------------------------------
(* Numbers                                                                 *)

LEMMA LeastNat ==
  ASSUME NEW S, S \subseteq Nat, S # {}
  PROVE  \E n \in S : \A m \in S : n <= m
<1> DEFINE R == {ss \in Nat \X Nat : ss[1] < ss[2]}
<1>1. IsWellFoundedOn(R, Nat)
  BY NatLessThanWellFounded DEF OpToRel
<1>2. \A m, n \in Nat : m < n => <<m, n>> \in R
  OBVIOUS
<1> HIDE DEF R
<1>3. PICK n \in S : \A m \in S : <<m, n>> \notin R
  BY <1>1, WFMin
<1>4. \A m \in S : m \in Nat /\ n \in Nat /\ ~(m < n)
  BY <1>2, <1>3
<1>5. \A m \in S : n <= m
  BY <1>4
<1> QED
  BY <1>5

\* Induction, for a set instead of a predicate.
LEMMA NatSetInduction ==
  ASSUME NEW K, 0 \in K, \A k \in Nat : k \in K => k + 1 \in K
  PROVE  Nat \subseteq K
<1> SUFFICES ASSUME Nat \ K # {} PROVE FALSE
  OBVIOUS
<1>1. PICK n \in Nat \ K : \A m \in Nat \ K : n <= m
  BY LeastNat
<1>2. n # 0 /\ n - 1 \in Nat
  BY <1>1
<1>3. n - 1 \in K
  BY <1>1, <1>2
<1> QED
  BY <1>1, <1>2, <1>3

-----------------------------------------------------------------------------
(* A search under way                                                      *)

\* The graphs that the code searches: finite, with positive weights.
Searchable(g) ==
  /\ IsFiniteSet(g.node) /\ g.node \subseteq Nat
  /\ IsFiniteSet(g.edge) /\ \A e \in g.edge : e = <<e[1], e[2]>>
  /\ \A u, v \in g.node : <<u, v>> \in g.edge => Weight(g, u, v) \in Nat \ {0}

\* Distances are those of walks that prev records.
Recorded(g, s, run) ==
  /\ run = [dist |-> run.dist, prev |-> run.prev]
  /\ run.dist \in [g.node -> Nat \cup {None}]
  /\ run.prev \in [g.node -> g.node \cup {None}]
  /\ run.dist[s] = 0 /\ run.prev[s] = None
  /\ \A v \in g.node \ {s} : run.dist[v] # None <=> run.prev[v] # None
  /\ \A v \in g.node : LET u == run.prev[v] IN
       u # None => /\ <<u, v>> \in g.edge
                   /\ run.dist[u] # None /\ run.dist[u] + Weight(g, u, v) <= run.dist[v]

\* No edge out of a node of S offers a shorter way.
Settled(g, dist, S) ==
  \A u \in S, v \in g.node : <<u, v>> \in g.edge =>
    dist[v] # None /\ dist[v] <= dist[u] + Weight(g, u, v)

\* The nodes whose edges have been relaxed at their present distance.
Done(g, st) == {u \in g.node : st.run.dist[u] # None /\ <<st.run.dist[u], u>> \notin st.heap}

HeapTyped(g, st) ==
  /\ st = [run |-> st.run, heap |-> st.heap]
  /\ st.heap \subseteq Nat \X g.node /\ IsFiniteSet(st.heap)
  /\ \A e \in st.heap : st.run.dist[e[2]] # None /\ st.run.dist[e[2]] <= e[1]

SearchInv(g, s, st) ==
  /\ HeapTyped(g, st)
  /\ Recorded(g, s, st.run)
  /\ Settled(g, st.run.dist, Done(g, st))
  /\ \A u \in Done(g, st), e \in st.heap : st.run.dist[u] <= e[1]

(***************************************************************************)
(* The heap's top is the least pair.                                       *)
(***************************************************************************)
LEMMA TopLeast ==
  ASSUME NEW heap, NEW N, heap \subseteq Nat \X N, N \subseteq Nat, heap # {}
  PROVE  Top(heap) \in heap /\ \A d \in heap : Top(heap)[1] <= d[1]
<1> DEFINE firsts == {e[1] : e \in heap}
<1>1. PICK n \in firsts : \A m \in firsts : n <= m
  <2>1. firsts \subseteq Nat /\ firsts # {}
    OBVIOUS
  <2> HIDE DEF firsts
  <2> QED
    BY <2>1, LeastNat
<1> DEFINE seconds == {e[2] : e \in {d \in heap : d[1] = n}}
<1>2. PICK k \in seconds : \A m \in seconds : k <= m
  <2>1. seconds \subseteq Nat /\ seconds # {}
    BY <1>1
  <2> HIDE DEF seconds
  <2> QED
    BY <2>1, LeastNat
<1>3. PICK e \in heap : e[1] = n /\ e[2] = k
  BY <1>2
<1>4. \A d \in heap : e[1] < d[1] \/ (e[1] = d[1] /\ e[2] <= d[2])
  <2> SUFFICES ASSUME NEW d \in heap
               PROVE  e[1] < d[1] \/ (e[1] = d[1] /\ e[2] <= d[2])
    OBVIOUS
  <2>1. n <= d[1] /\ d[1] \in Nat /\ n \in Nat
    BY <1>1
  <2>2. CASE d[1] = n
    BY <1>2, <1>3, <2>2
  <2> QED
    BY <1>3, <2>1, <2>2
<1>5. /\ Top(heap) \in heap
      /\ \A d \in heap : \/ Top(heap)[1] < d[1]
                         \/ Top(heap)[1] = d[1] /\ Top(heap)[2] <= d[2]
  BY <1>3, <1>4 DEF Top
<1> QED
  BY <1>5

LEMMA NeighbourEdges ==
  ASSUME NEW g, Searchable(g), NEW u, NEW v
  PROVE  v \in Neighbours(g, u) <=> <<u, v>> \in g.edge
BY DEF Neighbours, Searchable

(***************************************************************************)
(* Relaxing the edges of u (`for v in self.adjacency[u]`).                 *)
(***************************************************************************)
Nearer(g, run, u, v) ==
  <<u, v>> \in g.edge /\ (run.dist[v] = None \/ run.dist[u] + Weight(g, u, v) < run.dist[v])

LEMMA RelaxOne ==
  ASSUME NEW g, NEW s \in g.node, NEW run, NEW u \in g.node,
         Searchable(g), Recorded(g, s, run), run.dist[u] # None
  PROVE  LET r == Relax(g, run, u) IN
         /\ r = [dist |-> r.dist, prev |-> r.prev]
         /\ DOMAIN r.dist = g.node /\ DOMAIN r.prev = g.node
         /\ r.dist = [v \in g.node |-> r.dist[v]] /\ r.prev = [v \in g.node |-> r.prev[v]]
         /\ \A v \in g.node :
              IF Nearer(g, run, u, v)
                THEN r.dist[v] = run.dist[u] + Weight(g, u, v) /\ r.prev[v] = u
                ELSE r.dist[v] = run.dist[v] /\ r.prev[v] = run.prev[v]
<1> DEFINE alt == [v \in Neighbours(g, u) |-> run.dist[u] + Weight(g, u, v)]
           better == {v \in DOMAIN alt : Shorter(alt[v], run.dist[v])}
           r == Relax(g, run, u)
<1>1. DOMAIN run.dist = g.node /\ DOMAIN run.prev = g.node /\ run.dist[u] \in Nat
  BY DEF Recorded
<1>2. ASSUME NEW v \in g.node PROVE v \in better <=> Nearer(g, run, u, v)
  <2>1. v \in better <=> v \in Neighbours(g, u) /\ Shorter(alt[v], run.dist[v])
    OBVIOUS
  <2>2. CASE <<u, v>> \in g.edge
    <3>1. alt[v] = run.dist[u] + Weight(g, u, v) /\ alt[v] \in Nat
      BY <1>1, <2>2, NeighbourEdges DEF Searchable
    <3> QED
      BY <2>1, <2>2, <3>1, NeighbourEdges, RoutingAssumption DEF Nearer, Shorter
  <2>3. CASE <<u, v>> \notin g.edge
    BY <2>1, <2>3, NeighbourEdges DEF Nearer
  <2> QED
    BY <2>2, <2>3
<1>3. \A v \in better : alt[v] = run.dist[u] + Weight(g, u, v)
  OBVIOUS
<1>4. r = [dist |-> [v \in DOMAIN run.dist |-> IF v \in better THEN alt[v] ELSE run.dist[v]],
           prev |-> [v \in DOMAIN run.prev |-> IF v \in better THEN u ELSE run.prev[v]]]
  BY DEF Relax
<1> HIDE DEF alt, better, r
<1>5. /\ r.dist = [v \in g.node |-> IF v \in better THEN alt[v] ELSE run.dist[v]]
      /\ r.prev = [v \in g.node |-> IF v \in better THEN u ELSE run.prev[v]]
  BY <1>1, <1>4
<1>6. ASSUME NEW v \in g.node
      PROVE  IF Nearer(g, run, u, v)
               THEN r.dist[v] = run.dist[u] + Weight(g, u, v) /\ r.prev[v] = u
               ELSE r.dist[v] = run.dist[v] /\ r.prev[v] = run.prev[v]
  BY <1>2, <1>3, <1>5
<1> QED
  BY <1>4, <1>5, <1>6 DEF r

LEMMA RelaxRecorded ==
  ASSUME NEW g, NEW s \in g.node, NEW run, NEW u \in g.node,
         Searchable(g), Recorded(g, s, run), run.dist[u] # None
  PROVE  Recorded(g, s, Relax(g, run, u))
<1> DEFINE r == Relax(g, run, u)
<1>1. /\ r = [dist |-> r.dist, prev |-> r.prev]
      /\ r.dist = [v \in g.node |-> r.dist[v]] /\ r.prev = [v \in g.node |-> r.prev[v]]
      /\ \A v \in g.node :
           IF Nearer(g, run, u, v)
             THEN r.dist[v] = run.dist[u] + Weight(g, u, v) /\ r.prev[v] = u
             ELSE r.dist[v] = run.dist[v] /\ r.prev[v] = run.prev[v]
  BY RelaxOne
<1>2. run.dist[u] \in Nat /\ run.dist \in [g.node -> Nat \cup {None}]
  BY DEF Recorded
<1>3. \A v \in g.node : <<u, v>> \in g.edge => Weight(g, u, v) \in Nat \ {0}
  BY DEF Searchable
<1> HIDE DEF r
<1>4. ASSUME NEW v \in g.node
      PROVE  /\ r.dist[v] \in Nat \cup {None}
             /\ run.dist[v] # None => r.dist[v] \in Nat /\ r.dist[v] <= run.dist[v]
  <2>1. CASE Nearer(g, run, u, v)
    <3>1. r.dist[v] = run.dist[u] + Weight(g, u, v) /\ Weight(g, u, v) \in Nat
      BY <1>1, <1>3, <2>1 DEF Nearer
    <3>2. r.dist[v] \in Nat
      BY <1>2, <3>1
    <3> QED
      BY <1>2, <2>1, <3>1, <3>2 DEF Nearer
  <2>2. CASE ~Nearer(g, run, u, v)
    <3>1. r.dist[v] = run.dist[v] /\ run.dist[v] \in Nat \cup {None}
      BY <1>1, <1>2, <2>2
    <3> QED
      BY <3>1
  <2> QED
    BY <2>1, <2>2
<1>5. ~Nearer(g, run, u, s)
  BY <1>2, <1>3, RoutingAssumption DEF Nearer, Recorded
<1>6. \A v \in g.node : r.prev[v] \in g.node \cup {None}
  BY <1>1 DEF Recorded
<1>7. \A v \in g.node \ {s} : r.dist[v] # None <=> r.prev[v] # None
  <2> SUFFICES ASSUME NEW v \in g.node \ {s} PROVE r.dist[v] # None <=> r.prev[v] # None
    OBVIOUS
  <2>1. CASE Nearer(g, run, u, v)
    <3>1. r.dist[v] \in Nat /\ r.prev[v] = u
      BY <1>1, <1>2, <1>3, <2>1 DEF Nearer
    <3> QED
      BY <3>1, RoutingAssumption DEF Searchable
  <2>2. CASE ~Nearer(g, run, u, v)
    BY <1>1, <2>2 DEF Recorded
  <2> QED
    BY <2>1, <2>2
\* A distance only shrinks.
<1>8. \A x \in g.node : run.dist[x] # None =>
        /\ run.dist[x] \in Nat /\ r.dist[x] \in Nat /\ r.dist[x] <= run.dist[x]
  BY <1>2, <1>4
<1>9. ASSUME NEW v \in g.node, r.prev[v] # None
      PROVE  /\ <<r.prev[v], v>> \in g.edge
             /\ r.dist[r.prev[v]] # None
             /\ r.dist[r.prev[v]] + Weight(g, r.prev[v], v) <= r.dist[v]
  <2>1. CASE Nearer(g, run, u, v)
    <3>1. r.prev[v] = u /\ r.dist[v] = run.dist[u] + Weight(g, u, v) /\ <<u, v>> \in g.edge
      BY <1>1, <2>1 DEF Nearer
    <3> QED
      BY <1>3, <1>8, <3>1, RoutingAssumption
  <2>2. CASE ~Nearer(g, run, u, v)
    <3> DEFINE p == run.prev[v]
    <3>1. r.prev[v] = p /\ r.dist[v] = run.dist[v] /\ p \in g.node
      BY <1>1, <1>9, <2>2 DEF Recorded
    <3>2. <<p, v>> \in g.edge /\ run.dist[p] # None /\ run.dist[p] + Weight(g, p, v) <= run.dist[v]
      BY <1>9, <3>1 DEF Recorded
    <3>3. Weight(g, p, v) \in Nat /\ run.dist[v] # None
      <4>1. v # s
        BY <1>9, <3>1 DEF Recorded
      <4> QED
        BY <3>1, <3>2, <4>1, <1>9 DEF Searchable, Recorded
    <3> HIDE DEF p
    <3> QED
      BY <1>8, <3>1, <3>2, <3>3, RoutingAssumption
  <2> QED
    BY <2>1, <2>2
<1>10. r.dist[s] = 0 /\ r.prev[s] = None
  BY <1>1, <1>5 DEF Recorded
<1>11. r.dist \in [g.node -> Nat \cup {None}] /\ r.prev \in [g.node -> g.node \cup {None}]
  BY <1>1, <1>4, <1>6
<1> QED
  BY <1>1, <1>7, <1>9, <1>10, <1>11 DEF Recorded, r

-----------------------------------------------------------------------------
(* One turn of the loop                                                    *)

\* What bounds the turns that are left: pairs in the heap, and edges whose
\* relaxation may push one.
Unrelaxed(g, st) == {e \in g.edge : e[1] \notin Done(g, st)}
Left(g, st) == Cardinality(st.heap) + Cardinality(Unrelaxed(g, st))

LEMMA DropOutOfDate ==
  ASSUME NEW g, NEW s \in g.node, NEW st, Searchable(g), SearchInv(g, s, st),
         st.heap # {}, OutOfDate(st)
  PROVE  /\ SearchInv(g, s, Pop(g, st))
         /\ Cardinality(Pop(g, st).heap) = Cardinality(st.heap) - 1
         /\ Unrelaxed(g, Pop(g, st)) = Unrelaxed(g, st)
         /\ Done(g, Pop(g, st)) = Done(g, st) /\ Pop(g, st).run = st.run
<1> DEFINE t == Top(st.heap)
           after == Pop(g, st)
<1>1. after.run = st.run /\ after.heap = st.heap \ {t}
      /\ after = [run |-> st.run, heap |-> st.heap \ {t}]
  BY DEF Pop, SearchInv, HeapTyped
<1>2. t \in st.heap /\ t[1] # st.run.dist[t[2]]
  BY TopLeast DEF SearchInv, HeapTyped, OutOfDate, Searchable
<1> HIDE DEF t, after
<1>3. Done(g, after) = Done(g, st)
  <2>1. \A u \in g.node : <<st.run.dist[u], u>> # t
    BY <1>2
  <2> QED
    BY <1>1, <2>1 DEF Done
<1>4. IsFiniteSet(after.heap) /\ Cardinality(after.heap) = Cardinality(st.heap) - 1
  BY <1>1, <1>2, FS_RemoveElement DEF SearchInv, HeapTyped
<1>5. HeapTyped(g, after)
  BY <1>1, <1>4 DEF SearchInv, HeapTyped
<1>6. SearchInv(g, s, after)
  BY <1>1, <1>3, <1>5 DEF SearchInv
<1> QED
  BY <1>1, <1>3, <1>4, <1>6 DEF after, Unrelaxed

\* The numbers of the nodes that become nearer and of their pairs.
PairsOf(dist, ch) == {<<dist[v], v>> : v \in ch}
EdgesFrom(edge, u) == {e \in edge : e[1] = u}

LEMMA PushedFew ==
  ASSUME NEW edge, IsFiniteSet(edge), NEW u, NEW ch, \A v \in ch : <<u, v>> \in edge, NEW dist
  PROVE  /\ IsFiniteSet(PairsOf(dist, ch)) /\ IsFiniteSet(EdgesFrom(edge, u))
         /\ Cardinality(PairsOf(dist, ch)) <= Cardinality(EdgesFrom(edge, u))
<1> DEFINE pushed == PairsOf(dist, ch)
           out == EdgesFrom(edge, u)
<1> DEFINE f == [v \in ch |-> <<u, v>>]
           h == [v \in ch |-> <<dist[v], v>>]
<1>1. IsFiniteSet(out)
  BY FS_Subset DEF EdgesFrom
<1>2. f \in Injection(ch, out)
  BY DEF Injection, IsInjective, EdgesFrom
<1>3. h \in Surjection(ch, pushed)
  BY DEF Surjection, PairsOf
<1> HIDE DEF f, h, pushed, out
<1>4. IsFiniteSet(ch) /\ Cardinality(ch) <= Cardinality(out)
  BY <1>1, <1>2, FS_Injection
<1>5. IsFiniteSet(pushed) /\ Cardinality(pushed) <= Cardinality(ch)
  BY <1>3, <1>4, FS_Surjection
<1>6. Cardinality(pushed) <= Cardinality(out)
  BY <1>1, <1>4, <1>5, FS_CardinalityType
<1> QED
  BY <1>1, <1>5, <1>6 DEF pushed, out

(***************************************************************************)
(* A turn that relaxes the edges of the top's node.  That node was not     *)
(* done, and no node that is done gets nearer: the heap is in order.       *)
(***************************************************************************)
LEMMA RelaxTop ==
  ASSUME NEW g, NEW s \in g.node, NEW st, Searchable(g), SearchInv(g, s, st),
         st.heap # {}, ~OutOfDate(st)
  PROVE  LET u == Top(st.heap)[2] IN
         /\ SearchInv(g, s, Pop(g, st)) /\ Left(g, Pop(g, st)) < Left(g, st)
         /\ u \in g.node /\ st.run.dist[u] # None /\ Pop(g, st).run = Relax(g, st.run, u)
         /\ u \notin Done(g, st) /\ Done(g, Pop(g, st)) = Done(g, st) \cup {u}
         /\ \A x \in Done(g, Pop(g, st)) : Pop(g, st).run.dist[x] = st.run.dist[x]
<1> DEFINE t == Top(st.heap)
           u == t[2]
           run == st.run
           r == Relax(g, run, u)
           ch == {v \in DOMAIN r.dist : r.dist[v] # run.dist[v]}
           pushed == {<<r.dist[v], v>> : v \in ch}
           after == Pop(g, st)
           out == {e \in g.edge : e[1] = u}
<1>1. t \in st.heap /\ \A d \in st.heap : t[1] <= d[1]
  BY TopLeast DEF SearchInv, HeapTyped, Searchable
<1>2. u \in g.node /\ run.dist[u] # None /\ run.dist[u] = t[1] /\ t = <<run.dist[u], u>>
      /\ run.dist[u] \in Nat
  BY <1>1 DEF SearchInv, HeapTyped, OutOfDate
<1>3. Recorded(g, s, run)
  BY DEF SearchInv
<1> HIDE DEF t, u, run
<1>4. /\ DOMAIN r.dist = g.node
      /\ \A v \in g.node : IF Nearer(g, run, u, v) THEN r.dist[v] = run.dist[u] + Weight(g, u, v)
                           ELSE r.dist[v] = run.dist[v]
  <2>1. u \in g.node /\ run.dist[u] # None
    BY <1>2
  <2>2. /\ r = [dist |-> r.dist, prev |-> r.prev]
        /\ r.dist = [v \in g.node |-> r.dist[v]] /\ r.prev = [v \in g.node |-> r.prev[v]]
        /\ \A v \in g.node :
             IF Nearer(g, run, u, v)
               THEN r.dist[v] = run.dist[u] + Weight(g, u, v) /\ r.prev[v] = u
               ELSE r.dist[v] = run.dist[v] /\ r.prev[v] = run.prev[v]
    BY <1>3, <2>1, RelaxOne
  <2> QED
    BY <2>2
<1>5. Recorded(g, s, r)
  BY <1>2, <1>3, RelaxRecorded
<1>6. after.run = r /\ after.heap = (st.heap \ {t}) \cup pushed
      /\ after = [run |-> after.run, heap |-> after.heap]
  BY DEF Pop, SearchInv, HeapTyped, t, u, run
<1> HIDE DEF r, after
<1>7. \A v \in g.node : <<u, v>> \in g.edge => Weight(g, u, v) \in Nat \ {0}
  BY <1>2 DEF Searchable
<1>8. ASSUME NEW v \in g.node
      PROVE  /\ v \in ch <=> Nearer(g, run, u, v)
             /\ v \in ch => /\ r.dist[v] \in Nat /\ r.dist[v] > run.dist[u]
                            /\ <<u, v>> \in g.edge
                            /\ run.dist[v] = None \/ r.dist[v] < run.dist[v]
  <2>1. v \in ch <=> r.dist[v] # run.dist[v]
    BY <1>4
  <2>2. run.dist[v] \in Nat \cup {None}
    BY <1>3 DEF Recorded
  <2>3. CASE Nearer(g, run, u, v)
    <3>1. r.dist[v] = run.dist[u] + Weight(g, u, v) /\ <<u, v>> \in g.edge
          /\ Weight(g, u, v) \in Nat \ {0}
          /\ (run.dist[v] = None \/ run.dist[u] + Weight(g, u, v) < run.dist[v])
      BY <1>4, <1>7, <2>3 DEF Nearer
    <3>2. r.dist[v] \in Nat /\ r.dist[v] > run.dist[u]
          /\ (run.dist[v] = None \/ r.dist[v] < run.dist[v])
      BY <1>2, <3>1
    <3>3. r.dist[v] # run.dist[v]
      BY <2>2, <3>2, RoutingAssumption
    <3> QED
      BY <2>1, <2>3, <3>1, <3>2, <3>3
  <2>4. CASE ~Nearer(g, run, u, v)
    BY <1>4, <2>1, <2>4
  <2> QED
    BY <2>3, <2>4
<1>9. ch \subseteq g.node
  BY <1>4
<1> HIDE DEF ch
<1>10. u \notin Done(g, st)
  BY <1>1, <1>2 DEF Done, run
<1>11. ASSUME NEW x \in g.node
       PROVE  x \in Done(g, after) <=> x \in Done(g, st) \cup {u}
  <2>1. CASE x \in ch
    <3>1. x \notin Done(g, after)
      BY <1>6, <2>1 DEF Done, pushed
    <3>2. x # u
      <4>1. SUFFICES ASSUME x = u PROVE FALSE
        OBVIOUS
      <4>2. r.dist[u] \in Nat /\ r.dist[u] > run.dist[u] /\ r.dist[u] < run.dist[u]
        BY <1>2, <1>8, <2>1, <4>1
      <4> QED
        BY <1>2, <4>2
    <3>3. x \notin Done(g, st)
      <4>1. SUFFICES ASSUME x \in Done(g, st) PROVE FALSE
        OBVIOUS
      <4>2. run.dist[x] <= run.dist[u] /\ run.dist[x] # None
        BY <1>1, <1>2, <4>1 DEF SearchInv, Done, run
      <4>3. run.dist[x] \in Nat /\ r.dist[x] \in Nat /\ r.dist[x] > run.dist[u]
            /\ r.dist[x] < run.dist[x]
        BY <1>3, <1>8, <2>1, <4>2 DEF Recorded
      <4> QED
        BY <1>2, <4>2, <4>3
    <3> QED
      BY <3>1, <3>2, <3>3
  <2>2. CASE x \notin ch
    <3>1. r.dist[x] = run.dist[x]
      BY <1>4, <2>2 DEF ch
    <3>2. <<r.dist[x], x>> \notin pushed
      BY <2>2 DEF pushed
    <3>3. <<run.dist[x], x>> \in after.heap <=> <<run.dist[x], x>> \in st.heap /\ x # u
      BY <1>2, <1>6, <3>1, <3>2
    <3> QED
      BY <1>2, <1>6, <3>1, <3>3 DEF Done, run
  <2> QED
    BY <2>1, <2>2
<1>12. Done(g, after) = Done(g, st) \cup {u}
  BY <1>2, <1>11 DEF Done
<1>13. \A x \in Done(g, after) : /\ x \in g.node /\ r.dist[x] = run.dist[x]
                                 /\ run.dist[x] \in Nat /\ run.dist[x] <= run.dist[u]
  <2> SUFFICES ASSUME NEW x \in Done(g, after)
               PROVE  /\ x \in g.node /\ r.dist[x] = run.dist[x]
                      /\ run.dist[x] \in Nat /\ run.dist[x] <= run.dist[u]
    OBVIOUS
  <2>1. x \in g.node /\ r.dist[x] # None /\ x \notin ch
    BY <1>6 DEF Done, pushed
  <2>2. r.dist[x] = run.dist[x] /\ run.dist[x] \in Nat
    BY <1>3, <1>4, <2>1 DEF Recorded, ch
  <2>3. run.dist[x] <= run.dist[u]
    <3>1. CASE x = u
      BY <1>2, <3>1
    <3>2. CASE x \in Done(g, st)
      BY <1>1, <1>2, <3>2 DEF SearchInv, run
    <3> QED
      BY <1>12, <3>1, <3>2
  <2> QED
    BY <2>1, <2>2, <2>3
<1>14. ASSUME NEW x \in Done(g, after), NEW v \in g.node, <<x, v>> \in g.edge
       PROVE  r.dist[v] # None /\ r.dist[v] <= r.dist[x] + Weight(g, x, v)
  <2>1. Weight(g, x, v) \in Nat
    BY <1>13, <1>14 DEF Searchable
  <2>2. run.dist[v] # None => run.dist[v] \in Nat /\ r.dist[v] \in Nat /\ r.dist[v] <= run.dist[v]
    <3>1. run.dist[v] \in Nat \cup {None}
      BY <1>3 DEF Recorded
    <3>2. CASE v \in ch
      <4>1. r.dist[v] \in Nat /\ (run.dist[v] = None \/ r.dist[v] < run.dist[v])
        BY <1>8, <3>2
      <4> QED
        BY <3>1, <4>1
    <3>3. CASE v \notin ch
      BY <1>4, <3>1, <3>3 DEF ch
    <3> QED
      BY <3>2, <3>3
  <2>3. CASE x \in Done(g, st)
    <3>1. run.dist[v] # None /\ run.dist[v] <= run.dist[x] + Weight(g, x, v)
      BY <1>14, <2>3 DEF SearchInv, Settled, run
    <3> QED
      BY <1>13, <2>1, <2>2, <3>1, RoutingAssumption
  <2>4. CASE x = u /\ v \in ch
    <3>1. r.dist[v] = run.dist[u] + Weight(g, u, v)
      BY <1>4, <1>8, <2>4
    <3> QED
      BY <1>2, <1>13, <2>1, <2>4, <3>1, RoutingAssumption
  <2>5. CASE x = u /\ v \notin ch
    <3>1. run.dist[v] # None /\ ~(run.dist[u] + Weight(g, u, v) < run.dist[v])
      BY <1>8, <1>14, <2>5 DEF Nearer
    <3> QED
      BY <1>2, <1>13, <2>1, <2>2, <2>5, <3>1, RoutingAssumption
  <2> QED
    BY <1>12, <2>3, <2>4, <2>5
<1>15. Settled(g, after.run.dist, Done(g, after))
  BY <1>6, <1>14 DEF Settled
<1>16. \A x \in Done(g, after), e \in after.heap : after.run.dist[x] <= e[1]
  <2> SUFFICES ASSUME NEW x \in Done(g, after), NEW e \in after.heap
               PROVE  r.dist[x] <= e[1]
    BY <1>6
  <2>1. e[1] \in Nat /\ run.dist[u] <= e[1]
    <3>1. CASE e \in st.heap
      BY <1>1, <1>2, <3>1 DEF SearchInv, HeapTyped
    <3>2. CASE e \in pushed
      <4>1. PICK v \in ch : e = <<r.dist[v], v>>
        BY <3>2 DEF pushed
      <4>2. r.dist[v] \in Nat /\ r.dist[v] > run.dist[u]
        BY <1>8, <1>9
      <4> QED
        BY <1>2, <4>1, <4>2
    <3> QED
      BY <1>6, <3>1, <3>2
  <2> QED
    BY <1>2, <1>13, <2>1
<1>17. IsFiniteSet(pushed) /\ IsFiniteSet(out) /\ Cardinality(pushed) <= Cardinality(out)
  <2>1. pushed = PairsOf(r.dist, ch) /\ out = EdgesFrom(g.edge, u)
    BY DEF PairsOf, EdgesFrom
  <2>2. IsFiniteSet(g.edge) /\ \A v \in ch : <<u, v>> \in g.edge
    BY <1>8, <1>9 DEF Searchable
  <2> HIDE DEF pushed, out, ch, r
  <2>3. /\ IsFiniteSet(PairsOf(r.dist, ch)) /\ IsFiniteSet(EdgesFrom(g.edge, u))
        /\ Cardinality(PairsOf(r.dist, ch)) <= Cardinality(EdgesFrom(g.edge, u))
    BY <2>2, PushedFew
  <2> QED
    BY <2>1, <2>3
<1> HIDE DEF pushed, out
<1>18. HeapTyped(g, after)
  <2>1. IsFiniteSet(after.heap)
    <3>1. IsFiniteSet(st.heap \ {t})
      BY FS_RemoveElement DEF SearchInv, HeapTyped
    <3> QED
      BY <1>6, <1>17, <3>1, FS_Union
  <2>2. ASSUME NEW e \in after.heap
        PROVE  e \in Nat \X g.node /\ r.dist[e[2]] # None /\ r.dist[e[2]] <= e[1]
    <3>1. CASE e \in pushed
      <4>1. PICK v \in ch : e = <<r.dist[v], v>>
        BY <3>1 DEF pushed
      <4>2. v \in g.node /\ r.dist[v] \in Nat
        BY <1>8, <1>9
      <4> QED
        BY <4>1, <4>2, RoutingAssumption
    <3>2. CASE e \in st.heap
      <4>1. e \in Nat \X g.node /\ run.dist[e[2]] # None /\ run.dist[e[2]] <= e[1]
        BY <3>2 DEF SearchInv, HeapTyped, run
      <4>2. run.dist[e[2]] \in Nat
        BY <1>3, <4>1 DEF Recorded
      <4>3. CASE e[2] \in ch
        <5>1. r.dist[e[2]] \in Nat /\ r.dist[e[2]] < run.dist[e[2]]
          BY <1>8, <1>9, <4>1, <4>3
        <5> QED
          BY <4>1, <4>2, <5>1, RoutingAssumption
      <4>4. CASE e[2] \notin ch
        BY <1>4, <4>1, <4>4 DEF ch
      <4> QED
        BY <4>3, <4>4
    <3> QED
      BY <1>6, <3>1, <3>2
  <2> QED
    BY <1>6, <2>1, <2>2 DEF HeapTyped
<1>19. SearchInv(g, s, after)
  BY <1>5, <1>6, <1>15, <1>16, <1>18 DEF SearchInv
<1>20. Left(g, after) < Left(g, st)
  <2>1. Unrelaxed(g, after) = Unrelaxed(g, st) \ out
    BY <1>12 DEF Unrelaxed, out
  <2>2. out \subseteq Unrelaxed(g, st) /\ IsFiniteSet(Unrelaxed(g, st))
    BY <1>10, FS_Subset DEF Unrelaxed, out, Searchable
  <2>3. Unrelaxed(g, st) \cap out = out
    BY <2>2
  <2>4. Cardinality(Unrelaxed(g, after)) = Cardinality(Unrelaxed(g, st)) - Cardinality(out)
    BY <2>1, <2>2, <2>3, FS_Difference
  <2>5. IsFiniteSet(st.heap) /\ IsFiniteSet(st.heap \ {t})
        /\ Cardinality(st.heap \ {t}) = Cardinality(st.heap) - 1
    BY <1>1, FS_RemoveElement DEF SearchInv, HeapTyped
  <2>6. Cardinality(after.heap)
          = Cardinality(st.heap \ {t}) + Cardinality(pushed) - Cardinality((st.heap \ {t}) \cap pushed)
    BY <1>6, <1>17, <2>5, FS_Union
  <2>7. Cardinality((st.heap \ {t}) \cap pushed) \in Nat
    BY <2>5, FS_Intersection, FS_CardinalityType
  <2>8. {Cardinality(st.heap), Cardinality(pushed), Cardinality(out),
         Cardinality(Unrelaxed(g, st))} \subseteq Nat
    BY <1>17, <2>2, <2>5, FS_CardinalityType
  <2> HIDE DEF after
  <2> QED
    BY <1>17, <2>4, <2>5, <2>6, <2>7, <2>8 DEF Left
<1>21. \A x \in Done(g, after) : after.run.dist[x] = run.dist[x]
  BY <1>6, <1>13
<1> QED
  BY <1>2, <1>6, <1>10, <1>12, <1>19, <1>20, <1>21 DEF after, u, t, run, r

-----------------------------------------------------------------------------
(* The whole search                                                        *)

Begun(g, s) == [run |-> Start(g, s), heap |-> {<<0, s>>}]

\* The states that a search goes through, up to the n-th.
IsSearch(f, g, s, n) ==
  f = [i \in 0..n |-> IF i = 0 THEN Begun(g, s) ELSE Pop(g, f[i - 1])]

LEMMA SearchExists ==
  ASSUME NEW g, NEW s, NEW n \in Nat
  PROVE  \E f : IsSearch(f, g, s, n)
<1> DEFINE K == {k \in Nat : \E f : IsSearch(f, g, s, k)}
<1>1. 0 \in K
  <2>1. IsSearch([i \in 0..0 |-> Begun(g, s)], g, s, 0)
    BY DEF IsSearch
  <2> QED
    BY <2>1
<1>2. ASSUME NEW k \in Nat, k \in K PROVE k + 1 \in K
  <2>1. PICK f : IsSearch(f, g, s, k)
    BY <1>2
  <2> DEFINE h == [i \in 0..k + 1 |-> IF i = 0 THEN Begun(g, s) ELSE Pop(g, f[i - 1])]
  <2>2. \A j \in 0..k : h[j] = f[j]
    BY <2>1 DEF IsSearch
  <2>3. \A i \in 0..k + 1 : i # 0 => i - 1 \in 0..k
    OBVIOUS
  <2>4. h = [i \in 0..k + 1 |-> IF i = 0 THEN Begun(g, s) ELSE Pop(g, h[i - 1])]
    BY <2>2, <2>3
  <2>5. IsSearch(h, g, s, k + 1)
    BY <2>4 DEF IsSearch
  <2> QED
    BY <2>5
<1> QED
  BY <1>1, <1>2, NatSetInduction

LEMMA BegunRight ==
  ASSUME NEW g, NEW s \in g.node, Searchable(g)
  PROVE  /\ SearchInv(g, s, Begun(g, s))
         /\ Left(g, Begun(g, s)) = Cardinality(g.edge) + 1
<1> DEFINE b == Begun(g, s)
<1>1. /\ b = [run |-> b.run, heap |-> b.heap] /\ b.heap = {<<0, s>>}
      /\ b.run = [dist |-> b.run.dist, prev |-> b.run.prev]
      /\ b.run.dist = [v \in g.node |-> IF v = s THEN 0 ELSE None]
      /\ b.run.prev = [v \in g.node |-> None]
  <2>1. g.node \cup {s} = g.node
    OBVIOUS
  <2> QED
    BY <2>1 DEF Begun, Start
<1> HIDE DEF b
<1>2. None \notin g.node
  BY RoutingAssumption DEF Searchable
<1>3. Recorded(g, s, b.run)
  BY <1>1, <1>2, RoutingAssumption DEF Recorded
<1>4. HeapTyped(g, b)
  <2>1. IsFiniteSet(b.heap)
    BY <1>1, FS_Singleton
  <2>2. b.heap \subseteq Nat \X g.node
    BY <1>1
  <2>3. b.run.dist[s] = 0 /\ 0 # None
    BY <1>1, RoutingAssumption
  <2>4. \A e \in b.heap : e[1] = 0 /\ e[2] = s
    BY <1>1
  <2> QED
    BY <1>1, <2>1, <2>2, <2>3, <2>4 DEF HeapTyped
<1>5. Done(g, b) = {}
  BY <1>1 DEF Done
<1>6. SearchInv(g, s, b)
  BY <1>3, <1>4, <1>5 DEF SearchInv, Settled
<1>7. Unrelaxed(g, b) = g.edge
  BY <1>5 DEF Unrelaxed
<1>8. Cardinality(b.heap) = 1 /\ Cardinality(g.edge) \in Nat
  BY <1>1, FS_Singleton, FS_CardinalityType DEF Searchable
<1> QED
  BY <1>6, <1>7, <1>8 DEF b, Left

LEMMA LeftNat ==
  ASSUME NEW g, NEW s, NEW st, Searchable(g), SearchInv(g, s, st)
  PROVE  Left(g, st) \in Nat /\ (Left(g, st) = 0 => st.heap = {})
<1>1. IsFiniteSet(st.heap) /\ IsFiniteSet(Unrelaxed(g, st))
  BY FS_Subset DEF SearchInv, HeapTyped, Searchable, Unrelaxed
<1>2. Cardinality(st.heap) \in Nat /\ Cardinality(Unrelaxed(g, st)) \in Nat
  BY <1>1, FS_CardinalityType
<1>3. Left(g, st) \in Nat /\ (Left(g, st) = 0 => Cardinality(st.heap) = 0)
  BY <1>2 DEF Left
<1>4. Cardinality(st.heap) = 0 => st.heap = {}
  BY <1>1, FS_EmptySet
<1> QED
  BY <1>3, <1>4

LEMMA TurnKeeps ==
  ASSUME NEW g, NEW s \in g.node, NEW st, Searchable(g), SearchInv(g, s, st)
  PROVE  /\ SearchInv(g, s, Pop(g, st))
         /\ st.heap = {} => Pop(g, st) = st
         /\ st.heap # {} => Left(g, Pop(g, st)) < Left(g, st)
<1>1. CASE st.heap = {}
  BY <1>1 DEF Pop
<1>2. CASE st.heap # {} /\ OutOfDate(st)
  <2>1. Cardinality(Unrelaxed(g, st)) \in Nat /\ Cardinality(st.heap) \in Nat
    <3>1. IsFiniteSet(st.heap) /\ IsFiniteSet(Unrelaxed(g, st))
      BY FS_Subset DEF SearchInv, HeapTyped, Searchable, Unrelaxed
    <3> QED
      BY <3>1, FS_CardinalityType
  <2> QED
    BY <1>2, <2>1, DropOutOfDate DEF Left
<1>3. CASE st.heap # {} /\ ~OutOfDate(st)
  <2>1. SearchInv(g, s, Pop(g, st)) /\ Left(g, Pop(g, st)) < Left(g, st)
    BY <1>3, RelaxTop
  <2> QED
    BY <1>3, <2>1
<1> QED
  BY <1>1, <1>2, <1>3

(***************************************************************************)
(* A search returns with the heap empty: |edges| + 1 turns suffice.        *)
(***************************************************************************)
LEMMA SearchEnds ==
  ASSUME NEW g, NEW s \in g.node, Searchable(g), NEW n \in Nat, NEW f,
         n >= Cardinality(g.edge) + 1, IsSearch(f, g, s, n)
  PROVE  SearchInv(g, s, f[n]) /\ f[n].heap = {}
<1> DEFINE K == {k \in Nat : k \in 0..n => /\ SearchInv(g, s, f[k])
                                           /\ \/ f[k].heap = {}
                                              \/ Left(g, f[k]) + k <= Cardinality(g.edge) + 1}
<1>1. 0 \in K
  <2>1. f[0] = Begun(g, s)
    BY DEF IsSearch
  <2>2. Left(g, f[0]) + 0 <= Cardinality(g.edge) + 1
    BY <2>1, BegunRight, FS_CardinalityType DEF Searchable
  <2> QED
    BY <2>1, <2>2, BegunRight
<1>2. ASSUME NEW k \in Nat, k \in K PROVE k + 1 \in K
  <2>1. SUFFICES ASSUME k + 1 \in 0..n
                 PROVE  /\ SearchInv(g, s, f[k + 1])
                        /\ \/ f[k + 1].heap = {}
                           \/ Left(g, f[k + 1]) + (k + 1) <= Cardinality(g.edge) + 1
    OBVIOUS
  <2>2. k \in 0..n /\ f[k + 1] = Pop(g, f[k])
    <3>1. k \in 0..n /\ k + 1 # 0 /\ (k + 1) - 1 = k
      BY <2>1
    <3>2. f[k + 1] = IF k + 1 = 0 THEN Begun(g, s) ELSE Pop(g, f[(k + 1) - 1])
      BY <2>1, Zenon DEF IsSearch
    <3> QED
      BY <3>1, <3>2
  <2>3. SearchInv(g, s, f[k])
        /\ (f[k].heap = {} \/ Left(g, f[k]) + k <= Cardinality(g.edge) + 1)
    BY <1>2, <2>2
  <2>4. SearchInv(g, s, f[k + 1])
    BY <2>2, <2>3, TurnKeeps
  <2>5. CASE f[k].heap = {}
    BY <2>2, <2>3, <2>4, <2>5, TurnKeeps
  <2>6. CASE f[k].heap # {}
    <3>1. Left(g, f[k + 1]) < Left(g, f[k])
      BY <2>2, <2>3, <2>6, TurnKeeps
    <3>2. Left(g, f[k + 1]) \in Nat /\ Left(g, f[k]) \in Nat /\ Cardinality(g.edge) \in Nat
      BY <2>3, <2>4, LeftNat, FS_CardinalityType DEF Searchable
    <3> QED
      BY <2>3, <2>4, <2>6, <3>1, <3>2
  <2> QED
    BY <2>5, <2>6
<1>3. n \in K
  BY <1>1, <1>2, NatSetInduction
<1>4. SearchInv(g, s, f[n]) /\ (f[n].heap = {} \/ Left(g, f[n]) + n <= Cardinality(g.edge) + 1)
  BY <1>3
<1>5. Left(g, f[n]) \in Nat /\ Cardinality(g.edge) \in Nat
  BY <1>4, LeftNat, FS_CardinalityType DEF Searchable
<1>6. CASE Left(g, f[n]) + n <= Cardinality(g.edge) + 1
  <2>1. Left(g, f[n]) = 0
    BY <1>5, <1>6
  <2> QED
    BY <1>4, <2>1, LeftNat
<1> QED
  BY <1>4, <1>6

(***************************************************************************)
(* What a search returns: distances of walks, and no edge offers a shorter *)
(* way to anywhere.                                                        *)
(***************************************************************************)
Solved(g, s, run) ==
  Recorded(g, s, run) /\ Settled(g, run.dist, {u \in g.node : run.dist[u] # None})

LEMMA DijkstraSolves ==
  ASSUME NEW g, NEW s \in g.node, Searchable(g)
  PROVE  Solved(g, s, Dijkstra(g, s))
<1> DEFINE n == Cardinality(g.edge) + 1
           f == CHOOSE h : h = [i \in 0..n |-> IF i = 0 THEN [run |-> Start(g, s), heap |-> {<<0, s>>}]
                                               ELSE Pop(g, h[i - 1])]
<1>1. n \in Nat
  BY FS_CardinalityType DEF Searchable
<1>2. Dijkstra(g, s) = f[n].run
  BY DEF Dijkstra
<1> HIDE DEF n
<1>3. IsSearch(f, g, s, n)
  <2>1. \E h : IsSearch(h, g, s, n)
    BY <1>1, SearchExists
  <2>2. \E h : h = [i \in 0..n |-> IF i = 0 THEN [run |-> Start(g, s), heap |-> {<<0, s>>}]
                                   ELSE Pop(g, h[i - 1])]
    BY <2>1, Zenon DEF IsSearch, Begun
  <2> QED
    BY <2>2, Zenon DEF IsSearch, Begun
<1> HIDE DEF f
<1>4. SearchInv(g, s, f[n]) /\ f[n].heap = {}
  BY <1>1, <1>3, SearchEnds DEF n
<1>5. Done(g, f[n]) = {u \in g.node : f[n].run.dist[u] # None}
  BY <1>4 DEF Done
<1> QED
  BY <1>2, <1>4, <1>5 DEF SearchInv, Solved

-----------------------------------------------------------------------------
(* Walking back to the source                                              *)

IsWalk(f, prev, t, n) ==
  f = [i \in 0..n |-> IF i = 0 THEN <<t>>
                      ELSE LET p == f[i - 1] IN
                           IF prev[Last(p)] = None THEN p ELSE Append(p, prev[Last(p)])]

LEMMA WalkExists ==
  ASSUME NEW prev, NEW t, NEW n \in Nat
  PROVE  \E f : IsWalk(f, prev, t, n)
<1> DEFINE Step(p) == IF prev[Last(p)] = None THEN p ELSE Append(p, prev[Last(p)])
           K == {k \in Nat : \E f : f = [i \in 0..k |-> IF i = 0 THEN <<t>> ELSE Step(f[i - 1])]}
<1> HIDE DEF Step
<1>1. 0 \in K
  <2> DEFINE f == [i \in 0..0 |-> <<t>>]
  <2>1. f = [i \in 0..0 |-> IF i = 0 THEN <<t>> ELSE Step(f[i - 1])]
    OBVIOUS
  <2> QED
    BY <2>1
<1>2. ASSUME NEW k \in Nat, k \in K PROVE k + 1 \in K
  <2>1. PICK f : f = [i \in 0..k |-> IF i = 0 THEN <<t>> ELSE Step(f[i - 1])]
    BY <1>2
  <2> DEFINE h == [i \in 0..k + 1 |-> IF i = 0 THEN <<t>> ELSE Step(f[i - 1])]
  <2>2. \A j \in 0..k : h[j] = f[j]
    BY <2>1
  <2>3. \A i \in 0..k + 1 : i # 0 => i - 1 \in 0..k
    OBVIOUS
  <2>4. h = [i \in 0..k + 1 |-> IF i = 0 THEN <<t>> ELSE Step(h[i - 1])]
    BY <2>2, <2>3
  <2> HIDE DEF h
  <2> QED
    BY <2>4
<1>3. n \in K
  BY <1>1, <1>2, NatSetInduction
<1> QED
  BY <1>3, Zenon DEF IsWalk, Step

\* p follows the predecessors from t.
IsTrace(g, run, t, p) ==
  /\ p \in Seq(g.node) /\ Len(p) >= 1 /\ p[1] = t
  /\ \A j \in 1..Len(p) : run.dist[p[j]] # None
  /\ \A j \in 1..Len(p) - 1 : run.prev[p[j]] = p[j + 1]

Below(g, run, x) == {v \in g.node : run.dist[v] # None /\ run.dist[v] < run.dist[x]}

LEMMA PrevNearer ==
  ASSUME NEW g, NEW s \in g.node, NEW run, Searchable(g), Recorded(g, s, run),
         NEW x \in g.node, run.prev[x] # None
  PROVE  LET u == run.prev[x] IN
         /\ u \in g.node /\ <<u, x>> \in g.edge
         /\ run.dist[u] \in Nat /\ run.dist[x] \in Nat /\ Weight(g, u, x) \in Nat \ {0}
         /\ run.dist[u] + Weight(g, u, x) <= run.dist[x]
         /\ run.dist[u] < run.dist[x]
<1> DEFINE u == run.prev[x]
<1>1. u \in g.node /\ <<u, x>> \in g.edge /\ run.dist[u] # None
      /\ run.dist[u] + Weight(g, u, x) <= run.dist[x]
  BY DEF Recorded
<1>2. run.dist[u] \in Nat /\ Weight(g, u, x) \in Nat \ {0}
  BY <1>1 DEF Recorded, Searchable
<1>3. run.dist[x] \in Nat
  BY DEF Recorded
<1> HIDE DEF u
<1>4. run.dist[u] < run.dist[x]
  BY <1>1, <1>2, <1>3
<1> QED
  BY <1>1, <1>2, <1>3, <1>4 DEF u

LEMMA BelowShrinks ==
  ASSUME NEW g, NEW s \in g.node, NEW run, Searchable(g), Recorded(g, s, run),
         NEW x \in g.node, run.prev[x] # None
  PROVE  /\ Cardinality(Below(g, run, x)) \in Nat
         /\ Cardinality(Below(g, run, run.prev[x])) \in Nat
         /\ Cardinality(Below(g, run, run.prev[x])) < Cardinality(Below(g, run, x))
<1> DEFINE u == run.prev[x]
<1>1. u \in g.node /\ run.dist[u] \in Nat /\ run.dist[x] \in Nat /\ run.dist[u] < run.dist[x]
  BY PrevNearer
<1> HIDE DEF u
<1>2. \A v \in g.node : run.dist[v] # None => run.dist[v] \in Nat
  BY DEF Recorded
<1>3. u \in Below(g, run, x) /\ u \notin Below(g, run, u)
  BY <1>1, RoutingAssumption DEF Below
<1>4. Below(g, run, u) \subseteq Below(g, run, x) \ {u}
  BY <1>1, <1>2, <1>3 DEF Below
<1>5. IsFiniteSet(Below(g, run, x))
  BY FS_Subset DEF Below, Searchable
<1>6. /\ IsFiniteSet(Below(g, run, x) \ {u})
      /\ Cardinality(Below(g, run, x) \ {u}) = Cardinality(Below(g, run, x)) - 1
  BY <1>3, <1>5, FS_RemoveElement
<1>7. /\ IsFiniteSet(Below(g, run, u))
      /\ Cardinality(Below(g, run, u)) <= Cardinality(Below(g, run, x)) - 1
  BY <1>4, <1>6, FS_Subset
<1>8. Cardinality(Below(g, run, x)) \in Nat /\ Cardinality(Below(g, run, u)) \in Nat
  BY <1>5, <1>7, FS_CardinalityType
<1> QED
  BY <1>7, <1>8 DEF u

(***************************************************************************)
(* The walk back from a node with a distance ends at the source.           *)
(***************************************************************************)
LEMMA WalkEnds ==
  ASSUME NEW g, NEW s \in g.node, NEW run, Searchable(g), Recorded(g, s, run),
         NEW t \in g.node, run.dist[t] # None, NEW n, n = Cardinality(g.node),
         NEW f, IsWalk(f, run.prev, t, n)
  PROVE  IsTrace(g, run, t, f[n]) /\ f[n][Len(f[n])] = s
<1> DEFINE L(p) == p[Len(p)]
           Bound(p) == Cardinality(Below(g, run, L(p)))
           K == {k \in Nat : k \in 0..n => /\ IsTrace(g, run, t, f[k])
                                           /\ \/ run.prev[L(f[k])] = None
                                              \/ Bound(f[k]) + k <= n - 1}
<1>1. n \in Nat /\ n # 0
  BY FS_CardinalityType, FS_EmptySet DEF Searchable
<1>2. 0 \in K
  <2>1. f[0] = <<t>>
    BY <1>1 DEF IsWalk
  <2>2. IsTrace(g, run, t, <<t>>) /\ L(<<t>>) = t
    BY DEF IsTrace
  <2>3. Bound(<<t>>) <= n - 1
    <3>1. ~(run.dist[t] < run.dist[t])
      BY DEF Recorded
    <3>2. Below(g, run, t) \subseteq g.node \ {t}
      BY <3>1 DEF Below
    <3>3. IsFiniteSet(g.node \ {t}) /\ Cardinality(g.node \ {t}) = n - 1
      BY FS_RemoveElement DEF Searchable
    <3> QED
      BY <2>2, <3>2, <3>3, FS_Subset
  <2>4. Bound(<<t>>) \in Nat
    BY <2>2, FS_Subset, FS_CardinalityType DEF Below, Searchable
  <2> HIDE DEF Bound
  <2> QED
    BY <1>1, <2>1, <2>2, <2>3, <2>4
<1>3. ASSUME NEW k \in Nat, k \in K PROVE k + 1 \in K
  <2>1. SUFFICES ASSUME k + 1 \in 0..n
                 PROVE  /\ IsTrace(g, run, t, f[k + 1])
                        /\ \/ run.prev[L(f[k + 1])] = None
                           \/ Bound(f[k + 1]) + (k + 1) <= n - 1
    OBVIOUS
  <2> DEFINE p == f[k]
             x == L(p)
             u == run.prev[x]
  <2>2. k \in 0..n /\ f[k + 1] = IF u = None THEN p ELSE Append(p, u)
    <3>1. k \in 0..n /\ k + 1 # 0 /\ (k + 1) - 1 = k
      BY <1>1, <2>1
    <3> QED
      BY <2>1, <3>1 DEF IsWalk, Last
  <2>3. IsTrace(g, run, t, p) /\ (u = None \/ Bound(p) + k <= n - 1)
    BY <1>3, <2>2
  <2>4. x \in g.node
    BY <2>3 DEF IsTrace
  <2>5. CASE u = None
    BY <2>2, <2>3, <2>5
  <2>6. CASE u # None
    <3> DEFINE q == Append(p, u)
    <3> HIDE DEF p, x
    <3>1. u \in g.node /\ run.dist[u] # None
      <4>1. u \in g.node /\ run.dist[u] \in Nat
        BY <2>4, <2>6, PrevNearer
      <4> QED
        BY <4>1, RoutingAssumption
    <3> HIDE DEF u
    <3>2. /\ q \in Seq(g.node) /\ Len(q) = Len(p) + 1 /\ q[Len(p) + 1] = u
          /\ \A j \in 1..Len(p) : q[j] = p[j]
      <4>1. p \in Seq(g.node)
        BY <2>3 DEF IsTrace
      <4> QED
        BY <3>1, <4>1
    <3> HIDE DEF q
    <3>3. IsTrace(g, run, t, q) /\ L(q) = u
      <4>1. Len(p) \in Nat /\ Len(p) >= 1
        BY <2>3 DEF IsTrace
      <4>2. \A j \in 1..Len(q) : run.dist[q[j]] # None
        BY <2>3, <3>1, <3>2, <4>1 DEF IsTrace
      <4>3. ASSUME NEW j \in 1..Len(q) - 1 PROVE run.prev[q[j]] = q[j + 1]
        <5>1. CASE j = Len(p)
          BY <3>2, <4>1, <5>1 DEF u, x
        <5>2. CASE j # Len(p)
          BY <2>3, <3>2, <4>1, <5>2 DEF IsTrace
        <5> QED
          BY <5>1, <5>2
      <4> QED
        BY <2>3, <3>2, <4>1, <4>2, <4>3 DEF IsTrace
    <3>4. Bound(q) < Bound(p) /\ Bound(q) \in Nat /\ Bound(p) \in Nat
      <4>1. Bound(q) = Cardinality(Below(g, run, u)) /\ Bound(p) = Cardinality(Below(g, run, x))
        BY <3>3 DEF x
      <4> QED
        BY <2>4, <2>6, <4>1, BelowShrinks DEF u
    <3>5. f[k + 1] = q
      BY <2>2, <2>6 DEF q
    <3>6. Bound(q) + (k + 1) <= n - 1
      <4> HIDE DEF Bound
      <4> QED
        BY <1>1, <2>3, <2>6, <3>4
    <3> QED
      BY <3>3, <3>5, <3>6
  <2> QED
    BY <2>5, <2>6
<1>4. n \in K
  BY <1>1, <1>2, <1>3, NatSetInduction
<1>5. IsTrace(g, run, t, f[n])
  BY <1>1, <1>4
<1>6. L(f[n]) \in g.node /\ run.dist[L(f[n])] # None
  BY <1>5 DEF IsTrace
<1>7. run.prev[L(f[n])] = None
  <2>1. Bound(f[n]) \in Nat
    BY FS_Subset, FS_CardinalityType DEF Below, Searchable
  <2> HIDE DEF Bound
  <2> QED
    BY <1>1, <1>4, <2>1
<1> QED
  BY <1>5, <1>6, <1>7 DEF Recorded

LEMMA BackFromTraces ==
  ASSUME NEW g, NEW s \in g.node, NEW run, Searchable(g), Recorded(g, s, run),
         NEW t \in g.node, run.dist[t] # None
  PROVE  LET p == BackFrom(run.prev, t) IN IsTrace(g, run, t, p) /\ p[Len(p)] = s
<1> DEFINE n == Cardinality(DOMAIN run.prev)
           f == CHOOSE h : h = [i \in 0..n |->
                  IF i = 0 THEN <<t>>
                  ELSE LET p == h[i - 1] IN
                       IF run.prev[Last(p)] = None THEN p ELSE Append(p, run.prev[Last(p)])]
<1>1. n = Cardinality(g.node) /\ n \in Nat
  BY FS_CardinalityType DEF Searchable, Recorded
<1>2. BackFrom(run.prev, t) = f[n]
  BY DEF BackFrom
<1> HIDE DEF n
<1>3. IsWalk(f, run.prev, t, n)
  <2>1. \E h : IsWalk(h, run.prev, t, n)
    BY <1>1, WalkExists
  <2> QED
    BY <2>1, Zenon DEF IsWalk
<1> HIDE DEF f
<1>4. IsTrace(g, run, t, f[n]) /\ f[n][Len(f[n])] = s
  BY <1>1, <1>3, WalkEnds
<1> QED
  BY <1>2, <1>4

(***************************************************************************)
(* What _get_next_hop returns: none where there is no way, and otherwise a *)
(* neighbour from which the rest of the way is shorter by the first edge.  *)
(* The neighbour's own search need not have found the same way.            *)
(***************************************************************************)
LEMMA NoNextHop ==
  ASSUME NEW g, NEW s \in g.node, NEW run, Searchable(g), Recorded(g, s, run),
         NEW t, t = s \/ t \notin g.node \/ run.dist[t] = None
  PROVE  NextHop(run.prev, s, t) = None
BY DEF NextHop, Recorded

LEMMA NextHopDescends ==
  ASSUME NEW g, NEW s \in g.node, NEW run, Searchable(g), Solved(g, s, run),
         NEW t \in g.node, t # s, run.dist[t] # None
  PROVE  LET h == NextHop(run.prev, s, t) IN
         /\ h \in g.node /\ <<s, h>> \in g.edge
         /\ \A other : Solved(g, h, other) =>
              /\ other.dist[t] \in Nat
              /\ other.dist[t] + Weight(g, s, h) <= run.dist[t]
<1> DEFINE p == BackFrom(run.prev, t)
           h == p[Len(p) - 1]
<1>1. Recorded(g, s, run)
  BY DEF Solved
<1>2. IsTrace(g, run, t, p) /\ p[Len(p)] = s
  BY <1>1, BackFromTraces
<1>3. NextHop(run.prev, s, t) = h
  BY <1>1 DEF NextHop, Recorded
<1> HIDE DEF p
<1>4. Len(p) \in Nat /\ Len(p) >= 2
  <2>1. p \in Seq(g.node) /\ Len(p) >= 1 /\ p[1] = t
    BY <1>2 DEF IsTrace
  <2>2. Len(p) # 1
    BY <1>2, <2>1
  <2>3. Len(p) \in Nat /\ Len(p) >= 1
    BY <2>1
  <2>4. \A k \in Nat : k >= 1 /\ k # 1 => k >= 2
    OBVIOUS
  <2> QED
    BY <2>2, <2>3, <2>4
<1>5. ASSUME NEW j \in 1..Len(p) - 1
      PROVE  /\ p[j] \in g.node /\ p[j + 1] \in g.node /\ run.prev[p[j]] = p[j + 1]
             /\ <<p[j + 1], p[j]>> \in g.edge
             /\ run.dist[p[j + 1]] \in Nat /\ run.dist[p[j]] \in Nat
             /\ Weight(g, p[j + 1], p[j]) \in Nat \ {0}
             /\ run.dist[p[j + 1]] + Weight(g, p[j + 1], p[j]) <= run.dist[p[j]]
  <2>1. j \in 1..Len(p) /\ j + 1 \in 1..Len(p)
    BY <1>4
  <2>2. p[j] \in g.node /\ p[j + 1] \in g.node /\ run.prev[p[j]] = p[j + 1]
    BY <1>2, <2>1 DEF IsTrace
  <2>3. p[j + 1] # None
    BY <2>2, RoutingAssumption DEF Searchable
  <2> QED
    BY <1>1, <2>2, <2>3, PrevNearer
<1>6. Len(p) - 1 \in 1..Len(p) - 1 /\ (Len(p) - 1) + 1 = Len(p)
  BY <1>4
<1>7. h \in g.node /\ <<s, h>> \in g.edge /\ Weight(g, s, h) \in Nat
      /\ run.dist[s] + Weight(g, s, h) <= run.dist[h] /\ run.dist[h] \in Nat
  BY <1>2, <1>5, <1>6
<1>8. ASSUME NEW other, Solved(g, h, other)
      PROVE  /\ other.dist[t] \in Nat
             /\ other.dist[t] + Weight(g, s, h) <= run.dist[t]
  <2> DEFINE K == {k \in Nat : k <= Len(p) - 2 =>
                     LET x == p[Len(p) - 1 - k] IN
                     /\ other.dist[x] \in Nat
                     /\ other.dist[x] + Weight(g, s, h) <= run.dist[x]}
  <2>1. other.dist \in [g.node -> Nat \cup {None}] /\ other.dist[h] = 0
    BY <1>8 DEF Solved, Recorded
  <2>2. run.dist[s] = 0
    BY <1>1 DEF Recorded
  <2>3. 0 \in K
    <3>1. Len(p) - 1 - 0 = Len(p) - 1
      BY <1>4
    <3>2. other.dist[h] \in Nat /\ other.dist[h] + Weight(g, s, h) <= run.dist[h]
      BY <1>7, <2>1, <2>2
    <3> QED
      BY <3>1, <3>2
  <2>4. ASSUME NEW k \in Nat, k \in K PROVE k + 1 \in K
    <3>1. SUFFICES ASSUME k + 1 <= Len(p) - 2
                   PROVE  LET x == p[Len(p) - 1 - (k + 1)] IN
                          /\ other.dist[x] \in Nat
                          /\ other.dist[x] + Weight(g, s, h) <= run.dist[x]
      OBVIOUS
    <3> DEFINE j == Len(p) - 1 - (k + 1)
    <3>2. j \in 1..Len(p) - 1 /\ j + 1 = Len(p) - 1 - k /\ k <= Len(p) - 2
      BY <1>4, <3>1
    <3>3. /\ other.dist[p[j + 1]] \in Nat
          /\ other.dist[p[j + 1]] + Weight(g, s, h) <= run.dist[p[j + 1]]
      BY <2>4, <3>2
    <3> HIDE DEF j
    <3>4. /\ p[j] \in g.node /\ p[j + 1] \in g.node
          /\ <<p[j + 1], p[j]>> \in g.edge
          /\ run.dist[p[j + 1]] \in Nat /\ run.dist[p[j]] \in Nat
          /\ Weight(g, p[j + 1], p[j]) \in Nat
          /\ run.dist[p[j + 1]] + Weight(g, p[j + 1], p[j]) <= run.dist[p[j]]
      BY <1>5, <3>2
    <3>5. p[j + 1] \in {u \in g.node : other.dist[u] # None}
      BY <3>3, <3>4, RoutingAssumption
    <3>6. other.dist[p[j]] # None
          /\ other.dist[p[j]] <= other.dist[p[j + 1]] + Weight(g, p[j + 1], p[j])
      BY <1>8, <3>4, <3>5 DEF Solved, Settled
    <3>7. other.dist[p[j]] \in Nat
      BY <2>1, <3>4, <3>6
    <3>8. other.dist[p[j]] + Weight(g, s, h) <= run.dist[p[j]]
      BY <1>7, <3>3, <3>4, <3>6, <3>7
    <3> QED
      BY <3>7, <3>8 DEF j
  <2>5. Len(p) - 2 \in K
    <3>1. Nat \subseteq K
      <4> HIDE DEF K
      <4> QED
        BY <2>3, <2>4, NatSetInduction
    <3>2. Len(p) - 2 \in Nat
      BY <1>4
    <3> HIDE DEF K
    <3> QED
      BY <3>1, <3>2
  <2>6. Len(p) - 1 - (Len(p) - 2) = 1 /\ p[1] = t
    BY <1>2, <1>4 DEF IsTrace
  <2> QED
    BY <1>4, <2>5, <2>6
<1> QED
  BY <1>3, <1>7, <1>8

(***************************************************************************)
(* Over the edge from s to h everything that h reaches is reached, and no  *)
(* farther than by h.                                                      *)
(***************************************************************************)
LEMMA OverAnEdge ==
  ASSUME NEW g, NEW s \in g.node, NEW run, Searchable(g), Solved(g, s, run),
         NEW h \in g.node, <<s, h>> \in g.edge, NEW other, Solved(g, h, other),
         NEW t \in g.node, other.dist[t] # None
  PROVE  run.dist[t] \in Nat /\ run.dist[t] <= Weight(g, s, h) + other.dist[t]
<1> DEFINE Good(v) == run.dist[v] \in Nat /\ run.dist[v] <= Weight(g, s, h) + other.dist[v]
           Bad == {v \in g.node : other.dist[v] # None /\ ~Good(v)}
           S == {other.dist[v] : v \in Bad}
<1>1. /\ run.dist \in [g.node -> Nat \cup {None}] /\ run.dist[s] = 0
      /\ other.dist \in [g.node -> Nat \cup {None}] /\ other.dist[h] = 0
      /\ Weight(g, s, h) \in Nat \ {0}
  BY DEF Solved, Recorded, Searchable
<1>2. ASSUME NEW u \in g.node, NEW v \in g.node, <<u, v>> \in g.edge, run.dist[u] \in Nat
      PROVE  run.dist[v] \in Nat /\ run.dist[v] <= run.dist[u] + Weight(g, u, v)
  BY <1>1, <1>2, RoutingAssumption DEF Solved, Settled
<1>3. SUFFICES ASSUME Bad # {} PROVE FALSE
  BY DEF Good
<1>4. S \subseteq Nat /\ S # {}
  BY <1>1, <1>3
<1>5. PICK n \in S : \A m \in S : n <= m
  <2> HIDE DEF S
  <2> QED
    BY <1>4, LeastNat
<1>6. PICK v \in Bad : n = other.dist[v]
  BY <1>5
<1>7. CASE v = h
  BY <1>1, <1>2, <1>6, <1>7
<1>8. CASE v # h
  <2> DEFINE u == other.prev[v]
  <2>1. other.prev[v] # None
    BY <1>6, <1>8 DEF Solved, Recorded
  <2>2. /\ u \in g.node /\ <<u, v>> \in g.edge
        /\ other.dist[u] \in Nat /\ other.dist[v] \in Nat /\ Weight(g, u, v) \in Nat
        /\ other.dist[u] + Weight(g, u, v) <= other.dist[v]
        /\ other.dist[u] < other.dist[v]
    BY <1>6, <2>1, PrevNearer DEF Solved
  <2> HIDE DEF u
  <2>3. other.dist[u] # None
    BY <2>2, RoutingAssumption
  <2>4. u \notin Bad
    <3>1. SUFFICES ASSUME u \in Bad PROVE FALSE
      OBVIOUS
    <3>2. other.dist[u] \in S
      BY <3>1
    <3>3. other.dist[v] <= other.dist[u]
      BY <1>5, <1>6, <3>2
    <3> QED
      BY <2>2, <3>3
  <2>5. Good(u)
    BY <2>2, <2>3, <2>4
  <2>6. v \in g.node
    BY <1>6
  <2>7. run.dist[v] \in Nat /\ run.dist[v] <= run.dist[u] + Weight(g, u, v)
    BY <1>2, <2>2, <2>5, <2>6
  <2>8. Good(v)
    BY <1>1, <2>2, <2>5, <2>7
  <2> QED
    BY <1>6, <2>8
<1> QED
  BY <1>7, <1>8

-----------------------------------------------------------------------------
(* Distances as lengths of shortest paths                                  *)

\* The cost of p up to its i-th node, for i up to n.
IsSum(f, g, p, n) ==
  f = [i \in 0..n |-> IF i <= 1 THEN 0 ELSE f[i - 1] + Weight(g, p[i - 1], p[i])]

LEMMA SumExists ==
  ASSUME NEW g, NEW p, NEW n \in Nat
  PROVE  \E f : IsSum(f, g, p, n)
<1> DEFINE W(i) == Weight(g, p[i - 1], p[i])
           K == {k \in Nat : \E f : f = [i \in 0..k |-> IF i <= 1 THEN 0 ELSE f[i - 1] + W(i)]}
<1> HIDE DEF W
<1>1. 0 \in K
  <2> DEFINE f == [i \in 0..0 |-> 0]
  <2>1. f = [i \in 0..0 |-> IF i <= 1 THEN 0 ELSE f[i - 1] + W(i)]
    OBVIOUS
  <2> QED
    BY <2>1
<1>2. ASSUME NEW k \in Nat, k \in K PROVE k + 1 \in K
  <2>1. PICK f : f = [i \in 0..k |-> IF i <= 1 THEN 0 ELSE f[i - 1] + W(i)]
    BY <1>2
  <2> DEFINE h == [i \in 0..k + 1 |-> IF i <= 1 THEN 0 ELSE f[i - 1] + W(i)]
  <2>2. \A j \in 0..k : h[j] = f[j]
    BY <2>1
  <2>3. \A i \in 0..k + 1 : ~(i <= 1) => i - 1 \in 0..k
    OBVIOUS
  <2>4. h = [i \in 0..k + 1 |-> IF i <= 1 THEN 0 ELSE h[i - 1] + W(i)]
    BY <2>2, <2>3
  <2> HIDE DEF h
  <2> QED
    BY <2>4
<1>3. n \in K
  BY <1>1, <1>2, NatSetInduction
<1> QED
  BY <1>3, Zenon DEF IsSum, W

LEMMA CostSums ==
  ASSUME NEW g, NEW p, Len(p) \in Nat
  PROVE  \E f : IsSum(f, g, p, Len(p)) /\ Cost(g, p) = f[Len(p)]
<1> DEFINE n == Len(p)
           f == CHOOSE h : h = [i \in 0..n |->
                  IF i <= 1 THEN 0 ELSE h[i - 1] + Weight(g, p[i - 1], p[i])]
<1>1. Cost(g, p) = f[n]
  BY DEF Cost
<1>2. IsSum(f, g, p, n)
  <2>1. \E h : IsSum(h, g, p, n)
    BY SumExists
  <2> QED
    BY <2>1, Zenon DEF IsSum
<1> HIDE DEF f
<1> QED
  BY <1>1, <1>2

LEMMA SimplePathFacts ==
  ASSUME NEW g, Searchable(g), NEW p \in SimplePaths(g)
  PROVE  /\ Len(p) \in Nat /\ Len(p) >= 1 /\ p \in Seq(g.node)
         /\ \A i \in 1..Len(p) - 1 : <<p[i], p[i + 1]>> \in g.edge
<1>1. Cardinality(g.node) \in Nat
  BY FS_CardinalityType DEF Searchable
<1>2. PICK m \in 0..Cardinality(g.node) : p \in [1..m -> g.node]
  BY DEF SimplePaths, SeqOf
<1>3. p \in Seq(g.node) /\ Len(p) = m
  BY <1>1, <1>2
<1>4. p # <<>> /\ \A i \in 1..Len(p) - 1 : <<p[i], p[i + 1]>> \in g.edge
  BY DEF SimplePaths
<1> QED
  BY <1>1, <1>3, <1>4

(***************************************************************************)
(* No path is shorter than what the search found.                          *)
(***************************************************************************)
LEMMA NoPathShorter ==
  ASSUME NEW g, NEW s \in g.node, NEW run, Searchable(g), Solved(g, s, run),
         NEW p \in SimplePaths(g), p[1] = s
  PROVE  /\ Cost(g, p) \in Nat /\ Last(p) \in g.node
         /\ run.dist[Last(p)] \in Nat /\ run.dist[Last(p)] <= Cost(g, p)
<1>1. /\ Len(p) \in Nat /\ Len(p) >= 1 /\ p \in Seq(g.node)
      /\ \A i \in 1..Len(p) - 1 : <<p[i], p[i + 1]>> \in g.edge
  BY SimplePathFacts
<1>2. PICK f : IsSum(f, g, p, Len(p)) /\ Cost(g, p) = f[Len(p)]
  BY <1>1, CostSums
<1> DEFINE Bounded(i) == f[i] \in Nat /\ run.dist[p[i]] \in Nat /\ run.dist[p[i]] <= f[i]
           K == {k \in Nat : k + 1 <= Len(p) => Bounded(k + 1)}
<1>3. run.dist \in [g.node -> Nat \cup {None}] /\ run.dist[s] = 0
  BY DEF Solved, Recorded
<1>4. 0 \in K
  <2>1. f[1] = 0
    BY <1>1, <1>2 DEF IsSum
  <2> QED
    BY <1>3, <2>1
<1>5. ASSUME NEW k \in Nat, k \in K PROVE k + 1 \in K
  <2>1. SUFFICES ASSUME k + 2 <= Len(p) PROVE Bounded(k + 2)
    <3>1. (k + 1) + 1 = k + 2
      OBVIOUS
    <3> QED
      BY <2>1, <3>1
  <2> DEFINE u == p[k + 1]
             v == p[k + 2]
  <2>2. f[k + 2] = f[k + 1] + Weight(g, u, v)
    <3>1. k + 2 \in 0..Len(p) /\ ~(k + 2 <= 1) /\ (k + 2) - 1 = k + 1
      BY <1>1, <2>1
    <3> QED
      BY <1>2, <3>1 DEF IsSum
  <2>3. u \in g.node /\ v \in g.node /\ <<u, v>> \in g.edge
    <3>1. k + 1 \in 1..Len(p) - 1 /\ k + 2 \in 1..Len(p) /\ (k + 1) + 1 = k + 2
      BY <1>1, <2>1
    <3> QED
      BY <1>1, <3>1
  <2>4. Bounded(k + 1)
    BY <1>1, <1>5, <2>1
  <2> HIDE DEF u, v
  <2>5. Weight(g, u, v) \in Nat
    BY <2>3 DEF Searchable
  <2>6. run.dist[u] \in Nat /\ f[k + 1] \in Nat /\ run.dist[u] <= f[k + 1]
    BY <2>4 DEF u
  <2>7. run.dist[v] # None /\ run.dist[v] <= run.dist[u] + Weight(g, u, v)
    BY <2>3, <2>6, RoutingAssumption DEF Solved, Settled
  <2>8. run.dist[v] \in Nat
    BY <1>3, <2>3, <2>7
  <2>9. f[k + 2] \in Nat /\ run.dist[v] <= f[k + 2]
    BY <2>2, <2>5, <2>6, <2>7, <2>8
  <2> QED
    BY <2>8, <2>9 DEF v
<1>6. Len(p) - 1 \in K
  <2> HIDE DEF K
  <2>1. Len(p) - 1 \in Nat /\ Nat \subseteq K
    BY <1>1, <1>4, <1>5, NatSetInduction
  <2> QED
    BY <2>1
<1>7. Bounded(Len(p))
  BY <1>1, <1>6
<1> QED
  BY <1>1, <1>2, <1>7 DEF Last

(***************************************************************************)
(* Along the walk back the nodes get nearer, so it is a path, backwards.   *)
(***************************************************************************)
LEMMA TraceDescends ==
  ASSUME NEW g, NEW s \in g.node, NEW run, Searchable(g), Recorded(g, s, run),
         NEW t, NEW p, IsTrace(g, run, t, p)
  PROVE  /\ \A j \in 1..Len(p) : run.dist[p[j]] \in Nat
         /\ \A i, j \in 1..Len(p) : i < j => run.dist[p[j]] < run.dist[p[i]]
<1>1. /\ p \in Seq(g.node) /\ Len(p) \in Nat
      /\ \A j \in 1..Len(p) : p[j] \in g.node /\ run.dist[p[j]] # None
      /\ \A j \in 1..Len(p) - 1 : run.prev[p[j]] = p[j + 1]
  BY DEF IsTrace
<1>2. \A j \in 1..Len(p) : run.dist[p[j]] \in Nat
  BY <1>1 DEF Recorded
<1>3. ASSUME NEW j \in 1..Len(p) - 1 PROVE run.dist[p[j + 1]] < run.dist[p[j]]
  <2>1. j \in 1..Len(p) /\ j + 1 \in 1..Len(p)
    BY <1>1
  <2>2. p[j] \in g.node /\ run.prev[p[j]] = p[j + 1] /\ run.prev[p[j]] # None
    BY <1>1, <2>1, RoutingAssumption DEF Searchable
  <2> QED
    BY <2>2, PrevNearer
<1> DEFINE K == {k \in Nat : \A i \in 1..Len(p) : i + k + 1 <= Len(p) =>
                                run.dist[p[i + k + 1]] < run.dist[p[i]]}
<1>4. 0 \in K
  BY <1>1, <1>3
<1>5. ASSUME NEW k \in Nat, k \in K PROVE k + 1 \in K
  <2>1. SUFFICES ASSUME NEW i \in 1..Len(p), i + (k + 1) + 1 <= Len(p)
                 PROVE  run.dist[p[i + (k + 1) + 1]] < run.dist[p[i]]
    OBVIOUS
  <2> DEFINE j == i + k + 1
  <2>2. j \in 1..Len(p) - 1 /\ j \in 1..Len(p) /\ j + 1 \in 1..Len(p) /\ j + 1 = i + (k + 1) + 1
    BY <1>1, <2>1
  <2>3. run.dist[p[j]] < run.dist[p[i]]
    BY <1>5, <2>2
  <2> HIDE DEF j
  <2>4. run.dist[p[j + 1]] < run.dist[p[j]]
    BY <1>3, <2>2
  <2> QED
    BY <1>2, <2>2, <2>3, <2>4
<1>6. Nat \subseteq K
  <2> HIDE DEF K
  <2> QED
    BY <1>4, <1>5, NatSetInduction
<1>7. ASSUME NEW i \in 1..Len(p), NEW j \in 1..Len(p), i < j
      PROVE  run.dist[p[j]] < run.dist[p[i]]
  <2> DEFINE k == j - i - 1
  <2>1. k \in Nat /\ i + k + 1 = j /\ j <= Len(p)
    BY <1>1, <1>7
  <2> HIDE DEF k
  <2> QED
    BY <1>6, <2>1
<1> QED
  BY <1>2, <1>7

LEMMA OnceEach ==
  ASSUME NEW N, IsFiniteSet(N), NEW q \in Seq(N),
         \A i, j \in 1..Len(q) : i # j => q[i] # q[j]
  PROVE  Cardinality(ToSet(q)) = Len(q) /\ Len(q) <= Cardinality(N)
<1>1. Len(q) \in Nat /\ q \in [1..Len(q) -> N] /\ DOMAIN q = 1..Len(q)
  OBVIOUS
<1>2. IsFiniteSet(1..Len(q)) /\ Cardinality(1..Len(q)) = Len(q)
  BY <1>1, FS_Interval
<1>3. ToSet(q) \subseteq N /\ \A i \in 1..Len(q) : q[i] \in ToSet(q)
  BY <1>1 DEF ToSet
<1>4. q \in Surjection(1..Len(q), ToSet(q))
  BY <1>1, <1>3 DEF Surjection, ToSet
<1>5. q \in Injection(1..Len(q), ToSet(q))
  BY <1>1, <1>3 DEF Injection, IsInjective
<1>6. Cardinality(ToSet(q)) = Len(q)
  BY <1>2, <1>4, <1>5, FS_Surjection
<1>7. Cardinality(ToSet(q)) <= Cardinality(N)
  BY <1>3, FS_Subset
<1> QED
  BY <1>6, <1>7

LEMMA TraceReversed ==
  ASSUME NEW g, NEW s \in g.node, NEW run, Searchable(g), Recorded(g, s, run),
         NEW t, NEW p, IsTrace(g, run, t, p), p[Len(p)] = s
  PROVE  LET q == Reverse(p) IN
         /\ q \in SimplePaths(g) /\ q[1] = s /\ Last(q) = t
         /\ Cost(g, q) \in Nat /\ run.dist[t] \in Nat /\ Cost(g, q) <= run.dist[t]
<1> DEFINE q == Reverse(p)
           n == Len(p)
<1>1. /\ p \in Seq(g.node) /\ n \in Nat /\ n >= 1 /\ p[1] = t
      /\ \A j \in 1..n : p[j] \in g.node
      /\ \A j \in 1..n - 1 : run.prev[p[j]] = p[j + 1]
  BY DEF IsTrace
<1>2. /\ q \in Seq(g.node) /\ Len(q) = n /\ q \in [1..n -> g.node]
      /\ \A i \in 1..n : q[i] = p[(n - i) + 1]
  <2>1. q = [i \in 1..n |-> p[(n - i) + 1]]
    BY DEF Reverse
  <2>2. \A i \in 1..n : (n - i) + 1 \in 1..n
    BY <1>1
  <2>3. q \in [1..n -> g.node]
    BY <1>1, <2>1, <2>2
  <2> HIDE DEF q, n
  <2> QED
    BY <1>1, <2>1, <2>3
<1> HIDE DEF q, n
<1>3. /\ \A j \in 1..n : run.dist[p[j]] \in Nat
      /\ \A i, j \in 1..n : i < j => run.dist[p[j]] < run.dist[p[i]]
  BY TraceDescends DEF n
<1>4. \A i, j \in 1..n : i # j => q[i] # q[j]
  <2>1. ASSUME NEW i \in 1..n, NEW j \in 1..n, i < j PROVE q[i] # q[j]
    <3>1. (n - i) + 1 \in 1..n /\ (n - j) + 1 \in 1..n /\ (n - j) + 1 < (n - i) + 1
      BY <1>1, <2>1
    <3>2. run.dist[q[i]] < run.dist[q[j]] /\ run.dist[q[i]] \in Nat
      BY <1>2, <1>3, <3>1
    <3> QED
      BY <3>2
  <2>2. \A i, j \in 1..n : i # j => i < j \/ j < i
    OBVIOUS
  <2> QED
    BY <2>1, <2>2
<1>5. ASSUME NEW i \in 1..n - 1
      PROVE  /\ q[i] \in g.node /\ q[i + 1] \in g.node /\ <<q[i], q[i + 1]>> \in g.edge
             /\ Weight(g, q[i], q[i + 1]) \in Nat
             /\ run.dist[q[i]] + Weight(g, q[i], q[i + 1]) <= run.dist[q[i + 1]]
             /\ run.dist[q[i]] \in Nat /\ run.dist[q[i + 1]] \in Nat
  <2> DEFINE j == n - i
  <2>1. i \in 1..n /\ i + 1 \in 1..n /\ j \in 1..n - 1 /\ j \in 1..n /\ j + 1 \in 1..n
        /\ (n - i) + 1 = j + 1 /\ (n - (i + 1)) + 1 = j
    BY <1>1
  <2> HIDE DEF j
  <2>2. q[i] = p[j + 1] /\ q[i + 1] = p[j]
    BY <1>2, <2>1
  <2>3. p[j] \in g.node /\ p[j + 1] \in g.node /\ run.prev[p[j]] = p[j + 1]
        /\ run.prev[p[j]] # None
    BY <1>1, <2>1, RoutingAssumption DEF Searchable
  <2> QED
    BY <2>2, <2>3, PrevNearer
<1>6. q \in SimplePaths(g)
  <2>1. Cardinality(ToSet(q)) = Len(q) /\ Len(q) <= Cardinality(g.node)
    BY <1>2, <1>4, OnceEach DEF Searchable
  <2>2. Cardinality(g.node) \in Nat
    BY FS_CardinalityType DEF Searchable
  <2>3. n \in 0..Cardinality(g.node)
    BY <1>1, <1>2, <2>1, <2>2
  <2>4. q \in SeqOf(g.node, Cardinality(g.node))
    BY <1>2, <2>3 DEF SeqOf
  <2>5. q # <<>>
    BY <1>1, <1>2
  <2> QED
    BY <1>2, <1>5, <2>1, <2>4, <2>5 DEF SimplePaths
<1>7. q[1] = s /\ Last(q) = t
  <2>1. 1 \in 1..n /\ n \in 1..n /\ (n - 1) + 1 = n /\ (n - n) + 1 = 1
    BY <1>1
  <2>2. p[n] = s
    BY DEF n
  <2> QED
    BY <1>1, <1>2, <2>1, <2>2 DEF Last
<1>8. Cost(g, q) \in Nat /\ Cost(g, q) <= run.dist[t] /\ run.dist[t] \in Nat
  <2>0. Len(q) \in Nat /\ Len(q) = n
    BY <1>1, <1>2
  <2>1. PICK f : IsSum(f, g, q, n) /\ Cost(g, q) = f[n]
    <3>1. \E f : IsSum(f, g, q, Len(q)) /\ Cost(g, q) = f[Len(q)]
      BY <2>0, CostSums
    <3> QED
      BY <2>0, <3>1
  <2> DEFINE Bounded(i) == f[i] \in Nat /\ f[i] <= run.dist[q[i]]
             K == {k \in Nat : k + 1 <= n => Bounded(k + 1)}
  <2>2. 0 \in K
    <3>1. f[1] = 0 /\ run.dist[q[1]] = 0
      BY <1>1, <1>7, <2>1 DEF IsSum, Recorded
    <3> QED
      BY <3>1
  <2>3. ASSUME NEW k \in Nat, k \in K PROVE k + 1 \in K
    <3>1. SUFFICES ASSUME k + 2 <= n PROVE Bounded(k + 2)
      <4>1. (k + 1) + 1 = k + 2
        OBVIOUS
      <4> QED
        BY <3>1, <4>1
    <3> DEFINE j == k + 1
    <3>2. j \in 1..n - 1 /\ k + 2 = j + 1 /\ j + 1 \in 0..n /\ ~(j + 1 <= 1) /\ (j + 1) - 1 = j
      BY <1>1, <3>1
    <3>3. Bounded(j)
      BY <1>1, <2>3, <3>1
    <3> HIDE DEF j
    <3>4. f[j + 1] = f[j] + Weight(g, q[j], q[j + 1])
      BY <2>1, <3>2 DEF IsSum
    <3>5. /\ Weight(g, q[j], q[j + 1]) \in Nat
          /\ run.dist[q[j]] + Weight(g, q[j], q[j + 1]) <= run.dist[q[j + 1]]
          /\ run.dist[q[j]] \in Nat /\ run.dist[q[j + 1]] \in Nat
      BY <1>5, <3>2
    <3>6. Bounded(j + 1)
      BY <3>3, <3>4, <3>5
    <3> QED
      BY <3>2, <3>6
  <2>4. n - 1 \in K
    <3> HIDE DEF K
    <3>1. n - 1 \in Nat /\ Nat \subseteq K
      BY <1>1, <2>2, <2>3, NatSetInduction
    <3> QED
      BY <3>1
  <2>5. Bounded(n)
    BY <1>1, <2>4
  <2>6. q[n] = t /\ 1 \in 1..n
    BY <1>1, <1>2, <1>7 DEF Last
  <2> QED
    BY <1>1, <1>3, <2>1, <2>5, <2>6
<1> QED
  BY <1>6, <1>7, <1>8 DEF q

(***************************************************************************)
(* The distances that a search returns are those of shortest paths.        *)
(***************************************************************************)
LEMMA SolvedIsShortest ==
  ASSUME NEW g, NEW s \in g.node, NEW run, Searchable(g), Solved(g, s, run),
         NEW t \in g.node
  PROVE  Distances(g)[s][t] = run.dist[t]
<1> DEFINE C == {Cost(g, p) : p \in {q \in SimplePaths(g) : q[1] = s /\ Last(q) = t}}
<1>1. Distances(g)[s][t] = IF C = {} THEN None ELSE Min(C)
  BY DEF Distances
<1>2. \A c \in C : c \in Nat /\ run.dist[t] \in Nat /\ run.dist[t] <= c
  BY NoPathShorter
<1>3. CASE run.dist[t] = None
  <2>1. C = {}
    BY <1>2, <1>3, RoutingAssumption
  <2> QED
    BY <1>1, <1>3, <2>1
<1>4. CASE run.dist[t] # None
  <2>1. Recorded(g, s, run)
    BY DEF Solved
  <2> DEFINE q == Reverse(BackFrom(run.prev, t))
  <2>2. /\ q \in SimplePaths(g) /\ q[1] = s /\ Last(q) = t
        /\ Cost(g, q) \in Nat /\ run.dist[t] \in Nat /\ Cost(g, q) <= run.dist[t]
    BY <1>4, <2>1, BackFromTraces, TraceReversed
  <2> HIDE DEF q
  <2>3. Cost(g, q) \in C
    BY <2>2
  <2> HIDE DEF C
  <2>4. run.dist[t] \in C /\ run.dist[t] \in Nat
    <3>1. Cost(g, q) \in Nat /\ run.dist[t] <= Cost(g, q)
      BY <1>2, <2>3
    <3>2. Cost(g, q) = run.dist[t]
      BY <2>2, <3>1
    <3> QED
      BY <2>2, <2>3, <3>2
  <2>5. \A x \in C : (\A y \in C : x <= y) => x = run.dist[t]
    <3>1. SUFFICES ASSUME NEW x \in C, \A y \in C : x <= y PROVE x = run.dist[t]
      OBVIOUS
    <3>2. x \in Nat /\ run.dist[t] <= x /\ x <= run.dist[t]
      BY <1>2, <2>4, <3>1
    <3> QED
      BY <2>4, <3>2
  <2>6. Min(C) = run.dist[t]
    BY <1>2, <2>4, <2>5 DEF Min
  <2> QED
    BY <1>1, <2>4, <2>6
<1> QED
  BY <1>3, <1>4

-----------------------------------------------------------------------------
(* Bellman-Ford                                                            *)

\* The place of v in the order of the numbers.
Rank(S, v) == Cardinality({w \in S : w <= v})

LEMMA NthCounts ==
  ASSUME NEW S, S \subseteq Nat, IsFiniteSet(S)
  PROVE  /\ Cardinality(S) \in Nat
         /\ \A v \in S : Rank(S, v) \in 1..Cardinality(S) /\ Nth(S, Rank(S, v)) = v
         /\ \A i \in 1..Cardinality(S) : Nth(S, i) \in S
<1> DEFINE n == Cardinality(S)
           upTo(v) == {w \in S : w <= v}
           rank == [v \in S |-> Rank(S, v)]
<1>1. n \in Nat
  BY FS_CardinalityType
<1>2. ASSUME NEW v \in S PROVE Rank(S, v) \in 1..n
  <2>1. IsFiniteSet(upTo(v)) /\ Cardinality(upTo(v)) <= n
    BY FS_Subset
  <2>2. Cardinality(upTo(v)) \in Nat /\ Cardinality(upTo(v)) # 0
    BY <2>1, FS_CardinalityType, FS_EmptySet
  <2> QED
    BY <1>1, <2>1, <2>2 DEF Rank
<1>3. ASSUME NEW v \in S, NEW w \in S, v < w PROVE Rank(S, v) # Rank(S, w)
  <2>1. IsFiniteSet(upTo(w)) /\ upTo(v) \subseteq upTo(w) /\ w \in upTo(w) /\ w \notin upTo(v)
    <3>1. IsFiniteSet(upTo(w))
      BY FS_Subset
    <3>2. \A x \in S : x \in Nat
      OBVIOUS
    <3>3. \A x \in S : x <= v => x <= w
      BY <1>3, <3>2
    <3>4. w <= w /\ ~(w <= v)
      BY <1>3, <3>2
    <3> QED
      BY <3>1, <3>3, <3>4
  <2> HIDE DEF upTo
  <2>2. Cardinality(upTo(v)) # Cardinality(upTo(w))
    BY <2>1, FS_Subset
  <2> QED
    BY <2>2 DEF Rank, upTo
<1>4. \A v, w \in S : Rank(S, v) = Rank(S, w) => v = w
  BY <1>3
<1>5. rank \in Injection(S, 1..n)
  BY <1>2, <1>4 DEF Injection, IsInjective
<1>6. IsFiniteSet(1..n) /\ Cardinality(1..n) = n
  BY <1>1, FS_Interval
<1>7. rank \in Surjection(S, 1..n)
  <2> HIDE DEF rank, n
  <2>1. Cardinality(S) = Cardinality(1..n)
    BY <1>6 DEF n
  <2> QED
    BY <1>5, <1>6, <2>1, FS_Injection
<1>8. ASSUME NEW v \in S PROVE Nth(S, Rank(S, v)) = v
  <2>1. Nth(S, Rank(S, v)) = CHOOSE w \in S : Rank(S, w) = Rank(S, v)
    BY DEF Nth, Rank
  <2> QED
    BY <1>4, <2>1
<1>9. ASSUME NEW i \in 1..n PROVE Nth(S, i) \in S
  <2>1. PICK v \in S : rank[v] = i
    BY <1>7 DEF Surjection
  <2> QED
    BY <1>8, <2>1
<1> QED
  BY <1>1, <1>2, <1>8, <1>9

\* The turn of u in a round.
Turn(g, r, u) == IF r.dist[u] = None THEN r ELSE Relax(g, r, u)

IsRound(f, g, st, n) ==
  f = [i \in 0..n |-> IF i = 0 THEN st ELSE Turn(g, f[i - 1], Nth(g.node, i))]

LEMMA RoundExists ==
  ASSUME NEW g, NEW st, NEW n \in Nat
  PROVE  \E f : IsRound(f, g, st, n)
<1> DEFINE Step(r, i) == Turn(g, r, Nth(g.node, i))
           K == {k \in Nat : \E f : f = [i \in 0..k |-> IF i = 0 THEN st ELSE Step(f[i - 1], i)]}
<1> HIDE DEF Step
<1>1. 0 \in K
  <2> DEFINE f == [i \in 0..0 |-> st]
  <2>1. f = [i \in 0..0 |-> IF i = 0 THEN st ELSE Step(f[i - 1], i)]
    OBVIOUS
  <2> QED
    BY <2>1
<1>2. ASSUME NEW k \in Nat, k \in K PROVE k + 1 \in K
  <2>1. PICK f : f = [i \in 0..k |-> IF i = 0 THEN st ELSE Step(f[i - 1], i)]
    BY <1>2
  <2> DEFINE h == [i \in 0..k + 1 |-> IF i = 0 THEN st ELSE Step(f[i - 1], i)]
  <2>2. \A j \in 0..k : h[j] = f[j]
    BY <2>1
  <2>3. \A i \in 0..k + 1 : i # 0 => i - 1 \in 0..k
    OBVIOUS
  <2>4. h = [i \in 0..k + 1 |-> IF i = 0 THEN st ELSE Step(h[i - 1], i)]
    BY <2>2, <2>3
  <2> HIDE DEF h
  <2> QED
    BY <2>4
<1>3. n \in K
  BY <1>1, <1>2, NatSetInduction
<1> QED
  BY <1>3, Zenon DEF IsRound, Step

\* Nothing that was reached becomes farther.
NoFarther(g, new, old) ==
  \A v \in g.node : old.dist[v] # None => new.dist[v] # None /\ new.dist[v] <= old.dist[v]

LEMMA TurnRelaxes ==
  ASSUME NEW g, NEW s \in g.node, NEW r, NEW u \in g.node, Searchable(g), Recorded(g, s, r)
  PROVE  /\ Recorded(g, s, Turn(g, r, u))
         /\ NoFarther(g, Turn(g, r, u), r)
         /\ r.dist[u] # None => \A v \in g.node : <<u, v>> \in g.edge =>
              /\ Turn(g, r, u).dist[v] # None
              /\ Turn(g, r, u).dist[v] <= r.dist[u] + Weight(g, u, v)
<1>1. r.dist \in [g.node -> Nat \cup {None}]
  BY DEF Recorded
<1>2. CASE r.dist[u] = None
  <2>1. Turn(g, r, u) = r
    BY <1>2 DEF Turn
  <2>2. NoFarther(g, r, r)
    BY <1>1 DEF NoFarther
  <2> QED
    BY <1>2, <2>1, <2>2
<1>3. CASE r.dist[u] # None
  <2> DEFINE n == Relax(g, r, u)
  <2>1. Turn(g, r, u) = n
    BY <1>3 DEF Turn
  <2>2. Recorded(g, s, n)
    BY <1>3, RelaxRecorded
  <2>3. \A v \in g.node : IF Nearer(g, r, u, v) THEN n.dist[v] = r.dist[u] + Weight(g, u, v)
                          ELSE n.dist[v] = r.dist[v]
    <3>1. /\ n = [dist |-> n.dist, prev |-> n.prev]
          /\ DOMAIN n.dist = g.node /\ DOMAIN n.prev = g.node
          /\ n.dist = [v \in g.node |-> n.dist[v]] /\ n.prev = [v \in g.node |-> n.prev[v]]
          /\ \A v \in g.node :
               IF Nearer(g, r, u, v)
                 THEN n.dist[v] = r.dist[u] + Weight(g, u, v) /\ n.prev[v] = u
                 ELSE n.dist[v] = r.dist[v] /\ n.prev[v] = r.prev[v]
      BY <1>3, RelaxOne
    <3> QED
      BY <3>1
  <2> HIDE DEF n
  <2>4. n.dist \in [g.node -> Nat \cup {None}]
    BY <2>2 DEF Recorded
  <2>5. \A v \in g.node : <<u, v>> \in g.edge => Weight(g, u, v) \in Nat
    BY DEF Searchable
  <2>6. ASSUME NEW v \in g.node
        PROVE  /\ r.dist[v] # None => n.dist[v] # None /\ n.dist[v] <= r.dist[v]
               /\ <<u, v>> \in g.edge =>
                    n.dist[v] # None /\ n.dist[v] <= r.dist[u] + Weight(g, u, v)
    <3>1. CASE Nearer(g, r, u, v)
      <4>1. /\ n.dist[v] = r.dist[u] + Weight(g, u, v) /\ Weight(g, u, v) \in Nat
            /\ (r.dist[v] = None \/ r.dist[u] + Weight(g, u, v) < r.dist[v])
            /\ r.dist[u] \in Nat /\ r.dist[v] \in Nat \cup {None}
        BY <1>1, <1>3, <2>3, <2>5, <3>1 DEF Nearer
      <4> QED
        BY <4>1, RoutingAssumption
    <3>2. CASE ~Nearer(g, r, u, v)
      <4>1. n.dist[v] = r.dist[v] /\ r.dist[v] \in Nat \cup {None} /\ r.dist[u] \in Nat
        BY <1>1, <1>3, <2>3, <3>2
      <4>2. <<u, v>> \in g.edge =>
              /\ Weight(g, u, v) \in Nat /\ r.dist[v] # None
              /\ ~(r.dist[u] + Weight(g, u, v) < r.dist[v])
        BY <2>5, <3>2 DEF Nearer
      <4> QED
        BY <4>1, <4>2
    <3> QED
      BY <3>1, <3>2
  <2> QED
    BY <2>1, <2>2, <2>6 DEF NoFarther
<1> QED
  BY <1>2, <1>3

(***************************************************************************)
(* After a round every edge has been relaxed at the distance its start had *)
(* before the round, or at a shorter one.                                  *)
(***************************************************************************)
LEMMA RoundRelaxes ==
  ASSUME NEW g, NEW s \in g.node, NEW st, Searchable(g), Recorded(g, s, st)
  PROVE  LET r == Round(g, st) IN
         /\ Recorded(g, s, r) /\ NoFarther(g, r, st)
         /\ \A u, v \in g.node : st.dist[u] # None /\ <<u, v>> \in g.edge =>
              r.dist[v] # None /\ r.dist[v] <= st.dist[u] + Weight(g, u, v)
<1> DEFINE n == Cardinality(g.node)
           f == CHOOSE h : h = [i \in 0..n |->
                  IF i = 0 THEN st
                  ELSE LET r == h[i - 1]
                           u == Nth(g.node, i)
                       IN IF r.dist[u] = None THEN r ELSE Relax(g, r, u)]
<1>1. Round(g, st) = f[n]
  BY DEF Round
<1>2. /\ n \in Nat
      /\ \A v \in g.node : Rank(g.node, v) \in 1..n /\ Nth(g.node, Rank(g.node, v)) = v
      /\ \A i \in 1..n : Nth(g.node, i) \in g.node
  BY NthCounts DEF Searchable
<1> HIDE DEF n
<1>3. IsRound(f, g, st, n)
  <2>1. \E h : IsRound(h, g, st, n)
    BY <1>2, RoundExists
  <2> QED
    BY <2>1, Zenon DEF IsRound, Turn
<1> HIDE DEF f
<1>4. st.dist \in [g.node -> Nat \cup {None}]
  BY DEF Recorded
<1>5. \A u, v \in g.node : <<u, v>> \in g.edge => Weight(g, u, v) \in Nat
  BY DEF Searchable
<1> DEFINE Bounded(r, u) ==
             \A v \in g.node : st.dist[u] # None /\ <<u, v>> \in g.edge =>
               r.dist[v] # None /\ r.dist[v] <= st.dist[u] + Weight(g, u, v)
           P(i) == /\ Recorded(g, s, f[i]) /\ NoFarther(g, f[i], st)
                   /\ \A u \in g.node : Rank(g.node, u) <= i => Bounded(f[i], u)
           K == {k \in Nat : k <= n => P(k)}
<1>6. 0 \in K
  <2>1. f[0] = st
    BY <1>2, <1>3 DEF IsRound
  <2>2. NoFarther(g, st, st)
    BY <1>4 DEF NoFarther
  <2>3. \A u \in g.node : ~(Rank(g.node, u) <= 0)
    BY <1>2
  <2> HIDE DEF Bounded
  <2> QED
    BY <2>1, <2>2, <2>3
<1>7. ASSUME NEW k \in Nat, k \in K PROVE k + 1 \in K
  <2>1. SUFFICES ASSUME k + 1 <= n PROVE P(k + 1)
    OBVIOUS
  <2> DEFINE r == f[k]
             x == Nth(g.node, k + 1)
             new == f[k + 1]
  <2>2. P(k)
    BY <1>2, <1>7, <2>1
  <2>3. new = Turn(g, r, x) /\ x \in g.node
    <3>1. k + 1 \in 0..n /\ k + 1 \in 1..n /\ k + 1 # 0 /\ (k + 1) - 1 = k
      BY <1>2, <2>1
    <3> QED
      BY <1>2, <1>3, <3>1 DEF IsRound
  <2>4. Recorded(g, s, r) /\ NoFarther(g, r, st)
    BY <2>2
  <2>5. \A u \in g.node : Rank(g.node, u) <= k => Bounded(r, u)
    BY <2>2
  <2>6. \A u \in g.node : Rank(g.node, u) = k + 1 => u = x
    BY <1>2
  <2> HIDE DEF r, x, new
  <2>7. /\ Recorded(g, s, new) /\ NoFarther(g, new, r)
        /\ r.dist[x] # None => \A v \in g.node : <<x, v>> \in g.edge =>
             new.dist[v] # None /\ new.dist[v] <= r.dist[x] + Weight(g, x, v)
    BY <2>3, <2>4, TurnRelaxes
  <2>8. r.dist \in [g.node -> Nat \cup {None}] /\ new.dist \in [g.node -> Nat \cup {None}]
    BY <2>4, <2>7 DEF Recorded
  <2>9. NoFarther(g, new, st)
    <3> SUFFICES ASSUME NEW v \in g.node, st.dist[v] # None
                 PROVE  new.dist[v] # None /\ new.dist[v] <= st.dist[v]
      BY DEF NoFarther
    <3>1. r.dist[v] # None /\ r.dist[v] <= st.dist[v]
      BY <2>4 DEF NoFarther
    <3>2. new.dist[v] # None /\ new.dist[v] <= r.dist[v]
      BY <2>7, <3>1 DEF NoFarther
    <3>3. st.dist[v] \in Nat /\ r.dist[v] \in Nat /\ new.dist[v] \in Nat
      BY <1>4, <2>8, <3>1, <3>2
    <3> QED
      BY <3>1, <3>2, <3>3
  <2>10. ASSUME NEW u \in g.node, Rank(g.node, u) <= k + 1,
                NEW v \in g.node, st.dist[u] # None, <<u, v>> \in g.edge
         PROVE  new.dist[v] # None /\ new.dist[v] <= st.dist[u] + Weight(g, u, v)
    <3>1. st.dist[u] \in Nat /\ Weight(g, u, v) \in Nat
      BY <1>4, <1>5, <2>10
    <3>2. CASE Rank(g.node, u) <= k
      <4>1. r.dist[v] # None /\ r.dist[v] <= st.dist[u] + Weight(g, u, v)
        BY <2>5, <2>10, <3>2
      <4>2. new.dist[v] # None /\ new.dist[v] <= r.dist[v]
        BY <2>7, <4>1 DEF NoFarther
      <4>3. r.dist[v] \in Nat /\ new.dist[v] \in Nat
        BY <2>8, <4>1, <4>2
      <4> QED
        BY <3>1, <4>1, <4>2, <4>3
    <3>3. CASE u = x
      <4>1. r.dist[u] # None /\ r.dist[u] <= st.dist[u]
        BY <2>4, <2>10 DEF NoFarther
      <4>2. new.dist[v] # None /\ new.dist[v] <= r.dist[u] + Weight(g, u, v)
        BY <2>7, <2>10, <3>3, <4>1
      <4>3. r.dist[u] \in Nat /\ new.dist[v] \in Nat
        BY <2>8, <4>1, <4>2
      <4> QED
        BY <3>1, <4>1, <4>2, <4>3
    <3> QED
      <4>1. Rank(g.node, u) \in Nat
        BY <1>2
      <4>2. Rank(g.node, u) <= k \/ Rank(g.node, u) = k + 1
        BY <2>10, <4>1
      <4> QED
        BY <2>6, <3>2, <3>3, <4>2
  <2> QED
    BY <2>7, <2>9, <2>10 DEF new
<1>8. P(n)
  <2> HIDE DEF P
  <2>1. Nat \subseteq K
    <3> HIDE DEF K
    <3> QED
      BY <1>6, <1>7, NatSetInduction
  <2> QED
    BY <1>2, <2>1
<1>9. \A u \in g.node : Rank(g.node, u) <= n
  BY <1>2
<1> QED
  BY <1>1, <1>8, <1>9

(***************************************************************************)
(* No recorded walk is shorter than a shortest one.                        *)
(***************************************************************************)
LEMMA RecordedNotBelow ==
  ASSUME NEW g, NEW s \in g.node, NEW sol, NEW run, Searchable(g), Solved(g, s, sol),
         Recorded(g, s, run), NEW t \in g.node, run.dist[t] # None
  PROVE  sol.dist[t] # None /\ sol.dist[t] <= run.dist[t]
<1> DEFINE Good(v) == sol.dist[v] # None /\ sol.dist[v] <= run.dist[v]
           Bad == {v \in g.node : run.dist[v] # None /\ ~Good(v)}
           S == {run.dist[v] : v \in Bad}
<1>1. /\ run.dist \in [g.node -> Nat \cup {None}] /\ run.dist[s] = 0
      /\ sol.dist \in [g.node -> Nat \cup {None}] /\ sol.dist[s] = 0
  BY DEF Solved, Recorded
<1>2. SUFFICES ASSUME Bad # {} PROVE FALSE
  BY DEF Good
<1>3. S \subseteq Nat /\ S # {}
  BY <1>1, <1>2
<1>4. PICK n \in S : \A m \in S : n <= m
  <2> HIDE DEF S
  <2> QED
    BY <1>3, LeastNat
<1>5. PICK v \in Bad : n = run.dist[v]
  BY <1>4
<1>6. v # s
  BY <1>1, <1>5, RoutingAssumption
<1> DEFINE u == run.prev[v]
<1>7. run.prev[v] # None
  BY <1>5, <1>6 DEF Recorded
<1>8. /\ u \in g.node /\ <<u, v>> \in g.edge
      /\ run.dist[u] \in Nat /\ run.dist[v] \in Nat /\ Weight(g, u, v) \in Nat
      /\ run.dist[u] + Weight(g, u, v) <= run.dist[v]
      /\ run.dist[u] < run.dist[v]
  BY <1>5, <1>7, PrevNearer
<1> HIDE DEF u
<1>9. run.dist[u] # None
  BY <1>8, RoutingAssumption
<1>10. u \notin Bad
  <2>1. SUFFICES ASSUME u \in Bad PROVE FALSE
    OBVIOUS
  <2>2. run.dist[u] \in S
    BY <2>1
  <2>3. run.dist[v] <= run.dist[u]
    BY <1>4, <1>5, <2>2
  <2> QED
    BY <1>8, <2>3
<1>11. sol.dist[u] \in Nat /\ sol.dist[u] <= run.dist[u]
  BY <1>1, <1>8, <1>9, <1>10
<1>12. v \in g.node
  BY <1>5
<1>13. sol.dist[v] # None /\ sol.dist[v] <= sol.dist[u] + Weight(g, u, v)
  BY <1>8, <1>11, <1>12, RoutingAssumption DEF Solved, Settled
<1>14. Good(v)
  <2>1. sol.dist[v] \in Nat
    BY <1>1, <1>12, <1>13
  <2> QED
    BY <1>8, <1>11, <1>13, <2>1
<1> QED
  BY <1>5, <1>14

IsRounds(f, g, s, n) ==
  f = [i \in 0..n |-> IF i = 0 THEN Start(g, s) ELSE Round(g, f[i - 1])]

LEMMA RoundsExist ==
  ASSUME NEW g, NEW s, NEW n \in Nat
  PROVE  \E f : IsRounds(f, g, s, n)
<1> DEFINE Step(r) == Round(g, r)
           K == {k \in Nat : \E f : f = [i \in 0..k |-> IF i = 0 THEN Start(g, s) ELSE Step(f[i - 1])]}
<1> HIDE DEF Step
<1>1. 0 \in K
  <2> DEFINE f == [i \in 0..0 |-> Start(g, s)]
  <2>1. f = [i \in 0..0 |-> IF i = 0 THEN Start(g, s) ELSE Step(f[i - 1])]
    OBVIOUS
  <2> QED
    BY <2>1
<1>2. ASSUME NEW k \in Nat, k \in K PROVE k + 1 \in K
  <2>1. PICK f : f = [i \in 0..k |-> IF i = 0 THEN Start(g, s) ELSE Step(f[i - 1])]
    BY <1>2
  <2> DEFINE h == [i \in 0..k + 1 |-> IF i = 0 THEN Start(g, s) ELSE Step(f[i - 1])]
  <2>2. \A j \in 0..k : h[j] = f[j]
    BY <2>1
  <2>3. \A i \in 0..k + 1 : i # 0 => i - 1 \in 0..k
    OBVIOUS
  <2>4. h = [i \in 0..k + 1 |-> IF i = 0 THEN Start(g, s) ELSE Step(h[i - 1])]
    BY <2>2, <2>3
  <2> HIDE DEF h
  <2> QED
    BY <2>4
<1>3. n \in K
  BY <1>1, <1>2, NatSetInduction
<1> QED
  BY <1>3, Zenon DEF IsRounds, Step

(***************************************************************************)
(* One round less than there are nodes is enough: the k-th round settles   *)
(* the k-th node after the source on a shortest path, and such a path      *)
(* visits no node twice.                                                   *)
(***************************************************************************)
LEMMA RoundsReach ==
  ASSUME NEW g, NEW s \in g.node, NEW n \in Nat, n = Cardinality(g.node) - 1,
         NEW f, IsRounds(f, g, s, n), Searchable(g), NEW sol, Solved(g, s, sol)
  PROVE  /\ Recorded(g, s, f[n])
         /\ \A t \in g.node : sol.dist[t] # None =>
              f[n].dist[t] # None /\ f[n].dist[t] <= sol.dist[t]
<1>1. f[0] = Start(g, s) /\ \A k \in Nat : k + 1 <= n => f[k + 1] = Round(g, f[k])
  <2>1. \A k \in Nat : k + 1 <= n => k + 1 \in 0..n /\ k + 1 # 0 /\ (k + 1) - 1 = k
    OBVIOUS
  <2> QED
    BY <2>1 DEF IsRounds
<1>2. Recorded(g, s, f[0])
  <2>1. SearchInv(g, s, Begun(g, s))
    BY BegunRight
  <2> QED
    BY <1>1, <2>1 DEF SearchInv, Begun
<1>3. \A k \in Nat : k <= n => Recorded(g, s, f[k])
  <2> DEFINE K == {k \in Nat : k <= n => Recorded(g, s, f[k])}
  <2>1. 0 \in K
    BY <1>2
  <2>2. ASSUME NEW k \in Nat, k \in K PROVE k + 1 \in K
    <3>1. CASE k + 1 <= n
      <4>1. Recorded(g, s, f[k]) /\ f[k + 1] = Round(g, f[k])
        BY <1>1, <2>2, <3>1
      <4>2. Recorded(g, s, f[k + 1])
        BY <4>1, RoundRelaxes
      <4> QED
        BY <4>2
    <3> QED
      BY <3>1
  <2> HIDE DEF K
  <2>3. Nat \subseteq K
    BY <2>1, <2>2, NatSetInduction
  <2> QED
    BY <2>3 DEF K
<1>4. ASSUME NEW t \in g.node, sol.dist[t] # None
      PROVE  f[n].dist[t] # None /\ f[n].dist[t] <= sol.dist[t]
  <2>1. Recorded(g, s, sol)
    BY DEF Solved
  <2> DEFINE p == BackFrom(sol.prev, t)
             L == Len(p)
  <2>2. IsTrace(g, sol, t, p) /\ p[L] = s
    BY <1>4, <2>1, BackFromTraces
  <2> HIDE DEF p
  <2>3. /\ p \in Seq(g.node) /\ L \in Nat /\ L >= 1 /\ p[1] = t
        /\ \A j \in 1..L : p[j] \in g.node
        /\ \A j \in 1..L - 1 : sol.prev[p[j]] = p[j + 1]
    BY <2>2 DEF IsTrace
  <2>4. /\ \A j \in 1..L : sol.dist[p[j]] \in Nat
        /\ \A i, j \in 1..L : i < j => sol.dist[p[j]] < sol.dist[p[i]]
    BY <2>1, <2>2, TraceDescends
  <2>5. L - 1 <= n
    <3>1. \A i, j \in 1..L : i < j => p[i] # p[j]
      BY <2>4
    <3>2. \A i, j \in 1..L : i # j => p[i] # p[j]
      <4>1. \A i, j \in 1..L : i # j => i < j \/ j < i
        OBVIOUS
      <4> QED
        BY <3>1, <4>1
    <3>3. L <= Cardinality(g.node)
      BY <2>3, <3>2, OnceEach DEF Searchable
    <3>4. Cardinality(g.node) \in Nat
      BY FS_CardinalityType DEF Searchable
    <3> HIDE DEF L
    <3> QED
      BY <2>3, <3>3, <3>4
  <2> HIDE DEF L
  <2> DEFINE Near(k, v) == f[k].dist[v] # None /\ f[k].dist[v] <= sol.dist[v]
             K == {k \in Nat : k <= n => \A j \in 1..L : j + k >= L => Near(k, p[j])}
  <2>6. 0 \in K
    <3>1. f[0].dist[s] = 0 /\ sol.dist[s] = 0
      BY <1>2, <2>1 DEF Recorded
    <3>2. \A j \in 1..L : j + 0 >= L => j = L
      BY <2>3
    <3> QED
      BY <2>2, <3>1, <3>2, RoutingAssumption DEF L
  <2>7. ASSUME NEW k \in Nat, k \in K PROVE k + 1 \in K
    <3>1. SUFFICES ASSUME k + 1 <= n, NEW j \in 1..L, j + (k + 1) >= L
                   PROVE  Near(k + 1, p[j])
      OBVIOUS
    <3>2. /\ Recorded(g, s, f[k]) /\ f[k + 1] = Round(g, f[k]) /\ k <= n
          /\ Recorded(g, s, f[k + 1])
      BY <1>1, <1>3, <3>1
    <3>3. /\ NoFarther(g, f[k + 1], f[k])
          /\ \A u, v \in g.node : f[k].dist[u] # None /\ <<u, v>> \in g.edge =>
               f[k + 1].dist[v] # None /\ f[k + 1].dist[v] <= f[k].dist[u] + Weight(g, u, v)
      BY <3>2, RoundRelaxes
    <3>4. f[k].dist \in [g.node -> Nat \cup {None}] /\ f[k + 1].dist \in [g.node -> Nat \cup {None}]
      BY <3>2 DEF Recorded
    <3> DEFINE v == p[j]
    <3>5. v \in g.node /\ sol.dist[v] \in Nat
      BY <2>3, <2>4
    <3>6. CASE j + k >= L
      <4>1. Near(k, v)
        BY <2>7, <3>2, <3>6
      <4>2. f[k].dist[v] # None /\ f[k].dist[v] <= sol.dist[v]
        BY <4>1
      <4> HIDE DEF v
      <4>3. f[k + 1].dist[v] # None /\ f[k + 1].dist[v] <= f[k].dist[v]
        BY <3>3, <3>5, <4>2 DEF NoFarther
      <4>4. f[k].dist[v] \in Nat /\ f[k + 1].dist[v] \in Nat
        BY <3>4, <3>5, <4>2, <4>3
      <4>5. f[k + 1].dist[v] # None /\ f[k + 1].dist[v] <= sol.dist[v]
        BY <3>5, <4>2, <4>3, <4>4
      <4> QED
        BY <4>5 DEF v
    <3>7. CASE ~(j + k >= L)
      <4> DEFINE u == p[j + 1]
      <4>1. j \in 1..L - 1 /\ j + 1 \in 1..L /\ (j + 1) + k >= L
        BY <2>3, <3>1, <3>7
      <4>2. Near(k, u)
        BY <2>7, <3>2, <4>1
      <4>3. u \in g.node /\ sol.dist[u] \in Nat /\ sol.prev[v] = u
        BY <2>3, <2>4, <4>1
      <4>4. f[k].dist[u] # None /\ f[k].dist[u] <= sol.dist[u]
        BY <4>2
      <4> HIDE DEF u, v
      <4>5. sol.prev[v] # None
        BY <4>3, RoutingAssumption DEF Searchable
      <4>6. <<u, v>> \in g.edge /\ Weight(g, u, v) \in Nat
            /\ sol.dist[u] + Weight(g, u, v) <= sol.dist[v]
        BY <2>1, <3>5, <4>3, <4>5, PrevNearer
      <4>7. f[k + 1].dist[v] # None /\ f[k + 1].dist[v] <= f[k].dist[u] + Weight(g, u, v)
        BY <3>3, <3>5, <4>3, <4>4, <4>6
      <4>8. f[k].dist[u] \in Nat /\ f[k + 1].dist[v] \in Nat
        BY <3>4, <3>5, <4>3, <4>4, <4>7
      <4>9. f[k + 1].dist[v] <= sol.dist[v]
        BY <3>5, <4>3, <4>4, <4>6, <4>7, <4>8
      <4> QED
        BY <4>7, <4>9 DEF v
    <3> QED
      BY <3>6, <3>7
  <2>8. n \in K
    <3> HIDE DEF K
    <3>1. Nat \subseteq K
      BY <2>6, <2>7, NatSetInduction
    <3> QED
      BY <3>1
  <2>9. 1 \in 1..L /\ 1 + n >= L
    BY <2>3, <2>5
  <2> QED
    BY <2>3, <2>8, <2>9
<1> QED
  BY <1>3, <1>4

(***************************************************************************)
(* What _bellman_ford returns: as _dijkstra, shortest walks.               *)
(***************************************************************************)
LEMMA BellmanFordSolves ==
  ASSUME NEW g, NEW s \in g.node, Searchable(g)
  PROVE  Solved(g, s, BellmanFord(g, s))
<1> DEFINE n == Cardinality(g.node) - 1
           f == CHOOSE h : h = [i \in 0..n |-> IF i = 0 THEN Start(g, s) ELSE Round(g, h[i - 1])]
           sol == Dijkstra(g, s)
<1>1. n \in Nat
  <2>1. Cardinality(g.node) \in Nat /\ Cardinality(g.node) # 0
    BY FS_CardinalityType, FS_EmptySet DEF Searchable
  <2> QED
    BY <2>1
<1>2. BellmanFord(g, s) = f[n]
  BY DEF BellmanFord, Rounds
<1>3. Solved(g, s, sol)
  BY DijkstraSolves
<1>4. IsRounds(f, g, s, n)
  <2> HIDE DEF n
  <2>1. \E h : IsRounds(h, g, s, n)
    BY <1>1, RoundsExist
  <2> QED
    BY <2>1, Zenon DEF IsRounds
<1> DEFINE run == f[n]
<1> HIDE DEF f, sol
<1>5. /\ Recorded(g, s, run)
      /\ \A t \in g.node : sol.dist[t] # None => run.dist[t] # None /\ run.dist[t] <= sol.dist[t]
  BY <1>1, <1>3, <1>4, RoundsReach
<1> HIDE DEF run
<1>6. /\ sol.dist \in [g.node -> Nat \cup {None}]
      /\ run.dist \in [g.node -> Nat \cup {None}]
  BY <1>3, <1>5 DEF Solved, Recorded
<1>7. \A t \in g.node : run.dist[t] # None => sol.dist[t] # None /\ sol.dist[t] <= run.dist[t]
  BY <1>3, <1>5, RecordedNotBelow
<1>8. ASSUME NEW t \in g.node PROVE run.dist[t] = sol.dist[t]
  <2>1. CASE run.dist[t] = None
    BY <1>5, <2>1
  <2>2. CASE run.dist[t] # None
    <3>1. run.dist[t] \in Nat /\ sol.dist[t] \in Nat
          /\ run.dist[t] <= sol.dist[t] /\ sol.dist[t] <= run.dist[t]
      BY <1>5, <1>6, <1>7, <2>2
    <3> QED
      BY <3>1
  <2> QED
    BY <2>1, <2>2
<1>9. run.dist = sol.dist
  BY <1>6, <1>8
<1> QED
  BY <1>2, <1>3, <1>5, <1>9 DEF Solved, run

-----------------------------------------------------------------------------
(* Every predecessor on a shortest path                                    *)

\* A state of _dijkstra_all's search without its lists.
Core(st) == [run |-> st.run, heap |-> st.heap]

\* The nodes of D over which v is at its distance.
Best(g, dist, D, v) == {u \in D : <<u, v>> \in g.edge /\ dist[v] = dist[u] + Weight(g, u, v)}

AllInv(g, s, st) ==
  /\ st = [run |-> st.run, heap |-> st.heap, prevs |-> st.prevs]
  /\ SearchInv(g, s, Core(st))
  /\ DOMAIN st.prevs = g.node
  /\ \A v \in g.node : st.prevs[v] = Best(g, st.run.dist, Done(g, Core(st)), v)

TurnAll(g, st) ==
  IF st.heap = {} THEN st
  ELSE [Pop(g, st) EXCEPT !.prevs =
          [v \in DOMAIN @ |-> IF OutOfDate(st) THEN @[v]
                              ELSE JoinPrevs(g, st, Top(st.heap)[2], v)]]

LEMMA TurnAllParts ==
  ASSUME NEW g, NEW st, st = [run |-> st.run, heap |-> st.heap, prevs |-> st.prevs],
         st.heap # {}
  PROVE  LET new == TurnAll(g, st) IN
         /\ new = [run |-> new.run, heap |-> new.heap, prevs |-> new.prevs]
         /\ Core(new) = Pop(g, Core(st))
         /\ DOMAIN new.prevs = DOMAIN st.prevs
         /\ OutOfDate(Core(st)) <=> OutOfDate(st)
         /\ \A v \in DOMAIN st.prevs :
              new.prevs[v] = IF OutOfDate(st) THEN st.prevs[v]
                             ELSE JoinPrevs(g, st, Top(st.heap)[2], v)
<1> DEFINE c == Core(st)
           P == [v \in DOMAIN st.prevs |-> IF OutOfDate(st) THEN st.prevs[v]
                                           ELSE JoinPrevs(g, st, Top(st.heap)[2], v)]
           run == Pop(g, c).run
           heap == Pop(g, c).heap
<1>1. c.run = st.run /\ c.heap = st.heap
  BY DEF Core
<1>2. OutOfDate(c) <=> OutOfDate(st)
  BY <1>1 DEF OutOfDate
<1>3. /\ Pop(g, c) = [run |-> run, heap |-> heap]
      /\ Pop(g, st) = [run |-> run, heap |-> heap, prevs |-> st.prevs]
  <2>1. CASE OutOfDate(st)
    <3>1. /\ Pop(g, c) = [c EXCEPT !.heap = st.heap \ {Top(st.heap)}]
          /\ Pop(g, st) = [st EXCEPT !.heap = st.heap \ {Top(st.heap)}]
      BY <1>1, <1>2, <2>1 DEF Pop
    <3> HIDE DEF c, run, heap
    <3>2. c = [run |-> st.run, heap |-> st.heap]
      BY DEF c, Core
    <3>3. /\ Pop(g, c) = [run |-> st.run, heap |-> st.heap \ {Top(st.heap)}]
          /\ Pop(g, st) = [run |-> st.run, heap |-> st.heap \ {Top(st.heap)}, prevs |-> st.prevs]
      BY <3>1, <3>2
    <3> QED
      BY <3>3 DEF run, heap
  <2>2. CASE ~OutOfDate(st)
    <3> DEFINE r == Relax(g, st.run, Top(st.heap)[2])
               H == (st.heap \ {Top(st.heap)}) \cup
                      {<<r.dist[v], v>> : v \in {u \in DOMAIN r.dist : r.dist[u] # st.run.dist[u]}}
    <3>1. /\ Pop(g, c) = [c EXCEPT !.run = r, !.heap = H]
          /\ Pop(g, st) = [st EXCEPT !.run = r, !.heap = H]
      BY <1>1, <1>2, <2>2 DEF Pop
    <3> HIDE DEF c, run, heap, r, H
    <3>2. c = [run |-> st.run, heap |-> st.heap]
      BY DEF c, Core
    <3>3. Pop(g, c) = [run |-> r, heap |-> H]
      BY <3>1, <3>2
    <3>4. Pop(g, st) = [run |-> r, heap |-> H, prevs |-> st.prevs]
      BY <3>1
    <3> QED
      BY <3>3, <3>4 DEF run, heap
  <2> QED
    BY <2>1, <2>2
<1> HIDE DEF run, heap, c
<1>4. TurnAll(g, st) = [run |-> run, heap |-> heap, prevs |-> P]
  <2>1. TurnAll(g, st) = [Pop(g, st) EXCEPT !.prevs =
          [v \in DOMAIN Pop(g, st).prevs |-> IF OutOfDate(st) THEN Pop(g, st).prevs[v]
                                             ELSE JoinPrevs(g, st, Top(st.heap)[2], v)]]
    BY DEF TurnAll
  <2>2. Pop(g, st).prevs = st.prevs
    BY <1>3
  <2>3. TurnAll(g, st) = [Pop(g, st) EXCEPT !.prevs = P]
    BY <2>1, <2>2
  <2> HIDE DEF P
  <2> QED
    BY <1>3, <2>3
<1>5. Core(TurnAll(g, st)) = Pop(g, c)
  BY <1>3, <1>4 DEF Core
<1>6. DOMAIN P = DOMAIN st.prevs
  OBVIOUS
<1>7. \A v \in DOMAIN st.prevs : P[v] = IF OutOfDate(st) THEN st.prevs[v]
                                        ELSE JoinPrevs(g, st, Top(st.heap)[2], v)
  OBVIOUS
<1> HIDE DEF P
<1> QED
  BY <1>2, <1>4, <1>5, <1>6, <1>7 DEF c

(***************************************************************************)
(* When u is relaxed the lists of its neighbours change as the set of      *)
(* nodes that are done does.                                               *)
(***************************************************************************)
LEMMA JoinKeepsBest ==
  ASSUME NEW g, NEW s \in g.node, NEW st, Searchable(g), AllInv(g, s, st),
         NEW u \in g.node, st.run.dist[u] # None, NEW r, r = Relax(g, st.run, u),
         NEW D, D = Done(g, Core(st)), u \notin D,
         \A x \in D \cup {u} : r.dist[x] = st.run.dist[x],
         NEW v \in g.node
  PROVE  JoinPrevs(g, st, u, v) = Best(g, r.dist, D \cup {u}, v)
<1> DEFINE run == st.run
           alt == run.dist[u] + Weight(g, u, v)
<1>1. /\ Recorded(g, s, run) /\ Settled(g, run.dist, D)
      /\ st.prevs[v] = Best(g, run.dist, D, v)
  BY DEF AllInv, SearchInv, Core
<1>2. IF Nearer(g, run, u, v) THEN r.dist[v] = alt ELSE r.dist[v] = run.dist[v]
  <2>1. /\ r = [dist |-> r.dist, prev |-> r.prev]
        /\ DOMAIN r.dist = g.node /\ DOMAIN r.prev = g.node
        /\ r.dist = [w \in g.node |-> r.dist[w]] /\ r.prev = [w \in g.node |-> r.prev[w]]
        /\ \A w \in g.node :
             IF Nearer(g, run, u, w)
               THEN r.dist[w] = run.dist[u] + Weight(g, u, w) /\ r.prev[w] = u
               ELSE r.dist[w] = run.dist[w] /\ r.prev[w] = run.prev[w]
    BY <1>1, RelaxOne
  <2> QED
    BY <2>1
<1>3. v \in Neighbours(g, u) <=> <<u, v>> \in g.edge
  BY NeighbourEdges
<1>4. run.dist \in [g.node -> Nat \cup {None}] /\ run.dist[u] \in Nat
  BY <1>1 DEF Recorded
<1>5. \A x \in D : x \in g.node /\ run.dist[x] \in Nat
  BY <1>4 DEF Done, Core
<1>6. \A x \in g.node : <<x, v>> \in g.edge => Weight(g, x, v) \in Nat
  BY DEF Searchable
<1>7. \A x \in D : <<x, v>> \in g.edge => run.dist[v] # None /\ run.dist[v] <= run.dist[x] + Weight(g, x, v)
  BY <1>1 DEF Settled
<1>8. Best(g, r.dist, D \cup {u}, v) =
        {x \in D \cup {u} : <<x, v>> \in g.edge /\ r.dist[v] = run.dist[x] + Weight(g, x, v)}
  BY DEF Best
<1>9. CASE v \notin Neighbours(g, u)
  <2>1. JoinPrevs(g, st, u, v) = Best(g, run.dist, D, v)
    BY <1>1, <1>9 DEF JoinPrevs
  <2>2. r.dist[v] = run.dist[v] /\ <<u, v>> \notin g.edge
    BY <1>2, <1>3, <1>9 DEF Nearer
  <2> QED
    BY <1>8, <2>1, <2>2 DEF Best
<1>10. CASE v \in Neighbours(g, u) /\ Shorter(alt, run.dist[v])
  <2>1. JoinPrevs(g, st, u, v) = {u}
    BY <1>10 DEF JoinPrevs
  <2>2. <<u, v>> \in g.edge /\ Weight(g, u, v) \in Nat /\ alt \in Nat
    BY <1>3, <1>4, <1>6, <1>10
  <2>3. run.dist[v] = None \/ alt < run.dist[v]
    BY <1>10 DEF Shorter
  <2>4. r.dist[v] = alt
    BY <1>2, <2>2, <2>3 DEF Nearer
  <2> HIDE DEF alt
  <2>5. ASSUME NEW x \in D, <<x, v>> \in g.edge PROVE r.dist[v] # run.dist[x] + Weight(g, x, v)
    <3>1. run.dist[x] \in Nat /\ Weight(g, x, v) \in Nat /\ run.dist[v] \in Nat
          /\ run.dist[v] <= run.dist[x] + Weight(g, x, v)
      BY <1>4, <1>5, <1>6, <1>7, <2>5
    <3>2. alt < run.dist[v]
      BY <2>3, <3>1, RoutingAssumption
    <3> QED
      BY <2>2, <2>4, <3>1, <3>2
  <2> QED
    BY <1>8, <2>1, <2>2, <2>4, <2>5 DEF alt
<1>11. CASE v \in Neighbours(g, u) /\ ~Shorter(alt, run.dist[v])
  <2>1. JoinPrevs(g, st, u, v) = Best(g, run.dist, D, v) \cup {x \in {u} : alt = run.dist[v]}
    BY <1>1, <1>11 DEF JoinPrevs
  <2>2. <<u, v>> \in g.edge /\ Weight(g, u, v) \in Nat /\ alt \in Nat
    BY <1>3, <1>4, <1>6, <1>11
  <2>3. r.dist[v] = run.dist[v]
    <3>1. alt # None
      BY <2>2, RoutingAssumption
    <3>2. ~(run.dist[v] = None \/ alt < run.dist[v])
      BY <1>11, <3>1 DEF Shorter
    <3> QED
      BY <1>2, <3>2 DEF Nearer
  <2> QED
    BY <1>8, <2>1, <2>2, <2>3 DEF Best
<1> QED
  BY <1>9, <1>10, <1>11

LEMMA TurnAllKeeps ==
  ASSUME NEW g, NEW s \in g.node, NEW st, Searchable(g), AllInv(g, s, st)
  PROVE  /\ AllInv(g, s, TurnAll(g, st))
         /\ Core(TurnAll(g, st)) = Pop(g, Core(st))
<1> DEFINE c == Core(st)
           new == TurnAll(g, st)
<1>1. /\ st = [run |-> st.run, heap |-> st.heap, prevs |-> st.prevs]
      /\ SearchInv(g, s, c) /\ DOMAIN st.prevs = g.node
      /\ \A v \in g.node : st.prevs[v] = Best(g, st.run.dist, Done(g, c), v)
      /\ c.run = st.run /\ c.heap = st.heap
  BY DEF AllInv, Core
<1>2. CASE st.heap = {}
  <2>1. new = st /\ Pop(g, c) = c
    BY <1>1, <1>2 DEF TurnAll, Pop
  <2> QED
    BY <2>1
<1>3. CASE st.heap # {}
  <2>1. /\ new = [run |-> new.run, heap |-> new.heap, prevs |-> new.prevs]
        /\ Core(new) = Pop(g, c)
        /\ DOMAIN new.prevs = DOMAIN st.prevs
        /\ OutOfDate(c) <=> OutOfDate(st)
        /\ \A v \in DOMAIN st.prevs :
             new.prevs[v] = IF OutOfDate(st) THEN st.prevs[v]
                            ELSE JoinPrevs(g, st, Top(st.heap)[2], v)
    BY <1>1, <1>3, TurnAllParts
  <2>2. new.run = Pop(g, c).run
    BY <2>1 DEF Core
  <2>3. SearchInv(g, s, Pop(g, c))
    BY <1>1, TurnKeeps
  <2>4. ASSUME NEW v \in g.node
        PROVE  new.prevs[v] = Best(g, new.run.dist, Done(g, Pop(g, c)), v)
    <3>1. CASE OutOfDate(st)
      <4>1. Done(g, Pop(g, c)) = Done(g, c) /\ Pop(g, c).run = c.run
        BY <1>1, <1>3, <2>1, <3>1, DropOutOfDate
      <4> HIDE DEF new, c
      <4> QED
        BY <1>1, <2>1, <2>2, <3>1, <4>1
    <3>2. CASE ~OutOfDate(st)
      <4> DEFINE u == Top(st.heap)[2]
                 r == Relax(g, st.run, u)
      <4>1. /\ u \in g.node /\ st.run.dist[u] # None /\ Pop(g, c).run = r
            /\ u \notin Done(g, c) /\ Done(g, Pop(g, c)) = Done(g, c) \cup {u}
            /\ \A x \in Done(g, Pop(g, c)) : Pop(g, c).run.dist[x] = st.run.dist[x]
        <5>1. LET w == Top(c.heap)[2] IN
              /\ SearchInv(g, s, Pop(g, c)) /\ Left(g, Pop(g, c)) < Left(g, c)
              /\ w \in g.node /\ c.run.dist[w] # None /\ Pop(g, c).run = Relax(g, c.run, w)
              /\ w \notin Done(g, c) /\ Done(g, Pop(g, c)) = Done(g, c) \cup {w}
              /\ \A x \in Done(g, Pop(g, c)) : Pop(g, c).run.dist[x] = c.run.dist[x]
          BY <1>1, <1>3, <2>1, <3>2, RelaxTop
        <5> HIDE DEF c
        <5> QED
          BY <1>1, <5>1
      <4>2. new.prevs[v] = JoinPrevs(g, st, u, v)
        BY <1>1, <2>1, <3>2
      <4>3. \A x \in Done(g, c) \cup {u} : r.dist[x] = st.run.dist[x]
        BY <4>1
      <4> DEFINE D == Done(g, c)
      <4> HIDE DEF u, r, new, c
      <4>4. r = Relax(g, st.run, u) /\ D = Done(g, Core(st))
        BY DEF r, c
      <4> HIDE DEF D
      <4>5. u \notin D /\ \A x \in D \cup {u} : r.dist[x] = st.run.dist[x]
        BY <4>1, <4>3 DEF D
      <4>6. u \in g.node /\ st.run.dist[u] # None
        BY <4>1
      <4>7. JoinPrevs(g, st, u, v) = Best(g, r.dist, D \cup {u}, v)
        BY <4>4, <4>5, <4>6, JoinKeepsBest
      <4> QED
        BY <2>2, <4>1, <4>2, <4>7 DEF D
    <3> QED
      BY <3>1, <3>2
  <2> HIDE DEF new, c
  <2>5. AllInv(g, s, new)
    BY <1>1, <2>1, <2>3, <2>4 DEF AllInv
  <2> QED
    BY <2>1, <2>5 DEF new, c
<1> QED
  BY <1>2, <1>3

BegunAll(g, s) ==
  [run |-> Start(g, s), heap |-> {<<0, s>>}, prevs |-> [v \in g.node \cup {s} |-> {}]]

LEMMA BegunAllRight ==
  ASSUME NEW g, NEW s \in g.node, Searchable(g)
  PROVE  AllInv(g, s, BegunAll(g, s)) /\ Core(BegunAll(g, s)) = Begun(g, s)
<1> DEFINE st == BegunAll(g, s)
<1>1. Core(st) = Begun(g, s)
  BY DEF BegunAll, Core, Begun
<1>2. SearchInv(g, s, Begun(g, s))
  BY BegunRight
<1>3. Done(g, Begun(g, s)) = {}
  <2>1. \A v \in g.node : Start(g, s).dist[v] = IF v = s THEN 0 ELSE None
    BY DEF Start
  <2> QED
    BY <2>1 DEF Done, Begun
<1>4. /\ st = [run |-> st.run, heap |-> st.heap, prevs |-> st.prevs]
      /\ DOMAIN st.prevs = g.node /\ \A v \in g.node : st.prevs[v] = {}
  BY DEF BegunAll
<1> HIDE DEF st
<1> QED
  BY <1>1, <1>2, <1>3, <1>4 DEF AllInv, Best, st

IsSearchAll(f, g, s, n) ==
  f = [i \in 0..n |-> IF i = 0 THEN BegunAll(g, s) ELSE TurnAll(g, f[i - 1])]

LEMMA SearchAllExists ==
  ASSUME NEW g, NEW s, NEW n \in Nat
  PROVE  \E f : IsSearchAll(f, g, s, n)
<1> DEFINE Step(r) == TurnAll(g, r)
           K == {k \in Nat : \E f : f = [i \in 0..k |-> IF i = 0 THEN BegunAll(g, s) ELSE Step(f[i - 1])]}
<1> HIDE DEF Step
<1>1. 0 \in K
  <2> DEFINE f == [i \in 0..0 |-> BegunAll(g, s)]
  <2>1. f = [i \in 0..0 |-> IF i = 0 THEN BegunAll(g, s) ELSE Step(f[i - 1])]
    OBVIOUS
  <2> QED
    BY <2>1
<1>2. ASSUME NEW k \in Nat, k \in K PROVE k + 1 \in K
  <2>1. PICK f : f = [i \in 0..k |-> IF i = 0 THEN BegunAll(g, s) ELSE Step(f[i - 1])]
    BY <1>2
  <2> DEFINE h == [i \in 0..k + 1 |-> IF i = 0 THEN BegunAll(g, s) ELSE Step(f[i - 1])]
  <2>2. \A j \in 0..k : h[j] = f[j]
    BY <2>1
  <2>3. \A i \in 0..k + 1 : i # 0 => i - 1 \in 0..k
    OBVIOUS
  <2>4. h = [i \in 0..k + 1 |-> IF i = 0 THEN BegunAll(g, s) ELSE Step(h[i - 1])]
    BY <2>2, <2>3
  <2> HIDE DEF h
  <2> QED
    BY <2>4
<1>3. n \in K
  BY <1>1, <1>2, NatSetInduction
<1> QED
  BY <1>3, Zenon DEF IsSearchAll, Step

(***************************************************************************)
(* What _dijkstra_all returns: shortest distances, and for every node all  *)
(* the nodes over which it is at its distance.                             *)
(***************************************************************************)
LEMMA DijkstraAllFinds ==
  ASSUME NEW g, NEW s \in g.node, Searchable(g)
  PROVE  LET all == DijkstraAll(g, s) IN
         /\ Solved(g, s, all.run)
         /\ \A v \in g.node :
              all.prevs[v] = Best(g, all.run.dist, {u \in g.node : all.run.dist[u] # None}, v)
<1> DEFINE n == Cardinality(g.edge) + 1
           f == CHOOSE h : h = [i \in 0..n |->
                  IF i = 0
                    THEN [run |-> Start(g, s), heap |-> {<<0, s>>},
                          prevs |-> [v \in g.node \cup {s} |-> {}]]
                  ELSE LET st == h[i - 1] IN
                       IF st.heap = {} THEN st
                       ELSE [Pop(g, st) EXCEPT !.prevs =
                               [v \in DOMAIN @ |-> IF OutOfDate(st) THEN @[v]
                                                   ELSE JoinPrevs(g, st, Top(st.heap)[2], v)]]]
<1>1. n \in Nat
  BY FS_CardinalityType DEF Searchable
<1>2. DijkstraAll(g, s) = f[n]
  BY DEF DijkstraAll
<1> HIDE DEF n
<1>3. IsSearchAll(f, g, s, n)
  <2>1. \E h : IsSearchAll(h, g, s, n)
    BY <1>1, SearchAllExists
  <2> QED
    BY <2>1, Zenon DEF IsSearchAll, TurnAll, BegunAll
<1> HIDE DEF f
<1>4. f[0] = BegunAll(g, s) /\ \A k \in Nat : k + 1 <= n => f[k + 1] = TurnAll(g, f[k])
  <2>1. \A k \in Nat : k + 1 <= n => k + 1 \in 0..n /\ k + 1 # 0 /\ (k + 1) - 1 = k
    BY <1>1
  <2> QED
    BY <1>1, <1>3, <2>1 DEF IsSearchAll
<1> DEFINE c == [i \in 0..n |-> Core(f[i])]
           K == {k \in Nat : k <= n => AllInv(g, s, f[k])}
<1>5. \A k \in Nat : k <= n => AllInv(g, s, f[k])
  <2>1. 0 \in K
    BY <1>4, BegunAllRight
  <2>2. ASSUME NEW k \in Nat, k \in K PROVE k + 1 \in K
    <3>1. CASE k + 1 <= n
      <4>1. AllInv(g, s, f[k]) /\ f[k + 1] = TurnAll(g, f[k])
        BY <1>1, <1>4, <2>2, <3>1
      <4>2. AllInv(g, s, f[k + 1])
        BY <4>1, TurnAllKeeps
      <4> QED
        BY <4>2
    <3> QED
      BY <3>1
  <2> HIDE DEF K
  <2>3. Nat \subseteq K
    BY <2>1, <2>2, NatSetInduction
  <2> QED
    BY <2>3 DEF K
<1>6. IsSearch(c, g, s, n)
  <2>1. c[0] = Begun(g, s)
    BY <1>1, <1>4, BegunAllRight
  <2>2. ASSUME NEW i \in 0..n, i # 0 PROVE c[i] = Pop(g, c[i - 1])
    <3> DEFINE k == i - 1
    <3>1. k \in Nat /\ k + 1 = i /\ k \in 0..n /\ k + 1 <= n /\ k <= n
      BY <1>1, <2>2
    <3> HIDE DEF k
    <3>2. Core(f[k + 1]) = Pop(g, Core(f[k]))
      <4>1. AllInv(g, s, f[k]) /\ f[k + 1] = TurnAll(g, f[k])
        BY <1>4, <1>5, <3>1
      <4> QED
        BY <4>1, TurnAllKeeps
    <3>3. c[k] = Core(f[k]) /\ c[i] = Core(f[k + 1])
      BY <3>1
    <3> QED
      BY <3>2, <3>3 DEF k
  <2>3. c = [i \in 0..n |-> c[i]]
    OBVIOUS
  <2> HIDE DEF c
  <2>4. c = [i \in 0..n |-> IF i = 0 THEN Begun(g, s) ELSE Pop(g, c[i - 1])]
    BY <2>1, <2>2, <2>3
  <2> QED
    BY <2>4, Zenon DEF IsSearch
<1>7. c[n] = Core(f[n])
  BY <1>1
<1> HIDE DEF c, K
<1>8. SearchInv(g, s, c[n]) /\ c[n].heap = {}
  <2>1. n >= Cardinality(g.edge) + 1
    BY <1>1 DEF n
  <2> QED
    BY <1>1, <1>6, <2>1, SearchEnds
<1>9. c[n].run = f[n].run
  BY <1>7 DEF Core
<1>10. Done(g, c[n]) = {u \in g.node : f[n].run.dist[u] # None}
  BY <1>8, <1>9 DEF Done
<1>11. Solved(g, s, f[n].run)
  BY <1>8, <1>9, <1>10 DEF SearchInv, Solved
<1>12. \A v \in g.node : f[n].prevs[v] = Best(g, f[n].run.dist, Done(g, c[n]), v)
  <2>1. AllInv(g, s, f[n])
    BY <1>1, <1>5
  <2> QED
    BY <1>7, <2>1 DEF AllInv
<1> QED
  BY <1>2, <1>10, <1>11, <1>12

-----------------------------------------------------------------------------
(* The hops and the path read off a search                                 *)

LEMMA HopOnShortestPath ==
  ASSUME NEW g, Searchable(g), NEW s \in g.node, NEW t \in g.node, s # t,
         NEW run, Solved(g, s, run), Distances(g)[s][t] # None
  PROVE  LET h == NextHop(run.prev, s, t) IN
         /\ h \in g.node /\ <<s, h>> \in g.edge
         /\ Distances(g)[s][t] = Weight(g, s, h) + Distances(g)[h][t]
<1> DEFINE h == NextHop(run.prev, s, t)
           other == Dijkstra(g, h)
<1>1. Distances(g)[s][t] = run.dist[t]
  BY SolvedIsShortest
<1>2. /\ h \in g.node /\ <<s, h>> \in g.edge
      /\ \A o : Solved(g, h, o) => o.dist[t] \in Nat /\ o.dist[t] + Weight(g, s, h) <= run.dist[t]
  BY <1>1, NextHopDescends
<1> HIDE DEF h
<1>3. Solved(g, h, other)
  BY <1>2, DijkstraSolves
<1> HIDE DEF other
<1>4. Distances(g)[h][t] = other.dist[t]
  BY <1>2, <1>3, SolvedIsShortest
<1>5. other.dist[t] \in Nat /\ other.dist[t] + Weight(g, s, h) <= run.dist[t]
  BY <1>2, <1>3
<1>6. run.dist[t] \in Nat /\ run.dist[t] <= Weight(g, s, h) + other.dist[t]
  <2>1. other.dist[t] # None
    BY <1>5, RoutingAssumption
  <2> QED
    BY <1>2, <1>3, <2>1, OverAnEdge
<1>7. Weight(g, s, h) \in Nat
  BY <1>2 DEF Searchable
<1>8. run.dist[t] = Weight(g, s, h) + other.dist[t]
  BY <1>5, <1>6, <1>7
<1> QED
  BY <1>1, <1>2, <1>4, <1>8 DEF h

LEMMA Enclosed ==
  ASSUME NEW S, NEW a \in S, NEW b \in S, NEW m \in Seq(S)
  PROVE  LET q == <<a>> \o m \o <<b>> IN
         /\ q \in Seq(S) /\ Len(q) = Len(m) + 2
         /\ q[1] = a /\ q[Len(m) + 2] = b
         /\ \A i \in 1..Len(m) : q[i + 1] = m[i]
<1> DEFINE r == <<a>> \o m
           q == r \o <<b>>
<1>1. Len(m) \in Nat
  OBVIOUS
<1>2. r \in Seq(S) /\ Len(r) = Len(m) + 1 /\ r[1] = a /\ \A i \in 1..Len(m) : r[i + 1] = m[i]
  OBVIOUS
<1> HIDE DEF r
<1>3. q \in Seq(S) /\ Len(q) = Len(r) + 1 /\ q[Len(r) + 1] = b
  BY <1>2
<1>4. \A i \in 1..Len(r) : q[i] = r[i]
  BY <1>2
<1> HIDE DEF q
<1>5. /\ 1 \in 1..Len(r) /\ \A i \in 1..Len(m) : i + 1 \in 1..Len(r)
      /\ Len(m) + 2 = Len(r) + 1
  BY <1>1, <1>2
<1>6. q[1] = a /\ q[Len(m) + 2] = b /\ Len(q) = Len(m) + 2
  BY <1>2, <1>3, <1>4, <1>5
<1>7. \A i \in 1..Len(m) : q[i + 1] = m[i]
  BY <1>2, <1>4, <1>5
<1> QED
  BY <1>3, <1>6, <1>7 DEF q, r

LEMMA Between ==
  ASSUME NEW S, NEW p \in Seq(S), Len(p) >= 2
  PROVE  /\ Len(SubSeq(p, 2, Len(p) - 1)) = Len(p) - 2
         /\ \A j \in 1..Len(p) - 2 : SubSeq(p, 2, Len(p) - 1)[j] = p[j + 1]
<1> DEFINE n == Len(p) - 1
<1>1. n \in Nat /\ n >= 1 /\ 2 \in Nat /\ Len(p) - 2 = n - 1 /\ 2 >= 1 /\ n <= Len(p)
  OBVIOUS
<1> HIDE DEF n
<1>2. SubSeq(p, 2, n) \in Seq(S)
  BY <1>1
<1>3. SubSeq(p, 2, n) = [i \in 1..(1 + n) - 2 |-> p[(i + 2) - 1]]
  BY <1>1
<1>4. (1 + n) - 2 = n - 1 /\ \A j \in 1..n - 1 : (j + 2) - 1 = j + 1
  BY <1>1
<1>5. SubSeq(p, 2, n) = [i \in 1..n - 1 |-> p[i + 1]]
  BY <1>3, <1>4
<1>6. Len(SubSeq(p, 2, n)) = n - 1
  BY <1>1, <1>5
<1> QED
  BY <1>1, <1>5, <1>6 DEF n

(***************************************************************************)
(* What _build_path returns, with its ends, is a shortest path.            *)
(***************************************************************************)
LEMMA PathBuilt ==
  ASSUME NEW g, Searchable(g), NEW s \in g.node, NEW t \in g.node, s # t,
         NEW run, Solved(g, s, run), run.dist[t] # None
  PROVE  LET q == <<s>> \o BuildPath(run.prev, s, t) \o <<t>> IN
         q \in SimplePaths(g) /\ Cost(g, q) = run.dist[t]
<1> DEFINE p == BackFrom(run.prev, t)
           L == Len(p)
           mid == Reverse(SubSeq(p, 2, L - 1))
           q == <<s>> \o mid \o <<t>>
<1>1. Recorded(g, s, run)
  BY DEF Solved
<1>2. IsTrace(g, run, t, p) /\ p[L] = s
  BY <1>1, BackFromTraces
<1>3. BuildPath(run.prev, s, t) = mid
  BY <1>1 DEF BuildPath, Recorded
<1> HIDE DEF p
<1>4. p \in Seq(g.node) /\ L \in Nat /\ L >= 2 /\ p[1] = t
  <2>1. p \in Seq(g.node) /\ L \in Nat /\ L >= 1 /\ p[1] = t
    BY <1>2 DEF IsTrace
  <2>2. L # 1
    BY <1>2, <2>1
  <2> HIDE DEF L
  <2> QED
    BY <2>1, <2>2
<1> HIDE DEF L
<1>5. mid = [i \in 1..L - 2 |-> p[L - i]]
  <2>1. /\ Len(SubSeq(p, 2, L - 1)) = L - 2
        /\ \A j \in 1..L - 2 : SubSeq(p, 2, L - 1)[j] = p[j + 1]
    BY <1>4, Between DEF L
  <2>2. ASSUME NEW i \in 1..L - 2
        PROVE  SubSeq(p, 2, L - 1)[((L - 2) - i) + 1] = p[L - i]
    <3>1. ((L - 2) - i) + 1 \in 1..L - 2 /\ (((L - 2) - i) + 1) + 1 = L - i
      BY <1>4
    <3> QED
      BY <2>1, <3>1
  <2> QED
    BY <2>1, <2>2 DEF Reverse
<1>6. Reverse(p) = [i \in 1..L |-> p[(L - i) + 1]]
  BY DEF Reverse, L
<1>7. \A j \in 1..L : p[j] \in g.node
  BY <1>4 DEF L
<1>8. mid \in Seq(g.node) /\ Len(mid) = L - 2
  <2>1. \A i \in 1..L - 2 : L - i \in 1..L
    BY <1>4
  <2> HIDE DEF mid
  <2>2. mid \in [1..L - 2 -> g.node] /\ L - 2 \in Nat
    BY <1>4, <1>5, <1>7, <2>1
  <2> QED
    BY <2>2
<1>9. q = Reverse(p)
  <2> HIDE DEF mid
  <2>1. /\ q \in Seq(g.node) /\ Len(q) = L
        /\ q[1] = s /\ q[L] = t /\ \A j \in 1..L - 2 : q[j + 1] = mid[j]
    <3>1. /\ q \in Seq(g.node) /\ Len(q) = Len(mid) + 2
          /\ q[1] = s /\ q[Len(mid) + 2] = t
          /\ \A j \in 1..Len(mid) : q[j + 1] = mid[j]
      <4> DEFINE N == g.node
      <4>1. s \in N /\ t \in N /\ mid \in Seq(N)
        BY <1>8
      <4> HIDE DEF N
      <4>2. /\ <<s>> \o mid \o <<t>> \in Seq(N) /\ Len(<<s>> \o mid \o <<t>>) = Len(mid) + 2
            /\ (<<s>> \o mid \o <<t>>)[1] = s /\ (<<s>> \o mid \o <<t>>)[Len(mid) + 2] = t
            /\ \A j \in 1..Len(mid) : (<<s>> \o mid \o <<t>>)[j + 1] = mid[j]
        BY <4>1, Enclosed
      <4> QED
        BY <4>2 DEF N
    <3>2. Len(mid) + 2 = L
      BY <1>4, <1>8
    <3> HIDE DEF q
    <3> QED
      BY <1>8, <3>1, <3>2
  <2> HIDE DEF q
  <2>2. ASSUME NEW i \in 1..L PROVE q[i] = p[(L - i) + 1]
    <3>1. CASE i = 1
      <4>1. (L - i) + 1 = L
        BY <1>4, <3>1
      <4> QED
        BY <1>2, <2>1, <3>1, <4>1
    <3>2. CASE i = L
      <4>1. (L - i) + 1 = 1
        BY <1>4, <3>2
      <4> QED
        BY <1>4, <2>1, <3>2, <4>1
    <3>3. CASE i # 1 /\ i # L
      <4>1. /\ i - 1 \in 1..L - 2 /\ L - (i - 1) = (L - i) + 1
            /\ (i - 1) + 1 = i
        BY <1>4, <3>3
      <4>2. q[i] = mid[i - 1]
        BY <2>1, <4>1
      <4>3. mid[i - 1] = p[L - (i - 1)]
        BY <1>5, <4>1
      <4> QED
        BY <4>1, <4>2, <4>3
    <3> QED
      BY <3>1, <3>2, <3>3
  <2>3. q = [i \in 1..L |-> q[i]]
    BY <2>1
  <2> QED
    BY <1>6, <2>2, <2>3
<1>10. /\ q \in SimplePaths(g) /\ q[1] = s /\ Last(q) = t
       /\ Cost(g, q) \in Nat /\ run.dist[t] \in Nat /\ Cost(g, q) <= run.dist[t]
  <2> HIDE DEF q
  <2>1. LET w == Reverse(p) IN
        /\ w \in SimplePaths(g) /\ w[1] = s /\ Last(w) = t
        /\ Cost(g, w) \in Nat /\ run.dist[t] \in Nat /\ Cost(g, w) <= run.dist[t]
    BY <1>1, <1>2, TraceReversed DEF L
  <2> QED
    BY <1>9, <2>1
<1> HIDE DEF q
<1>11. run.dist[t] <= Cost(g, q)
  BY <1>10, NoPathShorter
<1>12. Cost(g, q) = run.dist[t]
  BY <1>10, <1>11
<1> QED
  BY <1>3, <1>10, <1>12 DEF q
=============================================================================
