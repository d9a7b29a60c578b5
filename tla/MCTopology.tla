------------------------------ MODULE MCTopology ----------------------------
(***************************************************************************)
(* Three switches in a triangle, one of its links dear.  From the start    *)
(* the network stays as it is; changes are tried from where that start     *)
(* leads: every switch and every link known, no host seen yet.             *)
(***************************************************************************)
EXTENDS TopologyCalm, TLC

Triangle == {{1, 2}, {2, 3}, {1, 3}}
Weights == [w \in Wires |-> IF w = {1, 3} THEN 3 ELSE 1]
\* The wire {2, 3} is probed from 3 alone, {1, 3} from neither end.
Numbers ==
  [e \in Switch \X Switch |->
     CASE {e[1], e[2]} = {1, 3} -> 10
       [] e = <<2, 3>>          -> 9
       [] e = <<3, 2>>          -> 8
       [] OTHER                 -> 1]
Ends == {[dpid |-> 1, port |-> 9], [dpid |-> 3, port |-> 9]}

AllDiscovered ==
  /\ phase = [s \in Switch |-> "entered"]
  /\ links = {l \in Switch \X Switch : {l[1], l[2]} \in Wires}
  /\ probers = MaxProbers

Begin ==
  /\ NetworkInit /\ NothingKnown
  /\ \/ changes = MaxChanges /\ NoSwitches
     \/ changes = 0 /\ AllDiscovered

CalmFromBegin == Begin /\ [][CalmNext]_topoVars /\ ProbeFairness
FromBegin == Begin /\ [][TopoNext]_topoVars
\* Two switches, for the runs that look for a counterexample.
Pair == {{1, 2}}
PairEnds == {[dpid |-> 1, port |-> 9], [dpid |-> 2, port |-> 9]}
=============================================================================
