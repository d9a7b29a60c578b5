CONSTANTS
  None = None
  Node = {1, 2, 3, 4}
  MaxWeight = 2
SPECIFICATION Spec
INVARIANTS DistancesShortest HopsDescend PathsCostDistance AllPredecessors
