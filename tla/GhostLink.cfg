CONSTANTS
  None = None
  Switch = {1, 2, 3}
  Wires <- Triangle
  Access = {9}
  Sockets <- Ends
  Mac = {m1}
  Ip = {i1}
  Internal = {i1}
  LinkWeight <- Weights
  PortNumber <- Numbers
  MaxProbers = 1
  MaxQueued = 1
  MaxChanges = 1
SPECIFICATION FromBegin
INVARIANT FlowsFollowTopology
