CONSTANTS
  None = None
  Star = Star
  Bad = Bad
  Gateway = Gateway
  NatIp = NatIp
  ControllerIp = ControllerIp
  Nowhere = Nowhere
  a = a
  b = b
  e = e
  Host <- Pair
  Inside = {a}
  Switch = {1, 2}
  PortNo = {1, 2}
  Lead <- TwoSwitches
  Place <- TwoPlaces
  Toward <- TwoToward
  Pool = {7, 8}
  Openings <- OneExchange
  Rules <- NoRules
  MaxFlight = 1
SPECIFICATION PathSpec
PROPERTY RepliesTakeTheWay
