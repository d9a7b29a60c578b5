CONSTANTS
  None = None
  Star = Star
  Bad = Bad
  Gateway = Gateway
  NatIp = NatIp
  ControllerIp = ControllerIp
  Nowhere = Nowhere
  a = a
  b = b
  e = e
  Host <- Hosts
  Inside = {a, b}
  Switch = {1}
  PortNo = {1, 2, 3, 4}
  Lead <- OneSwitch
  Place <- OnePlace
  Toward <- OneToward
  Pool = {7, 8}
  Openings <- Exchanges
  Rules <- RuleFile
  MaxFlight = 1
SPECIFICATION NatNetwork
INVARIANTS PathTypeOK DeniedNotForwarded RulesExact QueriesStayLocal OutsideSeesNat OnlyInsideTranslated RoundTrip
PROPERTIES AnswersReturn
