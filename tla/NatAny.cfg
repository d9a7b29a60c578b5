CONSTANTS
  None = None
  NoKey = NoKey
  Gateway = Gateway
  Host = {h1, h2}
  Peer = {p1}
  HostPort = {1}
  Ident = {3}
  FirstPort = 2
  LastPort = 3
  TcpTimeout = 0
  UdpTimeout = 0
  IcmpTimeout = 0
  ClosingTimeout = 0
SYMMETRY Symmetry
SPECIFICATION NatSpec
INVARIANTS NatTypeOK NoDanglingIndex
