CONSTANTS
  None = None
  NoKey = NoKey
  Gateway = Gateway
  Host = {h1}
  Peer = {p1}
  HostPort = {1}
  Ident = {}
  FirstPort = 2
  LastPort = 4
  TcpTimeout = 2
  UdpTimeout = 1
  IcmpTimeout = 0
  ClosingTimeout = 1
  NatWord = 2570
  AddressWord <- Words
  PeerPort = 80
  Lengths = {20}
  Bodies <- Sums
SPECIFICATION FlowsFairSpec
INVARIANTS IndexComplete PortsDiffer RewrittenAccepted Transparent
PROPERTIES ImplementsBinding CollectSparesLive IdleCollected
