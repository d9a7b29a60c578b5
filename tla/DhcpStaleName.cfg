CONSTANTS
  None = None
  Hostname = {h1, h2}
  Address = {2, 3}
  Mac = {m1, m2}
  Worker = {w1, w2}
  LeaseTime = 1
  ConflictTTL = 1
  ProbeTicks = 1
SYMMETRY Symmetry
SPECIFICATION OrderlySpec
INVARIANTS NameResolvesToLease
