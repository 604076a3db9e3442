SPECIFICATION Spec
CONSTANTS
  m1 = m1
  m2 = m2
  m3 = m3
  a1 = a1
  a2 = a2
  a3 = a3
  Mac = {m1, m2, m3}
  Addr = {a1, a2, a3}
  NoMac = NoMac
  NoAddr = NoAddr
  Handler = {h1}
  Static <- StaticM1
  Pool <- PoolA1A2
  Subnet <- NetA1A2
  BootpSubnet <- NetA1A2
  Squatted = {a3}
  LeaseTime = 2
  PingRetries = 2
  Forever = 9
  DbFaults = FALSE
  LossyNet = FALSE
  MaxTime = 3
SYMMETRY DynamicSymmetry
INVARIANT TypeOK
INVARIANT BookInv
INVARIANT Exclusive
INVARIANT OneLeasePerClient
INVARIANT MartiansAreSquatters
PROPERTY RenewalNeverRefused
PROPERTY ReleaseFrees
PROPERTY ImplementsBook
