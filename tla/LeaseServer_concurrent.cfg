SPECIFICATION Spec
CONSTANTS
  m1 = m1
  m2 = m2
  m3 = m3
  a1 = a1
  a2 = a2
  a3 = a3
  Mac = {m1, m2}
  Addr = {a1}
  NoMac = NoMac
  NoAddr = NoAddr
  Handler = {h1, h2}
  Static <- NoStatic
  Pool <- PoolA1
  Subnet <- AllAddr
  BootpSubnet <- AllAddr
  Squatted = {}
  LeaseTime = 2
  PingRetries = 2
  Forever = 9
  DbFaults = TRUE
  LossyNet = TRUE
  MaxTime = 3
SYMMETRY ClientSymmetry
INVARIANT IInv
INVARIANT ExclusiveUnlessRaced
INVARIANT PingsNoClientUnlessOvertaken
