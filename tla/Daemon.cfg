SPECIFICATION DSpec
CONSTANTS
  m1 = m1
  Mac = {m1, m2}
  Addr = {a1, a2}
  NoMac = NoMac
  NoAddr = NoAddr
  Host <- M1
  MaxRequests = 2
  Handler = {h1}
  Static <- NoStatic
  Pool <- NoPool
  Subnet <- AllAddr
  BootpSubnet <- NoAddresses
  Squatted = {}
  LeaseTime = 2
  PingRetries = 2
  Forever = 9
  DbFaults = FALSE
  LossyNet = FALSE
  MaxTime = 1
SYMMETRY AddrSymmetry
INVARIANT DTypeOK
INVARIANT ExclusiveThroughReconfiguration
INVARIANT DenyThroughReconfiguration
INVARIANT DInv
INVARIANT PingInv
