SPECIFICATION Spec
CONSTANTS
  m1 = m1
  m2 = m2
  m3 = m3
  a1 = a1
  a2 = a2
  a3 = a3
  Mac = {m1, m2, m3}
  Addr = {a1, a2}
  NoMac = NoMac
  NoAddr = NoAddr
  Handler = {h1}
  Static <- StaticM1
  Pool <- PoolA1A2
  Subnet <- AllAddr
  BootpSubnet <- AllAddr
  Squatted = {}
  LeaseTime = 2
  PingRetries = 2
  Forever = 9
  DbFaults = FALSE
  LossyNet = TRUE
  MaxTime = 3
INVARIANT ReservationKept
