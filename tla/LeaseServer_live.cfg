SPECIFICATION LiveSpec
CONSTANTS
  Modulus = 8
  Mac = {m1, m2}
  Addr = {1, 2, 3, 4}
  NoMac = NoMac
  NoAddr = NoAddr
  Handler = {h1}
  Static <- NoStatic
  Pool <- ScannedPool
  Subnet <- AllAddr
  BootpSubnet <- AllAddr
  Squatted = {2}
  LeaseTime = 1
  PingRetries = 2
  Forever = 9
  DbFaults = FALSE
  LossyNet = TRUE
  MaxTime = 2
PROPERTY EveryClientServed
