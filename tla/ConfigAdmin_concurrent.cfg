SPECIFICATION Spec
CONSTANTS
  m1 = m1
  m2 = m2
  m3 = m3
  Mac = {m1, m2}
  Addr = {a1, a2}
  NoMac = NoMac
  NoAddr = NoAddr
  Net = {}
  Settings = {}
  Host <- M1
  Dhcp <- M1M2
  Request = {r1, r2}
  PluginFaults = TRUE
  DbFaults = TRUE
  LeaseTime = 1
  Forever = 9
  MaxTime = 0
SYMMETRY RequestSymmetry
INVARIANT NoGhostReservation
INVARIANT IInv
