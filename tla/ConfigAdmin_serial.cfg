SPECIFICATION Spec
CONSTANTS
  m1 = m1
  m2 = m2
  m3 = m3
  Mac = {m1, m2, m3}
  Addr = {a1, a2}
  NoMac = NoMac
  NoAddr = NoAddr
  Net = {n1}
  Settings = {s1}
  Host <- M1M2
  Dhcp <- M3
  Request = {r1}
  PluginFaults = FALSE
  DbFaults = FALSE
  LeaseTime = 1
  Forever = 9
  MaxTime = 1
SYMMETRY HostSymmetry
INVARIANT TypeOK
INVARIANT CacheFresh
 
INVARIANT NoGhostReservation
 
