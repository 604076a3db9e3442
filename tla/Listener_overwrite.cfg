SPECIFICATION Spec
CONSTANTS
  Handler = {h1, h2}
  Wires <- RelayedWires
  Self = 1
  Subnet <- TwoHosts
  Routers <- TwoRouters
  LeaseTime = 9
  MaxPackets = 2
  MinLen = 24
SYMMETRY HandlerSymmetry
INVARIANT LeasesAsAsked
