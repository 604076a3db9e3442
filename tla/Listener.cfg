SPECIFICATION Spec
CONSTANTS
  Handler = {h1, h2}
  Wires <- AllWires
  Self = 1
  Subnet <- TwoHosts
  Routers <- TwoRouters
  LeaseTime = 9
  MaxPackets = 2
  MinLen = 24
SYMMETRY HandlerSymmetry
INVARIANT TypeOK
INVARIANT RawServedAsSent
INVARIANT UdpServedAsSentUnlessOverwritten
INVARIANT RepliesReadable
INVARIANT CountsExactUnlessOverlapped
INVARIANT IInv
