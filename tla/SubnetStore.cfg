SPECIFICATION Spec
CONSTANTS
  n1 = n1
  n2 = n2
  v1 = v1
  v2 = v2
  ranges = ranges
  routers = routers
  Proc = {p1, p2}
  NoProc = NoProc
  NetOrder <- Networks
  Value = {v1, v2}
  NoValue = NoValue
  Torn = Torn
  TableOrder <- Tables
  Lists <- ListsOf
  Columns <- BootpColumns
  MaxId = 2
INVARIANT TypeOK
INVARIANT IInv
INVARIANT ListingWithinWindow
INVARIANT ChildrenHaveParents
INVARIANT QueriesFindTheirColumns
PROPERTY ImplementsMap
SYMMETRY ProcSymmetry
