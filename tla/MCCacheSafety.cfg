SPECIFICATION Spec
CONSTANTS
  Proc = {p1, p2}
  Key = {k1}
  File = {f1, f2}
  HubKeys = {}
  Ops <- EveryOp
  Faults = {"crash", "store"}
  HubSizes = {2}
  Needs = {1}
  DiskShort = {0, 1}
  Ceiling = 2
  MinFree = 1
  NoProc = NoProc
  NoKey = NoKey
  Marker = Marker
SYMMETRY Symmetry
INVARIANTS TypeOK NoLoss DeletionVerified
