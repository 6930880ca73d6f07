SPECIFICATION Spec
CONSTANTS
  Proc = {p1}
  Key = {k1}
  File = {f1, f2}
  HubKeys = {k1}
  Ops <- HubOps
  Faults = {"store"}
  HubSizes = {2}
  Needs = {1}
  DiskShort = {0}
  Ceiling = 2
  MinFree = 1
  NoProc = NoProc
  NoKey = NoKey
  Marker = Marker
INVARIANT StagedWhole
