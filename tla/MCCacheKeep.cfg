SPECIFICATION FairSpec
CONSTANTS
  Proc = {p1, p2}
  Key = {k1, k2, k3}
  File = {f1, f2}
  HubKeys = {k1, k2}
  Ops <- KeepOps
  Faults = {"hub"}
  HubSizes = {1, 2}
  Needs = {1}
  DiskShort = {0, 1}
  Ceiling = 3
  MinFree = 1
  NoProc = NoProc
  NoKey = NoKey
  Marker = Marker
INVARIANTS StagedWhole SpaceKept FlagTruthful
PROPERTIES LeaseProtects PinProtects LockReleased
