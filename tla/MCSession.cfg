SPECIFICATION FairSpec
CONSTANTS
  api = api
  sweeper = sweeper
  Client = {api, sweeper}
  Ops <- OneSaver
  Mortal = {api}
  Model = {m1}
  Adapter = {a1}
  Key = {m1, a1}
  Pid = {1, 2}
  LeaseId = {1, 2}
  MaxTick <- Boots2
  MaxBoot = 2
  Faults = {"reboot", "lost"}
  NoPid = NoPid
  NoSession = NoSession
  NoServer = NoServer
  NoLease = NoLease
INVARIANTS TypeOK OneServer LeasesTruthful
PROPERTIES OnlyServersKilled IdleReleased
CHECK_DEADLOCK FALSE
