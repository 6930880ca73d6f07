------------------------------ MODULE MCCache ------------------------------
(* Small instances of Cache for TLC: which operations each run performs.   *)
EXTENDS Cache, TLC

Symmetry == Permutations(Proc) \cup Permutations(File)

EveryOp  == AllOps
\* Nobody removes or replaces an artifact by name, and leases are taken under
\* the lock.
KeepOps == {"resolve", "add", "addOnly", "publish", "evict", "collect", "pin", "unpin"}
\* An artifact that only comes from the hub and through the store.
HubOps == {"resolve", "evict"}
=============================================================================
