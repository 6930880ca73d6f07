-------------------------------- MODULE Lease --------------------------------
(***************************************************************************)
(* Processes of the host and the leases they hold (src/nawat/leases.py,    *)
(* process.py).  A lease is a row (key, pid, boot id, start time); nothing *)
(* but the process table says whether it still counts.  The module has no  *)
(* Next of its own: Session puts its steps together with those of the      *)
(* programs that take leases.                                              *)
(***************************************************************************)
EXTENDS Integers, FiniteSets

CONSTANTS
  Pid,       \* process ids, which the kernel uses again
  Key,       \* artifacts
  LeaseId,   \* names for rows; a bound on the leases there are at one time
  MaxTick,   \* bound on the processes started in each boot
  MaxBoot    \* bound on boots

ASSUME LeaseAssumption == LeaseId \subseteq Nat /\ MaxBoot \in Nat \ {0} /\ MaxTick \in [1..MaxBoot -> Nat]

VARIABLES
  boot,      \* boot_id()
  tick,      \* clock ticks since boot, as far as start times tell them apart
  procs,     \* /proc: what each pid is
  leases     \* rows of the leases table

leaseVars == <<boot, tick, procs, leases>>

-----------------------------------------------------------------------------
(* process.py                                                              *)

UnknownStart == -1                 \* UNKNOWN_START

Start == UNION {0..MaxTick[b] : b \in 1..MaxBoot}

Gone == [state |-> "gone", start |-> 0]

Process == [state : {"running", "zombie", "gone"}, start : Start]

\* process_start_time: a zombie still has one, a process that is gone has none.
StartTime(p) == IF procs[p].state = "gone" THEN UnknownStart ELSE procs[p].start

\* process_alive: a zombie does nothing any more.
ProcessAlive(p) == procs[p].state = "running"

-----------------------------------------------------------------------------
(* leases.py                                                               *)

LeaseRecord == [id : LeaseId, key : Key, pid : Pid, boot : 1..MaxBoot, start : Start \cup {UnknownStart}]

\* Faulty: whoever has the pid in this boot.
SamePid(r) == r.boot = boot /\ ProcessAlive(r.pid)

\* Faulty: start times of different boots are compared.
SameStart(r) == ProcessAlive(r.pid) /\ (r.start = UnknownStart \/ r.start = StartTime(r.pid))

\* LeaseRecord.alive, and Session.alive, which decides in the same way.
Alive(r) ==
  /\ r.boot = boot
  /\ ProcessAlive(r.pid)
  /\ r.start = UnknownStart \/ r.start = StartTime(r.pid)

LeasesOf(p) == {l \in leases : l.pid = p /\ Alive(l)}

\* The row acquire would insert for a key on behalf of p.
NewLease(i, k, p) == [id |-> i, key |-> k, pid |-> p, boot |-> boot, start |-> StartTime(p)]

\* Ids are uuids: any name will do that no row and nobody's memory mentions.
FreshId(i, mentioned) ==
  LET free == LeaseId \ (mentioned \cup {l.id : l \in leases})
  IN i \in free /\ \A j \in free : i <= j

\* release: by id.
Released(ids) == {l \in leases : l.id \notin ids}

\* reap, in passing, by whoever looks at the live leases.
Reap ==
  /\ leases' = {l \in leases : Alive(l)}
  /\ leases' # leases
  /\ UNCHANGED <<boot, tick, procs>>

-----------------------------------------------------------------------------
(* The kernel.                                                             *)

\* A process starts on a pid that is free.
Spawned(p) ==
  /\ procs[p].state = "gone" /\ tick < MaxTick[boot]
  /\ tick' = tick + 1
  /\ procs' = [procs EXCEPT ![p] = [state |-> "running", start |-> tick]]

\* It exits; its entry stays until its parent has looked.
Exited(p) ==
  /\ procs[p].state = "running"
  /\ procs' = [procs EXCEPT ![p].state = "zombie"]

WaitedFor(p) ==
  /\ procs[p].state = "zombie"
  /\ procs' = [procs EXCEPT ![p] = Gone]

\* Reboot: pids and ticks start again, the tables are on disk.
Rebooted ==
  /\ boot < MaxBoot
  /\ boot' = boot + 1
  /\ tick' = 0
  /\ procs' = [p \in Pid |-> Gone]

LeaseInit ==
  /\ boot = 1 /\ tick = 0 /\ leases = {}
  /\ procs = [p \in Pid |-> Gone]

LeaseTypeOK ==
  /\ boot \in 1..MaxBoot /\ tick \in Start
  /\ procs \in [Pid -> Process]
  /\ leases \subseteq LeaseRecord
=============================================================================
