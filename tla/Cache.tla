------------------------------- MODULE Cache -------------------------------
(***************************************************************************)
(* The local cache of nawat (src/nawat/cache.py, store.py, leases.py):     *)
(* several processes of one host resolve, publish, add, keep and evict     *)
(* artifacts that live in a bounded directory, in SQLite rows and in an    *)
(* object store.                                                           *)
(*                                                                         *)
(* One action is one stretch of a method between two points at which       *)
(* another process can act or at which this one can die: a file operation, *)
(* a database transaction, a call on the store, taking or leaving the      *)
(* lock.  An artifact is a set of files; its size is its number of files.  *)
(***************************************************************************)
EXTENDS Naturals, FiniteSets

CONSTANTS
  Proc,        \* processes (or threads of the control plane) that open the cache
  Key,         \* artifact keys
  File,        \* the files of a whole artifact
  HubKeys,     \* the keys (models/, datasets/) the upstream hub can serve
  Ops,         \* the operations the processes perform
  Faults,      \* "crash": a process dies; "store": the store fails; "hub": so does the hub
  HubSizes,    \* what hub.size may answer; 0 is "unknown"
  Needs,       \* the bytes an explicit collect may be asked to free room for
  DiskShort,   \* bytes by which the disk may be short, whatever the ceiling says
  Ceiling,     \* cache_ceiling
  MinFree,     \* min_free, reserved when the hub cannot tell a size
  NoProc, NoKey, Marker

ASSUME CacheAssumption ==
  /\ IsFiniteSet(Key) /\ IsFiniteSet(File)
  /\ HubKeys \subseteq Key
  /\ HubSizes \subseteq Nat /\ Needs \subseteq Nat /\ DiskShort \subseteq Nat
  /\ Ceiling \in Nat /\ MinFree \in Nat \ {0}
  /\ NoProc \notin Proc /\ NoKey \notin Key /\ Marker \notin File

VARIABLES
  lock,        \* the process inside Cache._locked, or NoProc
  pc,          \* where each process is
  job,         \* the locals of the operation each process is performing
  rows,        \* keys that have a row in the artifacts table
  pinned,      \* rows.pinned
  replicated,  \* rows.replicated_at is not NULL
  manifest,    \* the files counted in rows.bytes
  age,         \* rank of rows.last_used, 0 the most recent
  leases,      \* <<process, key>>: the leases that are alive
  present,     \* keys whose directory exists under the cache root
  files,       \* what those directories hold, the marker included
  out,         \* finished output directories, waiting to be published or added
  store,       \* what the object store holds under each key
  owed         \* keys whose content was produced here and not removed by force

rowVars  == <<rows, pinned, replicated, manifest, age>>
diskVars == <<present, files, out>>
vars == <<lock, pc, job, rowVars, leases, diskVars, store, owed>>

-----------------------------------------------------------------------------
(* Operations and program counters.                                        *)

Resolving  == {"resolve", "hold"}            \* lease taken under the lock; after it
Adding     == {"add", "addOnly"}             \* add(publish=True), add(publish=False)
Publishing == {"publish", "publishKeep", "publishHere", "publishHereKeep"}
InPlace    == {"publishHere", "publishHereKeep"}   \* the source is the cached directory
Collecting == {"collect", "dryRun"}
OnKey      == {"evict", "force", "pin", "unpin"}
AllOps     == Resolving \cup Adding \cup Publishing \cup Collecting \cup OnKey \cup {"verify"}

Locked == {"reconcile", "run", "space", "collect", "verify", "rmtree", "forget",
           "fetch", "upload", "check", "place", "clear", "move", "marker",
           "register", "rmsrc", "return"}
PC == Locked \cup {"idle", "lease", "report"}

Job == [op     : AllOps \cup {"none"},
        key    : Key \cup {NoKey},
        victim : Key \cup {NoKey},     \* the artifact being deleted
        from   : {"none", "store", "hub", "placed"},
        size   : Nat,                  \* `expected` of _fetch
        need   : Nat,                  \* the argument of collect
        goal   : Nat,                  \* target - freed
        todo   : SUBSET Key,           \* candidates collect has not looked at
        rest   : SUBSET File,          \* files still to upload
        staged : SUBSET File]          \* the staging directory

NoJob == [op |-> "none", key |-> NoKey, victim |-> NoKey, from |-> "none", size |-> 0,
          need |-> 0, goal |-> 0, todo |-> {}, rest |-> {}, staged |-> {}]

-----------------------------------------------------------------------------
(* What the code computes.                                                 *)

\* scan_local of the cached directory: its files, the marker left out.
Content(k) == files[k] \cap File

\* Faulty: a replica of any kind will do.
VerifiedAny(k) == k \in present

\* verify_manifests(...).ok: every local file is in the replica.
Verified(k) == k \in present /\ Content(k) \subseteq store[k]

Leased(k) == \E p \in Proc : <<p, k>> \in leases

\* Faulty: what is in use is considered too ...
CandidatesInUse == rows \ pinned

\* ... or what is kept.
CandidatesKept == {k \in rows : ~Leased(k)}

\* The rows collect may consider: neither kept nor in use when it looks.
Candidates == {k \in rows : k \notin pinned /\ ~Leased(k)}

\* The bytes of every row, as _deficit adds them up.
Used == Cardinality({x \in Key \X File : x[1] \in rows /\ x[2] \in manifest[x[1]]})

\* Faulty: the difference as it comes.
MonusSigned(a, b) == a - b

\* max(0, a - b).
Monus(a, b) == IF a > b THEN a - b ELSE 0

\* Faulty: what is to come is not counted.
DeficitNow(need, disk) == Monus(Used, Ceiling)

\* _deficit: over the ceiling, or over what the disk has left.
Deficit(need, disk) ==
  LET over == Monus(Used + need, Ceiling) IN IF over > disk THEN over ELSE disk

\* last_used = now for every key of K: they become the youngest, and the
\* other rows keep their order.
Touched(K) ==
  [k \in Key |-> IF k \in rows \ K THEN Cardinality(K \cup {j \in rows : age[j] < age[k]}) ELSE 0]

\* Where publish and add read from.
Source(o, k) == IF o \in InPlace THEN Content(k) ELSE out[k]

\* What upload and the verification after it read from.
Sent(p) == IF job[p].op \in Resolving THEN job[p].staged
           ELSE IF job[p].op \in Adding THEN Content(job[p].key)
           ELSE Source(job[p].op, job[p].key)

-----------------------------------------------------------------------------
(* Steps shared by the operations.                                         *)

Goto(p, at) == pc' = [pc EXCEPT ![p] = at]

\* Leaving the lock ends the operation, by returning or by raising.
Leave(p, at) ==
  /\ lock' = NoProc
  /\ Goto(p, at)

Finish(p) ==
  /\ Leave(p, "idle")
  /\ job' = [job EXCEPT ![p] = NoJob]

\* Entering Cache._locked.
Enter(p, at, j) ==
  /\ pc[p] = "idle" /\ lock = NoProc
  /\ j.op \in Ops
  /\ lock' = p
  /\ Goto(p, at)
  /\ job' = [job EXCEPT ![p] = j]
  /\ UNCHANGED <<rowVars, leases, diskVars, store, owed>>

BeginOnKey(p, o, k) ==
  /\ o \in Resolving \cup OnKey
  /\ Enter(p, "reconcile", [NoJob EXCEPT !.op = o, !.key = k])

BeginCollect(p, o, n) ==
  /\ o \in Collecting
  /\ Enter(p, "reconcile", [NoJob EXCEPT !.op = o, !.need = n])

\* publish: the source must exist and hold a file to send.
BeginPublish(p, o, k) ==
  /\ o \in Publishing
  /\ Source(o, k) # {}
  /\ o \in InPlace => k \in present
  /\ Enter(p, "upload", [NoJob EXCEPT !.op = o, !.key = k, !.rest = Source(o, k)])

BeginAdd(p, o, k) ==
  /\ o \in Adding
  /\ out[k] # {}
  /\ Enter(p, "reconcile", [NoJob EXCEPT !.op = o, !.key = k, !.need = Cardinality(out[k])])

\* reconcile: rows without a directory go; directories with a marker and no
\* row come back, unreplicated and unpinned.  Then the operation goes on.
Reconcile(p) ==
  LET found == {k \in present : Marker \in files[k] /\ k \notin rows}
      kept  == rows \cap present
      o     == job[p].op
  IN /\ pc[p] = "reconcile"
     /\ rows' = kept \cup found
     /\ pinned' = pinned \cap kept
     /\ replicated' = replicated \cap kept
     /\ manifest' = [k \in Key |-> IF k \in found THEN Content(k)
                                   ELSE IF k \in kept THEN manifest[k] ELSE {}]
     /\ age' = Touched(found)
     /\ Goto(p, IF o \in OnKey \/ (o \in Resolving /\ job[p].from # "placed")
                  THEN "run" ELSE "space")
     /\ UNCHANGED <<lock, job, leases, diskVars, store, owed>>

-----------------------------------------------------------------------------
(* resolve and _fetch.                                                     *)

AtRun(p, O) == pc[p] = "run" /\ job[p].op \in O

Hit(k) == k \in rows /\ k \in present

ResolveHit(p) ==
  /\ AtRun(p, Resolving) /\ Hit(job[p].key)
  /\ age' = Touched({job[p].key})
  /\ Goto(p, "return")
  /\ UNCHANGED <<lock, job, rows, pinned, replicated, manifest, leases, diskVars, store, owed>>

\* The store is asked first; what it lists is what is expected.
MissInCache(p) ==
  LET k == job[p].key
      held == Cardinality(store[k])
  IN /\ AtRun(p, Resolving) /\ ~Hit(k) /\ store[k] # {}
     /\ job' = [job EXCEPT ![p].from = "store", ![p].size = held, ![p].need = held]
     /\ Goto(p, "space")
     /\ UNCHANGED <<lock, rowVars, leases, diskVars, store, owed>>

\* Otherwise the hub, which may know the size or not.
MissInStore(p) ==
  LET k == job[p].key
  IN /\ AtRun(p, Resolving) /\ ~Hit(k) /\ store[k] = {}
     /\ \E s \in HubSizes :
          job' = [job EXCEPT ![p].from = "hub", ![p].size = s,
                             ![p].need = IF s = 0 THEN MinFree ELSE s]
     /\ Goto(p, "space")
     /\ UNCHANGED <<lock, rowVars, leases, diskVars, store, owed>>

\* Faulty: an interrupted transfer passes for a finished one.
FetchInterrupted(p) ==
  /\ pc[p] = "fetch" /\ job[p].from = "store"
  /\ \E part \in SUBSET store[job[p].key] \ {{}} : job' = [job EXCEPT ![p].staged = part]
  /\ Goto(p, "place")
  /\ UNCHANGED <<lock, rowVars, leases, diskVars, store, owed>>

\* store.download into a private staging directory.
FetchFromStore(p) ==
  /\ pc[p] = "fetch" /\ job[p].from = "store"
  /\ job' = [job EXCEPT ![p].staged = store[job[p].key]]
  /\ Goto(p, "place")
  /\ UNCHANGED <<lock, rowVars, leases, diskVars, store, owed>>

\* hub.fetch into staging, then the write-through to the store.
FetchFromHub(p) ==
  /\ pc[p] = "fetch" /\ job[p].from = "hub" /\ job[p].key \in HubKeys
  /\ job' = [job EXCEPT ![p].staged = File, ![p].rest = File]
  /\ Goto(p, "upload")
  /\ UNCHANGED <<lock, rowVars, leases, diskVars, store, owed>>

HubHasNot(p) ==
  /\ pc[p] = "fetch" /\ job[p].from = "hub"
  /\ job[p].key \notin HubKeys \/ "hub" \in Faults
  /\ Finish(p)
  /\ UNCHANGED <<rowVars, leases, diskVars, store, owed>>

\* os.replace(staging, target); the marker was written in staging.
Place(p) ==
  LET k == job[p].key
  IN /\ pc[p] = "place" /\ files[k] = {}
     /\ files' = [files EXCEPT ![k] = job[p].staged \cup {Marker}]
     /\ present' = present \cup {k}
     /\ Goto(p, "register")
     /\ UNCHANGED <<lock, job, rowVars, leases, out, store, owed>>

\* A directory without a row is in the way: os.replace raises, staging goes.
PlaceRefused(p) ==
  /\ pc[p] = "place" /\ files[job[p].key] # {}
  /\ Finish(p)
  /\ UNCHANGED <<rowVars, leases, diskVars, store, owed>>

\* The end of resolve: a lease under the lock, or (resolve(lease=False) by
\* holding, the executor and the sessions) one taken after the lock is left.
Return(p) ==
  LET k == job[p].key
  IN /\ pc[p] = "return"
     /\ \/ /\ job[p].op = "resolve"
           /\ leases' = leases \cup {<<p, k>>}
           /\ Finish(p)
        \/ /\ job[p].op = "hold"
           /\ Leave(p, "lease")
           /\ UNCHANGED <<job, leases>>
     /\ UNCHANGED <<rowVars, diskVars, store, owed>>

LeaseAfter(p) ==
  /\ pc[p] = "lease"
  /\ leases' = leases \cup {<<p, job[p].key>>}
  /\ Goto(p, "idle")
  /\ job' = [job EXCEPT ![p] = NoJob]
  /\ UNCHANGED <<lock, rowVars, diskVars, store, owed>>

-----------------------------------------------------------------------------
(* collect, ensure_space and evict.                                        *)

\* collect reads the deficit and the candidates, leases included, once.
Snapshot(p) ==
  /\ pc[p] = "space"
  /\ \E d \in DiskShort :
       job' = [job EXCEPT ![p].goal = Deficit(job[p].need, d), ![p].todo = Candidates]
  /\ Goto(p, "collect")
  /\ UNCHANGED <<lock, rowVars, leases, diskVars, store, owed>>

\* Faulty: a candidate stays one.
PickAgain(p) ==
  /\ pc[p] = "collect" /\ job[p].goal > 0
  /\ \E v \in job[p].todo : job' = [job EXCEPT ![p].victim = v]
  /\ Goto(p, "verify")
  /\ UNCHANGED <<lock, rowVars, leases, diskVars, store, owed>>

\* collect goes through the candidates, the least recently used first, until
\* the deficit is covered.
PickOldest(p) ==
  /\ pc[p] = "collect" /\ job[p].goal > 0
  /\ \E v \in job[p].todo :
       /\ \A u \in job[p].todo : age[u] <= age[v]
       /\ job' = [job EXCEPT ![p].victim = v, ![p].todo = @ \ {v}]
  /\ Goto(p, "verify")
  /\ UNCHANGED <<lock, rowVars, leases, diskVars, store, owed>>

\* collect is over.  ensure_space raises when it did not free enough;
\* otherwise its caller goes on, and a plain collect is done.
CollectOver(p) ==
  LET o == job[p].op
      next == IF o \in Resolving THEN (IF job[p].from = "placed" THEN "return" ELSE "fetch")
              ELSE IF o \in Adding THEN "move" ELSE "clear"
      refused == \/ o \in Collecting
                 \/ job[p].goal > 0 /\ job[p].from # "placed"
                 \/ o \in Adding /\ job[p].key \in present
  IN /\ pc[p] = "collect"
     /\ job[p].goal = 0 \/ job[p].todo = {}
     /\ IF refused THEN Finish(p) ELSE Goto(p, next) /\ UNCHANGED <<lock, job>>
     /\ UNCHANGED <<rowVars, leases, diskVars, store, owed>>

\* Faulty: what a verification said earlier is believed.
PassedBefore(p) ==
  /\ pc[p] = "verify" /\ job[p].victim \in replicated
  /\ Goto(p, "rmtree")
  /\ UNCHANGED <<lock, job, rowVars, leases, diskVars, store, owed>>

\* _verify_for_eviction: against the store, now, and the outcome is recorded.
VerifyPassed(p) ==
  LET v == job[p].victim
  IN /\ pc[p] = "verify" /\ Verified(v)
     /\ replicated' = replicated \cup {v}
     /\ IF job[p].op = "dryRun"
          THEN /\ job' = [job EXCEPT ![p].goal = Monus(@, Cardinality(manifest[v]))]
               /\ Goto(p, "collect")
          ELSE Goto(p, "rmtree") /\ UNCHANGED job
     /\ UNCHANGED <<lock, rows, pinned, manifest, age, leases, diskVars, store, owed>>

\* Not verified, or the store cannot say: collect skips it, evict raises.
NotVerified(p) ==
  LET v == job[p].victim
  IN /\ pc[p] = "verify"
     /\ \/ ~Verified(v) /\ replicated' = replicated \ {v}
        \/ "store" \in Faults /\ UNCHANGED replicated
     /\ IF job[p].op = "evict" THEN Finish(p) ELSE Goto(p, "collect") /\ UNCHANGED <<lock, job>>
     /\ UNCHANGED <<rows, pinned, manifest, age, leases, diskVars, store, owed>>

\* verify for a user (`nawat verify`, the API) takes no lock: the comparison
\* and the UPDATE that records it are two steps.
VerifyRead(p, k) ==
  /\ pc[p] = "idle" /\ "verify" \in Ops
  /\ k \in present
  /\ job' = [job EXCEPT ![p] = [NoJob EXCEPT !.op = "verify", !.key = k,
                                             !.victim = IF Verified(k) THEN k ELSE NoKey]]
  /\ Goto(p, "report")
  /\ UNCHANGED <<lock, rowVars, leases, diskVars, store, owed>>

VerifyReport(p) ==
  LET k == job[p].key
  IN /\ pc[p] = "report"
     /\ replicated' = IF job[p].victim = k THEN replicated \cup ({k} \cap rows) ELSE replicated \ {k}
     /\ Goto(p, "idle")
     /\ job' = [job EXCEPT ![p] = NoJob]
     /\ UNCHANGED <<lock, rows, pinned, manifest, age, leases, diskVars, store, owed>>

Evict(p) ==
  LET k == job[p].key
  IN /\ AtRun(p, {"evict"}) /\ k \in Candidates
     /\ job' = [job EXCEPT ![p].victim = k]
     /\ Goto(p, "verify")
     /\ UNCHANGED <<lock, rowVars, leases, diskVars, store, owed>>

EvictForced(p) ==
  LET k == job[p].key
  IN /\ AtRun(p, {"force"}) /\ k \in rows
     /\ job' = [job EXCEPT ![p].victim = k]
     /\ owed' = owed \ {k}
     /\ Goto(p, "rmtree")
     /\ UNCHANGED <<lock, rowVars, leases, diskVars, store>>

\* NotFound or Protected.
EvictRefused(p) ==
  /\ \/ AtRun(p, {"evict"}) /\ job[p].key \notin Candidates
     \/ AtRun(p, {"force"}) /\ job[p].key \notin rows
  /\ Finish(p)
  /\ UNCHANGED <<rowVars, leases, diskVars, store, owed>>

\* _delete_local: shutil.rmtree takes the files one by one, in any order ...
RemoveFile(p) ==
  LET v == job[p].victim
  IN /\ pc[p] = "rmtree"
     /\ \E f \in files[v] : files' = [files EXCEPT ![v] = @ \ {f}]
     /\ UNCHANGED <<lock, pc, job, rowVars, leases, present, out, store, owed>>

\* ... then the directory ...
RemoveDirectory(p) ==
  LET v == job[p].victim
  IN /\ pc[p] = "rmtree" /\ files[v] = {}
     /\ present' = present \ {v}
     /\ Goto(p, "forget")
     /\ UNCHANGED <<lock, job, rowVars, leases, files, out, store, owed>>

\* ... and last the row is forgotten.
Forget(p) ==
  LET v == job[p].victim
  IN /\ pc[p] = "forget"
     /\ rows' = rows \ {v} /\ pinned' = pinned \ {v} /\ replicated' = replicated \ {v}
     /\ IF job[p].op \in {"evict", "force", "publishHere"}
          THEN Finish(p)
          ELSE /\ job' = [job EXCEPT ![p].goal = Monus(@, Cardinality(manifest[v]))]
               /\ Goto(p, "collect")
               /\ UNCHANGED lock
     /\ manifest' = [manifest EXCEPT ![v] = {}]
     /\ UNCHANGED <<age, leases, diskVars, store, owed>>

-----------------------------------------------------------------------------
(* publish, add and the registration of an artifact.                       *)

\* store.upload sends file by file; each appears in the store whole.
Upload(p) ==
  LET k == job[p].key
  IN /\ pc[p] = "upload"
     /\ \E f \in job[p].rest :
          /\ store' = [store EXCEPT ![k] = @ \cup {f}]
          /\ job' = [job EXCEPT ![p].rest = @ \ {f}]
     /\ UNCHANGED <<lock, pc, rowVars, leases, diskVars, owed>>

UploadOver(p) ==
  /\ pc[p] = "upload" /\ job[p].rest = {}
  /\ Goto(p, "check")
  /\ UNCHANGED <<lock, job, rowVars, leases, diskVars, store, owed>>

\* store.publish verified; what follows depends on who publishes.
Checked(p) ==
  LET o == job[p].op
      k == job[p].key
  IN /\ pc[p] = "check" /\ Sent(p) \subseteq store[k]
     /\ Goto(p, CASE o \in Resolving -> "place"
                  [] o = "publish" -> "rmsrc"
                  [] o = "publishKeep" -> "reconcile"
                  [] o = "publishHere" -> IF Leased(k) THEN "register" ELSE "rmtree"
                  [] OTHER -> "marker")
     /\ job' = [job EXCEPT ![p].victim = IF o = "publishHere" THEN k ELSE NoKey,
                           ![p].need = IF o = "publishKeep" THEN Cardinality(Sent(p)) ELSE 0]
     /\ UNCHANGED <<lock, rowVars, leases, diskVars, store, owed>>

\* rmtree(source): the published outputs leave the local disk.
RemoveSource(p) ==
  LET k == job[p].key
  IN /\ pc[p] = "rmsrc"
     /\ IF out[k] = {} THEN Finish(p) /\ UNCHANGED out
        ELSE /\ \E f \in out[k] : out' = [out EXCEPT ![k] = @ \ {f}]
             /\ UNCHANGED <<lock, pc, job>>
     /\ UNCHANGED <<rowVars, leases, present, files, store, owed>>

\* publish(keep_local=True) removes what is cached under the key first.
ClearTarget(p) ==
  LET k == job[p].key
  IN /\ pc[p] = "clear"
     /\ IF files[k] = {} THEN Goto(p, "move") /\ present' = present \ {k} /\ UNCHANGED files
        ELSE /\ \E f \in files[k] : files' = [files EXCEPT ![k] = @ \ {f}]
             /\ UNCHANGED <<pc, present>>
     /\ UNCHANGED <<lock, job, rowVars, leases, out, store, owed>>

\* shutil.move(source, target), a rename.
Move(p) ==
  LET k == job[p].key
  IN /\ pc[p] = "move"
     /\ files' = [files EXCEPT ![k] = out[k]]
     /\ out' = [out EXCEPT ![k] = {}]
     /\ present' = present \cup {k}
     /\ job' = [job EXCEPT ![p].rest = IF job[p].op = "add" THEN out[k] ELSE {}]
     /\ Goto(p, IF job[p].op = "add" THEN "upload" ELSE "marker")
     /\ UNCHANGED <<lock, rowVars, leases, store, owed>>

WriteMarker(p) ==
  LET k == job[p].key
  IN /\ pc[p] = "marker"
     /\ files' = [files EXCEPT ![k] = @ \cup {Marker}]
     /\ Goto(p, "register")
     /\ UNCHANGED <<lock, job, rowVars, leases, present, out, store, owed>>

\* Faulty: the estimate is trusted.
UnderestimatedNever(j) == FALSE

\* `expected and size > expected`: the estimate was known, and low.
Underestimated(j) == j.size > 0 /\ Cardinality(j.staged) > j.size

\* _register: insert the row, or refresh it and keep its pin.  A download
\* larger than its estimate then gives the difference back.
Register(p) ==
  LET k == job[p].key
  IN /\ pc[p] = "register"
     /\ rows' = rows \cup {k}
     /\ manifest' = [manifest EXCEPT ![k] = Content(k)]
     /\ replicated' = IF job[p].op = "addOnly" THEN replicated \ {k} ELSE replicated \cup {k}
     /\ age' = Touched({k})
     /\ IF job[p].op \in Resolving
          THEN /\ job' = [job EXCEPT ![p].from = "placed", ![p].need = 0]
               /\ Goto(p, IF Underestimated(job[p]) THEN "reconcile" ELSE "return")
               /\ UNCHANGED lock
          ELSE Finish(p)
     /\ UNCHANGED <<pinned, leases, diskVars, store, owed>>

\* _set_pinned.
SetPinned(p) ==
  LET k == job[p].key
  IN /\ AtRun(p, {"pin", "unpin"})
     /\ pinned' = IF job[p].op = "pin" /\ k \in rows THEN pinned \cup {k} ELSE pinned \ {k}
     /\ Finish(p)
     /\ UNCHANGED <<rows, replicated, manifest, age, leases, diskVars, store, owed>>

-----------------------------------------------------------------------------
(* The world around the cache.                                             *)

\* The store cannot be reached: whatever was calling it raises.
StoreFails(p) ==
  /\ "store" \in Faults
  /\ \/ pc[p] \in {"upload", "check"}
     \/ AtRun(p, Resolving) /\ ~Hit(job[p].key)
     \/ pc[p] = "fetch" /\ job[p].from = "store"
  /\ Finish(p)
  /\ UNCHANGED <<rowVars, leases, diskVars, store, owed>>

\* A process dies: the kernel drops its flock, and its leases are dead.
Crash(p) ==
  /\ "crash" \in Faults
  /\ lock' = IF lock = p THEN NoProc ELSE lock
  /\ Goto(p, "idle")
  /\ job' = [job EXCEPT ![p] = NoJob]
  /\ leases' = {l \in leases : l[1] # p}
  /\ UNCHANGED <<rowVars, diskVars, store, owed>>

\* The end of `holding`, of a run, of a session.
Release(p, k) ==
  /\ pc[p] = "idle" /\ <<p, k>> \in leases
  /\ leases' = leases \ {<<p, k>>}
  /\ UNCHANGED <<lock, pc, job, rowVars, diskVars, store, owed>>

\* A trainer finishes writing the outputs of a key that never existed before.
Produce(k) ==
  /\ k \in Key \ HubKeys
  /\ k \notin owed \cup present /\ out[k] = {} /\ store[k] = {}
  /\ out' = [out EXCEPT ![k] = File]
  /\ owed' = owed \cup {k}
  /\ UNCHANGED <<lock, pc, job, rowVars, leases, present, files, store>>

-----------------------------------------------------------------------------
Init ==
  /\ lock = NoProc
  /\ pc = [p \in Proc |-> "idle"]
  /\ job = [p \in Proc |-> NoJob]
  /\ rows = {} /\ pinned = {} /\ replicated = {}
  /\ manifest = [k \in Key |-> {}]
  /\ age = [k \in Key |-> 0]
  /\ leases = {}
  /\ present = {}
  /\ files = [k \in Key |-> {}]
  /\ out = [k \in Key |-> {}]
  /\ store = [k \in Key |-> {}]
  /\ owed = {}

Begin(p) ==
  \/ \E k \in Key, o \in Ops : BeginOnKey(p, o, k) \/ BeginPublish(p, o, k) \/ BeginAdd(p, o, k)
  \/ \E n \in Needs, o \in Ops : BeginCollect(p, o, n)
  \/ \E k \in Key : VerifyRead(p, k)

\* What a process does once it has begun.
Step(p) ==
  \/ Reconcile(p) \/ ResolveHit(p) \/ MissInCache(p) \/ MissInStore(p)
  \/ FetchFromStore(p) \/ FetchFromHub(p) \/ HubHasNot(p) \/ Place(p) \/ PlaceRefused(p)
  \/ Return(p) \/ LeaseAfter(p)
  \/ Snapshot(p) \/ PickOldest(p) \/ CollectOver(p) \/ VerifyPassed(p) \/ NotVerified(p)
  \/ VerifyReport(p)
  \/ Evict(p) \/ EvictForced(p) \/ EvictRefused(p)
  \/ RemoveFile(p) \/ RemoveDirectory(p) \/ Forget(p)
  \/ Upload(p) \/ UploadOver(p) \/ Checked(p) \/ RemoveSource(p) \/ ClearTarget(p)
  \/ Move(p) \/ WriteMarker(p) \/ Register(p) \/ SetPinned(p)

Environment(p) ==
  \/ StoreFails(p) \/ Crash(p)
  \/ \E k \in Key : Release(p, k)

Next ==
  \/ \E p \in Proc : Begin(p) \/ Step(p) \/ Environment(p)
  \/ \E k \in Key : Produce(k)

Spec == Init /\ [][Next]_vars

-----------------------------------------------------------------------------
(* What must hold.                                                         *)

\* The types of the record, the directories, the store and the locals.
TypeOK ==
  /\ lock \in Proc \cup {NoProc}
  /\ pc \in [Proc -> PC]
  /\ job \in [Proc -> Job]
  /\ rows \subseteq Key /\ pinned \subseteq Key /\ replicated \subseteq Key
  /\ manifest \in [Key -> SUBSET File]
  /\ age \in [Key -> Nat]
  /\ leases \subseteq Proc \X Key
  /\ present \subseteq Key
  /\ files \in [Key -> SUBSET (File \cup {Marker})]
  /\ out \in [Key -> SUBSET File]
  /\ store \in [Key -> SUBSET File]
  /\ owed \subseteq Key

\* Whatever processes interleave, die or lose the store: content that was
\* produced here and not removed by force is whole in one place at least, the
\* output directory, the cache or the object store.
NoLoss ==
  \A k \in owed : File \subseteq out[k] \/ File \subseteq files[k] \/ File \subseteq store[k]

\* From the first file removed to the last, an artifact that eviction,
\* collection or publish deletes has everything that is left of it in the
\* store (README "Safety model", 3).
DeletionVerified ==
  \A p \in Proc : pc[p] = "rmtree" /\ job[p].op # "force" => Content(job[p].victim) \subseteq store[job[p].victim]

\* The step removes files of k although nobody asked for k by name with force
\* or with publish --keep, which replaces it.
Reclaims(k) ==
  /\ ~(Content(k) \subseteq Content(k)')
  /\ ~\E p \in Proc : \/ job[p].op = "force" /\ job[p].victim = k
                      \/ pc[p] = "clear" /\ job[p].key = k

\* README "Safety model", 2: no file of an artifact is reclaimed while a live
\* process holds a lease on it.
LeaseProtects == [][\A k \in Key : Leased(k) => ~Reclaims(k)]_vars

\* README "Safety model", 1: nor while it is kept on disk.
PinProtects == [][\A k \in pinned : ~Reclaims(k)]_vars

\* What a process staged and leased is the whole artifact, unless it turned out
\* larger than announced and was given back, row and all (cache.py:404-405).
StagedWhole == \A l \in leases : l[2] \in rows => File \subseteq files[l[2]]

\* A row that says it is replicated is: the `R` flag of `nawat status`.
FlagTruthful == \A k \in rows \cap replicated : Content(k) \subseteq store[k]

\* Outside the lock the record never exceeds the ceiling.
CeilingHonoured == lock = NoProc => Used <= Ceiling

\* A fetch that turned out larger than announced leaves the cache under its
\* ceiling, or full of what may not go (cache.py:404-405).
FetchGivesBack ==
  \A p \in Proc : pc[p] = "return" /\ job[p].from = "placed" =>
    Used <= Ceiling \/ \A k \in Candidates : ~Verified(k)

\* The ceiling, when sizes are known and when they turn out larger.
SpaceKept == CeilingHonoured /\ FetchGivesBack

\* Every locked operation ends: nothing waits for the cache forever.
LockReleased == \A p \in Proc : lock = p ~> lock # p

\* A process that is running goes on running; nothing is assumed of crashes,
\* of the store's failures or of who gets the lock next.
FairSpec == Spec /\ \A p \in Proc : WF_vars(Step(p))
=============================================================================
