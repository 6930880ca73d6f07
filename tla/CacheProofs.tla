---------------------------- MODULE CacheProofs ----------------------------
(***************************************************************************)
(* What holds of Cache for every value of its constants.                   *)
(*                                                                         *)
(* First what is never lost or deleted unverified, whatever dies or fails: *)
(* Safe says, point by point of the program, what a process that has the   *)
(* lock knows of what it is about to delete (Knows).  Then what the cache  *)
(* keeps: what is leased, what is kept on disk, and the flag that says     *)
(* what is replicated; each theorem names the operations of the code it    *)
(* does not hold with.  Last the ceiling: the record agrees with the       *)
(* directories but for what the process with the lock has in hand          *)
(* (RecordedBy), the room it asked for is still there when it comes back   *)
(* with the files (RoomBy), and a download that turns out larger can       *)
(* itself be given back, because nobody keeps it yet (ReturnBy).           *)
(***************************************************************************)
EXTENDS Cache, TLAPS, FiniteSetTheorems

-----------------------------------------------------------------------------
(* Sizes are natural numbers.                                              *)

\* Sets of keys and of files are finite, so their sizes are numbers.
LEMMA Sizes ==
  /\ \A S \in SUBSET Key : Cardinality(S) \in Nat
  /\ \A S \in SUBSET File : Cardinality(S) \in Nat
BY CacheAssumption, FS_Subset, FS_CardinalityType DEF CacheAssumption

\* What the rows add up to, the deficit of collect, and the new ranks of the
\* rows are numbers.
LEMMA Numbers ==
  /\ \A a, b \in Nat : Monus(a, b) \in Nat
  /\ Used \in Nat
  /\ \A n, d \in Nat : Deficit(n, d) \in Nat
  /\ \A K \in SUBSET Key : rows \subseteq Key => Touched(K) \in [Key -> Nat]
<1>1. \A a, b \in Nat : Monus(a, b) \in Nat
  BY DEF Monus
<1>2. Used \in Nat
  <2>1. IsFiniteSet(Key \X File)
    BY CacheAssumption, FS_Product DEF CacheAssumption
  <2>2. {x \in Key \X File : x[1] \in rows /\ x[2] \in manifest[x[1]]} \in SUBSET (Key \X File)
    OBVIOUS
  <2>. QED  BY <2>1, <2>2, FS_Subset, FS_CardinalityType DEF Used
<1>3. \A n, d \in Nat : Deficit(n, d) \in Nat
  <2>. SUFFICES ASSUME NEW n \in Nat, NEW d \in Nat PROVE Deficit(n, d) \in Nat
    OBVIOUS
  <2>1. Used + n \in Nat /\ Ceiling \in Nat
    BY <1>2, CacheAssumption DEF CacheAssumption
  <2>. QED  BY <1>1, <2>1 DEF Deficit
<1>4. \A K \in SUBSET Key : rows \subseteq Key => Touched(K) \in [Key -> Nat]
  <2>. SUFFICES ASSUME NEW K \in SUBSET Key, rows \subseteq Key, NEW k \in Key
       PROVE  Cardinality(K \cup {j \in rows : age[j] < age[k]}) \in Nat
    BY DEF Touched
  <2>1. (K \cup {j \in rows : age[j] < age[k]}) \in SUBSET Key
    OBVIOUS
  <2>. QED  BY <2>1, Sizes
<1>. QED  BY <1>1, <1>2, <1>3, <1>4

-----------------------------------------------------------------------------
(* Type correctness.                                                       *)

\* The operations that go through collect.
Reclaiming == Resolving \cup Adding \cup Collecting \cup {"publishKeep"}

\* Which operations can be at which point, and what they then know.
OnTrackAt(p) ==
  LET o == job[p].op
  IN /\ pc[p] = "reconcile" => o \in Reclaiming \cup OnKey
     /\ pc[p] = "run" => o \in Resolving \cup OnKey
     /\ pc[p] \in {"space", "collect"} => o \in Reclaiming
     /\ pc[p] = "verify" => o \in Reclaiming \cup {"evict"}
     /\ pc[p] \in {"rmtree", "forget"} => o \in Reclaiming \cup {"evict", "force", "publishHere"}
     /\ pc[p] \in {"fetch", "place", "return", "lease"} => o \in Resolving
     /\ pc[p] \in {"upload", "check"} => o \in Resolving \cup Publishing \cup {"add"}
     /\ pc[p] = "clear" => o = "publishKeep"
     /\ pc[p] = "move" => o \in Adding \cup {"publishKeep"}
     /\ pc[p] = "marker" => o \in Adding \cup {"publishKeep", "publishHereKeep"}
     /\ pc[p] = "register" => o \in Resolving \cup Adding \cup Publishing
     /\ pc[p] = "rmsrc" => o = "publish"
     /\ pc[p] = "report" => o = "verify"
     /\ pc[p] # "idle" /\ o \notin Collecting => job[p].key \in Key
     /\ pc[p] \in {"verify", "rmtree", "forget"} => job[p].victim \in Key

OnTrack == \A p \in Proc : OnTrackAt(p)

\* An idle process has a record of the right type.
LEMMA NoJobType == NoJob \in Job
BY DEF NoJob, Job

\* They hold at the start, when every process is idle.
LEMMA TypeInit == Init => TypeOK /\ OnTrack
BY CacheAssumption DEF Init, TypeOK, OnTrack, OnTrackAt, NoJob, Job, PC, CacheAssumption


\* An action of p leaves the other processes where they are.
LEMMA Frame ==
  ASSUME TypeOK, NEW p \in Proc, Begin(p) \/ Step(p) \/ Environment(p),
         NEW q \in Proc \ {p}
  PROVE  pc'[q] = pc[q] /\ job'[q] = job[q]
<1>. USE DEF TypeOK
<1>1. CASE Begin(p)
  BY <1>1 DEF Begin, BeginOnKey, Enter, Goto, BeginPublish, BeginAdd, BeginCollect, VerifyRead
<1>2. CASE Step(p)
  BY <1>2 DEF Step, Reconcile, Goto, ResolveHit, AtRun, MissInCache, MissInStore, FetchFromStore,
     FetchFromHub, HubHasNot, Finish, Leave, Place, PlaceRefused, Return, LeaseAfter, Snapshot,
     PickOldest, CollectOver, VerifyPassed, NotVerified, VerifyReport, Evict, EvictForced,
     EvictRefused, RemoveFile, RemoveDirectory, Forget, Upload, UploadOver, Checked, RemoveSource,
     ClearTarget, Move, WriteMarker, Register, SetPinned
<1>3. CASE Environment(p)
  BY <1>3 DEF Environment, StoreFails, AtRun, Finish, Leave, Goto, Crash, Release
<1>. QED  BY <1>1, <1>2, <1>3

\* Every step keeps the types and the place of every process.
LEMMA TypeNext == TypeOK /\ OnTrack /\ [Next]_vars => TypeOK' /\ OnTrack'
<1>. SUFFICES ASSUME TypeOK, OnTrack, [Next]_vars PROVE TypeOK' /\ OnTrack'
  OBVIOUS
<1>. USE DEF TypeOK, rowVars, diskVars
<1>1. ASSUME NEW p \in Proc, NEW k \in Key, NEW o \in Ops, BeginOnKey(p, o, k) PROVE TypeOK' /\ OnTrack'
  <2>1. job' \in [Proc -> Job]
    BY <1>1 DEF BeginOnKey, Enter, Goto, NoJob, Job, Resolving, Adding, Publishing, InPlace,
       Collecting, OnKey, AllOps
  <2>2. TypeOK'
    BY <1>1, <2>1 DEF BeginOnKey, Enter, Goto, NoJob, PC, Locked, Resolving, Adding, Publishing,
       InPlace, Collecting, OnKey, AllOps
  <2>3. \A q \in Proc \ {p} : pc'[q] = pc[q] /\ job'[q] = job[q]
    BY <1>1, Frame DEF Begin, Step, Environment
  <2>4. OnTrackAt(p)'
    BY <1>1 DEF BeginOnKey, Enter, Goto, NoJob, OnTrack, OnTrackAt, Reclaiming, Job, Resolving,
       Adding, Publishing, InPlace, Collecting, OnKey, AllOps
  <2>. QED  BY <2>2, <2>3, <2>4 DEF OnTrack, OnTrackAt
<1>2. ASSUME NEW p \in Proc, NEW k \in Key, NEW o \in Ops, BeginPublish(p, o, k) PROVE TypeOK' /\ OnTrack'
  <2>1. job' \in [Proc -> Job]
    BY <1>2, Sizes DEF BeginPublish, Enter, Goto, NoJob, Source, Content, Job, Resolving, Adding,
       Publishing, InPlace, Collecting, OnKey, AllOps
  <2>2. TypeOK'
    BY <1>2, <2>1 DEF BeginPublish, Enter, Goto, NoJob, Source, Content, PC, Locked, Resolving,
       Adding, Publishing, InPlace, Collecting, OnKey, AllOps
  <2>3. \A q \in Proc \ {p} : pc'[q] = pc[q] /\ job'[q] = job[q]
    BY <1>2, Frame DEF Begin, Step, Environment
  <2>4. OnTrackAt(p)'
    BY <1>2 DEF BeginPublish, Enter, Goto, NoJob, Source, Content, OnTrack, OnTrackAt, Reclaiming,
       Job, Resolving, Adding, Publishing, InPlace, Collecting, OnKey, AllOps
  <2>. QED  BY <2>2, <2>3, <2>4 DEF OnTrack, OnTrackAt
<1>3. ASSUME NEW p \in Proc, NEW k \in Key, NEW o \in Ops, BeginAdd(p, o, k) PROVE TypeOK' /\ OnTrack'
  <2>1. job' \in [Proc -> Job]
    BY <1>3, Sizes DEF BeginAdd, Enter, Goto, NoJob, Job, Resolving, Adding, Publishing, InPlace,
       Collecting, OnKey, AllOps
  <2>2. TypeOK'
    BY <1>3, <2>1 DEF BeginAdd, Enter, Goto, NoJob, PC, Locked, Resolving, Adding, Publishing,
       InPlace, Collecting, OnKey, AllOps
  <2>3. \A q \in Proc \ {p} : pc'[q] = pc[q] /\ job'[q] = job[q]
    BY <1>3, Frame DEF Begin, Step, Environment
  <2>4. OnTrackAt(p)'
    BY <1>3 DEF BeginAdd, Enter, Goto, NoJob, OnTrack, OnTrackAt, Reclaiming, Job, Resolving,
       Adding, Publishing, InPlace, Collecting, OnKey, AllOps
  <2>. QED  BY <2>2, <2>3, <2>4 DEF OnTrack, OnTrackAt
<1>4. ASSUME NEW p \in Proc, NEW n \in Needs, NEW o \in Ops, BeginCollect(p, o, n) PROVE TypeOK' /\ OnTrack'
  <2>1. job' \in [Proc -> Job]
    BY <1>4, CacheAssumption DEF BeginCollect, Enter, Goto, NoJob, CacheAssumption, Job,
       Resolving, Adding, Publishing, InPlace, Collecting, OnKey, AllOps
  <2>2. TypeOK'
    BY <1>4, <2>1 DEF BeginCollect, Enter, Goto, NoJob, PC, Locked, Resolving, Adding, Publishing,
       InPlace, Collecting, OnKey, AllOps
  <2>3. \A q \in Proc \ {p} : pc'[q] = pc[q] /\ job'[q] = job[q]
    BY <1>4, Frame DEF Begin, Step, Environment
  <2>4. OnTrackAt(p)'
    BY <1>4 DEF BeginCollect, Enter, Goto, NoJob, OnTrack, OnTrackAt, Reclaiming, Job, Resolving,
       Adding, Publishing, InPlace, Collecting, OnKey, AllOps
  <2>. QED  BY <2>2, <2>3, <2>4 DEF OnTrack, OnTrackAt
<1>5. ASSUME NEW p \in Proc, NEW k \in Key, VerifyRead(p, k) PROVE TypeOK' /\ OnTrack'
  <2>1. job' \in [Proc -> Job]
    BY <1>5 DEF VerifyRead, NoJob, Verified, Content, Goto, Job, Resolving, Adding, Publishing,
       InPlace, Collecting, OnKey, AllOps
  <2>2. TypeOK'
    BY <1>5, <2>1 DEF VerifyRead, NoJob, Verified, Content, Goto, PC, Locked, Resolving, Adding,
       Publishing, InPlace, Collecting, OnKey, AllOps
  <2>3. \A q \in Proc \ {p} : pc'[q] = pc[q] /\ job'[q] = job[q]
    BY <1>5, Frame DEF Begin, Step, Environment
  <2>4. OnTrackAt(p)'
    BY <1>5 DEF VerifyRead, NoJob, Verified, Content, Goto, OnTrack, OnTrackAt, Reclaiming, Job,
       Resolving, Adding, Publishing, InPlace, Collecting, OnKey, AllOps
  <2>. QED  BY <2>2, <2>3, <2>4 DEF OnTrack, OnTrackAt
<1>6. ASSUME NEW p \in Proc, Reconcile(p) PROVE TypeOK' /\ OnTrack'
  <2>0. OnTrackAt(p) /\ job[p] \in Job
    BY DEF OnTrack
  <2>1. job' \in [Proc -> Job]
    BY <1>6, Numbers, <2>0 DEF Reconcile, Content, Goto, Job
  <2>2. TypeOK'
    BY <1>6, Numbers, <2>0, <2>1 DEF Reconcile, Content, Goto, PC, Locked
  <2>3. \A q \in Proc \ {p} : pc'[q] = pc[q] /\ job'[q] = job[q]
    BY <1>6, Frame DEF Begin, Step, Environment
  <2>4. OnTrackAt(p)'
    BY <1>6 DEF Reconcile, Content, Goto, OnTrack, OnTrackAt, Reclaiming, Job, Resolving, Adding,
       Publishing, InPlace, Collecting, OnKey, AllOps
  <2>. QED  BY <2>2, <2>3, <2>4 DEF OnTrack, OnTrackAt
<1>7. ASSUME NEW p \in Proc, ResolveHit(p) PROVE TypeOK' /\ OnTrack'
  <2>0. OnTrackAt(p) /\ job[p] \in Job /\ job[p].key \in Key
    BY <1>7 DEF OnTrack, OnTrackAt, ResolveHit, AtRun, Resolving, Adding, Publishing, InPlace,
       Collecting, OnKey, AllOps
  <2>1. job' \in [Proc -> Job]
    BY <1>7, Numbers, <2>0 DEF ResolveHit, Hit, AtRun, Goto, Job
  <2>2. TypeOK'
    BY <1>7, Numbers, <2>0, <2>1 DEF ResolveHit, Hit, AtRun, Goto, PC, Locked
  <2>3. \A q \in Proc \ {p} : pc'[q] = pc[q] /\ job'[q] = job[q]
    BY <1>7, Frame DEF Begin, Step, Environment
  <2>4. OnTrackAt(p)'
    BY <1>7 DEF ResolveHit, Hit, AtRun, Goto, OnTrack, OnTrackAt, Reclaiming, Job, Resolving,
       Adding, Publishing, InPlace, Collecting, OnKey, AllOps
  <2>. QED  BY <2>2, <2>3, <2>4 DEF OnTrack, OnTrackAt
<1>8. ASSUME NEW p \in Proc, MissInCache(p) PROVE TypeOK' /\ OnTrack'
  <2>0. OnTrackAt(p) /\ job[p] \in Job /\ job[p].key \in Key
    BY <1>8 DEF OnTrack, OnTrackAt, MissInCache, AtRun, Resolving, Adding, Publishing, InPlace,
       Collecting, OnKey, AllOps
  <2>1. job' \in [Proc -> Job]
    BY <1>8, Sizes, <2>0 DEF MissInCache, Hit, AtRun, Goto, Job
  <2>2. TypeOK'
    BY <1>8, <2>0, <2>1 DEF MissInCache, Hit, AtRun, Goto, PC, Locked
  <2>3. \A q \in Proc \ {p} : pc'[q] = pc[q] /\ job'[q] = job[q]
    BY <1>8, Frame DEF Begin, Step, Environment
  <2>4. OnTrackAt(p)'
    BY <1>8 DEF MissInCache, Hit, AtRun, Goto, OnTrack, OnTrackAt, Reclaiming, Job, Resolving,
       Adding, Publishing, InPlace, Collecting, OnKey, AllOps
  <2>. QED  BY <2>2, <2>3, <2>4 DEF OnTrack, OnTrackAt
<1>9. ASSUME NEW p \in Proc, MissInStore(p) PROVE TypeOK' /\ OnTrack'
  <2>0. OnTrackAt(p) /\ job[p] \in Job /\ job[p].key \in Key
    BY <1>9 DEF OnTrack, OnTrackAt, MissInStore, AtRun, Resolving, Adding, Publishing, InPlace,
       Collecting, OnKey, AllOps
  <2>1. job' \in [Proc -> Job]
    <3>1. PICK s \in HubSizes :
            job' = [job EXCEPT ![p].from = "hub", ![p].size = s,
                               ![p].need = IF s = 0 THEN MinFree ELSE s]
      BY <1>9 DEF MissInStore
    <3>2. s \in Nat /\ MinFree \in Nat
      BY CacheAssumption DEF CacheAssumption
    <3>. QED  BY <3>1, <3>2, <2>0 DEF Job
  <2>2. TypeOK'
    BY <1>9, <2>0, <2>1 DEF MissInStore, Hit, AtRun, Goto, PC, Locked
  <2>3. \A q \in Proc \ {p} : pc'[q] = pc[q] /\ job'[q] = job[q]
    BY <1>9, Frame DEF Begin, Step, Environment
  <2>4. OnTrackAt(p)'
    BY <1>9 DEF MissInStore, Hit, AtRun, Goto, OnTrack, OnTrackAt, Reclaiming, Job, Resolving,
       Adding, Publishing, InPlace, Collecting, OnKey, AllOps
  <2>. QED  BY <2>2, <2>3, <2>4 DEF OnTrack, OnTrackAt
<1>10. ASSUME NEW p \in Proc, FetchFromStore(p) PROVE TypeOK' /\ OnTrack'
  <2>0. OnTrackAt(p) /\ job[p] \in Job /\ job[p].key \in Key
    BY <1>10 DEF OnTrack, OnTrackAt, FetchFromStore, Resolving, Adding, Publishing, InPlace,
       Collecting, OnKey, AllOps
  <2>1. job' \in [Proc -> Job]
    BY <1>10, <2>0 DEF FetchFromStore, Goto, Job
  <2>2. TypeOK'
    BY <1>10, <2>0, <2>1 DEF FetchFromStore, Goto, PC, Locked
  <2>3. \A q \in Proc \ {p} : pc'[q] = pc[q] /\ job'[q] = job[q]
    BY <1>10, Frame DEF Begin, Step, Environment
  <2>4. OnTrackAt(p)'
    BY <1>10 DEF FetchFromStore, Goto, OnTrack, OnTrackAt, Reclaiming, Job, Resolving, Adding,
       Publishing, InPlace, Collecting, OnKey, AllOps
  <2>. QED  BY <2>2, <2>3, <2>4 DEF OnTrack, OnTrackAt
<1>11. ASSUME NEW p \in Proc, FetchFromHub(p) PROVE TypeOK' /\ OnTrack'
  <2>0. OnTrackAt(p) /\ job[p] \in Job /\ job[p].key \in Key
    BY <1>11 DEF OnTrack, OnTrackAt, FetchFromHub, Resolving, Adding, Publishing, InPlace,
       Collecting, OnKey, AllOps
  <2>1. job' \in [Proc -> Job]
    BY <1>11, CacheAssumption, <2>0 DEF FetchFromHub, Goto, CacheAssumption, Job
  <2>2. TypeOK'
    BY <1>11, <2>0, <2>1 DEF FetchFromHub, Goto, PC, Locked
  <2>3. \A q \in Proc \ {p} : pc'[q] = pc[q] /\ job'[q] = job[q]
    BY <1>11, Frame DEF Begin, Step, Environment
  <2>4. OnTrackAt(p)'
    BY <1>11 DEF FetchFromHub, Goto, OnTrack, OnTrackAt, Reclaiming, Job, Resolving, Adding,
       Publishing, InPlace, Collecting, OnKey, AllOps
  <2>. QED  BY <2>2, <2>3, <2>4 DEF OnTrack, OnTrackAt
<1>12. ASSUME NEW p \in Proc, HubHasNot(p) PROVE TypeOK' /\ OnTrack'
  <2>0. OnTrackAt(p) /\ job[p] \in Job
    BY DEF OnTrack
  <2>1. job' \in [Proc -> Job]
    BY <1>12, NoJobType, <2>0 DEF HubHasNot, Finish, Leave, Goto, Job
  <2>2. TypeOK'
    BY <1>12, <2>0, <2>1 DEF HubHasNot, Finish, Leave, Goto, PC, Locked
  <2>3. \A q \in Proc \ {p} : pc'[q] = pc[q] /\ job'[q] = job[q]
    BY <1>12, Frame DEF Begin, Step, Environment
  <2>4. OnTrackAt(p)'
    BY <1>12 DEF HubHasNot, Finish, Leave, Goto, NoJob, OnTrack, OnTrackAt, Reclaiming, Job,
       Resolving, Adding, Publishing, InPlace, Collecting, OnKey, AllOps
  <2>. QED  BY <2>2, <2>3, <2>4 DEF OnTrack, OnTrackAt
<1>13. ASSUME NEW p \in Proc, Place(p) PROVE TypeOK' /\ OnTrack'
  <2>0. OnTrackAt(p) /\ job[p] \in Job /\ job[p].key \in Key
    BY <1>13 DEF OnTrack, OnTrackAt, Place, Resolving, Adding, Publishing, InPlace, Collecting,
       OnKey, AllOps
  <2>1. job' \in [Proc -> Job]
    BY <1>13, <2>0 DEF Place, Goto, Job
  <2>2. TypeOK'
    <3>1. job[p].staged \cup {Marker} \in SUBSET (File \cup {Marker})
      BY <2>0 DEF Job
    <3>. QED  BY <1>13, <3>1, <2>0, <2>1 DEF Place, Goto, PC, Locked
  <2>3. \A q \in Proc \ {p} : pc'[q] = pc[q] /\ job'[q] = job[q]
    BY <1>13, Frame DEF Begin, Step, Environment
  <2>4. OnTrackAt(p)'
    BY <1>13 DEF Place, Goto, OnTrack, OnTrackAt, Reclaiming, Job, Resolving, Adding, Publishing,
       InPlace, Collecting, OnKey, AllOps
  <2>. QED  BY <2>2, <2>3, <2>4 DEF OnTrack, OnTrackAt
<1>14. ASSUME NEW p \in Proc, PlaceRefused(p) PROVE TypeOK' /\ OnTrack'
  <2>0. OnTrackAt(p) /\ job[p] \in Job
    BY DEF OnTrack
  <2>1. job' \in [Proc -> Job]
    BY <1>14, NoJobType, <2>0 DEF PlaceRefused, Finish, Leave, Goto, Job
  <2>2. TypeOK'
    BY <1>14, <2>0, <2>1 DEF PlaceRefused, Finish, Leave, Goto, PC, Locked
  <2>3. \A q \in Proc \ {p} : pc'[q] = pc[q] /\ job'[q] = job[q]
    BY <1>14, Frame DEF Begin, Step, Environment
  <2>4. OnTrackAt(p)'
    BY <1>14 DEF PlaceRefused, Finish, Leave, Goto, NoJob, OnTrack, OnTrackAt, Reclaiming, Job,
       Resolving, Adding, Publishing, InPlace, Collecting, OnKey, AllOps
  <2>. QED  BY <2>2, <2>3, <2>4 DEF OnTrack, OnTrackAt
<1>15. ASSUME NEW p \in Proc, Return(p) PROVE TypeOK' /\ OnTrack'
  <2>0. OnTrackAt(p) /\ job[p] \in Job /\ job[p].key \in Key
    BY <1>15 DEF OnTrack, OnTrackAt, Return, Resolving, Adding, Publishing, InPlace, Collecting,
       OnKey, AllOps
  <2>1. job' \in [Proc -> Job]
    BY <1>15, NoJobType, <2>0 DEF Return, Finish, Leave, Goto, Job
  <2>2. TypeOK'
    BY <1>15, <2>0, <2>1 DEF Return, Finish, Leave, Goto, PC, Locked
  <2>3. \A q \in Proc \ {p} : pc'[q] = pc[q] /\ job'[q] = job[q]
    BY <1>15, Frame DEF Begin, Step, Environment
  <2>4. OnTrackAt(p)'
    BY <1>15 DEF Return, Finish, Leave, Goto, NoJob, OnTrack, OnTrackAt, Reclaiming, Job,
       Resolving, Adding, Publishing, InPlace, Collecting, OnKey, AllOps
  <2>. QED  BY <2>2, <2>3, <2>4 DEF OnTrack, OnTrackAt
<1>16. ASSUME NEW p \in Proc, LeaseAfter(p) PROVE TypeOK' /\ OnTrack'
  <2>0. OnTrackAt(p) /\ job[p] \in Job /\ job[p].key \in Key
    BY <1>16 DEF OnTrack, OnTrackAt, LeaseAfter, Resolving, Adding, Publishing, InPlace,
       Collecting, OnKey, AllOps
  <2>1. job' \in [Proc -> Job]
    BY <1>16, NoJobType, <2>0 DEF LeaseAfter, Goto, Job
  <2>2. TypeOK'
    BY <1>16, <2>0, <2>1 DEF LeaseAfter, Goto, PC, Locked
  <2>3. \A q \in Proc \ {p} : pc'[q] = pc[q] /\ job'[q] = job[q]
    BY <1>16, Frame DEF Begin, Step, Environment
  <2>4. OnTrackAt(p)'
    BY <1>16 DEF LeaseAfter, Goto, NoJob, OnTrack, OnTrackAt, Reclaiming, Job, Resolving, Adding,
       Publishing, InPlace, Collecting, OnKey, AllOps
  <2>. QED  BY <2>2, <2>3, <2>4 DEF OnTrack, OnTrackAt
<1>17. ASSUME NEW p \in Proc, Snapshot(p) PROVE TypeOK' /\ OnTrack'
  <2>0. OnTrackAt(p) /\ job[p] \in Job
    BY DEF OnTrack
  <2>1. job' \in [Proc -> Job]
    <3>1. PICK d \in DiskShort :
            job' = [job EXCEPT ![p].goal = Deficit(job[p].need, d), ![p].todo = Candidates]
      BY <1>17 DEF Snapshot
    <3>2. d \in Nat /\ job[p].need \in Nat
      BY <2>0, CacheAssumption DEF CacheAssumption, Job
    <3>3. Deficit(job[p].need, d) \in Nat /\ Candidates \in SUBSET Key
      BY <3>2, Numbers DEF Candidates
    <3>. QED  BY <3>1, <3>3, <2>0 DEF Job
  <2>2. TypeOK'
    BY <1>17, <2>0, <2>1 DEF Snapshot, Candidates, Leased, Goto, PC, Locked
  <2>3. \A q \in Proc \ {p} : pc'[q] = pc[q] /\ job'[q] = job[q]
    BY <1>17, Frame DEF Begin, Step, Environment
  <2>4. OnTrackAt(p)'
    BY <1>17 DEF Snapshot, Candidates, Leased, Goto, OnTrack, OnTrackAt, Reclaiming, Job,
       Resolving, Adding, Publishing, InPlace, Collecting, OnKey, AllOps
  <2>. QED  BY <2>2, <2>3, <2>4 DEF OnTrack, OnTrackAt
<1>18. ASSUME NEW p \in Proc, PickOldest(p) PROVE TypeOK' /\ OnTrack'
  <2>0. OnTrackAt(p) /\ job[p] \in Job
    BY DEF OnTrack
  <2>1. job' \in [Proc -> Job]
    BY <1>18, <2>0 DEF PickOldest, Goto, Job
  <2>2. TypeOK'
    BY <1>18, <2>0, <2>1 DEF PickOldest, Goto, PC, Locked
  <2>3. \A q \in Proc \ {p} : pc'[q] = pc[q] /\ job'[q] = job[q]
    BY <1>18, Frame DEF Begin, Step, Environment
  <2>4. OnTrackAt(p)'
    BY <1>18 DEF PickOldest, Goto, OnTrack, OnTrackAt, Reclaiming, Job, Resolving, Adding,
       Publishing, InPlace, Collecting, OnKey, AllOps
  <2>. QED  BY <2>2, <2>3, <2>4 DEF OnTrack, OnTrackAt
<1>19. ASSUME NEW p \in Proc, CollectOver(p) PROVE TypeOK' /\ OnTrack'
  <2>0. OnTrackAt(p) /\ job[p] \in Job
    BY DEF OnTrack
  <2>1. job' \in [Proc -> Job]
    BY <1>19, NoJobType, <2>0 DEF CollectOver, Finish, Leave, Goto, Job
  <2>2. TypeOK'
    BY <1>19, <2>0, <2>1 DEF CollectOver, Finish, Leave, Goto, PC, Locked
  <2>3. \A q \in Proc \ {p} : pc'[q] = pc[q] /\ job'[q] = job[q]
    BY <1>19, Frame DEF Begin, Step, Environment
  <2>4. OnTrackAt(p)'
    BY <1>19 DEF CollectOver, Finish, Leave, Goto, NoJob, OnTrack, OnTrackAt, Reclaiming, Job,
       Resolving, Adding, Publishing, InPlace, Collecting, OnKey, AllOps
  <2>. QED  BY <2>2, <2>3, <2>4 DEF OnTrack, OnTrackAt
<1>20. ASSUME NEW p \in Proc, VerifyPassed(p) PROVE TypeOK' /\ OnTrack'
  <2>0. OnTrackAt(p) /\ job[p] \in Job /\ job[p].victim \in Key
    BY <1>20 DEF OnTrack, OnTrackAt, VerifyPassed, Resolving, Adding, Publishing, InPlace,
       Collecting, OnKey, AllOps
  <2>1. job' \in [Proc -> Job]
    <3>1. job[p].goal \in Nat /\ Cardinality(manifest[job[p].victim]) \in Nat
      BY <2>0, Sizes DEF Job
    <3>2. Monus(job[p].goal, Cardinality(manifest[job[p].victim])) \in Nat
      BY <3>1, Numbers
    <3>3. \/ job' = job
          \/ job' = [job EXCEPT ![p].goal = Monus(@, Cardinality(manifest[job[p].victim]))]
      BY <1>20 DEF VerifyPassed
    <3>4. [job[p] EXCEPT !.goal = Monus(@, Cardinality(manifest[job[p].victim]))] \in Job
      BY <3>2, <2>0 DEF Job
    <3>. QED  BY <3>3, <3>4, <2>0
  <2>2. TypeOK'
    BY <1>20, <2>0, <2>1 DEF VerifyPassed, Verified, Content, Goto, PC, Locked
  <2>3. \A q \in Proc \ {p} : pc'[q] = pc[q] /\ job'[q] = job[q]
    BY <1>20, Frame DEF Begin, Step, Environment
  <2>4. OnTrackAt(p)'
    BY <1>20 DEF VerifyPassed, Verified, Content, Goto, OnTrack, OnTrackAt, Reclaiming, Job,
       Resolving, Adding, Publishing, InPlace, Collecting, OnKey, AllOps
  <2>. QED  BY <2>2, <2>3, <2>4 DEF OnTrack, OnTrackAt
<1>21. ASSUME NEW p \in Proc, NotVerified(p) PROVE TypeOK' /\ OnTrack'
  <2>0. OnTrackAt(p) /\ job[p] \in Job /\ job[p].victim \in Key
    BY <1>21 DEF OnTrack, OnTrackAt, NotVerified, Resolving, Adding, Publishing, InPlace,
       Collecting, OnKey, AllOps
  <2>1. job' \in [Proc -> Job]
    BY <1>21, NoJobType, <2>0 DEF NotVerified, Verified, Content, Finish, Leave, Goto, Job
  <2>2. TypeOK'
    BY <1>21, <2>0, <2>1 DEF NotVerified, Verified, Content, Finish, Leave, Goto, PC, Locked
  <2>3. \A q \in Proc \ {p} : pc'[q] = pc[q] /\ job'[q] = job[q]
    BY <1>21, Frame DEF Begin, Step, Environment
  <2>4. OnTrackAt(p)'
    BY <1>21 DEF NotVerified, Verified, Content, Finish, Leave, Goto, NoJob, OnTrack, OnTrackAt,
       Reclaiming, Job, Resolving, Adding, Publishing, InPlace, Collecting, OnKey, AllOps
  <2>. QED  BY <2>2, <2>3, <2>4 DEF OnTrack, OnTrackAt
<1>22. ASSUME NEW p \in Proc, VerifyReport(p) PROVE TypeOK' /\ OnTrack'
  <2>0. OnTrackAt(p) /\ job[p] \in Job /\ job[p].key \in Key
    BY <1>22 DEF OnTrack, OnTrackAt, VerifyReport, Resolving, Adding, Publishing, InPlace,
       Collecting, OnKey, AllOps
  <2>1. job' \in [Proc -> Job]
    BY <1>22, NoJobType, <2>0 DEF VerifyReport, Goto, Job
  <2>2. TypeOK'
    BY <1>22, <2>0, <2>1 DEF VerifyReport, Goto, PC, Locked
  <2>3. \A q \in Proc \ {p} : pc'[q] = pc[q] /\ job'[q] = job[q]
    BY <1>22, Frame DEF Begin, Step, Environment
  <2>4. OnTrackAt(p)'
    BY <1>22 DEF VerifyReport, Goto, NoJob, OnTrack, OnTrackAt, Reclaiming, Job, Resolving,
       Adding, Publishing, InPlace, Collecting, OnKey, AllOps
  <2>. QED  BY <2>2, <2>3, <2>4 DEF OnTrack, OnTrackAt
<1>23. ASSUME NEW p \in Proc, Evict(p) PROVE TypeOK' /\ OnTrack'
  <2>0. OnTrackAt(p) /\ job[p] \in Job /\ job[p].key \in Key
    BY <1>23 DEF OnTrack, OnTrackAt, Evict, AtRun, Resolving, Adding, Publishing, InPlace,
       Collecting, OnKey, AllOps
  <2>1. job' \in [Proc -> Job]
    BY <1>23, <2>0 DEF Evict, Candidates, Leased, AtRun, Goto, Job
  <2>2. TypeOK'
    BY <1>23, <2>0, <2>1 DEF Evict, Candidates, Leased, AtRun, Goto, PC, Locked
  <2>3. \A q \in Proc \ {p} : pc'[q] = pc[q] /\ job'[q] = job[q]
    BY <1>23, Frame DEF Begin, Step, Environment
  <2>4. OnTrackAt(p)'
    BY <1>23 DEF Evict, Candidates, Leased, AtRun, Goto, OnTrack, OnTrackAt, Reclaiming, Job,
       Resolving, Adding, Publishing, InPlace, Collecting, OnKey, AllOps
  <2>. QED  BY <2>2, <2>3, <2>4 DEF OnTrack, OnTrackAt
<1>24. ASSUME NEW p \in Proc, EvictForced(p) PROVE TypeOK' /\ OnTrack'
  <2>0. OnTrackAt(p) /\ job[p] \in Job /\ job[p].key \in Key
    BY <1>24 DEF OnTrack, OnTrackAt, EvictForced, AtRun, Resolving, Adding, Publishing, InPlace,
       Collecting, OnKey, AllOps
  <2>1. job' \in [Proc -> Job]
    BY <1>24, <2>0 DEF EvictForced, AtRun, Goto, Job
  <2>2. TypeOK'
    BY <1>24, <2>0, <2>1 DEF EvictForced, AtRun, Goto, PC, Locked
  <2>3. \A q \in Proc \ {p} : pc'[q] = pc[q] /\ job'[q] = job[q]
    BY <1>24, Frame DEF Begin, Step, Environment
  <2>4. OnTrackAt(p)'
    BY <1>24 DEF EvictForced, AtRun, Goto, OnTrack, OnTrackAt, Reclaiming, Job, Resolving, Adding,
       Publishing, InPlace, Collecting, OnKey, AllOps
  <2>. QED  BY <2>2, <2>3, <2>4 DEF OnTrack, OnTrackAt
<1>25. ASSUME NEW p \in Proc, EvictRefused(p) PROVE TypeOK' /\ OnTrack'
  <2>0. OnTrackAt(p) /\ job[p] \in Job
    BY DEF OnTrack
  <2>1. job' \in [Proc -> Job]
    BY <1>25, NoJobType, <2>0 DEF EvictRefused, Candidates, Leased, AtRun, Finish, Leave, Goto, Job
  <2>2. TypeOK'
    BY <1>25, <2>0, <2>1 DEF EvictRefused, Candidates, Leased, AtRun, Finish, Leave, Goto, PC,
       Locked
  <2>3. \A q \in Proc \ {p} : pc'[q] = pc[q] /\ job'[q] = job[q]
    BY <1>25, Frame DEF Begin, Step, Environment
  <2>4. OnTrackAt(p)'
    BY <1>25 DEF EvictRefused, Candidates, Leased, AtRun, Finish, Leave, Goto, NoJob, OnTrack,
       OnTrackAt, Reclaiming, Job, Resolving, Adding, Publishing, InPlace, Collecting, OnKey, AllOps
  <2>. QED  BY <2>2, <2>3, <2>4 DEF OnTrack, OnTrackAt
<1>26. ASSUME NEW p \in Proc, RemoveFile(p) PROVE TypeOK' /\ OnTrack'
  <2>0. OnTrackAt(p) /\ job[p] \in Job /\ job[p].victim \in Key
    BY <1>26 DEF OnTrack, OnTrackAt, RemoveFile, Resolving, Adding, Publishing, InPlace,
       Collecting, OnKey, AllOps
  <2>1. job' \in [Proc -> Job]
    BY <1>26, <2>0 DEF RemoveFile, Job
  <2>2. TypeOK'
    BY <1>26, <2>0, <2>1 DEF RemoveFile, PC, Locked
  <2>3. \A q \in Proc \ {p} : pc'[q] = pc[q] /\ job'[q] = job[q]
    BY <1>26, Frame DEF Begin, Step, Environment
  <2>4. OnTrackAt(p)'
    BY <1>26 DEF RemoveFile, OnTrack, OnTrackAt, Reclaiming, Job, Resolving, Adding, Publishing,
       InPlace, Collecting, OnKey, AllOps
  <2>. QED  BY <2>2, <2>3, <2>4 DEF OnTrack, OnTrackAt
<1>27. ASSUME NEW p \in Proc, RemoveDirectory(p) PROVE TypeOK' /\ OnTrack'
  <2>0. OnTrackAt(p) /\ job[p] \in Job /\ job[p].victim \in Key
    BY <1>27 DEF OnTrack, OnTrackAt, RemoveDirectory, Resolving, Adding, Publishing, InPlace,
       Collecting, OnKey, AllOps
  <2>1. job' \in [Proc -> Job]
    BY <1>27, <2>0 DEF RemoveDirectory, Goto, Job
  <2>2. TypeOK'
    BY <1>27, <2>0, <2>1 DEF RemoveDirectory, Goto, PC, Locked
  <2>3. \A q \in Proc \ {p} : pc'[q] = pc[q] /\ job'[q] = job[q]
    BY <1>27, Frame DEF Begin, Step, Environment
  <2>4. OnTrackAt(p)'
    BY <1>27 DEF RemoveDirectory, Goto, OnTrack, OnTrackAt, Reclaiming, Job, Resolving, Adding,
       Publishing, InPlace, Collecting, OnKey, AllOps
  <2>. QED  BY <2>2, <2>3, <2>4 DEF OnTrack, OnTrackAt
<1>28. ASSUME NEW p \in Proc, Forget(p) PROVE TypeOK' /\ OnTrack'
  <2>0. OnTrackAt(p) /\ job[p] \in Job /\ job[p].victim \in Key
    BY <1>28 DEF OnTrack, OnTrackAt, Forget, Resolving, Adding, Publishing, InPlace, Collecting,
       OnKey, AllOps
  <2>1. job' \in [Proc -> Job]
    <3>1. job[p].goal \in Nat /\ Cardinality(manifest[job[p].victim]) \in Nat
      BY <2>0, Sizes DEF Job
    <3>2. Monus(job[p].goal, Cardinality(manifest[job[p].victim])) \in Nat
      BY <3>1, Numbers
    <3>3. \/ job' = [job EXCEPT ![p] = NoJob]
          \/ job' = [job EXCEPT ![p].goal = Monus(@, Cardinality(manifest[job[p].victim]))]
      BY <1>28 DEF Forget, Finish
    <3>. QED  BY <3>2, <3>3, <2>0, NoJobType DEF Job
  <2>2. TypeOK'
    BY <1>28, <2>0, <2>1 DEF Forget, Finish, Leave, Goto, PC, Locked
  <2>3. \A q \in Proc \ {p} : pc'[q] = pc[q] /\ job'[q] = job[q]
    BY <1>28, Frame DEF Begin, Step, Environment
  <2>4. OnTrackAt(p)'
    BY <1>28 DEF Forget, Finish, Leave, Goto, NoJob, OnTrack, OnTrackAt, Reclaiming, Job,
       Resolving, Adding, Publishing, InPlace, Collecting, OnKey, AllOps
  <2>. QED  BY <2>2, <2>3, <2>4 DEF OnTrack, OnTrackAt
<1>29. ASSUME NEW p \in Proc, Upload(p) PROVE TypeOK' /\ OnTrack'
  <2>0. OnTrackAt(p) /\ job[p] \in Job /\ job[p].key \in Key
    BY <1>29 DEF OnTrack, OnTrackAt, Upload, Resolving, Adding, Publishing, InPlace, Collecting,
       OnKey, AllOps
  <2>1. job' \in [Proc -> Job]
    <3>1. PICK f \in job[p].rest : job' = [job EXCEPT ![p].rest = @ \ {f}]
      BY <1>29 DEF Upload
    <3>. QED  BY <3>1, <2>0 DEF Job
  <2>2. TypeOK'
    <3>1. PICK f \in job[p].rest : store' = [store EXCEPT ![job[p].key] = @ \cup {f}]
      BY <1>29 DEF Upload
    <3>2. f \in File
      BY <2>0 DEF Job
    <3>. QED  BY <1>29, <3>1, <3>2, <2>0, <2>1 DEF Upload
  <2>3. \A q \in Proc \ {p} : pc'[q] = pc[q] /\ job'[q] = job[q]
    BY <1>29, Frame DEF Begin, Step, Environment
  <2>4. OnTrackAt(p)'
    BY <1>29 DEF Upload, OnTrack, OnTrackAt, Reclaiming, Job, Resolving, Adding, Publishing,
       InPlace, Collecting, OnKey, AllOps
  <2>. QED  BY <2>2, <2>3, <2>4 DEF OnTrack, OnTrackAt
<1>30. ASSUME NEW p \in Proc, UploadOver(p) PROVE TypeOK' /\ OnTrack'
  <2>0. OnTrackAt(p) /\ job[p] \in Job
    BY DEF OnTrack
  <2>1. job' \in [Proc -> Job]
    BY <1>30, <2>0 DEF UploadOver, Goto, Job
  <2>2. TypeOK'
    BY <1>30, <2>0, <2>1 DEF UploadOver, Goto, PC, Locked
  <2>3. \A q \in Proc \ {p} : pc'[q] = pc[q] /\ job'[q] = job[q]
    BY <1>30, Frame DEF Begin, Step, Environment
  <2>4. OnTrackAt(p)'
    BY <1>30 DEF UploadOver, Goto, OnTrack, OnTrackAt, Reclaiming, Job, Resolving, Adding,
       Publishing, InPlace, Collecting, OnKey, AllOps
  <2>. QED  BY <2>2, <2>3, <2>4 DEF OnTrack, OnTrackAt
<1>31. ASSUME NEW p \in Proc, Checked(p) PROVE TypeOK' /\ OnTrack'
  <2>0. OnTrackAt(p) /\ job[p] \in Job /\ job[p].key \in Key
    BY <1>31 DEF OnTrack, OnTrackAt, Checked, Resolving, Adding, Publishing, InPlace, Collecting,
       OnKey, AllOps
  <2>1. job' \in [Proc -> Job]
    BY <1>31, Sizes, <2>0 DEF Checked, Sent, Source, Content, Leased, Goto, Job
  <2>2. TypeOK'
    BY <1>31, <2>0, <2>1 DEF Checked, Sent, Source, Content, Leased, Goto, PC, Locked
  <2>3. \A q \in Proc \ {p} : pc'[q] = pc[q] /\ job'[q] = job[q]
    BY <1>31, Frame DEF Begin, Step, Environment
  <2>4. OnTrackAt(p)'
    <3>1. pc'[p] = CASE job[p].op \in Resolving -> "place"
                     [] job[p].op = "publish" -> "rmsrc"
                     [] job[p].op = "publishKeep" -> "reconcile"
                     [] job[p].op = "publishHere" -> IF Leased(job[p].key) THEN "register" ELSE "rmtree"
                     [] OTHER -> "marker"
      BY <1>31 DEF Checked, Goto
    <3>2. /\ job[p].op \in Resolving \cup Publishing \cup {"add"}
          /\ job'[p].op = job[p].op /\ job'[p].key = job[p].key
          /\ job'[p].victim = IF job[p].op = "publishHere" THEN job[p].key ELSE NoKey
      BY <1>31, <2>0 DEF Checked, OnTrackAt, Job
    <3>. QED  BY <3>1, <3>2, <2>0 DEF OnTrackAt, Reclaiming, Resolving, Adding, Publishing,
       InPlace, Collecting, OnKey
  <2>. QED  BY <2>2, <2>3, <2>4 DEF OnTrack, OnTrackAt
<1>32. ASSUME NEW p \in Proc, RemoveSource(p) PROVE TypeOK' /\ OnTrack'
  <2>0. OnTrackAt(p) /\ job[p] \in Job /\ job[p].key \in Key
    BY <1>32 DEF OnTrack, OnTrackAt, RemoveSource, Resolving, Adding, Publishing, InPlace,
       Collecting, OnKey, AllOps
  <2>1. job' \in [Proc -> Job]
    BY <1>32, NoJobType, <2>0 DEF RemoveSource, Finish, Leave, Goto, Job
  <2>2. TypeOK'
    BY <1>32, <2>0, <2>1 DEF RemoveSource, Finish, Leave, Goto, PC, Locked
  <2>3. \A q \in Proc \ {p} : pc'[q] = pc[q] /\ job'[q] = job[q]
    BY <1>32, Frame DEF Begin, Step, Environment
  <2>4. OnTrackAt(p)'
    BY <1>32 DEF RemoveSource, Finish, Leave, Goto, NoJob, OnTrack, OnTrackAt, Reclaiming, Job,
       Resolving, Adding, Publishing, InPlace, Collecting, OnKey, AllOps
  <2>. QED  BY <2>2, <2>3, <2>4 DEF OnTrack, OnTrackAt
<1>33. ASSUME NEW p \in Proc, ClearTarget(p) PROVE TypeOK' /\ OnTrack'
  <2>0. OnTrackAt(p) /\ job[p] \in Job /\ job[p].key \in Key
    BY <1>33 DEF OnTrack, OnTrackAt, ClearTarget, Resolving, Adding, Publishing, InPlace,
       Collecting, OnKey, AllOps
  <2>1. job' \in [Proc -> Job]
    BY <1>33, <2>0 DEF ClearTarget, Goto, Job
  <2>2. TypeOK'
    BY <1>33, <2>0, <2>1 DEF ClearTarget, Goto, PC, Locked
  <2>3. \A q \in Proc \ {p} : pc'[q] = pc[q] /\ job'[q] = job[q]
    BY <1>33, Frame DEF Begin, Step, Environment
  <2>4. OnTrackAt(p)'
    BY <1>33 DEF ClearTarget, Goto, OnTrack, OnTrackAt, Reclaiming, Job, Resolving, Adding,
       Publishing, InPlace, Collecting, OnKey, AllOps
  <2>. QED  BY <2>2, <2>3, <2>4 DEF OnTrack, OnTrackAt
<1>34. ASSUME NEW p \in Proc, Move(p) PROVE TypeOK' /\ OnTrack'
  <2>0. OnTrackAt(p) /\ job[p] \in Job /\ job[p].key \in Key
    BY <1>34 DEF OnTrack, OnTrackAt, Move, Resolving, Adding, Publishing, InPlace, Collecting,
       OnKey, AllOps
  <2>1. job' \in [Proc -> Job]
    BY <1>34, <2>0 DEF Move, Goto, Job
  <2>2. TypeOK'
    BY <1>34, <2>0, <2>1 DEF Move, Goto, PC, Locked
  <2>3. \A q \in Proc \ {p} : pc'[q] = pc[q] /\ job'[q] = job[q]
    BY <1>34, Frame DEF Begin, Step, Environment
  <2>4. OnTrackAt(p)'
    BY <1>34 DEF Move, Goto, OnTrack, OnTrackAt, Reclaiming, Job, Resolving, Adding, Publishing,
       InPlace, Collecting, OnKey, AllOps
  <2>. QED  BY <2>2, <2>3, <2>4 DEF OnTrack, OnTrackAt
<1>35. ASSUME NEW p \in Proc, WriteMarker(p) PROVE TypeOK' /\ OnTrack'
  <2>0. OnTrackAt(p) /\ job[p] \in Job /\ job[p].key \in Key
    BY <1>35 DEF OnTrack, OnTrackAt, WriteMarker, Resolving, Adding, Publishing, InPlace,
       Collecting, OnKey, AllOps
  <2>1. job' \in [Proc -> Job]
    BY <1>35, <2>0 DEF WriteMarker, Goto, Job
  <2>2. TypeOK'
    BY <1>35, <2>0, <2>1 DEF WriteMarker, Goto, PC, Locked
  <2>3. \A q \in Proc \ {p} : pc'[q] = pc[q] /\ job'[q] = job[q]
    BY <1>35, Frame DEF Begin, Step, Environment
  <2>4. OnTrackAt(p)'
    BY <1>35 DEF WriteMarker, Goto, OnTrack, OnTrackAt, Reclaiming, Job, Resolving, Adding,
       Publishing, InPlace, Collecting, OnKey, AllOps
  <2>. QED  BY <2>2, <2>3, <2>4 DEF OnTrack, OnTrackAt
<1>36. ASSUME NEW p \in Proc, Register(p) PROVE TypeOK' /\ OnTrack'
  <2>0. OnTrackAt(p) /\ job[p] \in Job /\ job[p].key \in Key
    BY <1>36 DEF OnTrack, OnTrackAt, Register, Resolving, Adding, Publishing, InPlace, Collecting,
       OnKey, AllOps
  <2>1. job' \in [Proc -> Job]
    <3>1. \/ job' = [job EXCEPT ![p] = NoJob]
          \/ job' = [job EXCEPT ![p].from = "placed", ![p].need = 0]
      BY <1>36 DEF Register, Finish
    <3>. QED  BY <3>1, <2>0, NoJobType DEF Job
  <2>2. TypeOK'
    BY <1>36, Numbers, <2>0, <2>1 DEF Register, Underestimated, Content, Finish, Leave, Goto, PC,
       Locked
  <2>3. \A q \in Proc \ {p} : pc'[q] = pc[q] /\ job'[q] = job[q]
    BY <1>36, Frame DEF Begin, Step, Environment
  <2>4. OnTrackAt(p)'
    BY <1>36 DEF Register, Underestimated, Content, Finish, Leave, Goto, NoJob, OnTrack,
       OnTrackAt, Reclaiming, Job, Resolving, Adding, Publishing, InPlace, Collecting, OnKey, AllOps
  <2>. QED  BY <2>2, <2>3, <2>4 DEF OnTrack, OnTrackAt
<1>37. ASSUME NEW p \in Proc, SetPinned(p) PROVE TypeOK' /\ OnTrack'
  <2>0. OnTrackAt(p) /\ job[p] \in Job /\ job[p].key \in Key
    BY <1>37 DEF OnTrack, OnTrackAt, SetPinned, AtRun, Resolving, Adding, Publishing, InPlace,
       Collecting, OnKey, AllOps
  <2>1. job' \in [Proc -> Job]
    BY <1>37, NoJobType, <2>0 DEF SetPinned, AtRun, Finish, Leave, Goto, Job
  <2>2. TypeOK'
    BY <1>37, <2>0, <2>1 DEF SetPinned, AtRun, Finish, Leave, Goto, PC, Locked
  <2>3. \A q \in Proc \ {p} : pc'[q] = pc[q] /\ job'[q] = job[q]
    BY <1>37, Frame DEF Begin, Step, Environment
  <2>4. OnTrackAt(p)'
    BY <1>37 DEF SetPinned, AtRun, Finish, Leave, Goto, NoJob, OnTrack, OnTrackAt, Reclaiming,
       Job, Resolving, Adding, Publishing, InPlace, Collecting, OnKey, AllOps
  <2>. QED  BY <2>2, <2>3, <2>4 DEF OnTrack, OnTrackAt
<1>38. ASSUME NEW p \in Proc, StoreFails(p) PROVE TypeOK' /\ OnTrack'
  <2>0. OnTrackAt(p) /\ job[p] \in Job
    BY DEF OnTrack
  <2>1. job' \in [Proc -> Job]
    BY <1>38, NoJobType, <2>0 DEF StoreFails, Hit, AtRun, Finish, Leave, Goto, Job
  <2>2. TypeOK'
    BY <1>38, <2>0, <2>1 DEF StoreFails, Hit, AtRun, Finish, Leave, Goto, PC, Locked
  <2>3. \A q \in Proc \ {p} : pc'[q] = pc[q] /\ job'[q] = job[q]
    BY <1>38, Frame DEF Begin, Step, Environment
  <2>4. OnTrackAt(p)'
    BY <1>38 DEF StoreFails, Hit, AtRun, Finish, Leave, Goto, NoJob, OnTrack, OnTrackAt,
       Reclaiming, Job, Resolving, Adding, Publishing, InPlace, Collecting, OnKey, AllOps
  <2>. QED  BY <2>2, <2>3, <2>4 DEF OnTrack, OnTrackAt
<1>39. ASSUME NEW p \in Proc, Crash(p) PROVE TypeOK' /\ OnTrack'
  <2>0. OnTrackAt(p) /\ job[p] \in Job
    BY DEF OnTrack
  <2>1. job' \in [Proc -> Job]
    BY <1>39, NoJobType, <2>0 DEF Crash, Goto, Job
  <2>2. TypeOK'
    BY <1>39, <2>0, <2>1 DEF Crash, Goto, PC, Locked
  <2>3. \A q \in Proc \ {p} : pc'[q] = pc[q] /\ job'[q] = job[q]
    BY <1>39, Frame DEF Begin, Step, Environment
  <2>4. OnTrackAt(p)'
    BY <1>39 DEF Crash, Goto, NoJob, OnTrack, OnTrackAt, Reclaiming, Job, Resolving, Adding,
       Publishing, InPlace, Collecting, OnKey, AllOps
  <2>. QED  BY <2>2, <2>3, <2>4 DEF OnTrack, OnTrackAt
<1>40. ASSUME NEW p \in Proc, NEW k \in Key, Release(p, k) PROVE TypeOK' /\ OnTrack'
  <2>0. OnTrackAt(p) /\ job[p] \in Job
    BY DEF OnTrack
  <2>1. job' \in [Proc -> Job]
    BY <1>40, <2>0 DEF Release, Job
  <2>2. TypeOK'
    BY <1>40, <2>0, <2>1 DEF Release, PC, Locked
  <2>3. \A q \in Proc \ {p} : pc'[q] = pc[q] /\ job'[q] = job[q]
    BY <1>40, Frame DEF Begin, Step, Environment
  <2>4. OnTrackAt(p)'
    BY <1>40 DEF Release, OnTrack, OnTrackAt, Reclaiming, Job, Resolving, Adding, Publishing,
       InPlace, Collecting, OnKey, AllOps
  <2>. QED  BY <2>2, <2>3, <2>4 DEF OnTrack, OnTrackAt
<1>41. ASSUME NEW k \in Key, Produce(k) PROVE TypeOK' /\ OnTrack'
  BY <1>41 DEF Produce, OnTrack, OnTrackAt
<1>42. CASE UNCHANGED vars
  BY <1>42 DEF vars, OnTrack, OnTrackAt
<1>. QED
  BY <1>1, <1>2, <1>3, <1>4, <1>5, <1>6, <1>7, <1>8, <1>9, <1>10, <1>11, <1>12, <1>13, <1>14,
     <1>15, <1>16, <1>17, <1>18, <1>19, <1>20, <1>21, <1>22, <1>23, <1>24, <1>25, <1>26, <1>27,
     <1>28, <1>29, <1>30, <1>31, <1>32, <1>33, <1>34, <1>35, <1>36, <1>37, <1>38, <1>39, <1>40,
     <1>41, <1>42 DEF Next, Begin, Step, Environment

-----------------------------------------------------------------------------
(* No content is lost.                                                     *)

\* Who is inside Cache._locked holds the lock.
Mutex == \A p \in Proc : pc[p] \in Locked => lock = p

\* A directory that does not exist holds nothing.
Bare == \A k \in Key \ present : files[k] = {}

\* Outputs are whole, or on their way out with all they hold in the store.
OutWhole == \A k \in Key : out[k] \in {{}, File} \/ File \subseteq store[k]

\* What a process knows, at the point it has reached, of what it is about to
\* delete or overwrite.
Knows(p) ==
  LET o == job[p].op
      k == job[p].key
      v == job[p].victim
  IN /\ pc[p] = "run" => rows \subseteq present
     /\ pc[p] = "rmtree" /\ o # "force" => Content(v) \subseteq store[v]
     /\ pc[p] = "rmtree" /\ o = "force" => v \in present \ owed
     /\ pc[p] \in {"upload", "check"} /\ o \in {"publish", "publishKeep"} => out[k] # {}
     /\ pc[p] \in Locked \ {"upload", "check"} /\ o \in {"publish", "publishKeep"} => File \subseteq store[k]
     /\ pc[p] = "move" /\ o \in Adding => files[k] = {}
     /\ pc[p] \in {"upload", "check"} /\ o \in InPlace \cup {"add"} => k \in present
     /\ pc[p] = "marker" => k \in present

Safe == /\ Bare /\ OutWhole /\ NoLoss
        /\ \A p \in Proc : Knows(p)

\* A step of the process that holds the lock: what the others know cannot have
\* changed, for they are outside the lock.
LEMMA HeldStep ==
  ASSUME TypeOK, Mutex, NEW p \in Proc, pc[p] \in Locked,
         Begin(p) \/ Step(p) \/ Environment(p),
         lock' = lock \/ pc'[p] \notin Locked,
         Knows(p)'
  PROVE  Mutex' /\ \A q \in Proc : Knows(q)'
<1>1. ASSUME NEW q \in Proc \ {p} PROVE pc'[q] \notin Locked
  BY <1>1, Frame DEF Mutex
<1>2. Mutex'
  BY <1>1 DEF Mutex
<1>3. ASSUME NEW q \in Proc \ {p} PROVE Knows(q)'
  BY <1>1, <1>3 DEF Knows, Locked
<1>. QED  BY <1>2, <1>3

\* A step of a process outside the lock that touches nothing the others know of.
LEMMA QuietStep ==
  ASSUME TypeOK, Mutex, Safe, NEW p \in Proc,
         Begin(p) \/ Step(p) \/ Environment(p),
         pc'[p] \notin Locked, lock' = lock \/ lock = p,
         UNCHANGED <<rows, present, files, out, store, owed>>
  PROVE  Mutex' /\ Safe'
<1>1. ASSUME NEW q \in Proc \ {p} PROVE pc'[q] = pc[q] /\ job'[q] = job[q]
  BY <1>1, Frame
<1>2. Mutex'
  BY <1>1 DEF Mutex
<1>3. ASSUME NEW q \in Proc PROVE Knows(q)'
  <2>1. CASE q = p
    BY <2>1 DEF Knows, Locked
  <2>2. CASE q # p
    BY <1>1, <2>2 DEF Safe, Knows, Content
  <2>. QED  BY <2>1, <2>2
<1>. QED  BY <1>2, <1>3 DEF Safe, Bare, OutWhole, NoLoss

\* Every step keeps the lock with its holder, and the content safe.
LEMMA SafeNext == TypeOK /\ OnTrack /\ Mutex /\ Safe /\ [Next]_vars => Mutex' /\ Safe'
<1>. SUFFICES ASSUME TypeOK, OnTrack, Mutex, Safe, [Next]_vars PROVE Mutex' /\ Safe'
  OBVIOUS
<1>. USE DEF TypeOK, rowVars, diskVars
<1>1. ASSUME NEW p \in Proc, Reconcile(p) PROVE Mutex' /\ Safe'
  <2>1. pc[p] \in Locked /\ (lock' = lock \/ pc'[p] \notin Locked)
    BY <1>1 DEF Reconcile, Goto, Locked
  <2>2. UNCHANGED <<present, files, out, store, owed>>
    BY <1>1 DEF Reconcile, Goto
  <2>3. Knows(p)'
    BY <1>1, <2>1, <2>2 DEF Reconcile, Content, Goto, Safe, Bare, OutWhole, Knows, OnTrack,
       OnTrackAt, Reclaiming, Content, Locked, Resolving, Adding, Publishing, InPlace, Collecting,
       OnKey
  <2>. QED  BY <1>1, <2>1, <2>2, <2>3, HeldStep DEF Step, Environment, Safe, Bare, OutWhole, NoLoss
<1>2. ASSUME NEW p \in Proc, ResolveHit(p) PROVE Mutex' /\ Safe'
  <2>1. pc[p] \in Locked /\ (lock' = lock \/ pc'[p] \notin Locked)
    BY <1>2 DEF ResolveHit, AtRun, Goto, Locked
  <2>2. UNCHANGED <<present, files, out, store, owed>>
    BY <1>2 DEF ResolveHit, AtRun, Goto
  <2>3. Knows(p)'
    BY <1>2, <2>1, <2>2 DEF ResolveHit, Hit, AtRun, Goto, Safe, Bare, OutWhole, Knows, OnTrack,
       OnTrackAt, Reclaiming, Content, Locked, Resolving, Adding, Publishing, InPlace, Collecting,
       OnKey
  <2>. QED  BY <1>2, <2>1, <2>2, <2>3, HeldStep DEF Step, Environment, Safe, Bare, OutWhole, NoLoss
<1>3. ASSUME NEW p \in Proc, MissInCache(p) PROVE Mutex' /\ Safe'
  <2>1. pc[p] \in Locked /\ (lock' = lock \/ pc'[p] \notin Locked)
    BY <1>3 DEF MissInCache, AtRun, Goto, Locked
  <2>2. UNCHANGED <<present, files, out, store, owed>>
    BY <1>3 DEF MissInCache, AtRun, Goto
  <2>3. Knows(p)'
    BY <1>3, <2>1, <2>2 DEF MissInCache, Hit, AtRun, Goto, Safe, Bare, OutWhole, Knows, OnTrack,
       OnTrackAt, Reclaiming, Content, Locked, Resolving, Adding, Publishing, InPlace, Collecting,
       OnKey
  <2>. QED  BY <1>3, <2>1, <2>2, <2>3, HeldStep DEF Step, Environment, Safe, Bare, OutWhole, NoLoss
<1>4. ASSUME NEW p \in Proc, MissInStore(p) PROVE Mutex' /\ Safe'
  <2>1. pc[p] \in Locked /\ (lock' = lock \/ pc'[p] \notin Locked)
    BY <1>4 DEF MissInStore, AtRun, Goto, Locked
  <2>2. UNCHANGED <<present, files, out, store, owed>>
    BY <1>4 DEF MissInStore, AtRun, Goto
  <2>3. Knows(p)'
    BY <1>4, <2>1, <2>2 DEF MissInStore, Hit, AtRun, Goto, Safe, Bare, OutWhole, Knows, OnTrack,
       OnTrackAt, Reclaiming, Content, Locked, Resolving, Adding, Publishing, InPlace, Collecting,
       OnKey
  <2>. QED  BY <1>4, <2>1, <2>2, <2>3, HeldStep DEF Step, Environment, Safe, Bare, OutWhole, NoLoss
<1>5. ASSUME NEW p \in Proc, FetchFromStore(p) PROVE Mutex' /\ Safe'
  <2>1. pc[p] \in Locked /\ (lock' = lock \/ pc'[p] \notin Locked)
    BY <1>5 DEF FetchFromStore, Goto, Locked
  <2>2. UNCHANGED <<present, files, out, store, owed>>
    BY <1>5 DEF FetchFromStore, Goto
  <2>3. Knows(p)'
    BY <1>5, <2>1, <2>2 DEF FetchFromStore, Goto, Safe, Bare, OutWhole, Knows, OnTrack, OnTrackAt,
       Reclaiming, Content, Locked, Resolving, Adding, Publishing, InPlace, Collecting, OnKey
  <2>. QED  BY <1>5, <2>1, <2>2, <2>3, HeldStep DEF Step, Environment, Safe, Bare, OutWhole, NoLoss
<1>6. ASSUME NEW p \in Proc, FetchFromHub(p) PROVE Mutex' /\ Safe'
  <2>1. pc[p] \in Locked /\ (lock' = lock \/ pc'[p] \notin Locked)
    BY <1>6 DEF FetchFromHub, Goto, Locked
  <2>2. UNCHANGED <<present, files, out, store, owed>>
    BY <1>6 DEF FetchFromHub, Goto
  <2>3. Knows(p)'
    BY <1>6, <2>1, <2>2 DEF FetchFromHub, Goto, Safe, Bare, OutWhole, Knows, OnTrack, OnTrackAt,
       Reclaiming, Content, Locked, Resolving, Adding, Publishing, InPlace, Collecting, OnKey
  <2>. QED  BY <1>6, <2>1, <2>2, <2>3, HeldStep DEF Step, Environment, Safe, Bare, OutWhole, NoLoss
<1>7. ASSUME NEW p \in Proc, HubHasNot(p) PROVE Mutex' /\ Safe'
  <2>1. pc[p] \in Locked /\ (lock' = lock \/ pc'[p] \notin Locked)
    BY <1>7 DEF HubHasNot, Finish, Leave, Goto, Locked
  <2>2. UNCHANGED <<present, files, out, store, owed>>
    BY <1>7 DEF HubHasNot, Finish, Leave, Goto
  <2>3. Knows(p)'
    BY <1>7, <2>1, <2>2 DEF HubHasNot, Finish, NoJob, Leave, Goto, Safe, Bare, OutWhole, Knows,
       OnTrack, OnTrackAt, Reclaiming, Content, Locked, Resolving, Adding, Publishing, InPlace,
       Collecting, OnKey
  <2>. QED  BY <1>7, <2>1, <2>2, <2>3, HeldStep DEF Step, Environment, Safe, Bare, OutWhole, NoLoss
<1>8. ASSUME NEW p \in Proc, Place(p) PROVE Mutex' /\ Safe'
  <2>1. pc[p] \in Locked /\ (lock' = lock \/ pc'[p] \notin Locked)
    BY <1>8 DEF Place, Goto, Locked
  <2>2. (Bare /\ OutWhole /\ NoLoss)'
    BY <1>8 DEF Place, Goto, Safe, Bare, OutWhole, NoLoss, Knows, OnTrack, OnTrackAt, Job
  <2>3. Knows(p)'
    BY <1>8, <2>1, <2>2 DEF Place, Goto, Safe, Bare, OutWhole, Knows, OnTrack, OnTrackAt,
       Reclaiming, Content, Locked, Resolving, Adding, Publishing, InPlace, Collecting, OnKey
  <2>. QED  BY <1>8, <2>1, <2>2, <2>3, HeldStep DEF Step, Environment, Safe, Bare, OutWhole, NoLoss
<1>9. ASSUME NEW p \in Proc, PlaceRefused(p) PROVE Mutex' /\ Safe'
  <2>1. pc[p] \in Locked /\ (lock' = lock \/ pc'[p] \notin Locked)
    BY <1>9 DEF PlaceRefused, Finish, Leave, Goto, Locked
  <2>2. UNCHANGED <<present, files, out, store, owed>>
    BY <1>9 DEF PlaceRefused, Finish, Leave, Goto
  <2>3. Knows(p)'
    BY <1>9, <2>1, <2>2 DEF PlaceRefused, Finish, NoJob, Leave, Goto, Safe, Bare, OutWhole, Knows,
       OnTrack, OnTrackAt, Reclaiming, Content, Locked, Resolving, Adding, Publishing, InPlace,
       Collecting, OnKey
  <2>. QED  BY <1>9, <2>1, <2>2, <2>3, HeldStep DEF Step, Environment, Safe, Bare, OutWhole, NoLoss
<1>10. ASSUME NEW p \in Proc, Return(p) PROVE Mutex' /\ Safe'
  <2>1. pc[p] \in Locked /\ (lock' = lock \/ pc'[p] \notin Locked)
    BY <1>10 DEF Return, Finish, Leave, Goto, Locked
  <2>2. UNCHANGED <<present, files, out, store, owed>>
    BY <1>10 DEF Return, Finish, Leave, Goto
  <2>3. Knows(p)'
    BY <1>10, <2>1, <2>2 DEF Return, Finish, NoJob, Leave, Goto, Safe, Bare, OutWhole, Knows,
       OnTrack, OnTrackAt, Reclaiming, Content, Locked, Resolving, Adding, Publishing, InPlace,
       Collecting, OnKey
  <2>. QED  BY <1>10, <2>1, <2>2, <2>3, HeldStep DEF Step, Environment, Safe, Bare, OutWhole, NoLoss
<1>11. ASSUME NEW p \in Proc, Snapshot(p) PROVE Mutex' /\ Safe'
  <2>1. pc[p] \in Locked /\ (lock' = lock \/ pc'[p] \notin Locked)
    BY <1>11 DEF Snapshot, Goto, Locked
  <2>2. UNCHANGED <<present, files, out, store, owed>>
    BY <1>11 DEF Snapshot, Goto
  <2>3. Knows(p)'
    BY <1>11, <2>1, <2>2 DEF Snapshot, Candidates, Leased, Goto, Safe, Bare, OutWhole, Knows,
       OnTrack, OnTrackAt, Reclaiming, Content, Locked, Resolving, Adding, Publishing, InPlace,
       Collecting, OnKey
  <2>. QED  BY <1>11, <2>1, <2>2, <2>3, HeldStep DEF Step, Environment, Safe, Bare, OutWhole, NoLoss
<1>12. ASSUME NEW p \in Proc, PickOldest(p) PROVE Mutex' /\ Safe'
  <2>1. pc[p] \in Locked /\ (lock' = lock \/ pc'[p] \notin Locked)
    BY <1>12 DEF PickOldest, Goto, Locked
  <2>2. UNCHANGED <<present, files, out, store, owed>>
    BY <1>12 DEF PickOldest, Goto
  <2>3. Knows(p)'
    BY <1>12, <2>1, <2>2 DEF PickOldest, Goto, Safe, Bare, OutWhole, Knows, OnTrack, OnTrackAt,
       Reclaiming, Content, Locked, Resolving, Adding, Publishing, InPlace, Collecting, OnKey
  <2>. QED  BY <1>12, <2>1, <2>2, <2>3, HeldStep DEF Step, Environment, Safe, Bare, OutWhole, NoLoss
<1>13. ASSUME NEW p \in Proc, CollectOver(p) PROVE Mutex' /\ Safe'
  <2>1. pc[p] \in Locked /\ (lock' = lock \/ pc'[p] \notin Locked)
    BY <1>13 DEF CollectOver, Finish, Leave, Goto, Locked
  <2>2. UNCHANGED <<present, files, out, store, owed>>
    BY <1>13 DEF CollectOver, Finish, Leave, Goto
  <2>3. Knows(p)'
    BY <1>13, <2>1, <2>2 DEF CollectOver, Finish, NoJob, Leave, Goto, Safe, Bare, OutWhole, Knows,
       OnTrack, OnTrackAt, Reclaiming, Content, Locked, Resolving, Adding, Publishing, InPlace,
       Collecting, OnKey
  <2>. QED  BY <1>13, <2>1, <2>2, <2>3, HeldStep DEF Step, Environment, Safe, Bare, OutWhole, NoLoss
<1>14. ASSUME NEW p \in Proc, VerifyPassed(p) PROVE Mutex' /\ Safe'
  <2>1. pc[p] \in Locked /\ (lock' = lock \/ pc'[p] \notin Locked)
    BY <1>14 DEF VerifyPassed, Goto, Locked
  <2>2. UNCHANGED <<present, files, out, store, owed>>
    BY <1>14 DEF VerifyPassed, Goto
  <2>3. Knows(p)'
    <3>1. job[p].op \in Reclaiming \cup {"evict"} /\ job[p].victim \in Key
      BY <1>14 DEF VerifyPassed, OnTrack, OnTrackAt
    <3>2. job'[p].op = job[p].op /\ job'[p].key = job[p].key /\ job'[p].victim = job[p].victim
      BY <1>14 DEF VerifyPassed, Job
    <3>3. pc'[p] \in {"collect", "rmtree"}
      BY <1>14 DEF VerifyPassed, Goto
    <3>4. Content(job[p].victim) \subseteq store[job[p].victim]
      BY <1>14 DEF VerifyPassed, Verified
    <3>5. job[p].op \in {"publish", "publishKeep"} => File \subseteq store[job[p].key]
      BY <1>14, <2>1 DEF VerifyPassed, Safe, Knows
    <3>. QED  BY <3>1, <3>2, <3>3, <3>4, <3>5, <2>2 DEF Knows, Content, Reclaiming, Resolving,
       Adding, Collecting, Locked
  <2>. QED  BY <1>14, <2>1, <2>2, <2>3, HeldStep DEF Step, Environment, Safe, Bare, OutWhole, NoLoss
<1>15. ASSUME NEW p \in Proc, NotVerified(p) PROVE Mutex' /\ Safe'
  <2>1. pc[p] \in Locked /\ (lock' = lock \/ pc'[p] \notin Locked)
    BY <1>15 DEF NotVerified, Finish, Leave, Goto, Locked
  <2>2. UNCHANGED <<present, files, out, store, owed>>
    BY <1>15 DEF NotVerified, Finish, Leave, Goto
  <2>3. Knows(p)'
    BY <1>15, <2>1, <2>2 DEF NotVerified, Verified, Content, Finish, NoJob, Leave, Goto, Safe,
       Bare, OutWhole, Knows, OnTrack, OnTrackAt, Reclaiming, Content, Locked, Resolving, Adding,
       Publishing, InPlace, Collecting, OnKey
  <2>. QED  BY <1>15, <2>1, <2>2, <2>3, HeldStep DEF Step, Environment, Safe, Bare, OutWhole, NoLoss
<1>16. ASSUME NEW p \in Proc, Evict(p) PROVE Mutex' /\ Safe'
  <2>1. pc[p] \in Locked /\ (lock' = lock \/ pc'[p] \notin Locked)
    BY <1>16 DEF Evict, AtRun, Goto, Locked
  <2>2. UNCHANGED <<present, files, out, store, owed>>
    BY <1>16 DEF Evict, AtRun, Goto
  <2>3. Knows(p)'
    BY <1>16, <2>1, <2>2 DEF Evict, Candidates, Leased, AtRun, Goto, Safe, Bare, OutWhole, Knows,
       OnTrack, OnTrackAt, Reclaiming, Content, Locked, Resolving, Adding, Publishing, InPlace,
       Collecting, OnKey
  <2>. QED  BY <1>16, <2>1, <2>2, <2>3, HeldStep DEF Step, Environment, Safe, Bare, OutWhole, NoLoss
<1>17. ASSUME NEW p \in Proc, EvictForced(p) PROVE Mutex' /\ Safe'
  <2>1. pc[p] \in Locked /\ (lock' = lock \/ pc'[p] \notin Locked)
    BY <1>17 DEF EvictForced, AtRun, Goto, Locked
  <2>2. (Bare /\ OutWhole /\ NoLoss)'
    BY <1>17 DEF EvictForced, AtRun, Goto, Safe, Bare, OutWhole, NoLoss, Knows, OnTrack,
       OnTrackAt, Job
  <2>3. Knows(p)'
    BY <1>17, <2>1, <2>2 DEF EvictForced, AtRun, Goto, Safe, Bare, OutWhole, Knows, OnTrack,
       OnTrackAt, Reclaiming, Content, Locked, Resolving, Adding, Publishing, InPlace, Collecting,
       OnKey
  <2>. QED  BY <1>17, <2>1, <2>2, <2>3, HeldStep DEF Step, Environment, Safe, Bare, OutWhole, NoLoss
<1>18. ASSUME NEW p \in Proc, EvictRefused(p) PROVE Mutex' /\ Safe'
  <2>1. pc[p] \in Locked /\ (lock' = lock \/ pc'[p] \notin Locked)
    BY <1>18 DEF EvictRefused, AtRun, Finish, Leave, Goto, Locked
  <2>2. UNCHANGED <<present, files, out, store, owed>>
    BY <1>18 DEF EvictRefused, AtRun, Finish, Leave, Goto
  <2>3. Knows(p)'
    BY <1>18, <2>1, <2>2 DEF EvictRefused, Candidates, Leased, AtRun, Finish, NoJob, Leave, Goto,
       Safe, Bare, OutWhole, Knows, OnTrack, OnTrackAt, Reclaiming, Content, Locked, Resolving,
       Adding, Publishing, InPlace, Collecting, OnKey
  <2>. QED  BY <1>18, <2>1, <2>2, <2>3, HeldStep DEF Step, Environment, Safe, Bare, OutWhole, NoLoss
<1>19. ASSUME NEW p \in Proc, RemoveFile(p) PROVE Mutex' /\ Safe'
  <2>1. pc[p] \in Locked /\ (lock' = lock \/ pc'[p] \notin Locked)
    BY <1>19 DEF RemoveFile, Locked
  <2>2. (Bare /\ OutWhole /\ NoLoss)'
    <3>. DEFINE v == job[p].victim
    <3>1. v \in Key /\ pc[p] = "rmtree" /\ UNCHANGED <<present, out, store, owed>>
      BY <1>19 DEF RemoveFile, OnTrack, OnTrackAt
    <3>2. /\ \A k \in Key \ {v} : files'[k] = files[k]
          /\ files'[v] \subseteq files[v]
      BY <1>19, <3>1 DEF RemoveFile
    <3>3. v \notin owed \/ Content(v) \subseteq store[v]
      BY <3>1 DEF Safe, Knows
    <3>. QED  BY <3>1, <3>2, <3>3 DEF Safe, Bare, OutWhole, NoLoss, Content
  <2>3. Knows(p)'
    BY <1>19, <2>1, <2>2 DEF RemoveFile, Safe, Bare, OutWhole, Knows, OnTrack, OnTrackAt,
       Reclaiming, Content, Locked, Resolving, Adding, Publishing, InPlace, Collecting, OnKey
  <2>. QED  BY <1>19, <2>1, <2>2, <2>3, HeldStep DEF Step, Environment, Safe, Bare, OutWhole, NoLoss
<1>20. ASSUME NEW p \in Proc, RemoveDirectory(p) PROVE Mutex' /\ Safe'
  <2>1. pc[p] \in Locked /\ (lock' = lock \/ pc'[p] \notin Locked)
    BY <1>20 DEF RemoveDirectory, Goto, Locked
  <2>2. (Bare /\ OutWhole /\ NoLoss)'
    BY <1>20 DEF RemoveDirectory, Goto, Safe, Bare, OutWhole, NoLoss, Knows, OnTrack, OnTrackAt, Job
  <2>3. Knows(p)'
    BY <1>20, <2>1, <2>2 DEF RemoveDirectory, Goto, Safe, Bare, OutWhole, Knows, OnTrack,
       OnTrackAt, Reclaiming, Content, Locked, Resolving, Adding, Publishing, InPlace, Collecting,
       OnKey
  <2>. QED  BY <1>20, <2>1, <2>2, <2>3, HeldStep DEF Step, Environment, Safe, Bare, OutWhole, NoLoss
<1>21. ASSUME NEW p \in Proc, Forget(p) PROVE Mutex' /\ Safe'
  <2>1. pc[p] \in Locked /\ (lock' = lock \/ pc'[p] \notin Locked)
    BY <1>21 DEF Forget, Finish, Leave, Goto, Locked
  <2>2. UNCHANGED <<present, files, out, store, owed>>
    BY <1>21 DEF Forget, Finish, Leave, Goto
  <2>3. Knows(p)'
    <3>1. \/ pc'[p] = "idle"
          \/ pc'[p] = "collect" /\ job'[p].op = job[p].op /\ job'[p].key = job[p].key
      BY <1>21 DEF Forget, Finish, Leave, Goto, Job
    <3>2. job[p].op \in {"publish", "publishKeep"} => File \subseteq store[job[p].key]
      BY <1>21, <2>1 DEF Forget, Safe, Knows
    <3>. QED  BY <3>1, <3>2, <2>2 DEF Knows, Locked
  <2>. QED  BY <1>21, <2>1, <2>2, <2>3, HeldStep DEF Step, Environment, Safe, Bare, OutWhole, NoLoss
<1>22. ASSUME NEW p \in Proc, Upload(p) PROVE Mutex' /\ Safe'
  <2>1. pc[p] \in Locked /\ (lock' = lock \/ pc'[p] \notin Locked)
    BY <1>22 DEF Upload, Locked
  <2>2. (Bare /\ OutWhole /\ NoLoss)'
    <3>1. UNCHANGED <<present, files, out, owed>> /\ \A k \in Key : store[k] \subseteq store'[k]
      BY <1>22 DEF Upload
    <3>. QED  BY <3>1 DEF Safe, Bare, OutWhole, NoLoss
  <2>3. Knows(p)'
    BY <1>22, <2>1, <2>2 DEF Upload, Safe, Bare, OutWhole, Knows, OnTrack, OnTrackAt, Reclaiming,
       Content, Locked, Resolving, Adding, Publishing, InPlace, Collecting, OnKey
  <2>. QED  BY <1>22, <2>1, <2>2, <2>3, HeldStep DEF Step, Environment, Safe, Bare, OutWhole, NoLoss
<1>23. ASSUME NEW p \in Proc, UploadOver(p) PROVE Mutex' /\ Safe'
  <2>1. pc[p] \in Locked /\ (lock' = lock \/ pc'[p] \notin Locked)
    BY <1>23 DEF UploadOver, Goto, Locked
  <2>2. UNCHANGED <<present, files, out, store, owed>>
    BY <1>23 DEF UploadOver, Goto
  <2>3. Knows(p)'
    BY <1>23, <2>1, <2>2 DEF UploadOver, Goto, Safe, Bare, OutWhole, Knows, OnTrack, OnTrackAt,
       Reclaiming, Content, Locked, Resolving, Adding, Publishing, InPlace, Collecting, OnKey
  <2>. QED  BY <1>23, <2>1, <2>2, <2>3, HeldStep DEF Step, Environment, Safe, Bare, OutWhole, NoLoss
<1>24. ASSUME NEW p \in Proc, Checked(p) PROVE Mutex' /\ Safe'
  <2>1. pc[p] \in Locked /\ (lock' = lock \/ pc'[p] \notin Locked)
    BY <1>24 DEF Checked, Goto, Locked
  <2>2. UNCHANGED <<present, files, out, store, owed>>
    BY <1>24 DEF Checked, Goto
  <2>3. Knows(p)'
    BY <1>24, <2>1, <2>2 DEF Checked, Sent, Source, Content, Leased, Goto, Safe, Bare, OutWhole,
       Knows, OnTrack, OnTrackAt, Reclaiming, Content, Locked, Resolving, Adding, Publishing,
       InPlace, Collecting, OnKey
  <2>. QED  BY <1>24, <2>1, <2>2, <2>3, HeldStep DEF Step, Environment, Safe, Bare, OutWhole, NoLoss
<1>25. ASSUME NEW p \in Proc, RemoveSource(p) PROVE Mutex' /\ Safe'
  <2>1. pc[p] \in Locked /\ (lock' = lock \/ pc'[p] \notin Locked)
    BY <1>25 DEF RemoveSource, Finish, Leave, Goto, Locked
  <2>2. (Bare /\ OutWhole /\ NoLoss)'
    <3>1. job[p].op = "publish" /\ job[p].key \in Key /\ UNCHANGED <<present, files, store, owed>>
      BY <1>25 DEF RemoveSource, OnTrack, OnTrackAt, Collecting
    <3>2. \A k \in Key \ {job[p].key} : out'[k] = out[k]
      BY <1>25, <3>1 DEF RemoveSource
    <3>3. File \subseteq store[job[p].key]
      BY <1>25, <2>1, <3>1 DEF RemoveSource, Safe, Knows
    <3>. QED  BY <3>1, <3>2, <3>3 DEF Safe, Bare, OutWhole, NoLoss
  <2>3. Knows(p)'
    BY <1>25, <2>1, <2>2 DEF RemoveSource, Finish, NoJob, Leave, Goto, Safe, Bare, OutWhole,
       Knows, OnTrack, OnTrackAt, Reclaiming, Content, Locked, Resolving, Adding, Publishing,
       InPlace, Collecting, OnKey
  <2>. QED  BY <1>25, <2>1, <2>2, <2>3, HeldStep DEF Step, Environment, Safe, Bare, OutWhole, NoLoss
<1>26. ASSUME NEW p \in Proc, ClearTarget(p) PROVE Mutex' /\ Safe'
  <2>1. pc[p] \in Locked /\ (lock' = lock \/ pc'[p] \notin Locked)
    BY <1>26 DEF ClearTarget, Goto, Locked
  <2>2. (Bare /\ OutWhole /\ NoLoss)'
    <3>1. job[p].op = "publishKeep" /\ job[p].key \in Key /\ UNCHANGED <<out, store, owed>>
      BY <1>26 DEF ClearTarget, OnTrack, OnTrackAt, Collecting
    <3>2. /\ \A k \in Key \ {job[p].key} : files'[k] = files[k] /\ (k \in present' <=> k \in present)
          /\ files'[job[p].key] \subseteq files[job[p].key]
          /\ job[p].key \in present \ present' => files'[job[p].key] = {}
          /\ present' \subseteq present
      BY <1>26, <3>1 DEF ClearTarget
    <3>3. File \subseteq store[job[p].key]
      BY <1>26, <2>1, <3>1 DEF ClearTarget, Safe, Knows
    <3>. QED  BY <3>1, <3>2, <3>3 DEF Safe, Bare, OutWhole, NoLoss
  <2>3. Knows(p)'
    BY <1>26, <2>1, <2>2 DEF ClearTarget, Goto, Safe, Bare, OutWhole, Knows, OnTrack, OnTrackAt,
       Reclaiming, Content, Locked, Resolving, Adding, Publishing, InPlace, Collecting, OnKey
  <2>. QED  BY <1>26, <2>1, <2>2, <2>3, HeldStep DEF Step, Environment, Safe, Bare, OutWhole, NoLoss
<1>27. ASSUME NEW p \in Proc, Move(p) PROVE Mutex' /\ Safe'
  <2>1. pc[p] \in Locked /\ (lock' = lock \/ pc'[p] \notin Locked)
    BY <1>27 DEF Move, Goto, Locked
  <2>2. (Bare /\ OutWhole /\ NoLoss)'
    <3>1. /\ job[p].key \in Key /\ job[p].op \in Adding \cup {"publishKeep"}
          /\ UNCHANGED <<store, owed>>
      BY <1>27 DEF Move, OnTrack, OnTrackAt, Collecting, Adding
    <3>2. /\ \A k \in Key \ {job[p].key} : files'[k] = files[k] /\ out'[k] = out[k]
          /\ files'[job[p].key] = out[job[p].key] /\ out'[job[p].key] = {}
          /\ present' = present \cup {job[p].key}
      BY <1>27, <3>1 DEF Move
    <3>3. files[job[p].key] = {} \/ File \subseteq store[job[p].key]
      BY <1>27, <2>1, <3>1 DEF Move, Safe, Knows
    <3>. QED  BY <3>1, <3>2, <3>3 DEF Safe, Bare, OutWhole, NoLoss
  <2>3. Knows(p)'
    BY <1>27, <2>1, <2>2 DEF Move, Goto, Safe, Bare, OutWhole, Knows, OnTrack, OnTrackAt,
       Reclaiming, Content, Locked, Resolving, Adding, Publishing, InPlace, Collecting, OnKey
  <2>. QED  BY <1>27, <2>1, <2>2, <2>3, HeldStep DEF Step, Environment, Safe, Bare, OutWhole, NoLoss
<1>28. ASSUME NEW p \in Proc, WriteMarker(p) PROVE Mutex' /\ Safe'
  <2>1. pc[p] \in Locked /\ (lock' = lock \/ pc'[p] \notin Locked)
    BY <1>28 DEF WriteMarker, Goto, Locked
  <2>2. (Bare /\ OutWhole /\ NoLoss)'
    <3>1. /\ job[p].key \in present
          /\ UNCHANGED <<present, out, store, owed>>
      BY <1>28 DEF WriteMarker, Safe, Knows
    <3>2. /\ \A k \in Key \ {job[p].key} : files'[k] = files[k]
          /\ files[job[p].key] \subseteq files'[job[p].key]
      BY <1>28, <3>1 DEF WriteMarker
    <3>. QED  BY <3>1, <3>2 DEF Safe, Bare, OutWhole, NoLoss
  <2>3. Knows(p)'
    BY <1>28, <2>1, <2>2 DEF WriteMarker, Goto, Safe, Bare, OutWhole, Knows, OnTrack, OnTrackAt,
       Reclaiming, Content, Locked, Resolving, Adding, Publishing, InPlace, Collecting, OnKey
  <2>. QED  BY <1>28, <2>1, <2>2, <2>3, HeldStep DEF Step, Environment, Safe, Bare, OutWhole, NoLoss
<1>29. ASSUME NEW p \in Proc, Register(p) PROVE Mutex' /\ Safe'
  <2>1. pc[p] \in Locked /\ (lock' = lock \/ pc'[p] \notin Locked)
    BY <1>29 DEF Register, Finish, Leave, Goto, Locked
  <2>2. UNCHANGED <<present, files, out, store, owed>>
    BY <1>29 DEF Register, Finish, Leave, Goto
  <2>3. Knows(p)'
    <3>1. \/ pc'[p] = "idle"
          \/ pc'[p] \in {"reconcile", "return"} /\ job'[p].op \in Resolving
      BY <1>29 DEF Register, Finish, Leave, Goto, Job
    <3>. QED  BY <3>1 DEF Knows, Locked, Resolving
  <2>. QED  BY <1>29, <2>1, <2>2, <2>3, HeldStep DEF Step, Environment, Safe, Bare, OutWhole, NoLoss
<1>30. ASSUME NEW p \in Proc, SetPinned(p) PROVE Mutex' /\ Safe'
  <2>1. pc[p] \in Locked /\ (lock' = lock \/ pc'[p] \notin Locked)
    BY <1>30 DEF SetPinned, AtRun, Finish, Leave, Goto, Locked
  <2>2. UNCHANGED <<present, files, out, store, owed>>
    BY <1>30 DEF SetPinned, AtRun, Finish, Leave, Goto
  <2>3. Knows(p)'
    BY <1>30, <2>1, <2>2 DEF SetPinned, AtRun, Finish, NoJob, Leave, Goto, Safe, Bare, OutWhole,
       Knows, OnTrack, OnTrackAt, Reclaiming, Content, Locked, Resolving, Adding, Publishing,
       InPlace, Collecting, OnKey
  <2>. QED  BY <1>30, <2>1, <2>2, <2>3, HeldStep DEF Step, Environment, Safe, Bare, OutWhole, NoLoss
<1>31. ASSUME NEW p \in Proc, StoreFails(p) PROVE Mutex' /\ Safe'
  <2>1. pc[p] \in Locked /\ (lock' = lock \/ pc'[p] \notin Locked)
    BY <1>31 DEF StoreFails, AtRun, Finish, Leave, Goto, Locked
  <2>2. UNCHANGED <<present, files, out, store, owed>>
    BY <1>31 DEF StoreFails, AtRun, Finish, Leave, Goto
  <2>3. Knows(p)'
    BY <1>31, <2>1, <2>2 DEF StoreFails, Hit, AtRun, Finish, NoJob, Leave, Goto, Safe, Bare,
       OutWhole, Knows, OnTrack, OnTrackAt, Reclaiming, Content, Locked, Resolving, Adding,
       Publishing, InPlace, Collecting, OnKey
  <2>. QED  BY <1>31, <2>1, <2>2, <2>3, HeldStep DEF Step, Environment, Safe, Bare, OutWhole, NoLoss
<1>32. ASSUME NEW p \in Proc, NEW k \in Key, NEW o \in Ops, BeginOnKey(p, o, k) PROVE Mutex' /\ Safe'
  <2>1. \A q \in Proc : pc[q] \notin Locked
    BY <1>32, CacheAssumption DEF BeginOnKey, Enter, Mutex, CacheAssumption
  <2>2. UNCHANGED <<present, files, out, store, owed>> /\ lock' = p
    BY <1>32 DEF BeginOnKey, Enter
  <2>3. \A q \in Proc \ {p} : pc'[q] \notin Locked
    BY <1>32, <2>1, Frame DEF Begin
  <2>4. Knows(p)'
    BY <1>32, <2>2 DEF BeginOnKey, Enter, Goto, NoJob, Source, Knows, Locked, Resolving, Adding,
       Publishing, InPlace, Collecting, OnKey
  <2>5. Mutex'
    BY <2>2, <2>3 DEF Mutex
  <2>6. ASSUME NEW q \in Proc \ {p} PROVE Knows(q)'
    BY <2>3, <2>6 DEF Knows, Locked
  <2>. QED  BY <2>2, <2>4, <2>5, <2>6 DEF Safe, Bare, OutWhole, NoLoss
<1>33. ASSUME NEW p \in Proc, NEW k \in Key, NEW o \in Ops, BeginPublish(p, o, k) PROVE Mutex' /\ Safe'
  <2>1. \A q \in Proc : pc[q] \notin Locked
    BY <1>33, CacheAssumption DEF BeginPublish, Enter, Mutex, CacheAssumption
  <2>2. UNCHANGED <<present, files, out, store, owed>> /\ lock' = p
    BY <1>33 DEF BeginPublish, Enter
  <2>3. \A q \in Proc \ {p} : pc'[q] \notin Locked
    BY <1>33, <2>1, Frame DEF Begin
  <2>4. Knows(p)'
    BY <1>33, <2>2 DEF BeginPublish, Enter, Goto, NoJob, Source, Knows, Locked, Resolving, Adding,
       Publishing, InPlace, Collecting, OnKey
  <2>5. Mutex'
    BY <2>2, <2>3 DEF Mutex
  <2>6. ASSUME NEW q \in Proc \ {p} PROVE Knows(q)'
    BY <2>3, <2>6 DEF Knows, Locked
  <2>. QED  BY <2>2, <2>4, <2>5, <2>6 DEF Safe, Bare, OutWhole, NoLoss
<1>34. ASSUME NEW p \in Proc, NEW k \in Key, NEW o \in Ops, BeginAdd(p, o, k) PROVE Mutex' /\ Safe'
  <2>1. \A q \in Proc : pc[q] \notin Locked
    BY <1>34, CacheAssumption DEF BeginAdd, Enter, Mutex, CacheAssumption
  <2>2. UNCHANGED <<present, files, out, store, owed>> /\ lock' = p
    BY <1>34 DEF BeginAdd, Enter
  <2>3. \A q \in Proc \ {p} : pc'[q] \notin Locked
    BY <1>34, <2>1, Frame DEF Begin
  <2>4. Knows(p)'
    BY <1>34, <2>2 DEF BeginAdd, Enter, Goto, NoJob, Source, Knows, Locked, Resolving, Adding,
       Publishing, InPlace, Collecting, OnKey
  <2>5. Mutex'
    BY <2>2, <2>3 DEF Mutex
  <2>6. ASSUME NEW q \in Proc \ {p} PROVE Knows(q)'
    BY <2>3, <2>6 DEF Knows, Locked
  <2>. QED  BY <2>2, <2>4, <2>5, <2>6 DEF Safe, Bare, OutWhole, NoLoss
<1>35. ASSUME NEW p \in Proc, NEW n \in Needs, NEW o \in Ops, BeginCollect(p, o, n) PROVE Mutex' /\ Safe'
  <2>1. \A q \in Proc : pc[q] \notin Locked
    BY <1>35, CacheAssumption DEF BeginCollect, Enter, Mutex, CacheAssumption
  <2>2. UNCHANGED <<present, files, out, store, owed>> /\ lock' = p
    BY <1>35 DEF BeginCollect, Enter
  <2>3. \A q \in Proc \ {p} : pc'[q] \notin Locked
    BY <1>35, <2>1, Frame DEF Begin
  <2>4. Knows(p)'
    BY <1>35, <2>2 DEF BeginCollect, Enter, Goto, NoJob, Source, Knows, Locked, Resolving, Adding,
       Publishing, InPlace, Collecting, OnKey
  <2>5. Mutex'
    BY <2>2, <2>3 DEF Mutex
  <2>6. ASSUME NEW q \in Proc \ {p} PROVE Knows(q)'
    BY <2>3, <2>6 DEF Knows, Locked
  <2>. QED  BY <2>2, <2>4, <2>5, <2>6 DEF Safe, Bare, OutWhole, NoLoss
<1>36. ASSUME NEW p \in Proc, NEW k \in Key, VerifyRead(p, k) PROVE Mutex' /\ Safe'
  <2>1. pc'[p] \notin Locked /\ (lock' = lock \/ lock = p)
    BY <1>36 DEF VerifyRead, Goto, Locked
  <2>2. UNCHANGED <<rows, present, files, out, store, owed>>
    BY <1>36 DEF VerifyRead
  <2>. QED  BY <1>36, <2>1, <2>2, QuietStep DEF Begin
<1>37. ASSUME NEW p \in Proc, VerifyReport(p) PROVE Mutex' /\ Safe'
  <2>1. pc'[p] \notin Locked /\ (lock' = lock \/ lock = p)
    BY <1>37 DEF VerifyReport, Goto, Locked
  <2>2. UNCHANGED <<rows, present, files, out, store, owed>>
    BY <1>37 DEF VerifyReport
  <2>. QED  BY <1>37, <2>1, <2>2, QuietStep DEF Step
<1>38. ASSUME NEW p \in Proc, LeaseAfter(p) PROVE Mutex' /\ Safe'
  <2>1. pc'[p] \notin Locked /\ (lock' = lock \/ lock = p)
    BY <1>38 DEF LeaseAfter, Goto, Locked
  <2>2. UNCHANGED <<rows, present, files, out, store, owed>>
    BY <1>38 DEF LeaseAfter
  <2>. QED  BY <1>38, <2>1, <2>2, QuietStep DEF Step
<1>39. ASSUME NEW p \in Proc, Crash(p) PROVE Mutex' /\ Safe'
  <2>1. pc'[p] \notin Locked /\ (lock' = lock \/ lock = p)
    BY <1>39 DEF Crash, Goto, Locked
  <2>2. UNCHANGED <<rows, present, files, out, store, owed>>
    BY <1>39 DEF Crash
  <2>. QED  BY <1>39, <2>1, <2>2, QuietStep DEF Environment
<1>40. ASSUME NEW p \in Proc, NEW k \in Key, Release(p, k) PROVE Mutex' /\ Safe'
  <2>1. pc'[p] \notin Locked /\ (lock' = lock \/ lock = p)
    BY <1>40 DEF Release, Goto, Locked
  <2>2. UNCHANGED <<rows, present, files, out, store, owed>>
    BY <1>40 DEF Release
  <2>. QED  BY <1>40, <2>1, <2>2, QuietStep DEF Environment
<1>41. ASSUME NEW k \in Key, Produce(k) PROVE Mutex' /\ Safe'
  <2>1. /\ UNCHANGED <<lock, pc, job, rows, present, files, store>>
        /\ out' = [out EXCEPT ![k] = File] /\ owed' = owed \cup {k}
        /\ k \notin present /\ out[k] = {}
    BY <1>41 DEF Produce
  <2>2. (Bare /\ OutWhole /\ NoLoss)'
    BY <2>1 DEF Safe, Bare, OutWhole, NoLoss
  <2>3. ASSUME NEW p \in Proc PROVE Knows(p)'
    BY <2>1, <2>3 DEF Safe, Knows, OnTrack, OnTrackAt, Content
  <2>. QED  BY <2>1, <2>2, <2>3 DEF Mutex, Safe
<1>42. CASE UNCHANGED vars
  BY <1>42 DEF vars, Mutex, Safe, Bare, OutWhole, NoLoss, Knows, Content
<1>. QED
  BY <1>1, <1>2, <1>3, <1>4, <1>5, <1>6, <1>7, <1>8, <1>9, <1>10, <1>11, <1>12, <1>13, <1>14,
     <1>15, <1>16, <1>17, <1>18, <1>19, <1>20, <1>21, <1>22, <1>23, <1>24, <1>25, <1>26, <1>27,
     <1>28, <1>29, <1>30, <1>31, <1>32, <1>33, <1>34, <1>35, <1>36, <1>37, <1>38, <1>39, <1>40,
     <1>41, <1>42 DEF Next, Begin, Step, Environment

-----------------------------------------------------------------------------
(* The theorems.                                                           *)

\* The inductive invariant the theorems are read off.
LEMMA Inductive == Spec => [](TypeOK /\ OnTrack /\ Mutex /\ Safe)
<1>1. Init => TypeOK /\ OnTrack /\ Mutex /\ Safe
  BY TypeInit, CacheAssumption DEF Init, Mutex, Safe, Bare, OutWhole, NoLoss, Knows, NoJob, Locked
<1>2. TypeOK /\ OnTrack /\ Mutex /\ Safe /\ [Next]_vars => (TypeOK /\ OnTrack /\ Mutex /\ Safe)'
  BY TypeNext, SafeNext
<1>. QED  BY <1>1, <1>2, PTL DEF Spec

\* The variables of every reachable state have the types Cache gives them:
\* in particular every process that deletes, moves or registers an artifact
\* has named one.
THEOREM TypeCorrect == Spec => []TypeOK
BY Inductive, PTL

\* Only the holder of the flock is inside Cache._locked.
THEOREM MutualExclusion == Spec => []Mutex
BY Inductive, PTL

\* No interleaving, crash or store failure loses an artifact that was produced
\* here: it is whole in the output directory, in the cache or in the store.
THEOREM NothingLost == Spec => []NoLoss
<1>. Safe => NoLoss
  BY DEF Safe
<1>. QED  BY Inductive, PTL

\* What eviction, collection and publish delete is in the store, from the
\* first file removed to the last.
THEOREM DeletionsVerified == Spec => []DeletionVerified
<1>. Safe => DeletionVerified
  BY DEF Safe, Knows, DeletionVerified
<1>. QED  BY Inductive, PTL

-----------------------------------------------------------------------------
(* A step of another process.                                              *)

\* Only a lease taken late and a verification that is reported happen outside
\* the lock.
LEMMA StepOutside ==
  ASSUME NEW q \in Proc, pc[q] \notin Locked, Step(q)
  PROVE  LeaseAfter(q) \/ VerifyReport(q)
BY DEF Step, Locked, Reconcile, ResolveHit, AtRun, MissInCache, MissInStore, FetchFromStore,
   FetchFromHub, HubHasNot, Place, PlaceRefused, Return, Snapshot,
   PickOldest, CollectOver, VerifyPassed, NotVerified, Evict, EvictForced,
   EvictRefused, RemoveFile, RemoveDirectory, Forget, Upload, UploadOver, Checked, RemoveSource,
   ClearTarget, Move, WriteMarker, Register, SetPinned

\* While p is inside the lock, nobody else touches what the lock protects; at
\* most somebody takes a lease late.
LEMMA Outside ==
  ASSUME TypeOK, Mutex, NEW p \in Proc, pc[p] \in Locked,
         NEW q \in Proc \ {p}, Begin(q) \/ Step(q) \/ Environment(q)
  PROVE  /\ pc'[p] = pc[p] /\ job'[p] = job[p]
         /\ UNCHANGED <<rows, pinned, manifest, diskVars, store>>
         /\ leases' \subseteq leases \/ job[q].op = "hold" \/ pc[q] = "lease"
         /\ replicated' \subseteq replicated \/ pc[q] = "report"
<1>1. lock = p /\ pc[q] \notin Locked /\ NoProc # p
  BY CacheAssumption DEF Mutex, CacheAssumption
<1>2. pc'[p] = pc[p] /\ job'[p] = job[p]
  BY Frame
<1>. USE DEF rowVars, diskVars
<1>3. CASE Begin(q)
  BY <1>1, <1>2, <1>3 DEF Begin, BeginOnKey, BeginPublish, BeginAdd, BeginCollect, Enter, VerifyRead
<1>4. CASE Step(q)
  <2>1. LeaseAfter(q) \/ VerifyReport(q)
    BY <1>1, <1>4, StepOutside
  <2>. QED  BY <1>2, <2>1 DEF LeaseAfter, VerifyReport
<1>5. CASE Environment(q)
  BY <1>2, <1>5 DEF Environment, StoreFails, Finish, Leave, Crash, Release
<1>. QED  BY <1>3, <1>4, <1>5

\* Processes perform the operations they are given; only one of them takes
\* its lease late.
Asked ==
  /\ \A p \in Proc : job[p].op \in Ops \cup {"none"}
  /\ \A p \in Proc : pc[p] = "lease" => job[p].op = "hold"

\* They go on performing them.
LEMMA AskedNext ==
  ASSUME TypeOK, Asked, [Next]_vars
  PROVE  Asked'
<1>. USE DEF TypeOK, Asked
<1>1. ASSUME NEW p \in Proc, Begin(p) PROVE job'[p].op \in Ops /\ pc'[p] # "lease"
  <2>1. ASSUME NEW o \in Ops, NEW k \in Key, BeginOnKey(p, o, k) PROVE job'[p].op \in Ops /\ pc'[p] # "lease"
    BY <2>1 DEF BeginOnKey, Enter, NoJob, Goto
  <2>2. ASSUME NEW o \in Ops, NEW k \in Key, BeginPublish(p, o, k) PROVE job'[p].op \in Ops /\ pc'[p] # "lease"
    BY <2>2 DEF BeginPublish, Enter, NoJob, Goto
  <2>3. ASSUME NEW o \in Ops, NEW k \in Key, BeginAdd(p, o, k) PROVE job'[p].op \in Ops /\ pc'[p] # "lease"
    BY <2>3 DEF BeginAdd, Enter, NoJob, Goto
  <2>4. ASSUME NEW o \in Ops, NEW n \in Needs, BeginCollect(p, o, n) PROVE job'[p].op \in Ops /\ pc'[p] # "lease"
    BY <2>4 DEF BeginCollect, Enter, NoJob, Goto
  <2>5. ASSUME NEW k \in Key, VerifyRead(p, k) PROVE job'[p].op \in Ops /\ pc'[p] # "lease"
    BY <2>5 DEF VerifyRead, NoJob, Goto
  <2>. QED  BY <1>1, <2>1, <2>2, <2>3, <2>4, <2>5 DEF Begin
<1>2. ASSUME NEW p \in Proc, Step(p)
      PROVE  /\ job'[p].op \in {job[p].op, "none"}
             /\ pc'[p] = "lease" => job'[p].op = "hold"
  <2>. USE DEF Job
  <2>1. CASE Reconcile(p)
    BY <2>1 DEF Reconcile, Goto
  <2>2. CASE ResolveHit(p)
    BY <2>2 DEF ResolveHit, AtRun, Goto
  <2>3. CASE MissInCache(p)
    BY <2>3 DEF MissInCache, AtRun, Goto
  <2>4. CASE MissInStore(p)
    BY <2>4 DEF MissInStore, AtRun, Goto
  <2>5. CASE FetchFromStore(p)
    BY <2>5 DEF FetchFromStore, Goto
  <2>6. CASE FetchFromHub(p)
    BY <2>6 DEF FetchFromHub, Goto
  <2>7. CASE HubHasNot(p)
    BY <2>7 DEF HubHasNot, Finish, Leave, Goto, NoJob
  <2>8. CASE Place(p)
    BY <2>8 DEF Place, Goto
  <2>9. CASE PlaceRefused(p)
    BY <2>9 DEF PlaceRefused, Finish, Leave, Goto, NoJob
  <2>10. CASE Return(p)
    BY <2>10 DEF Return, Finish, Leave, Goto, NoJob
  <2>11. CASE LeaseAfter(p)
    BY <2>11 DEF LeaseAfter, Goto, NoJob
  <2>12. CASE Snapshot(p)
    BY <2>12 DEF Snapshot, Goto
  <2>13. CASE PickOldest(p)
    BY <2>13 DEF PickOldest, Goto
  <2>14. CASE CollectOver(p)
    BY <2>14 DEF CollectOver, Finish, Leave, Goto, NoJob
  <2>15. CASE VerifyPassed(p)
    BY <2>15 DEF VerifyPassed, Goto
  <2>16. CASE NotVerified(p)
    BY <2>16 DEF NotVerified, Finish, Leave, Goto, NoJob
  <2>17. CASE VerifyReport(p)
    BY <2>17 DEF VerifyReport, Goto, NoJob
  <2>18. CASE Evict(p)
    BY <2>18 DEF Evict, AtRun, Goto
  <2>19. CASE EvictForced(p)
    BY <2>19 DEF EvictForced, AtRun, Goto
  <2>20. CASE EvictRefused(p)
    BY <2>20 DEF EvictRefused, Finish, Leave, Goto, NoJob
  <2>21. CASE RemoveFile(p)
    BY <2>21 DEF RemoveFile
  <2>22. CASE RemoveDirectory(p)
    BY <2>22 DEF RemoveDirectory, Goto
  <2>23. CASE Forget(p)
    BY <2>23 DEF Forget, Finish, Leave, Goto, NoJob
  <2>24. CASE Upload(p)
    BY <2>24 DEF Upload
  <2>25. CASE UploadOver(p)
    BY <2>25 DEF UploadOver, Goto
  <2>26. CASE Checked(p)
    BY <2>26 DEF Checked, Goto
  <2>27. CASE RemoveSource(p)
    BY <2>27 DEF RemoveSource, Finish, Leave, Goto, NoJob
  <2>28. CASE ClearTarget(p)
    BY <2>28 DEF ClearTarget, Goto
  <2>29. CASE Move(p)
    BY <2>29 DEF Move, Goto
  <2>30. CASE WriteMarker(p)
    BY <2>30 DEF WriteMarker, Goto
  <2>31. CASE Register(p)
    BY <2>31 DEF Register, Finish, Leave, Goto, NoJob
  <2>32. CASE SetPinned(p)
    BY <2>32 DEF SetPinned, AtRun, Finish, Leave, Goto, NoJob
  <2>. QED
    BY <1>2, <2>1, <2>2, <2>3, <2>4, <2>5, <2>6, <2>7, <2>8, <2>9, <2>10, <2>11, <2>12, <2>13, <2>14,
       <2>15, <2>16, <2>17, <2>18, <2>19, <2>20, <2>21, <2>22, <2>23, <2>24, <2>25, <2>26,
       <2>27, <2>28, <2>29, <2>30, <2>31, <2>32 DEF Step
<1>3. ASSUME NEW p \in Proc, Environment(p)
      PROVE  job'[p].op \in {job[p].op, "none"} /\ pc'[p] # "lease"
  <2>1. CASE StoreFails(p) \/ Crash(p)
    BY <2>1 DEF StoreFails, Finish, Leave, Goto, Crash, NoJob
  <2>2. CASE \E k \in Key : Release(p, k)
    BY <2>2 DEF Release
  <2>. QED  BY <1>3, <2>1, <2>2 DEF Environment
<1>4. ASSUME NEW p \in Proc, Begin(p) \/ Step(p) \/ Environment(p) PROVE Asked'
  BY <1>1, <1>2, <1>3, <1>4, Frame
<1>5. ASSUME NEW k \in Key, Produce(k) PROVE Asked'
  BY <1>5 DEF Produce
<1>6. CASE UNCHANGED vars
  BY <1>6 DEF vars
<1>. QED  BY <1>4, <1>5, <1>6 DEF Next

-----------------------------------------------------------------------------
(* What collection, eviction and publish spare.                            *)

\* What a process at this point is about to remove, or may choose to, is not
\* of K.
SparesAt(at, j, K) ==
  /\ at \in {"collect", "verify", "rmtree", "forget"} /\ j.op \in Reclaiming => j.todo \cap K = {}
  /\ at \in {"verify", "rmtree", "forget"} /\ j.op # "force" => j.victim \notin K

\* publish of the cached directory is about to remove it.
AtPublishHere(p) == pc[p] = "check" /\ job[p].op = "publishHere" /\ ~Leased(job[p].key)

\* A step spares what the candidates it reads, and the directory it publishes
\* in place, do not include.

LEMMA SparesStep ==
  ASSUME TypeOK, OnTrack, NEW p \in Proc, Step(p), NEW K,
         SparesAt(pc[p], job[p], K),
         Candidates \cap K = {},
         AtPublishHere(p) => job[p].key \notin K
  PROVE  SparesAt(pc'[p], job'[p], K)
<1>. USE DEF TypeOK, SparesAt, Job, Reclaiming, Resolving, Adding, Collecting
<1>1. CASE Reconcile(p)
  BY <1>1 DEF Reconcile, Goto
<1>2. CASE ResolveHit(p)
  BY <1>2 DEF ResolveHit, AtRun, Goto
<1>3. CASE MissInCache(p)
  BY <1>3 DEF MissInCache, AtRun, Goto
<1>4. CASE MissInStore(p)
  BY <1>4 DEF MissInStore, AtRun, Goto
<1>5. CASE FetchFromStore(p)
  BY <1>5 DEF FetchFromStore, Goto
<1>6. CASE FetchFromHub(p)
  BY <1>6 DEF FetchFromHub, Goto
<1>7. CASE HubHasNot(p)
  BY <1>7 DEF HubHasNot, Finish, Leave, Goto, NoJob
<1>8. CASE Place(p)
  BY <1>8 DEF Place, Goto
<1>9. CASE PlaceRefused(p)
  BY <1>9 DEF PlaceRefused, Finish, Leave, Goto, NoJob
<1>10. CASE Return(p)
  BY <1>10 DEF Return, Finish, Leave, Goto, NoJob
<1>11. CASE LeaseAfter(p)
  BY <1>11 DEF LeaseAfter, Goto, NoJob
<1>12. CASE Snapshot(p)
  BY <1>12 DEF Snapshot, Goto
<1>13. CASE PickOldest(p)
  BY <1>13 DEF PickOldest, Goto
<1>14. CASE CollectOver(p)
  BY <1>14 DEF CollectOver, Finish, Leave, Goto, NoJob
<1>15. CASE VerifyPassed(p)
  BY <1>15 DEF VerifyPassed, Goto
<1>16. CASE NotVerified(p)
  BY <1>16 DEF NotVerified, Finish, Leave, Goto, NoJob
<1>17. CASE VerifyReport(p)
  BY <1>17 DEF VerifyReport, Goto, NoJob
<1>18. CASE Evict(p)
  BY <1>18 DEF Evict, AtRun, Goto
<1>19. CASE EvictForced(p)
  BY <1>19 DEF EvictForced, AtRun, Goto
<1>20. CASE EvictRefused(p)
  BY <1>20 DEF EvictRefused, Finish, Leave, Goto, NoJob
<1>21. CASE RemoveFile(p)
  BY <1>21 DEF RemoveFile
<1>22. CASE RemoveDirectory(p)
  BY <1>22 DEF RemoveDirectory, Goto
<1>23. CASE Forget(p)
  BY <1>23 DEF Forget, Finish, Leave, Goto, NoJob
<1>24. CASE Upload(p)
  BY <1>24 DEF Upload
<1>25. CASE UploadOver(p)
  BY <1>25 DEF UploadOver, Goto
<1>26. CASE Checked(p)
  <2>1. pc[p] = "check" /\ job[p].op \notin {"evict", "force"} \cup Collecting
    BY <1>26 DEF Checked, OnTrack, OnTrackAt, Publishing, InPlace
  <2>2. job'[p].op = job[p].op
    BY <1>26 DEF Checked
  <2>3. CASE job[p].op = "publishHere" /\ ~Leased(job[p].key)
    <3>1. pc'[p] = "rmtree" /\ job'[p].victim = job[p].key
      BY <1>26, <2>3 DEF Checked, Goto, Publishing, InPlace
    <3>. QED  BY <2>1, <2>2, <2>3, <3>1 DEF AtPublishHere
  <2>4. CASE ~(job[p].op = "publishHere" /\ ~Leased(job[p].key))
    <3>1. pc'[p] \in {"place", "rmsrc", "reconcile", "register", "marker"}
      BY <1>26, <2>4 DEF Checked, Goto
    <3>. QED  BY <3>1
  <2>. QED  BY <2>3, <2>4
<1>27. CASE RemoveSource(p)
  BY <1>27 DEF RemoveSource, Finish, Leave, Goto, NoJob
<1>28. CASE ClearTarget(p)
  BY <1>28 DEF ClearTarget, Goto
<1>29. CASE Move(p)
  BY <1>29 DEF Move, Goto
<1>30. CASE WriteMarker(p)
  BY <1>30 DEF WriteMarker, Goto
<1>31. CASE Register(p)
  BY <1>31 DEF Register, Finish, Leave, Goto, NoJob
<1>32. CASE SetPinned(p)
  BY <1>32 DEF SetPinned, AtRun, Finish, Leave, Goto, NoJob
<1>. QED
  BY <1>1, <1>2, <1>3, <1>4, <1>5, <1>6, <1>7, <1>8, <1>9, <1>10, <1>11, <1>12, <1>13, <1>14,
     <1>15, <1>16, <1>17, <1>18, <1>19, <1>20, <1>21, <1>22, <1>23, <1>24, <1>25, <1>26, <1>27,
     <1>28, <1>29, <1>30, <1>31, <1>32 DEF Step

\* The keys in use, of which no process may be about to remove anything.
InUse == {k \in Key : Leased(k)}

LeaseInv == \A p \in Proc : SparesAt(pc[p], job[p], InUse)
PinInv   == \A p \in Proc : SparesAt(pc[p], job[p], pinned)

\* Leases are added at the end of resolve, inside the lock or after it.
LEMMA LeasesGrow ==
  ASSUME TypeOK, NEW p \in Proc, Step(p), ~(leases' \subseteq leases)
  PROVE  pc[p] = "lease" \/ (pc[p] = "return" /\ pc'[p] = "idle")
<1>. USE DEF TypeOK
<1>1. CASE Reconcile(p)
  BY <1>1 DEF Reconcile, Goto
<1>2. CASE ResolveHit(p)
  BY <1>2 DEF ResolveHit, AtRun, Goto
<1>3. CASE MissInCache(p)
  BY <1>3 DEF MissInCache, AtRun, Goto
<1>4. CASE MissInStore(p)
  BY <1>4 DEF MissInStore, AtRun, Goto
<1>5. CASE FetchFromStore(p)
  BY <1>5 DEF FetchFromStore, Goto
<1>6. CASE FetchFromHub(p)
  BY <1>6 DEF FetchFromHub, Goto
<1>7. CASE HubHasNot(p)
  BY <1>7 DEF HubHasNot, Finish, Leave, Goto, NoJob
<1>8. CASE Place(p)
  BY <1>8 DEF Place, Goto
<1>9. CASE PlaceRefused(p)
  BY <1>9 DEF PlaceRefused, Finish, Leave, Goto, NoJob
<1>10. CASE Return(p)
  BY <1>10 DEF Return, Finish, Leave, Goto, NoJob
<1>11. CASE LeaseAfter(p)
  BY <1>11 DEF LeaseAfter, Goto, NoJob
<1>12. CASE Snapshot(p)
  BY <1>12 DEF Snapshot, Goto
<1>13. CASE PickOldest(p)
  BY <1>13 DEF PickOldest, Goto
<1>14. CASE CollectOver(p)
  BY <1>14 DEF CollectOver, Finish, Leave, Goto, NoJob
<1>15. CASE VerifyPassed(p)
  BY <1>15 DEF VerifyPassed, Goto
<1>16. CASE NotVerified(p)
  BY <1>16 DEF NotVerified, Finish, Leave, Goto, NoJob
<1>17. CASE VerifyReport(p)
  BY <1>17 DEF VerifyReport, Goto, NoJob
<1>18. CASE Evict(p)
  BY <1>18 DEF Evict, AtRun, Goto
<1>19. CASE EvictForced(p)
  BY <1>19 DEF EvictForced, AtRun, Goto
<1>20. CASE EvictRefused(p)
  BY <1>20 DEF EvictRefused, Finish, Leave, Goto, NoJob
<1>21. CASE RemoveFile(p)
  BY <1>21 DEF RemoveFile
<1>22. CASE RemoveDirectory(p)
  BY <1>22 DEF RemoveDirectory, Goto
<1>23. CASE Forget(p)
  BY <1>23 DEF Forget, Finish, Leave, Goto, NoJob
<1>24. CASE Upload(p)
  BY <1>24 DEF Upload
<1>25. CASE UploadOver(p)
  BY <1>25 DEF UploadOver, Goto
<1>26. CASE Checked(p)
  BY <1>26 DEF Checked, Goto
<1>27. CASE RemoveSource(p)
  BY <1>27 DEF RemoveSource, Finish, Leave, Goto, NoJob
<1>28. CASE ClearTarget(p)
  BY <1>28 DEF ClearTarget, Goto
<1>29. CASE Move(p)
  BY <1>29 DEF Move, Goto
<1>30. CASE WriteMarker(p)
  BY <1>30 DEF WriteMarker, Goto
<1>31. CASE Register(p)
  BY <1>31 DEF Register, Finish, Leave, Goto, NoJob
<1>32. CASE SetPinned(p)
  BY <1>32 DEF SetPinned, AtRun, Finish, Leave, Goto, NoJob
<1>. QED
  BY <1>1, <1>2, <1>3, <1>4, <1>5, <1>6, <1>7, <1>8, <1>9, <1>10, <1>11, <1>12, <1>13, <1>14,
     <1>15, <1>16, <1>17, <1>18, <1>19, <1>20, <1>21, <1>22, <1>23, <1>24, <1>25, <1>26, <1>27,
     <1>28, <1>29, <1>30, <1>31, <1>32 DEF Step

\* Pins are added at the end of an operation inside the lock.
LEMMA PinsGrow ==
  ASSUME TypeOK, NEW p \in Proc, Step(p), ~(pinned' \subseteq pinned)
  PROVE  pc[p] = "run" /\ pc'[p] = "idle"
<1>. USE DEF TypeOK, rowVars
<1>1. CASE Reconcile(p)
  BY <1>1 DEF Reconcile, Goto
<1>2. CASE ResolveHit(p)
  BY <1>2 DEF ResolveHit, AtRun, Goto
<1>3. CASE MissInCache(p)
  BY <1>3 DEF MissInCache, AtRun, Goto
<1>4. CASE MissInStore(p)
  BY <1>4 DEF MissInStore, AtRun, Goto
<1>5. CASE FetchFromStore(p)
  BY <1>5 DEF FetchFromStore, Goto
<1>6. CASE FetchFromHub(p)
  BY <1>6 DEF FetchFromHub, Goto
<1>7. CASE HubHasNot(p)
  BY <1>7 DEF HubHasNot, Finish, Leave, Goto, NoJob
<1>8. CASE Place(p)
  BY <1>8 DEF Place, Goto
<1>9. CASE PlaceRefused(p)
  BY <1>9 DEF PlaceRefused, Finish, Leave, Goto, NoJob
<1>10. CASE Return(p)
  BY <1>10 DEF Return, Finish, Leave, Goto, NoJob
<1>11. CASE LeaseAfter(p)
  BY <1>11 DEF LeaseAfter, Goto, NoJob
<1>12. CASE Snapshot(p)
  BY <1>12 DEF Snapshot, Goto
<1>13. CASE PickOldest(p)
  BY <1>13 DEF PickOldest, Goto
<1>14. CASE CollectOver(p)
  BY <1>14 DEF CollectOver, Finish, Leave, Goto, NoJob
<1>15. CASE VerifyPassed(p)
  BY <1>15 DEF VerifyPassed, Goto
<1>16. CASE NotVerified(p)
  BY <1>16 DEF NotVerified, Finish, Leave, Goto, NoJob
<1>17. CASE VerifyReport(p)
  BY <1>17 DEF VerifyReport, Goto, NoJob
<1>18. CASE Evict(p)
  BY <1>18 DEF Evict, AtRun, Goto
<1>19. CASE EvictForced(p)
  BY <1>19 DEF EvictForced, AtRun, Goto
<1>20. CASE EvictRefused(p)
  BY <1>20 DEF EvictRefused, Finish, Leave, Goto, NoJob
<1>21. CASE RemoveFile(p)
  BY <1>21 DEF RemoveFile
<1>22. CASE RemoveDirectory(p)
  BY <1>22 DEF RemoveDirectory, Goto
<1>23. CASE Forget(p)
  BY <1>23 DEF Forget, Finish, Leave, Goto, NoJob
<1>24. CASE Upload(p)
  BY <1>24 DEF Upload
<1>25. CASE UploadOver(p)
  BY <1>25 DEF UploadOver, Goto
<1>26. CASE Checked(p)
  BY <1>26 DEF Checked, Goto
<1>27. CASE RemoveSource(p)
  BY <1>27 DEF RemoveSource, Finish, Leave, Goto, NoJob
<1>28. CASE ClearTarget(p)
  BY <1>28 DEF ClearTarget, Goto
<1>29. CASE Move(p)
  BY <1>29 DEF Move, Goto
<1>30. CASE WriteMarker(p)
  BY <1>30 DEF WriteMarker, Goto
<1>31. CASE Register(p)
  BY <1>31 DEF Register, Finish, Leave, Goto, NoJob
<1>32. CASE SetPinned(p)
  BY <1>32 DEF SetPinned, AtRun, Finish, Leave, Goto, NoJob
<1>. QED
  BY <1>1, <1>2, <1>3, <1>4, <1>5, <1>6, <1>7, <1>8, <1>9, <1>10, <1>11, <1>12, <1>13, <1>14,
     <1>15, <1>16, <1>17, <1>18, <1>19, <1>20, <1>21, <1>22, <1>23, <1>24, <1>25, <1>26, <1>27,
     <1>28, <1>29, <1>30, <1>31, <1>32 DEF Step

\* What a step of a process outside Step leaves it to do.
LEMMA NotInside ==
  ASSUME TypeOK, NEW p \in Proc, Begin(p) \/ Environment(p)
  PROVE  /\ pc'[p] \in {"reconcile", "upload", "report", "idle"}
         /\ leases' \subseteq leases /\ UNCHANGED <<rowVars, diskVars, store>>
<1>. USE DEF TypeOK
<1>1. ASSUME NEW o \in Ops, NEW k \in Key, BeginOnKey(p, o, k) \/ BeginPublish(p, o, k) \/ BeginAdd(p, o, k)
      PROVE  pc'[p] \in {"reconcile", "upload"} /\ UNCHANGED <<rowVars, leases, diskVars, store>>
  BY <1>1 DEF BeginOnKey, BeginPublish, BeginAdd, Enter, Goto
<1>2. ASSUME NEW o \in Ops, NEW n \in Needs, BeginCollect(p, o, n)
      PROVE  pc'[p] = "reconcile" /\ UNCHANGED <<rowVars, leases, diskVars, store>>
  BY <1>2 DEF BeginCollect, Enter, Goto
<1>3. ASSUME NEW k \in Key, VerifyRead(p, k)
      PROVE  pc'[p] = "report" /\ UNCHANGED <<rowVars, leases, diskVars, store>>
  BY <1>3 DEF VerifyRead, Goto
<1>4. CASE StoreFails(p) \/ Crash(p)
  BY <1>4 DEF StoreFails, Finish, Leave, Crash, Goto
<1>5. ASSUME NEW k \in Key, Release(p, k)
      PROVE  pc'[p] = "idle" /\ leases' \subseteq leases /\ UNCHANGED <<rowVars, diskVars, store>>
  BY <1>5 DEF Release
<1>. QED  BY <1>1, <1>2, <1>3, <1>4, <1>5 DEF Begin, Environment

\* Nothing in use is about to go, when leases are taken under the lock.
LEMMA LeaseNext ==
  ASSUME TypeOK, OnTrack, Mutex, Asked, LeaseInv, "hold" \notin Ops, [Next]_vars
  PROVE  LeaseInv'
<1>. USE DEF TypeOK
<1>1. \A p \in Proc : job[p].op # "hold" /\ pc[p] # "lease"
  BY DEF Asked
<1>2. leases' \subseteq leases => InUse' \subseteq InUse
  BY DEF InUse, Leased
<1>3. ASSUME NEW p \in Proc, Begin(p) \/ Step(p) \/ Environment(p), NEW q \in Proc
      PROVE  SparesAt(pc'[q], job'[q], InUse')
  <2>1. CASE q # p /\ pc[q] \in Locked
    <3>1. pc'[q] = pc[q] /\ job'[q] = job[q] /\ leases' \subseteq leases
      BY <1>1, <1>3, <2>1, Outside
    <3>. QED  BY <1>2, <3>1 DEF LeaseInv, SparesAt
  <2>2. CASE q # p /\ pc[q] \notin Locked
    <3>1. pc'[q] \notin Locked
      BY <1>3, <2>2, Frame
    <3>. QED  BY <3>1 DEF SparesAt, Locked
  <2>3. CASE q = p /\ (Begin(p) \/ Environment(p))
    BY <2>3, NotInside DEF SparesAt
  <2>4. CASE q = p /\ Step(p) /\ leases' \subseteq leases
    <3>1. Candidates \cap InUse = {}
      BY DEF Candidates, InUse
    <3>2. AtPublishHere(p) => job[p].key \notin InUse
      BY DEF AtPublishHere, InUse
    <3>3. SparesAt(pc'[p], job'[p], InUse)
      BY <2>4, <3>1, <3>2, SparesStep DEF LeaseInv
    <3>. QED  BY <1>2, <2>4, <3>3 DEF SparesAt
  <2>5. CASE q = p /\ Step(p) /\ ~(leases' \subseteq leases)
    BY <1>1, <2>5, LeasesGrow DEF SparesAt
  <2>. QED  BY <1>3, <2>1, <2>2, <2>3, <2>4, <2>5
<1>4. ASSUME NEW k \in Key, Produce(k) PROVE LeaseInv'
  BY <1>4 DEF Produce, LeaseInv, SparesAt, InUse, Leased
<1>5. CASE UNCHANGED vars
  BY <1>5 DEF vars, LeaseInv, SparesAt, InUse, Leased
<1>. QED  BY <1>3, <1>4, <1>5 DEF Next, LeaseInv

\* Nothing kept is about to go, when no directory of the cache is published.
LEMMA PinNext ==
  ASSUME TypeOK, OnTrack, Mutex, Asked, PinInv, "publishHere" \notin Ops, [Next]_vars
  PROVE  PinInv'
<1>. USE DEF TypeOK
<1>1. \A p \in Proc : job[p].op # "publishHere"
  BY DEF Asked
<1>3. ASSUME NEW p \in Proc, Begin(p) \/ Step(p) \/ Environment(p), NEW q \in Proc
      PROVE  SparesAt(pc'[q], job'[q], pinned')
  <2>1. CASE q # p /\ pc[q] \in Locked
    <3>1. pc'[q] = pc[q] /\ job'[q] = job[q] /\ UNCHANGED pinned
      BY <1>3, <2>1, Outside
    <3>. QED  BY <3>1 DEF PinInv, SparesAt
  <2>2. CASE q # p /\ pc[q] \notin Locked
    <3>1. pc'[q] \notin Locked
      BY <1>3, <2>2, Frame
    <3>. QED  BY <3>1 DEF SparesAt, Locked
  <2>3. CASE q = p /\ (Begin(p) \/ Environment(p))
    BY <2>3, NotInside DEF SparesAt
  <2>4. CASE q = p /\ Step(p) /\ pinned' \subseteq pinned
    <3>1. Candidates \cap pinned = {}
      BY DEF Candidates
    <3>2. ~AtPublishHere(p)
      BY <1>1 DEF AtPublishHere
    <3>3. SparesAt(pc'[p], job'[p], pinned)
      BY <2>4, <3>1, <3>2, SparesStep DEF PinInv
    <3>. QED  BY <2>4, <3>3 DEF SparesAt
  <2>5. CASE q = p /\ Step(p) /\ ~(pinned' \subseteq pinned)
    BY <2>5, PinsGrow DEF SparesAt
  <2>. QED  BY <1>3, <2>1, <2>2, <2>3, <2>4, <2>5
<1>4. ASSUME NEW k \in Key, Produce(k) PROVE PinInv'
  BY <1>4 DEF Produce, PinInv, SparesAt, rowVars
<1>5. CASE UNCHANGED vars
  BY <1>5 DEF vars, PinInv, SparesAt, rowVars
<1>. QED  BY <1>3, <1>4, <1>5 DEF Next, PinInv

\* Whoever moves an artifact into the cache has cleared its place.
Cleared == \A p \in Proc : pc[p] = "move" => files[job[p].key] = {}

\* CollectOver finds no directory there, or ClearTarget has emptied it.
LEMMA ClearedStep ==
  ASSUME TypeOK, OnTrack, Bare, NEW p \in Proc, Step(p), pc'[p] = "move"
  PROVE  files'[job'[p].key] = {}
<1>. USE DEF TypeOK, OnTrack, OnTrackAt, Bare, Job, diskVars
<1>1. CASE Reconcile(p)
  BY <1>1 DEF Reconcile, Goto
<1>2. CASE ResolveHit(p)
  BY <1>2 DEF ResolveHit, AtRun, Goto
<1>3. CASE MissInCache(p)
  BY <1>3 DEF MissInCache, AtRun, Goto
<1>4. CASE MissInStore(p)
  BY <1>4 DEF MissInStore, AtRun, Goto
<1>5. CASE FetchFromStore(p)
  BY <1>5 DEF FetchFromStore, Goto
<1>6. CASE FetchFromHub(p)
  BY <1>6 DEF FetchFromHub, Goto
<1>7. CASE HubHasNot(p)
  BY <1>7 DEF HubHasNot, Finish, Leave, Goto, NoJob
<1>8. CASE Place(p)
  BY <1>8 DEF Place, Goto
<1>9. CASE PlaceRefused(p)
  BY <1>9 DEF PlaceRefused, Finish, Leave, Goto, NoJob
<1>10. CASE Return(p)
  BY <1>10 DEF Return, Finish, Leave, Goto, NoJob
<1>11. CASE LeaseAfter(p)
  BY <1>11 DEF LeaseAfter, Goto, NoJob
<1>12. CASE Snapshot(p)
  BY <1>12 DEF Snapshot, Goto
<1>13. CASE PickOldest(p)
  BY <1>13 DEF PickOldest, Goto
<1>14. CASE CollectOver(p)
  BY <1>14 DEF CollectOver, Finish, Leave, Goto, NoJob
<1>15. CASE VerifyPassed(p)
  BY <1>15 DEF VerifyPassed, Goto
<1>16. CASE NotVerified(p)
  BY <1>16 DEF NotVerified, Finish, Leave, Goto, NoJob
<1>17. CASE VerifyReport(p)
  BY <1>17 DEF VerifyReport, Goto, NoJob
<1>18. CASE Evict(p)
  BY <1>18 DEF Evict, AtRun, Goto
<1>19. CASE EvictForced(p)
  BY <1>19 DEF EvictForced, AtRun, Goto
<1>20. CASE EvictRefused(p)
  BY <1>20 DEF EvictRefused, Finish, Leave, Goto, NoJob
<1>21. CASE RemoveFile(p)
  BY <1>21 DEF RemoveFile
<1>22. CASE RemoveDirectory(p)
  BY <1>22 DEF RemoveDirectory, Goto
<1>23. CASE Forget(p)
  BY <1>23 DEF Forget, Finish, Leave, Goto, NoJob
<1>24. CASE Upload(p)
  BY <1>24 DEF Upload
<1>25. CASE UploadOver(p)
  BY <1>25 DEF UploadOver, Goto
<1>26. CASE Checked(p)
  BY <1>26 DEF Checked, Goto
<1>27. CASE RemoveSource(p)
  BY <1>27 DEF RemoveSource, Finish, Leave, Goto, NoJob
<1>28. CASE ClearTarget(p)
  BY <1>28 DEF ClearTarget, Goto
<1>29. CASE Move(p)
  BY <1>29 DEF Move, Goto
<1>30. CASE WriteMarker(p)
  BY <1>30 DEF WriteMarker, Goto
<1>31. CASE Register(p)
  BY <1>31 DEF Register, Finish, Leave, Goto, NoJob
<1>32. CASE SetPinned(p)
  BY <1>32 DEF SetPinned, AtRun, Finish, Leave, Goto, NoJob
<1>. QED
  BY <1>1, <1>2, <1>3, <1>4, <1>5, <1>6, <1>7, <1>8, <1>9, <1>10, <1>11, <1>12, <1>13, <1>14,
     <1>15, <1>16, <1>17, <1>18, <1>19, <1>20, <1>21, <1>22, <1>23, <1>24, <1>25, <1>26, <1>27,
     <1>28, <1>29, <1>30, <1>31, <1>32 DEF Step

\* Nobody else puts anything there meanwhile.
LEMMA ClearedNext ==
  ASSUME TypeOK, OnTrack, Mutex, Bare, Cleared, [Next]_vars
  PROVE  Cleared'
<1>1. ASSUME NEW p \in Proc, Begin(p) \/ Step(p) \/ Environment(p), NEW q \in Proc, pc'[q] = "move"
      PROVE  files'[job'[q].key] = {}
  <2>1. CASE q # p
    <3>1. pc[q] = "move"
      BY <1>1, <2>1, Frame
    <3>2. pc[q] \in Locked
      BY <3>1 DEF Locked
    <3>3. job'[q] = job[q] /\ files' = files
      BY <1>1, <2>1, <3>2, Outside DEF diskVars
    <3>. QED  BY <3>1, <3>3 DEF Cleared
  <2>2. CASE q = p /\ Step(p)
    BY <1>1, <2>2, ClearedStep
  <2>3. CASE q = p /\ ~Step(p)
    BY <1>1, <2>3, NotInside
  <2>. QED  BY <2>1, <2>2, <2>3
<1>2. ASSUME NEW k \in Key, Produce(k) PROVE Cleared'
  BY <1>2 DEF Produce, Cleared
<1>3. CASE UNCHANGED vars
  BY <1>3 DEF vars, Cleared, diskVars
<1>. QED  BY <1>1, <1>2, <1>3 DEF Next, Cleared

\* Files only leave the cache at the hands of a process that removes them: as
\* those of its victim, or to put others in their place.
LEMMA OnlyRemoved ==
  ASSUME TypeOK, OnTrack, Cleared, NEW k \in Key, NEW p \in Proc, Step(p),
         ~(Content(k) \subseteq Content(k)')
  PROVE  (pc[p] = "rmtree" /\ job[p].victim = k) \/ (pc[p] = "clear" /\ job[p].key = k)
<1>. USE DEF TypeOK, OnTrack, OnTrackAt, Cleared, Content, diskVars
<1>1. CASE Reconcile(p)
  BY <1>1 DEF Reconcile, Goto
<1>2. CASE ResolveHit(p)
  BY <1>2 DEF ResolveHit, AtRun, Goto
<1>3. CASE MissInCache(p)
  BY <1>3 DEF MissInCache, AtRun, Goto
<1>4. CASE MissInStore(p)
  BY <1>4 DEF MissInStore, AtRun, Goto
<1>5. CASE FetchFromStore(p)
  BY <1>5 DEF FetchFromStore, Goto
<1>6. CASE FetchFromHub(p)
  BY <1>6 DEF FetchFromHub, Goto
<1>7. CASE HubHasNot(p)
  BY <1>7 DEF HubHasNot, Finish, Leave, Goto, NoJob
<1>8. CASE Place(p)
  BY <1>8 DEF Place, Goto
<1>9. CASE PlaceRefused(p)
  BY <1>9 DEF PlaceRefused, Finish, Leave, Goto, NoJob
<1>10. CASE Return(p)
  BY <1>10 DEF Return, Finish, Leave, Goto, NoJob
<1>11. CASE LeaseAfter(p)
  BY <1>11 DEF LeaseAfter, Goto, NoJob
<1>12. CASE Snapshot(p)
  BY <1>12 DEF Snapshot, Goto
<1>13. CASE PickOldest(p)
  BY <1>13 DEF PickOldest, Goto
<1>14. CASE CollectOver(p)
  BY <1>14 DEF CollectOver, Finish, Leave, Goto, NoJob
<1>15. CASE VerifyPassed(p)
  BY <1>15 DEF VerifyPassed, Goto
<1>16. CASE NotVerified(p)
  BY <1>16 DEF NotVerified, Finish, Leave, Goto, NoJob
<1>17. CASE VerifyReport(p)
  BY <1>17 DEF VerifyReport, Goto, NoJob
<1>18. CASE Evict(p)
  BY <1>18 DEF Evict, AtRun, Goto
<1>19. CASE EvictForced(p)
  BY <1>19 DEF EvictForced, AtRun, Goto
<1>20. CASE EvictRefused(p)
  BY <1>20 DEF EvictRefused, Finish, Leave, Goto, NoJob
<1>21. CASE RemoveFile(p)
  BY <1>21 DEF RemoveFile
<1>22. CASE RemoveDirectory(p)
  BY <1>22 DEF RemoveDirectory, Goto
<1>23. CASE Forget(p)
  BY <1>23 DEF Forget, Finish, Leave, Goto, NoJob
<1>24. CASE Upload(p)
  BY <1>24 DEF Upload
<1>25. CASE UploadOver(p)
  BY <1>25 DEF UploadOver, Goto
<1>26. CASE Checked(p)
  BY <1>26 DEF Checked, Goto
<1>27. CASE RemoveSource(p)
  BY <1>27 DEF RemoveSource, Finish, Leave, Goto, NoJob
<1>28. CASE ClearTarget(p)
  BY <1>28 DEF ClearTarget, Goto
<1>29. CASE Move(p)
  BY <1>29 DEF Move, Goto
<1>30. CASE WriteMarker(p)
  BY <1>30 DEF WriteMarker, Goto
<1>31. CASE Register(p)
  BY <1>31 DEF Register, Finish, Leave, Goto, NoJob
<1>32. CASE SetPinned(p)
  BY <1>32 DEF SetPinned, AtRun, Finish, Leave, Goto, NoJob
<1>. QED
  BY <1>1, <1>2, <1>3, <1>4, <1>5, <1>6, <1>7, <1>8, <1>9, <1>10, <1>11, <1>12, <1>13, <1>14,
     <1>15, <1>16, <1>17, <1>18, <1>19, <1>20, <1>21, <1>22, <1>23, <1>24, <1>25, <1>26, <1>27,
     <1>28, <1>29, <1>30, <1>31, <1>32 DEF Step

\* So what is reclaimed is reclaimed by a process that removes its victim, and
\* not by force.
LEMMA OnlyReclaimed ==
  ASSUME TypeOK, OnTrack, Cleared, NEW k \in Key, [Next]_vars, Reclaims(k)
  PROVE  \E p \in Proc : pc[p] = "rmtree" /\ job[p].victim = k /\ job[p].op # "force"
<1>. USE DEF Reclaims, Content
<1>1. ASSUME NEW p \in Proc, Begin(p) \/ Environment(p) PROVE FALSE
  BY <1>1, NotInside DEF diskVars
<1>2. ASSUME NEW p \in Proc, Step(p)
      PROVE  pc[p] = "rmtree" /\ job[p].victim = k /\ job[p].op # "force"
  BY <1>2, OnlyRemoved
<1>3. ~\E j \in Key : Produce(j)
  BY DEF Produce
<1>4. ~UNCHANGED vars
  BY DEF vars, diskVars
<1>. QED  BY <1>1, <1>2, <1>3, <1>4 DEF Next

\* README "Safety model", 2: what a live process holds a lease on is not
\* reclaimed, whatever is resolved, collected, evicted, published or
\* verified, whoever dies and however the store fails, as long as every lease
\* is taken under the lock (what "hold" does not do, cache.py:444).
THEOREM LeasesProtect ==
  ASSUME "hold" \notin Ops
  PROVE  Spec => LeaseProtects
<1>. DEFINE I == TypeOK /\ OnTrack /\ Mutex /\ Safe /\ Asked /\ Cleared /\ LeaseInv
<1>1. Init => I
  <2>1. Init => Safe /\ Mutex
    BY CacheAssumption DEF Init, Mutex, Safe, Bare, OutWhole, NoLoss, Knows, NoJob, Locked
  <2>. QED  BY <2>1, TypeInit DEF Init, Asked, Cleared, LeaseInv, SparesAt, NoJob
<1>2. I /\ [Next]_vars => I'
  BY TypeNext, SafeNext, AskedNext, ClearedNext, LeaseNext DEF Safe
<1>3. I /\ [Next]_vars => [\A k \in Key : Leased(k) => ~Reclaims(k)]_vars
  BY OnlyReclaimed DEF LeaseInv, SparesAt, InUse
<1>. QED  BY <1>1, <1>2, <1>3, PTL DEF Spec, LeaseProtects

\* README "Safety model", 1: what is kept on disk is not reclaimed, with late
\* leases as well, as long as no directory of the cache is published in place
\* (publish looks at the leases and not at the pin, cache.py:674).
THEOREM PinsProtect ==
  ASSUME "publishHere" \notin Ops
  PROVE  Spec => PinProtects
<1>. DEFINE I == TypeOK /\ OnTrack /\ Mutex /\ Safe /\ Asked /\ Cleared /\ PinInv
<1>1. Init => I
  <2>1. Init => Safe /\ Mutex
    BY CacheAssumption DEF Init, Mutex, Safe, Bare, OutWhole, NoLoss, Knows, NoJob, Locked
  <2>. QED  BY <2>1, TypeInit DEF Init, Asked, Cleared, PinInv, SparesAt, NoJob
<1>2. I /\ [Next]_vars => I'
  BY TypeNext, SafeNext, AskedNext, ClearedNext, PinNext DEF Safe
<1>3. I /\ [Next]_vars => [\A k \in pinned : ~Reclaims(k)]_vars
  BY OnlyReclaimed DEF PinInv, SparesAt, TypeOK
<1>. QED  BY <1>1, <1>2, <1>3, PTL DEF Spec, PinProtects

-----------------------------------------------------------------------------
(* The flag.                                                               *)

\* What a process knows of the store, and of the record of what it moves.
KnowsStore(p) ==
  LET k == job[p].key
      o == job[p].op
  IN /\ pc[p] = "place" => job[p].staged \subseteq store[k]
     /\ pc[p] \in {"marker", "register"} /\ o # "addOnly" => Content(k) \subseteq store[k]
     /\ pc[p] \in {"move", "upload", "check", "marker", "register"} /\ o \in Adding => k \notin rows
     /\ pc[p] \in {"run", "space", "collect", "verify"} => rows \subseteq present
     /\ pc[p] \in {"rmtree", "forget"} /\ o \in Reclaiming => rows \ {job[p].victim} \subseteq present

\* A step of p keeps what p knows.
LEMMA KnowsStoreStep ==
  ASSUME TypeOK, OnTrack, Safe, NEW p \in Proc, Step(p), KnowsStore(p)
  PROVE  KnowsStore(p)'
<1>. USE DEF TypeOK, OnTrack, OnTrackAt, KnowsStore, Content, Job, rowVars, diskVars, Resolving,
     Adding, Publishing, InPlace, Collecting, OnKey, Reclaiming
<1>0. Marker \notin File /\ (pc[p] = "move" /\ job[p].op \notin Adding => File \subseteq store[job[p].key])
  BY CacheAssumption DEF CacheAssumption, Safe, Knows, Locked
<1>1. CASE Reconcile(p)
  BY <1>1 DEF Reconcile, Goto
<1>2. CASE ResolveHit(p)
  BY <1>2 DEF ResolveHit, AtRun, Goto
<1>3. CASE MissInCache(p)
  BY <1>3 DEF MissInCache, AtRun, Goto
<1>4. CASE MissInStore(p)
  BY <1>4 DEF MissInStore, AtRun, Goto
<1>5. CASE FetchFromStore(p)
  BY <1>5 DEF FetchFromStore, Goto
<1>6. CASE FetchFromHub(p)
  BY <1>6 DEF FetchFromHub, Goto
<1>7. CASE HubHasNot(p)
  BY <1>7 DEF HubHasNot, Finish, Leave, Goto, NoJob
<1>8. CASE Place(p)
  BY <1>0, <1>8 DEF Place, Goto
<1>9. CASE PlaceRefused(p)
  BY <1>9 DEF PlaceRefused, Finish, Leave, Goto, NoJob
<1>10. CASE Return(p)
  BY <1>10 DEF Return, Finish, Leave, Goto, NoJob
<1>11. CASE LeaseAfter(p)
  BY <1>11 DEF LeaseAfter, Goto, NoJob
<1>12. CASE Snapshot(p)
  BY <1>12 DEF Snapshot, Goto
<1>13. CASE PickOldest(p)
  BY <1>13 DEF PickOldest, Goto
<1>14. CASE CollectOver(p)
  BY <1>14 DEF CollectOver, Finish, Leave, Goto, NoJob
<1>15. CASE VerifyPassed(p)
  BY <1>15 DEF VerifyPassed, Goto
<1>16. CASE NotVerified(p)
  BY <1>16 DEF NotVerified, Finish, Leave, Goto, NoJob
<1>17. CASE VerifyReport(p)
  BY <1>17 DEF VerifyReport, Goto, NoJob
<1>18. CASE Evict(p)
  BY <1>18 DEF Evict, AtRun, Goto
<1>19. CASE EvictForced(p)
  BY <1>19 DEF EvictForced, AtRun, Goto
<1>20. CASE EvictRefused(p)
  BY <1>20 DEF EvictRefused, Finish, Leave, Goto, NoJob
<1>21. CASE RemoveFile(p)
  BY <1>21 DEF RemoveFile
<1>22. CASE RemoveDirectory(p)
  BY <1>22 DEF RemoveDirectory, Goto
<1>23. CASE Forget(p)
  BY <1>23 DEF Forget, Finish, Leave, Goto, NoJob
<1>24. CASE Upload(p)
  BY <1>24 DEF Upload
<1>25. CASE UploadOver(p)
  BY <1>25 DEF UploadOver, Goto
<1>26. CASE Checked(p)
  <2>1. pc[p] = "check" /\ Sent(p) \subseteq store[job[p].key]
    BY <1>26 DEF Checked
  <2>2. /\ job'[p].op = job[p].op /\ job'[p].key = job[p].key /\ job'[p].staged = job[p].staged
        /\ UNCHANGED <<rows, files, store, present>>
    BY <1>26 DEF Checked
  <2>3. /\ pc'[p] \in {"place", "rmsrc", "reconcile", "register", "rmtree", "marker"}
        /\ pc'[p] = "place" => job[p].op \in Resolving
        /\ pc'[p] = "register" => job[p].op \in InPlace
        /\ pc'[p] = "rmtree" => job[p].op = "publishHere"
        /\ pc'[p] = "marker" => job[p].op \in InPlace \cup {"add"}
    BY <1>26 DEF Checked, Goto
  <2>4. /\ job[p].op \in Resolving => Sent(p) = job[p].staged
        /\ job[p].op \in InPlace \cup {"add"} => Sent(p) = Content(job[p].key)
    BY DEF Sent, Source
  <2>. QED  BY <2>1, <2>2, <2>3, <2>4
<1>27. CASE RemoveSource(p)
  BY <1>27 DEF RemoveSource, Finish, Leave, Goto, NoJob
<1>28. CASE ClearTarget(p)
  BY <1>28 DEF ClearTarget, Goto
<1>29. CASE Move(p)
  BY <1>0, <1>29 DEF Move, Goto
<1>30. CASE WriteMarker(p)
  BY <1>0, <1>30 DEF WriteMarker, Goto
<1>31. CASE Register(p)
  BY <1>31 DEF Register, Finish, Leave, Goto, NoJob
<1>32. CASE SetPinned(p)
  BY <1>32 DEF SetPinned, AtRun, Finish, Leave, Goto, NoJob
<1>. QED
  BY <1>1, <1>2, <1>3, <1>4, <1>5, <1>6, <1>7, <1>8, <1>9, <1>10, <1>11, <1>12, <1>13, <1>14,
     <1>15, <1>16, <1>17, <1>18, <1>19, <1>20, <1>21, <1>22, <1>23, <1>24, <1>25, <1>26, <1>27,
     <1>28, <1>29, <1>30, <1>31, <1>32 DEF Step

\* The flag through a step of p.
LEMMA FlagStep ==
  ASSUME TypeOK, OnTrack, Safe, Cleared, FlagTruthful, NEW p \in Proc, Step(p), KnowsStore(p), pc[p] # "report"
  PROVE  FlagTruthful'
<1>. USE DEF TypeOK, OnTrack, OnTrackAt, KnowsStore, FlagTruthful, Content, Job, rowVars, diskVars
<1>0. Marker \notin File /\ (pc[p] = "move" /\ job[p].op \notin Adding => File \subseteq store[job[p].key])
  BY CacheAssumption DEF CacheAssumption, Safe, Knows, Locked
<1>1. CASE Reconcile(p)
  BY <1>1 DEF Reconcile, Goto
<1>2. CASE ResolveHit(p)
  BY <1>2 DEF ResolveHit, AtRun, Goto
<1>3. CASE MissInCache(p)
  BY <1>3 DEF MissInCache, AtRun, Goto
<1>4. CASE MissInStore(p)
  BY <1>4 DEF MissInStore, AtRun, Goto
<1>5. CASE FetchFromStore(p)
  BY <1>5 DEF FetchFromStore, Goto
<1>6. CASE FetchFromHub(p)
  BY <1>6 DEF FetchFromHub, Goto
<1>7. CASE HubHasNot(p)
  BY <1>7 DEF HubHasNot, Finish, Leave, Goto, NoJob
<1>8. CASE Place(p)
  BY <1>0, <1>8 DEF Place, Goto
<1>9. CASE PlaceRefused(p)
  BY <1>9 DEF PlaceRefused, Finish, Leave, Goto, NoJob
<1>10. CASE Return(p)
  BY <1>10 DEF Return, Finish, Leave, Goto, NoJob
<1>11. CASE LeaseAfter(p)
  BY <1>11 DEF LeaseAfter, Goto, NoJob
<1>12. CASE Snapshot(p)
  BY <1>12 DEF Snapshot, Goto
<1>13. CASE PickOldest(p)
  BY <1>13 DEF PickOldest, Goto
<1>14. CASE CollectOver(p)
  BY <1>14 DEF CollectOver, Finish, Leave, Goto, NoJob
<1>15. CASE VerifyPassed(p)
  BY <1>15 DEF VerifyPassed, Goto, Verified
<1>16. CASE NotVerified(p)
  BY <1>16 DEF NotVerified, Finish, Leave, Goto, NoJob
<1>17. CASE VerifyReport(p)
  BY <1>17 DEF VerifyReport, Goto, NoJob
<1>18. CASE Evict(p)
  BY <1>18 DEF Evict, AtRun, Goto
<1>19. CASE EvictForced(p)
  BY <1>19 DEF EvictForced, AtRun, Goto
<1>20. CASE EvictRefused(p)
  BY <1>20 DEF EvictRefused, Finish, Leave, Goto, NoJob
<1>21. CASE RemoveFile(p)
  BY <1>21 DEF RemoveFile
<1>22. CASE RemoveDirectory(p)
  BY <1>22 DEF RemoveDirectory, Goto
<1>23. CASE Forget(p)
  BY <1>23 DEF Forget, Finish, Leave, Goto, NoJob
<1>24. CASE Upload(p)
  BY <1>24 DEF Upload
<1>25. CASE UploadOver(p)
  BY <1>25 DEF UploadOver, Goto
<1>26. CASE Checked(p)
  BY <1>26 DEF Checked, Goto
<1>27. CASE RemoveSource(p)
  BY <1>27 DEF RemoveSource, Finish, Leave, Goto, NoJob
<1>28. CASE ClearTarget(p)
  BY <1>28 DEF ClearTarget, Goto
<1>29. CASE Move(p)
  BY <1>0, <1>29 DEF Move, Goto
<1>30. CASE WriteMarker(p)
  BY <1>0, <1>30 DEF WriteMarker, Goto
<1>31. CASE Register(p)
  BY <1>31 DEF Register, Finish, Leave, Goto, NoJob
<1>32. CASE SetPinned(p)
  BY <1>32 DEF SetPinned, AtRun, Finish, Leave, Goto, NoJob
<1>. QED
  BY <1>1, <1>2, <1>3, <1>4, <1>5, <1>6, <1>7, <1>8, <1>9, <1>10, <1>11, <1>12, <1>13, <1>14,
     <1>15, <1>16, <1>17, <1>18, <1>19, <1>20, <1>21, <1>22, <1>23, <1>24, <1>25, <1>26, <1>27,
     <1>28, <1>29, <1>30, <1>31, <1>32 DEF Step

\* What others know of the store stays true.
LEMMA KnowsStoreNext ==
  ASSUME TypeOK, OnTrack, Mutex, Safe, \A p \in Proc : KnowsStore(p), [Next]_vars
  PROVE  \A p \in Proc : KnowsStore(p)'
<1>1. ASSUME NEW p \in Proc, Begin(p) \/ Step(p) \/ Environment(p), NEW q \in Proc
      PROVE  KnowsStore(q)'
  <2>1. CASE q # p /\ pc[q] \in Locked
    <3>1. pc'[q] = pc[q] /\ job'[q] = job[q] /\ UNCHANGED <<rows, diskVars, store>>
      BY <1>1, <2>1, Outside
    <3>. QED  BY <3>1 DEF KnowsStore, Content, diskVars
  <2>2. CASE q # p /\ pc[q] \notin Locked
    <3>1. pc'[q] \notin Locked
      BY <1>1, <2>2, Frame
    <3>. QED  BY <3>1 DEF KnowsStore, Locked
  <2>3. CASE q = p /\ Step(p)
    BY <2>3, KnowsStoreStep
  <2>4. CASE q = p /\ (Begin(p) \/ Environment(p))
    <3>1. pc'[p] \in {"reconcile", "report", "idle"} \/ (pc'[p] = "upload" /\ job'[p].op \in Publishing)
      <4>1. ASSUME NEW o \in Ops, NEW k \in Key, BeginPublish(p, o, k)
            PROVE  pc'[p] = "upload" /\ job'[p].op \in Publishing
        BY <4>1 DEF BeginPublish, Enter, Goto, NoJob, TypeOK
      <4>2. ASSUME NEW o \in Ops, NEW k \in Key, BeginOnKey(p, o, k) \/ BeginAdd(p, o, k)
            PROVE  pc'[p] = "reconcile"
        BY <4>2 DEF BeginOnKey, BeginAdd, Enter, Goto, TypeOK
      <4>3. ASSUME NEW o \in Ops, NEW n \in Needs, BeginCollect(p, o, n)
            PROVE  pc'[p] = "reconcile"
        BY <4>3 DEF BeginCollect, Enter, Goto, TypeOK
      <4>4. ASSUME NEW k \in Key, VerifyRead(p, k)
            PROVE  pc'[p] = "report"
        BY <4>4 DEF VerifyRead, Goto, TypeOK
      <4>5. ASSUME StoreFails(p) \/ Crash(p)
            PROVE  pc'[p] = "idle"
        BY <4>5 DEF StoreFails, Finish, Leave, Crash, Goto, TypeOK
      <4>6. ASSUME NEW k \in Key, Release(p, k)
            PROVE  pc'[p] = "idle"
        BY <4>6 DEF Release
      <4>. QED  BY <2>4, <4>1, <4>2, <4>3, <4>4, <4>5, <4>6 DEF Begin, Environment
    <3>. QED  BY <2>4, <3>1 DEF KnowsStore, Adding, Publishing, InPlace
  <2>. QED  BY <1>1, <2>1, <2>2, <2>3, <2>4
<1>2. ASSUME NEW k \in Key, Produce(k), NEW q \in Proc PROVE KnowsStore(q)'
  BY <1>2 DEF Produce, KnowsStore, Content, rowVars
<1>3. CASE UNCHANGED vars
  BY <1>3 DEF vars, KnowsStore, Content, rowVars, diskVars
<1>. QED  BY <1>1, <1>2, <1>3 DEF Next

\* The R flag of `nawat status` does not lie: a row that says it is replicated
\* has all its files in the store, whatever is interrupted in whatever order,
\* as long as nobody verifies without the lock (verify, cache.py:487).
THEOREM FlagKept ==
  ASSUME "verify" \notin Ops
  PROVE  Spec => []FlagTruthful
<1>. DEFINE I == /\ TypeOK /\ OnTrack /\ Mutex /\ Safe /\ Asked /\ Cleared
                 /\ FlagTruthful /\ \A p \in Proc : KnowsStore(p)
<1>1. Init => I
  <2>1. Init => Safe /\ Mutex
    BY CacheAssumption DEF Init, Mutex, Safe, Bare, OutWhole, NoLoss, Knows, NoJob, Locked
  <2>. QED  BY <2>1, TypeInit DEF Init, Asked, Cleared, FlagTruthful, KnowsStore, NoJob
<1>2. I /\ [Next]_vars => I'
  <2>. SUFFICES ASSUME I, [Next]_vars PROVE FlagTruthful'
    BY TypeNext, SafeNext, AskedNext, ClearedNext, KnowsStoreNext DEF Safe
  <2>1. ASSUME NEW p \in Proc, Step(p) PROVE FlagTruthful'
    <3>1. pc[p] # "report"
      BY DEF OnTrack, OnTrackAt, Asked
    <3>. QED  BY <2>1, <3>1, FlagStep
  <2>2. ASSUME NEW p \in Proc, Begin(p) \/ Environment(p) PROVE FlagTruthful'
    BY <2>2, NotInside DEF FlagTruthful, Content, rowVars, diskVars
  <2>3. ASSUME NEW k \in Key, Produce(k) PROVE FlagTruthful'
    BY <2>3 DEF Produce, FlagTruthful, Content, rowVars
  <2>4. CASE UNCHANGED vars
    BY <2>4 DEF vars, FlagTruthful, Content, rowVars, diskVars
  <2>. QED  BY <2>1, <2>2, <2>3, <2>4 DEF Next
<1>. QED  BY <1>1, <1>2, PTL DEF Spec

-----------------------------------------------------------------------------
(* What is leased is whole.                                                *)

\* Whatever is not whole, p is removing, sending or forgetting.
PartsBy(p) ==
  /\ \A k \in present : File \subseteq files[k] \/ (pc[p] = "rmtree" /\ job[p].victim = k)
  /\ \A k \in Key : out[k] \in {{}, File} \/ (pc[p] = "rmsrc" /\ job[p].key = k)
  /\ \A k \in Key : store[k] \in {{}, File} \/ (pc[p] = "upload" /\ job[p].key = k)
  /\ \A k \in rows \ present : pc[p] = "forget" /\ job[p].victim = k

\* Everything is whole.
Whole ==
  /\ \A k \in present : File \subseteq files[k]
  /\ \A k \in Key : out[k] \in {{}, File} /\ store[k] \in {{}, File}
  /\ rows \subseteq present

Parts == IF lock \in Proc THEN PartsBy(lock) ELSE Whole

\* What the operation has, or knows to be there, is whole as well.
KnowsWhole(p) ==
  LET k == job[p].key
      o == job[p].op
  IN /\ pc[p] = "upload" => File \subseteq store[k] \cup job[p].rest
     /\ pc[p] = "check" => File \subseteq store[k]
     /\ pc[p] \in Locked /\ job[p].from = "store" => store[k] # {}
     /\ pc[p] \in {"reconcile", "space", "collect", "verify", "rmtree", "forget", "move"} /\ o \in Adding => out[k] # {}
     /\ pc[p] = "place" => File \subseteq job[p].staged
     /\ pc[p] \in {"upload", "check"} /\ o \in Resolving => File \subseteq job[p].staged
     /\ pc[p] \in {"marker", "register"} => k \in present

\* A step of p leaves whole what it does not have in hand.
LEMMA PartsStep ==
  ASSUME TypeOK, OnTrack, Safe, Cleared, NEW p \in Proc, pc[p] \in Locked, Step(p), PartsBy(p), KnowsWhole(p),
         job[p].op # "publishKeep"
  PROVE  PartsBy(p)'
<1>. USE DEF TypeOK
<1>0. ASSUME pc[p] \notin {"rmtree", "rmsrc", "upload", "forget"}, UNCHANGED <<rows, present, files, out, store>>
      PROVE  PartsBy(p)'
  BY <1>0 DEF PartsBy
<1>1. CASE Reconcile(p)
  <2>1. pc[p] = "reconcile" /\ rows' \subseteq present /\ UNCHANGED <<present, files, out, store>>
    BY <1>1 DEF Reconcile, diskVars
  <2>. QED  BY <2>1 DEF PartsBy
<1>2. CASE ResolveHit(p)
  BY <1>2, <1>0 DEF ResolveHit, AtRun, rowVars, diskVars
<1>3. CASE MissInCache(p)
  BY <1>3, <1>0 DEF MissInCache, AtRun, rowVars, diskVars
<1>4. CASE MissInStore(p)
  BY <1>4, <1>0 DEF MissInStore, AtRun, rowVars, diskVars
<1>5. CASE FetchFromStore(p)
  BY <1>5, <1>0 DEF FetchFromStore, rowVars, diskVars
<1>6. CASE FetchFromHub(p)
  BY <1>6, <1>0 DEF FetchFromHub, rowVars, diskVars
<1>7. CASE HubHasNot(p)
  BY <1>7, <1>0 DEF HubHasNot, rowVars, diskVars
<1>8. CASE Place(p)
  <2>1. /\ pc[p] = "place" /\ File \subseteq job[p].staged /\ job[p].key \in Key
        /\ files' = [files EXCEPT ![job[p].key] = job[p].staged \cup {Marker}]
        /\ present' = present \cup {job[p].key} /\ UNCHANGED <<rows, out, store>>
    BY <1>8 DEF Place, KnowsWhole, OnTrack, OnTrackAt, Resolving, Collecting, rowVars
  <2>. QED  BY <2>1 DEF PartsBy
<1>9. CASE PlaceRefused(p)
  BY <1>9, <1>0 DEF PlaceRefused, rowVars, diskVars
<1>10. CASE Return(p)
  BY <1>10, <1>0 DEF Return, rowVars, diskVars
<1>11. CASE LeaseAfter(p)
  BY <1>11 DEF LeaseAfter, Locked
<1>12. CASE Snapshot(p)
  BY <1>12, <1>0 DEF Snapshot, rowVars, diskVars
<1>13. CASE PickOldest(p)
  BY <1>13, <1>0 DEF PickOldest, rowVars, diskVars
<1>14. CASE CollectOver(p)
  BY <1>14, <1>0 DEF CollectOver, rowVars, diskVars
<1>15. CASE VerifyPassed(p)
  BY <1>15, <1>0 DEF VerifyPassed, rowVars, diskVars
<1>16. CASE NotVerified(p)
  BY <1>16, <1>0 DEF NotVerified, rowVars, diskVars
<1>17. CASE VerifyReport(p)
  BY <1>17 DEF VerifyReport, Locked
<1>18. CASE Evict(p)
  BY <1>18, <1>0 DEF Evict, AtRun, rowVars, diskVars
<1>19. CASE EvictForced(p)
  BY <1>19, <1>0 DEF EvictForced, AtRun, rowVars, diskVars
<1>20. CASE EvictRefused(p)
  BY <1>20, <1>0 DEF EvictRefused, AtRun, rowVars, diskVars
<1>21. CASE RemoveFile(p)
  <2>1. /\ pc[p] = "rmtree" /\ UNCHANGED <<pc, job, rows, present, out, store>>
        /\ \A k \in Key \ {job[p].victim} : files'[k] = files[k]
    BY <1>21 DEF RemoveFile, rowVars
  <2>. QED  BY <2>1 DEF PartsBy
<1>22. CASE RemoveDirectory(p)
  <2>1. /\ pc[p] = "rmtree" /\ pc'[p] = "forget" /\ UNCHANGED <<job, rows, files, out, store>>
        /\ present' = present \ {job[p].victim}
    BY <1>22 DEF RemoveDirectory, Goto, rowVars
  <2>. QED  BY <2>1 DEF PartsBy
<1>23. CASE Forget(p)
  <2>1. /\ pc[p] = "forget" /\ UNCHANGED <<present, files, out, store>>
        /\ rows' = rows \ {job[p].victim}
    BY <1>23 DEF Forget, diskVars
  <2>. QED  BY <2>1 DEF PartsBy
<1>24. CASE Upload(p)
  <2>1. /\ pc[p] = "upload" /\ UNCHANGED <<pc, rows, present, files, out>> /\ job'[p].key = job[p].key
        /\ \A k \in Key \ {job[p].key} : store'[k] = store[k]
    BY <1>24 DEF Upload, rowVars, diskVars
  <2>. QED  BY <2>1 DEF PartsBy
<1>25. CASE UploadOver(p)
  <2>1. pc[p] = "upload" /\ UNCHANGED <<job, rows, present, files, out, store>>
    BY <1>25 DEF UploadOver, rowVars, diskVars
  <2>2. job[p].key \in Key => store[job[p].key] = File
    BY <1>25 DEF UploadOver, KnowsWhole
  <2>. QED  BY <2>1, <2>2 DEF PartsBy
<1>26. CASE Checked(p)
  BY <1>26, <1>0 DEF Checked, rowVars, diskVars
<1>27. CASE RemoveSource(p)
  <2>1. /\ pc[p] = "rmsrc" /\ UNCHANGED <<rows, present, files, store>>
        /\ \A k \in Key \ {job[p].key} : out'[k] = out[k]
    BY <1>27 DEF RemoveSource, rowVars
  <2>2. (out[job[p].key] = {} /\ out' = out) \/ (pc' = pc /\ job' = job)
    BY <1>27 DEF RemoveSource
  <2>. QED  BY <2>1, <2>2 DEF PartsBy
<1>28. CASE ClearTarget(p)
  BY <1>28 DEF ClearTarget, OnTrack, OnTrackAt
<1>29. CASE Move(p)
  <2>1. /\ pc[p] = "move" /\ job[p].key \in Key /\ out[job[p].key] # {}
    BY <1>29 DEF Move, KnowsWhole, OnTrack, OnTrackAt, Adding, Collecting
  <2>2. /\ files' = [files EXCEPT ![job[p].key] = out[job[p].key]]
        /\ out' = [out EXCEPT ![job[p].key] = {}]
        /\ present' = present \cup {job[p].key} /\ UNCHANGED <<rows, store>>
    BY <1>29 DEF Move, rowVars
  <2>. QED  BY <2>1, <2>2 DEF PartsBy
<1>30. CASE WriteMarker(p)
  <2>1. /\ pc[p] = "marker" /\ UNCHANGED <<rows, present, out, store>>
        /\ \A k \in Key : files[k] \subseteq files'[k]
    BY <1>30 DEF WriteMarker, rowVars
  <2>. QED  BY <2>1 DEF PartsBy
<1>31. CASE Register(p)
  <2>1. /\ pc[p] = "register" /\ UNCHANGED <<present, files, out, store>>
        /\ rows' = rows \cup {job[p].key} /\ job[p].key \in present
    BY <1>31 DEF Register, KnowsWhole, diskVars
  <2>. QED  BY <2>1 DEF PartsBy
<1>32. CASE SetPinned(p)
  BY <1>32, <1>0 DEF SetPinned, AtRun, rowVars, diskVars
<1>. QED
  BY <1>1, <1>2, <1>3, <1>4, <1>5, <1>6, <1>7, <1>8, <1>9, <1>10, <1>11, <1>12, <1>13, <1>14,
     <1>15, <1>16, <1>17, <1>18, <1>19, <1>20, <1>21, <1>22, <1>23, <1>24, <1>25, <1>26, <1>27,
     <1>28, <1>29, <1>30, <1>31, <1>32 DEF Step

\* A step of p keeps what p knows to be whole.
LEMMA KnowsWholeStep ==
  ASSUME TypeOK, OnTrack, Safe, NEW p \in Proc, Step(p), PartsBy(p), KnowsWhole(p), job[p].op # "publishKeep"
  PROVE  KnowsWhole(p)'
<1>. USE DEF TypeOK, OnTrack, OnTrackAt, KnowsWhole, PartsBy, Job, rowVars, diskVars, Resolving, Adding,
     Publishing, InPlace, Collecting, OnKey, Reclaiming, Locked
<1>1. CASE Reconcile(p)
  BY <1>1 DEF Reconcile, Goto
<1>2. CASE ResolveHit(p)
  BY <1>2 DEF ResolveHit, AtRun, Goto
<1>3. CASE MissInCache(p)
  BY <1>3 DEF MissInCache, AtRun, Goto
<1>4. CASE MissInStore(p)
  BY <1>4 DEF MissInStore, AtRun, Goto
<1>5. CASE FetchFromStore(p)
  BY <1>5 DEF FetchFromStore, Goto
<1>6. CASE FetchFromHub(p)
  BY <1>6 DEF FetchFromHub, Goto
<1>7. CASE HubHasNot(p)
  BY <1>7 DEF HubHasNot, Finish, Leave, Goto, NoJob
<1>8. CASE Place(p)
  BY <1>8 DEF Place, Goto
<1>9. CASE PlaceRefused(p)
  BY <1>9 DEF PlaceRefused, Finish, Leave, Goto, NoJob
<1>10. CASE Return(p)
  BY <1>10 DEF Return, Finish, Leave, Goto, NoJob
<1>11. CASE LeaseAfter(p)
  BY <1>11 DEF LeaseAfter, Goto, NoJob
<1>12. CASE Snapshot(p)
  BY <1>12 DEF Snapshot, Goto
<1>13. CASE PickOldest(p)
  BY <1>13 DEF PickOldest, Goto
<1>14. CASE CollectOver(p)
  BY <1>14 DEF CollectOver, Finish, Leave, Goto, NoJob
<1>15. CASE VerifyPassed(p)
  <2>1. /\ pc[p] = "verify" /\ pc'[p] \in {"collect", "rmtree"} /\ UNCHANGED <<out, store>>
        /\ job'[p].key = job[p].key /\ job'[p].op = job[p].op /\ job'[p].from = job[p].from
    BY <1>15 DEF VerifyPassed, Goto
  <2>. QED  BY <2>1
<1>16. CASE NotVerified(p)
  <2>1. pc[p] = "verify" /\ pc'[p] \in {"collect", "idle"} /\ UNCHANGED <<out, store>>
    BY <1>16 DEF NotVerified, Finish, Leave, Goto
  <2>2. pc'[p] = "collect" => job' = job
    BY <1>16 DEF NotVerified, Finish, Leave, Goto
  <2>. QED  BY <2>1, <2>2
<1>17. CASE VerifyReport(p)
  BY <1>17 DEF VerifyReport, Goto, NoJob
<1>18. CASE Evict(p)
  BY <1>18 DEF Evict, AtRun, Goto
<1>19. CASE EvictForced(p)
  BY <1>19 DEF EvictForced, AtRun, Goto
<1>20. CASE EvictRefused(p)
  BY <1>20 DEF EvictRefused, Finish, Leave, Goto, NoJob
<1>21. CASE RemoveFile(p)
  BY <1>21 DEF RemoveFile
<1>22. CASE RemoveDirectory(p)
  BY <1>22 DEF RemoveDirectory, Goto
<1>23. CASE Forget(p)
  <2>1. pc[p] = "forget" /\ pc'[p] \in {"collect", "idle"} /\ UNCHANGED <<out, store>>
    BY <1>23 DEF Forget, Finish, Leave, Goto
  <2>2. pc'[p] = "collect" => job'[p].key = job[p].key /\ job'[p].op = job[p].op /\ job'[p].from = job[p].from
    BY <1>23 DEF Forget, Finish, Leave, Goto
  <2>. QED  BY <2>1, <2>2
<1>24. CASE Upload(p)
  BY <1>24 DEF Upload
<1>25. CASE UploadOver(p)
  BY <1>25 DEF UploadOver, Goto
<1>26. CASE Checked(p)
  <2>1. /\ pc[p] = "check" /\ UNCHANGED <<out, store, present>>
        /\ job'[p].op = job[p].op /\ job'[p].key = job[p].key
        /\ job'[p].staged = job[p].staged /\ job'[p].from = job[p].from
    BY <1>26 DEF Checked
  <2>2. /\ pc'[p] \in {"place", "rmsrc", "reconcile", "register", "rmtree", "marker"}
        /\ pc'[p] = "place" => job[p].op \in Resolving
        /\ pc'[p] = "register" => job[p].op \in InPlace
        /\ pc'[p] \in {"rmtree", "reconcile"} => job[p].op \notin Adding
        /\ pc'[p] = "marker" => job[p].op \in InPlace \cup {"add"}
    BY <1>26 DEF Checked, Goto
  <2>3. job[p].op \in InPlace \cup {"add"} => job[p].key \in present
    BY <2>1 DEF Safe, Knows
  <2>. QED  BY <2>1, <2>2, <2>3
<1>27. CASE RemoveSource(p)
  BY <1>27 DEF RemoveSource, Finish, Leave, Goto, NoJob
<1>28. CASE ClearTarget(p)
  BY <1>28 DEF ClearTarget, Goto
<1>29. CASE Move(p)
  BY <1>29 DEF Move, Goto
<1>30. CASE WriteMarker(p)
  BY <1>30 DEF WriteMarker, Goto
<1>31. CASE Register(p)
  BY <1>31 DEF Register, Finish, Leave, Goto, NoJob
<1>32. CASE SetPinned(p)
  BY <1>32 DEF SetPinned, AtRun, Finish, Leave, Goto, NoJob
<1>. QED
  BY <1>1, <1>2, <1>3, <1>4, <1>5, <1>6, <1>7, <1>8, <1>9, <1>10, <1>11, <1>12, <1>13, <1>14,
     <1>15, <1>16, <1>17, <1>18, <1>19, <1>20, <1>21, <1>22, <1>23, <1>24, <1>25, <1>26, <1>27,
     <1>28, <1>29, <1>30, <1>31, <1>32 DEF Step

\* The beginning of an operation, when everything is whole.
LEMMA KnowsWholeBegin ==
  ASSUME TypeOK, NoProc \notin Proc, lock = NoProc => Whole, NEW p \in Proc, Begin(p)
  PROVE  KnowsWhole(p)'
<1>. USE DEF TypeOK, KnowsWhole, Resolving, Adding, Publishing, InPlace, Collecting, OnKey, Locked
<1>1. ASSUME NEW o \in Ops, NEW k \in Key, BeginOnKey(p, o, k)
      PROVE  KnowsWhole(p)'
  BY <1>1 DEF BeginOnKey, Enter, Goto, NoJob
<1>2. ASSUME NEW o \in Ops, NEW k \in Key, BeginPublish(p, o, k)
      PROVE  KnowsWhole(p)'
  <2>1. Source(o, k) = File \cap Source(o, k) /\ File \subseteq Source(o, k)
    BY <1>2 DEF BeginPublish, Enter, Source, Content, Whole
  <2>2. /\ pc'[p] = "upload" /\ job'[p].rest = Source(o, k) /\ job'[p].from = "none"
        /\ job'[p].op \in Publishing
    BY <1>2 DEF BeginPublish, Enter, Goto, NoJob
  <2>. QED  BY <2>1, <2>2
<1>3. ASSUME NEW o \in Ops, NEW k \in Key, BeginAdd(p, o, k)
      PROVE  KnowsWhole(p)'
  <2>1. out[k] # {} /\ UNCHANGED out /\ pc'[p] = "reconcile"
    BY <1>3 DEF BeginAdd, Enter, Goto, diskVars
  <2>2. job'[p].key = k /\ job'[p].from = "none" /\ job'[p].op \in Adding
    BY <1>3 DEF BeginAdd, Enter, NoJob
  <2>. QED  BY <2>1, <2>2
<1>4. ASSUME NEW o \in Ops, NEW n \in Needs, BeginCollect(p, o, n)
      PROVE  KnowsWhole(p)'
  BY <1>4 DEF BeginCollect, Enter, Goto, NoJob
<1>5. ASSUME NEW k \in Key, VerifyRead(p, k)
      PROVE  KnowsWhole(p)'
  BY <1>5 DEF VerifyRead, Goto, NoJob
<1>. QED  BY <1>1, <1>2, <1>3, <1>4, <1>5 DEF Begin

\* The lock stays with p, or p leaves it with nothing in hand.
LEMMA LockStep ==
  ASSUME TypeOK, NEW p \in Proc, pc[p] \in Locked, Step(p), lock = p
  PROVE  lock' = p \/ (lock' = NoProc /\ pc'[p] \in {"idle", "lease"})
<1>. USE DEF TypeOK
<1>1. CASE Reconcile(p)
  BY <1>1 DEF Reconcile, Goto
<1>2. CASE ResolveHit(p)
  BY <1>2 DEF ResolveHit, AtRun, Goto
<1>3. CASE MissInCache(p)
  BY <1>3 DEF MissInCache, AtRun, Goto
<1>4. CASE MissInStore(p)
  BY <1>4 DEF MissInStore, AtRun, Goto
<1>5. CASE FetchFromStore(p)
  BY <1>5 DEF FetchFromStore, Goto
<1>6. CASE FetchFromHub(p)
  BY <1>6 DEF FetchFromHub, Goto
<1>7. CASE HubHasNot(p)
  BY <1>7 DEF HubHasNot, Finish, Leave, Goto, NoJob
<1>8. CASE Place(p)
  BY <1>8 DEF Place, Goto
<1>9. CASE PlaceRefused(p)
  BY <1>9 DEF PlaceRefused, Finish, Leave, Goto, NoJob
<1>10. CASE Return(p)
  BY <1>10 DEF Return, Finish, Leave, Goto, NoJob
<1>11. CASE LeaseAfter(p)
  BY <1>11 DEF LeaseAfter, Goto, NoJob
<1>12. CASE Snapshot(p)
  BY <1>12 DEF Snapshot, Goto
<1>13. CASE PickOldest(p)
  BY <1>13 DEF PickOldest, Goto
<1>14. CASE CollectOver(p)
  BY <1>14 DEF CollectOver, Finish, Leave, Goto, NoJob
<1>15. CASE VerifyPassed(p)
  BY <1>15 DEF VerifyPassed, Goto
<1>16. CASE NotVerified(p)
  BY <1>16 DEF NotVerified, Finish, Leave, Goto, NoJob
<1>17. CASE VerifyReport(p)
  BY <1>17 DEF VerifyReport, Goto, NoJob
<1>18. CASE Evict(p)
  BY <1>18 DEF Evict, AtRun, Goto
<1>19. CASE EvictForced(p)
  BY <1>19 DEF EvictForced, AtRun, Goto
<1>20. CASE EvictRefused(p)
  BY <1>20 DEF EvictRefused, Finish, Leave, Goto, NoJob
<1>21. CASE RemoveFile(p)
  BY <1>21 DEF RemoveFile
<1>22. CASE RemoveDirectory(p)
  BY <1>22 DEF RemoveDirectory, Goto
<1>23. CASE Forget(p)
  BY <1>23 DEF Forget, Finish, Leave, Goto, NoJob
<1>24. CASE Upload(p)
  BY <1>24 DEF Upload
<1>25. CASE UploadOver(p)
  BY <1>25 DEF UploadOver, Goto
<1>26. CASE Checked(p)
  BY <1>26 DEF Checked, Goto
<1>27. CASE RemoveSource(p)
  BY <1>27 DEF RemoveSource, Finish, Leave, Goto, NoJob
<1>28. CASE ClearTarget(p)
  BY <1>28 DEF ClearTarget, Goto
<1>29. CASE Move(p)
  BY <1>29 DEF Move, Goto
<1>30. CASE WriteMarker(p)
  BY <1>30 DEF WriteMarker, Goto
<1>31. CASE Register(p)
  BY <1>31 DEF Register, Finish, Leave, Goto, NoJob
<1>32. CASE SetPinned(p)
  BY <1>32 DEF SetPinned, AtRun, Finish, Leave, Goto, NoJob
<1>. QED
  BY <1>1, <1>2, <1>3, <1>4, <1>5, <1>6, <1>7, <1>8, <1>9, <1>10, <1>11, <1>12, <1>13, <1>14,
     <1>15, <1>16, <1>17, <1>18, <1>19, <1>20, <1>21, <1>22, <1>23, <1>24, <1>25, <1>26, <1>27,
     <1>28, <1>29, <1>30, <1>31, <1>32 DEF Step

\* A step outside the lock changes nothing that is whole or not.
LEMMA PartsQuiet ==
  ASSUME TypeOK, Parts, NEW p \in Proc, UNCHANGED <<lock, rows, present, files, out, store>>,
         pc[p] \notin Locked, pc'[p] \notin Locked,
         \A q \in Proc \ {p} : pc'[q] = pc[q] /\ job'[q] = job[q]
  PROVE  Parts'
<1>1. CASE lock \in Proc /\ lock # p
  BY <1>1 DEF Parts, PartsBy
<1>2. CASE lock = p
  <2>1. pc[p] \notin {"rmtree", "rmsrc", "upload", "forget"}
    BY DEF Locked
  <2>2. PartsBy(p)'
    BY <1>2, <2>1 DEF Parts, PartsBy
  <2>. QED  BY <1>2, <2>2 DEF Parts
<1>3. CASE lock \notin Proc
  BY <1>3 DEF Parts, Whole
<1>. QED  BY <1>1, <1>2, <1>3

\* Every step keeps whole what is whole.
LEMMA WholeNext ==
  ASSUME TypeOK, OnTrack, Mutex, Safe, Asked, Cleared, Parts, \A p \in Proc : KnowsWhole(p),
         "publishKeep" \notin Ops, Faults \cap {"crash", "store"} = {}, [Next]_vars
  PROVE  Parts' /\ \A p \in Proc : KnowsWhole(p)'
<1>. USE DEF TypeOK
<1>0. /\ NoProc \notin Proc
      /\ \A p \in Proc : job[p].op # "publishKeep"
      /\ lock = NoProc => Whole
      /\ \A p \in Proc : pc[p] \in Locked => lock = p /\ PartsBy(p)
  BY CacheAssumption DEF CacheAssumption, Asked, Parts, Mutex
<1>1. ASSUME NEW p \in Proc, Begin(p) PROVE Parts' /\ KnowsWhole(p)'
  <2>1. KnowsWhole(p)'
    BY <1>0, <1>1, KnowsWholeBegin
  <2>2. UNCHANGED <<rows, present, files, out, store>>
    BY <1>1, NotInside DEF rowVars, diskVars
  <2>3. ASSUME lock' = p, lock = NoProc PROVE Parts'
    <3>1. PartsBy(p)'
      BY <1>0, <2>2, <2>3 DEF Whole, PartsBy
    <3>. QED  BY <2>3, <3>1 DEF Parts
  <2>4. ASSUME NEW k \in Key, VerifyRead(p, k) PROVE Parts'
    <3>1. UNCHANGED lock /\ pc[p] = "idle" /\ pc'[p] = "report"
      BY <2>4 DEF VerifyRead, Goto
    <3>. QED  BY <1>1, <2>2, <3>1, Frame, PartsQuiet DEF Locked
  <2>. QED  BY <1>1, <2>1, <2>3, <2>4 DEF Begin, BeginOnKey, BeginPublish, BeginAdd, BeginCollect, Enter
<1>2. ASSUME NEW p \in Proc, Step(p), pc[p] \in Locked PROVE Parts' /\ KnowsWhole(p)'
  <2>1. KnowsWhole(p)'
    BY <1>0, <1>2, KnowsWholeStep
  <2>2. PartsBy(p)'
    BY <1>0, <1>2, PartsStep
  <2>3. lock' = p \/ (lock' = NoProc /\ pc'[p] \in {"idle", "lease"})
    BY <1>0, <1>2, LockStep
  <2>4. lock' = NoProc /\ pc'[p] \in {"idle", "lease"} => Whole'
    BY <2>2 DEF PartsBy, Whole
  <2>. QED  BY <1>0, <2>1, <2>2, <2>3, <2>4 DEF Parts
<1>3. ASSUME NEW p \in Proc, Step(p), pc[p] \notin Locked PROVE Parts' /\ KnowsWhole(p)'
  <2>1. LeaseAfter(p) \/ VerifyReport(p)
    BY <1>3, StepOutside
  <2>2. pc'[p] = "idle" /\ UNCHANGED <<lock, rows, present, files, out, store>>
    BY <2>1 DEF LeaseAfter, VerifyReport, Goto, rowVars, diskVars
  <2>3. Parts'
    BY <1>3, <2>2, Frame, PartsQuiet DEF Locked
  <2>. QED  BY <2>2, <2>3 DEF KnowsWhole, Locked
<1>4. ASSUME NEW p \in Proc, Environment(p) PROVE Parts' /\ KnowsWhole(p)'
  <2>1. PICK k \in Key : Release(p, k)
    BY <1>4 DEF Environment, StoreFails, Crash
  <2>2. pc[p] = "idle" /\ UNCHANGED <<lock, pc, job, rows, present, files, out, store>>
    BY <2>1 DEF Release, rowVars, diskVars
  <2>. QED  BY <2>2, PartsQuiet DEF KnowsWhole, Locked
<1>5. ASSUME NEW p \in Proc, Begin(p) \/ Step(p) \/ Environment(p), NEW q \in Proc \ {p}
      PROVE  KnowsWhole(q)'
  <2>1. CASE pc[q] \in Locked
    <3>1. pc'[q] = pc[q] /\ job'[q] = job[q] /\ UNCHANGED <<present, out, store>>
      BY <1>5, <2>1, Outside DEF diskVars
    <3>. QED  BY <3>1 DEF KnowsWhole
  <2>2. CASE pc[q] \notin Locked
    <3>1. pc'[q] \notin Locked
      BY <1>5, <2>2, Frame
    <3>. QED  BY <3>1 DEF KnowsWhole, Locked
  <2>. QED  BY <2>1, <2>2
<1>6. ASSUME NEW k \in Key, Produce(k) PROVE Parts' /\ \A p \in Proc : KnowsWhole(p)'
  <2>1. /\ UNCHANGED <<lock, pc, job, rows, present, files, store>>
        /\ out[k] = {} /\ out' = [out EXCEPT ![k] = File]
    BY <1>6 DEF Produce, rowVars
  <2>2. ASSUME NEW p \in Proc, PartsBy(p) PROVE PartsBy(p)'
    BY <2>1, <2>2 DEF PartsBy
  <2>3. Whole => Whole'
    BY <2>1 DEF Whole
  <2>4. Parts'
    BY <2>1, <2>2, <2>3 DEF Parts
  <2>. QED  BY <2>1, <2>4 DEF KnowsWhole
<1>7. CASE UNCHANGED vars
  BY <1>7 DEF vars, Parts, PartsBy, Whole, KnowsWhole, rowVars, diskVars
<1>. QED  BY <1>1, <1>2, <1>3, <1>4, <1>5, <1>6, <1>7 DEF Next

\* What a process staged and leased is the whole artifact, or its row is gone:
\* when leases are taken under the lock, nothing is removed or replaced by
\* name, and neither a process that dies nor the store leaves an upload half
\* done (what happens then is the run cache_half_uploaded).
THEOREM LeasedIsWhole ==
  ASSUME Ops \cap {"hold", "force", "publishKeep"} = {}, Faults \cap {"crash", "store"} = {}
  PROVE  Spec => []StagedWhole
<1>. DEFINE I == /\ TypeOK /\ OnTrack /\ Mutex /\ Safe /\ Asked /\ Cleared /\ LeaseInv
                 /\ Parts /\ \A p \in Proc : KnowsWhole(p)
<1>1. Init => I
  <2>1. Init => Safe /\ Mutex
    BY CacheAssumption DEF Init, Mutex, Safe, Bare, OutWhole, NoLoss, Knows, NoJob, Locked
  <2>2. Init => Parts
    BY CacheAssumption DEF Init, CacheAssumption, Parts, Whole
  <2>. QED  BY <2>1, <2>2, TypeInit DEF Init, Asked, Cleared, LeaseInv, SparesAt, KnowsWhole, NoJob, Locked
<1>2. I /\ [Next]_vars => I'
  BY TypeNext, SafeNext, AskedNext, ClearedNext, LeaseNext, WholeNext DEF Safe
<1>3. I => StagedWhole
  <2>. SUFFICES ASSUME I, NEW l \in leases, l[2] \in rows PROVE File \subseteq files[l[2]]
    BY DEF StagedWhole
  <2>1. l[2] \in InUse
    <3>1. l[1] \in Proc /\ l[2] \in Key /\ l = <<l[1], l[2]>>
      BY DEF TypeOK
    <3>. QED  BY <3>1 DEF InUse, Leased
  <2>2. ASSUME NEW p \in Proc, pc[p] \in {"rmtree", "forget"} PROVE job[p].victim # l[2]
    BY <2>1, <2>2 DEF LeaseInv, SparesAt, Asked
  <2>. QED  BY <2>2 DEF Parts, PartsBy, Whole, TypeOK
<1>. QED  BY <1>1, <1>2, <1>3, PTL DEF Spec

-----------------------------------------------------------------------------
(* The ceiling is honoured.                                                *)

\* Every file that is counted for a row.
Counted(m) == Cardinality({x \in Key \X File : x[2] \in m[x[1]]})

\* From the deficit that is read to the last row that is forgotten.
Going == {"collect", "verify", "rmtree", "forget"}

\* From a download that is asked for to the row it gets.
Fetching == {"upload", "check", "place", "register"}

\* A directory is there that is not yet in the record, or not yet as it is.
Arriving(p) ==
  \/ job[p].op \in Resolving /\ pc[p] = "register"
  \/ job[p].op \in Adding /\ pc[p] \in {"upload", "check", "marker", "register"}
  \/ job[p].op = "publishKeep" /\ pc[p] \in {"marker", "register"}

\* The record tells of every directory and counts what is in it, but for the one that p
\* brings, removes or replaces.
RecordedBy(p) ==
  /\ \A k \in present \ rows : Arriving(p) /\ job[p].key = k
  /\ \A k \in rows \ present : \/ pc[p] = "forget" /\ job[p].victim = k
                               \/ pc[p] = "move" /\ job[p].op = "publishKeep" /\ job[p].key = k
  /\ \A k \in rows : Content(k) \subseteq manifest[k] \/ (Arriving(p) /\ job[p].key = k)
  /\ pc[p] = "forget" => job[p].victim \notin present
  /\ pc[p] \in {"marker", "register"} => job[p].key \in present
Recorded == rows = present /\ \A k \in rows : Content(k) \subseteq manifest[k]

\* What came from the hub is in the store.
Landed(k) == k \in HubKeys /\ File # {} => store[k] # {}

\* Nobody keeps k or is about to.
Unheld(k) ==
  /\ k \notin pinned /\ ~Leased(k)
  /\ \A q \in Proc : ~(pc[q] = "lease" /\ job[q].key = k)

\* What is fetched or added is not in the record; nobody keeps what comes from the hub.
NewBy(p) ==
  LET k == job[p].key
      o == job[p].op
      f == job[p].from
  IN /\ o \in Resolving /\ f \in {"store", "hub"} => k \notin rows
     /\ o \in Adding /\ pc[p] \in {"move", "upload", "check", "marker", "register"} => k \notin rows
     /\ o \in InPlace /\ pc[p] \in {"upload", "check", "marker", "register"} => k \in rows
     /\ o \in Resolving /\ f = "hub" /\ k \in HubKeys /\ File # {} => Unheld(k)
     /\ o \in Resolving /\ f \in {"store", "hub"} => pc[p] \in {"space", "fetch"} \cup Going \cup Fetching
     /\ o \in Resolving /\ pc[p] \in Fetching => f \in {"store", "hub"} /\ (f = "hub" => k \in HubKeys)
     /\ o \in Resolving /\ pc[p] \in {"upload", "check"} => f = "hub" /\ job[p].staged = File
     /\ o \in Resolving /\ (f \in {"store", "placed"} \/ pc[p] \in {"place", "register", "return"}) => Landed(k)
     /\ f # "none" => o \in Resolving
     /\ pc[p] = "register" => o # "publish"
     /\ o \in Adding \cup {"publishKeep"} => k \notin HubKeys

\* What was asked for is what the operation needs.
NeedBy(p) ==
  LET j == job[p]
  IN /\ j.op \in Resolving /\ j.from \in {"store", "hub"} /\ pc[p] \notin Fetching =>
          j.need = IF j.from = "hub" /\ j.size = 0 THEN MinFree ELSE j.size
     /\ j.op \in Resolving /\ j.from = "store" => j.size = Cardinality(store[j.key])
     /\ j.op \in Resolving /\ j.from = "hub" => j.size \in HubSizes
     /\ \/ j.op \in Adding /\ pc[p] \in {"reconcile", "space", "move"} \cup Going
        \/ j.op = "publishKeep" /\ pc[p] \in {"reconcile", "space", "clear", "move"} \cup Going
        => out[j.key] # {} /\ j.need = Cardinality(out[j.key])

\* A download that turned out larger is given back.
Returning(p) == job[p].op \in Resolving /\ job[p].from = "placed" /\ pc[p] \in {"reconcile", "space"} \cup Going

\* After collecting there is room for what comes; what was announced as smaller is the
\* exception.
RoomBy(p) ==
  LET j == job[p]
  IN /\ ~Returning(p) => Used <= Ceiling
     /\ pc[p] \in Going /\ j.op \in Reclaiming \ {"dryRun"} => Used + j.need <= Ceiling + j.goal
     /\ pc[p] \in {"fetch", "clear", "move"} => Used + j.need <= Ceiling
     /\ j.op \in Resolving /\ pc[p] \in Fetching =>
          /\ Underestimated(j) => j.from = "hub"
          /\ Used + Cardinality(j.staged) <= Ceiling \/ Underestimated(j)
     /\ j.op \in Resolving /\ pc[p] = "register" => Content(j.key) = j.staged
     /\ Arriving(p) /\ j.op \notin Resolving => Used + Cardinality(Content(j.key)) <= Ceiling

\* That one can be given back, and is, if nothing else is.
ReturnBy(p) ==
  LET j == job[p]
  IN Returning(p) =>
       /\ Unheld(j.key) /\ Content(j.key) \subseteq store[j.key]
       /\ Used <= Ceiling + Cardinality(manifest[j.key])
       /\ j.need = 0
       /\ pc[p] = "collect" /\ j.key \in rows => j.key \in j.todo
       /\ pc[p] \in {"verify", "rmtree", "forget"} /\ j.key \in rows => j.key \in j.todo \cup {j.victim}

\* What holds whoever has the lock.
World ==
  /\ pinned \subseteq rows
  /\ \A k \in Key \ rows : manifest[k] = {}
  /\ \A k \in HubKeys : out[k] = {}
  /\ \A k \in rows : Landed(k)
  /\ \A l \in leases : Landed(l[2])
  /\ \A p \in Proc : pc[p] = "lease" => Landed(job[p].key)

Minds(p) == RecordedBy(p) /\ NewBy(p) /\ NeedBy(p) /\ RoomBy(p) /\ ReturnBy(p)

Space ==
  /\ World
  /\ \A p \in Proc : pc[p] \in Locked => Minds(p)
  /\ lock = NoProc => Recorded /\ Used <= Ceiling

-----------------------------------------------------------------------------
(* Counting.                                                               *)

\* The files counted for the rows but k.
Besides(m, k) == {x \in Key \X File : x[1] # k /\ x[2] \in m[x[1]]}

\* The files of k are counted one by one.
LEMMA CountedOne ==
  ASSUME NEW k \in Key, NEW S \in SUBSET File
  PROVE  /\ IsFiniteSet({k} \X S)
         /\ Cardinality({k} \X S) = Cardinality(S)
<1>1. IsFiniteSet(S)
  BY CacheAssumption, FS_Subset DEF CacheAssumption
<1>2. [x \in S |-> <<k, x>>] \in Bijection(S, {k} \X S)
  BY DEF Bijection, Injection, Surjection, IsInjective
<1>3. ExistsBijection(S, {k} \X S)
  BY <1>2 DEF ExistsBijection
<1>. QED  BY <1>1, <1>3, FS_Bijection

\* What is counted is counted for k, or for another.
LEMMA CountedApart ==
  ASSUME NEW m \in [Key -> SUBSET File], NEW k \in Key
  PROVE  /\ Counted(m) = Cardinality(Besides(m, k)) + Cardinality(m[k])
         /\ Counted(m) \in Nat /\ Cardinality(Besides(m, k)) \in Nat /\ Cardinality(m[k]) \in Nat
<1>. DEFINE A == Besides(m, k)
            B == {k} \X m[k]
<1>1. A \in SUBSET (Key \X File) /\ IsFiniteSet(Key \X File)
  BY CacheAssumption, FS_Product DEF CacheAssumption, Besides
<1>2. IsFiniteSet(A) /\ Cardinality(A) \in Nat
  BY <1>1, FS_Subset, FS_CardinalityType
<1>3. IsFiniteSet(B) /\ Cardinality(B) = Cardinality(m[k]) /\ Cardinality(m[k]) \in Nat
  BY CountedOne, Sizes
<1>4. {x \in Key \X File : x[2] \in m[x[1]]} = A \cup B
  BY DEF Besides
<1>5. A \cap B = {}
  BY DEF Besides
<1>. HIDE DEF A, B
<1>6. Cardinality(A \cap B) = 0
  BY <1>5, FS_EmptySet
<1>7. Cardinality(A \cup B) = Cardinality(A) + Cardinality(B)
  <2>1. Cardinality(A \cup B) = Cardinality(A) + Cardinality(B) - Cardinality(A \cap B)
    BY <1>2, <1>3, FS_Union
  <2>2. Cardinality(A) \in Nat /\ Cardinality(B) \in Nat
    BY <1>2, <1>3
  <2>. QED  BY <1>6, <2>1, <2>2
<1>8. Counted(m) = Cardinality(A \cup B)
  BY <1>4 DEF Counted
<1>9. Counted(m) = Cardinality(A) + Cardinality(m[k]) /\ Counted(m) \in Nat
  BY <1>2, <1>3, <1>7, <1>8
<1>. QED  BY <1>2, <1>3, <1>9 DEF A

\* Counting other files for k counts those instead.
LEMMA CountedExcept ==
  ASSUME NEW m \in [Key -> SUBSET File], NEW k \in Key, NEW S \in SUBSET File,
         NEW n \in [Key -> SUBSET File], n[k] = S, \A j \in Key \ {k} : n[j] = m[j]
  PROVE  Counted(n) + Cardinality(m[k]) = Counted(m) + Cardinality(S)
<1>1. Besides(n, k) = Besides(m, k)
  BY DEF Besides
<1>2. Counted(m) = Cardinality(Besides(m, k)) + Cardinality(m[k])
  BY CountedApart
<1>3. Counted(n) = Cardinality(Besides(m, k)) + Cardinality(S)
  BY <1>1, CountedApart
<1>4. Cardinality(Besides(m, k)) \in Nat /\ Cardinality(m[k]) \in Nat /\ Cardinality(S) \in Nat
  BY Sizes, CountedApart
<1>. QED  BY <1>2, <1>3, <1>4

\* A set has no more files than one that includes it.
LEMMA CountedMore ==
  ASSUME NEW S \in SUBSET File, NEW T \in SUBSET S
  PROVE  Cardinality(T) <= Cardinality(S) /\ Cardinality(T) \in Nat /\ Cardinality(S) \in Nat
BY Sizes, CacheAssumption, FS_Subset DEF CacheAssumption

\* What is used is what is counted, when nothing is counted off the rows.
LEMMA UsedIs ==
  ASSUME TypeOK, \A k \in Key \ rows : manifest[k] = {}
  PROVE  Used = Counted(manifest)
<1>1. {x \in Key \X File : x[1] \in rows /\ x[2] \in manifest[x[1]]} = {x \in Key \X File : x[2] \in manifest[x[1]]}
  OBVIOUS
<1>. QED  BY <1>1 DEF Used, Counted

\* The same, after a step.
LEMMA UsedIsThen ==
  ASSUME TypeOK', \A k \in Key \ rows' : manifest'[k] = {}
  PROVE  Used' = Counted(manifest')
<1>1. {x \in Key \X File : x[1] \in rows' /\ x[2] \in manifest'[x[1]]} = {x \in Key \X File : x[2] \in manifest'[x[1]]}
  OBVIOUS
<1>. QED  BY <1>1 DEF Used, Counted

-----------------------------------------------------------------------------
(* The record.                                                             *)

\* Reconcile finds nothing to do where nobody dies.
LEMMA NothingToReconcile ==
  ASSUME TypeOK, NEW p \in Proc, Reconcile(p), World, RecordedBy(p)
  PROVE  UNCHANGED <<rows, pinned, manifest>>
<1>1. pc[p] = "reconcile"
  BY DEF Reconcile
<1>2. rows = present
  BY <1>1 DEF RecordedBy, Arriving
<1>3. rows' = rows /\ pinned' = pinned \cap rows
  BY <1>2 DEF Reconcile
<1>4. manifest' = [k \in Key |-> IF k \in rows THEN manifest[k] ELSE {}]
  BY <1>2 DEF Reconcile
<1>5. manifest' = manifest
  BY <1>4 DEF World, TypeOK
<1>. QED  BY <1>3, <1>5 DEF World

\* The record changes where a row is forgotten or registered, and nowhere else.
LEMMA RecordStep ==
  ASSUME TypeOK, NEW p \in Proc, pc[p] \notin {"forget", "register"}, Step(p), World, RecordedBy(p)
  PROVE  UNCHANGED <<rows, manifest>>
<1>. USE DEF rowVars
<1>1. CASE Reconcile(p)
  BY <1>1, NothingToReconcile
<1>2. CASE ResolveHit(p)
  BY <1>2 DEF ResolveHit, AtRun, Goto
<1>3. CASE MissInCache(p)
  BY <1>3 DEF MissInCache, AtRun, Goto
<1>4. CASE MissInStore(p)
  BY <1>4 DEF MissInStore, AtRun, Goto
<1>5. CASE FetchFromStore(p)
  BY <1>5 DEF FetchFromStore, Goto
<1>6. CASE FetchFromHub(p)
  BY <1>6 DEF FetchFromHub, Goto
<1>7. CASE HubHasNot(p)
  BY <1>7 DEF HubHasNot, Finish, Leave, Goto, NoJob
<1>8. CASE Place(p)
  BY <1>8 DEF Place, Goto
<1>9. CASE PlaceRefused(p)
  BY <1>9 DEF PlaceRefused, Finish, Leave, Goto, NoJob
<1>10. CASE Return(p)
  BY <1>10 DEF Return, Finish, Leave, Goto, NoJob
<1>11. CASE LeaseAfter(p)
  BY <1>11 DEF LeaseAfter, Goto, NoJob
<1>12. CASE Snapshot(p)
  BY <1>12 DEF Snapshot, Goto
<1>13. CASE PickOldest(p)
  BY <1>13 DEF PickOldest, Goto
<1>14. CASE CollectOver(p)
  BY <1>14 DEF CollectOver, Finish, Leave, Goto, NoJob
<1>15. CASE VerifyPassed(p)
  BY <1>15 DEF VerifyPassed, Goto
<1>16. CASE NotVerified(p)
  BY <1>16 DEF NotVerified, Finish, Leave, Goto, NoJob
<1>17. CASE VerifyReport(p)
  BY <1>17 DEF VerifyReport, Goto, NoJob
<1>18. CASE Evict(p)
  BY <1>18 DEF Evict, AtRun, Goto
<1>19. CASE EvictForced(p)
  BY <1>19 DEF EvictForced, AtRun, Goto
<1>20. CASE EvictRefused(p)
  BY <1>20 DEF EvictRefused, AtRun, Finish, Leave, Goto, NoJob
<1>21. CASE RemoveFile(p)
  BY <1>21 DEF RemoveFile
<1>22. CASE RemoveDirectory(p)
  BY <1>22 DEF RemoveDirectory, Goto
<1>23. CASE Forget(p)
  BY <1>23 DEF Forget, Finish, Leave, Goto, NoJob
<1>24. CASE Upload(p)
  BY <1>24 DEF Upload
<1>25. CASE UploadOver(p)
  BY <1>25 DEF UploadOver, Goto
<1>26. CASE Checked(p)
  BY <1>26 DEF Checked, Goto
<1>27. CASE RemoveSource(p)
  BY <1>27 DEF RemoveSource, Finish, Leave, Goto, NoJob
<1>28. CASE ClearTarget(p)
  BY <1>28 DEF ClearTarget, Goto
<1>29. CASE Move(p)
  BY <1>29 DEF Move, Goto
<1>30. CASE WriteMarker(p)
  BY <1>30 DEF WriteMarker, Goto
<1>31. CASE Register(p)
  BY <1>31 DEF Register, Finish, Leave, Goto, NoJob
<1>32. CASE SetPinned(p)
  BY <1>32 DEF SetPinned
<1>. QED
  BY <1>1, <1>2, <1>3, <1>4, <1>5, <1>6, <1>7, <1>8, <1>9, <1>10, <1>11, <1>12, <1>13,
     <1>14, <1>15, <1>16, <1>17, <1>18, <1>19, <1>20, <1>21, <1>22, <1>23, <1>24, <1>25, <1>26,
     <1>27, <1>28, <1>29, <1>30, <1>31, <1>32 DEF Step

\* What is in the record stays what it is about: p leaves as it was what it
\* does not have in hand.
LEMMA RecordedStep ==
  ASSUME TypeOK, OnTrack, Safe, Cleared, NEW p \in Proc, pc[p] \in Locked, Step(p), KnowsStore(p),
         World, Minds(p), Faults \cap {"crash", "store"} = {}
  PROVE  RecordedBy(p)'
<1>. USE DEF TypeOK, OnTrack, OnTrackAt, Minds, RecordedBy, Arriving, Content, Job, rowVars,
       diskVars, Resolving, Adding, Publishing, InPlace, Collecting, OnKey, Reclaiming
<1>1. CASE Reconcile(p)
  BY <1>1, NothingToReconcile DEF Reconcile, Goto
<1>2. CASE ResolveHit(p)
  BY <1>2 DEF ResolveHit, AtRun, Goto
<1>3. CASE MissInCache(p)
  BY <1>3 DEF MissInCache, AtRun, Goto
<1>4. CASE MissInStore(p)
  BY <1>4 DEF MissInStore, AtRun, Goto
<1>5. CASE FetchFromStore(p)
  BY <1>5 DEF FetchFromStore, Goto
<1>6. CASE FetchFromHub(p)
  BY <1>6 DEF FetchFromHub, Goto
<1>7. CASE HubHasNot(p)
  BY <1>7 DEF HubHasNot, Finish, Leave, Goto, NoJob
<1>8. CASE Place(p)
  BY <1>8 DEF Place, Goto
<1>9. CASE PlaceRefused(p)
  BY <1>9 DEF PlaceRefused, Finish, Leave, Goto, NoJob
<1>10. CASE Return(p)
  BY <1>10 DEF Return, Finish, Leave, Goto, NoJob
<1>11. CASE LeaseAfter(p)
  BY <1>11 DEF LeaseAfter, Goto, NoJob
<1>12. CASE Snapshot(p)
  BY <1>12 DEF Snapshot, Goto
<1>13. CASE PickOldest(p)
  BY <1>13 DEF PickOldest, Goto
<1>14. CASE CollectOver(p)
  BY <1>14 DEF CollectOver, Finish, Leave, Goto, NoJob
<1>15. CASE VerifyPassed(p)
  BY <1>15 DEF VerifyPassed, Goto
<1>16. CASE NotVerified(p)
  BY <1>16 DEF NotVerified, Finish, Leave, Goto, NoJob
<1>17. CASE VerifyReport(p)
  BY <1>17 DEF VerifyReport, Goto, NoJob
<1>18. CASE Evict(p)
  BY <1>18 DEF Evict, AtRun, Goto
<1>19. CASE EvictForced(p)
  BY <1>19 DEF EvictForced, AtRun, Goto
<1>20. CASE EvictRefused(p)
  BY <1>20 DEF EvictRefused, AtRun, Finish, Leave, Goto, NoJob
<1>21. CASE RemoveFile(p)
  BY <1>21 DEF RemoveFile
<1>22. CASE RemoveDirectory(p)
  BY <1>22 DEF RemoveDirectory, Goto
<1>23. CASE Forget(p)
  BY <1>23 DEF Forget, Finish, Leave, Goto, NoJob
<1>24. CASE Upload(p)
  BY <1>24 DEF Upload
<1>25. CASE UploadOver(p)
  BY <1>25 DEF UploadOver, Goto
<1>26. CASE Checked(p)
  <2>1. /\ pc[p] = "check" /\ UNCHANGED <<rows, manifest, present, files>>
        /\ job'[p].op = job[p].op /\ job'[p].key = job[p].key
    BY <1>26 DEF Checked
  <2>2. /\ pc'[p] \in {"place", "rmsrc", "reconcile", "register", "rmtree", "marker"}
        /\ job[p].op \in Adding => pc'[p] = "marker"
        /\ pc'[p] = "register" => job[p].op = "publishHere"
        /\ pc'[p] = "marker" => job[p].op \in {"add", "publishHereKeep"}
    BY <1>26 DEF Checked, Goto
  <2>3. pc'[p] \in {"marker", "register"} => job[p].key \in present
    BY <2>1, <2>2 DEF Safe, Knows
  <2>. QED  BY <2>1, <2>2, <2>3
<1>27. CASE RemoveSource(p)
  BY <1>27 DEF RemoveSource, Finish, Leave, Goto, NoJob
<1>28. CASE ClearTarget(p)
  BY <1>28 DEF ClearTarget, Goto
<1>29. CASE Move(p)
  BY <1>29 DEF Move, Goto
<1>30. CASE WriteMarker(p)
  <2>1. /\ pc[p] = "marker" /\ pc'[p] = "register" /\ UNCHANGED <<job, rows, manifest, present>>
        /\ files' = [files EXCEPT ![job[p].key] = files[job[p].key] \cup {Marker}]
    BY <1>30 DEF WriteMarker, Goto
  <2>2. job[p].key \in Key /\ Marker \notin File
    BY <2>1, CacheAssumption DEF CacheAssumption
  <2>3. \A k \in Key : files'[k] \cap File = files[k] \cap File
    BY <2>1, <2>2
  <2>. QED  BY <2>1, <2>3
<1>31. CASE Register(p)
  BY <1>31 DEF Register, Finish, Leave, Goto, NoJob
<1>32. CASE SetPinned(p)
  BY <1>32 DEF SetPinned, AtRun, Finish, Leave, Goto, NoJob
<1>. QED
  BY <1>1, <1>2, <1>3, <1>4, <1>5, <1>6, <1>7, <1>8, <1>9, <1>10, <1>11, <1>12, <1>13,
     <1>14, <1>15, <1>16, <1>17, <1>18, <1>19, <1>20, <1>21, <1>22, <1>23, <1>24, <1>25, <1>26,
     <1>27, <1>28, <1>29, <1>30, <1>31, <1>32 DEF Step

-----------------------------------------------------------------------------
(* What the operation has in hand.                                         *)

\* Nothing leaves the store.
LEMMA StoreGrows ==
  ASSUME TypeOK, OnTrack, NEW p \in Proc, Step(p)
  PROVE  \A k \in Key : store[k] \subseteq store'[k]
<1>. USE DEF TypeOK, diskVars
<1>1. CASE Reconcile(p)
  BY <1>1 DEF Reconcile, Goto
<1>2. CASE ResolveHit(p)
  BY <1>2 DEF ResolveHit, AtRun, Goto
<1>3. CASE MissInCache(p)
  BY <1>3 DEF MissInCache, AtRun, Goto
<1>4. CASE MissInStore(p)
  BY <1>4 DEF MissInStore, AtRun, Goto
<1>5. CASE FetchFromStore(p)
  BY <1>5 DEF FetchFromStore, Goto
<1>6. CASE FetchFromHub(p)
  BY <1>6 DEF FetchFromHub, Goto
<1>7. CASE HubHasNot(p)
  BY <1>7 DEF HubHasNot, Finish, Leave, Goto, NoJob
<1>8. CASE Place(p)
  BY <1>8 DEF Place, Goto
<1>9. CASE PlaceRefused(p)
  BY <1>9 DEF PlaceRefused, Finish, Leave, Goto, NoJob
<1>10. CASE Return(p)
  BY <1>10 DEF Return, Finish, Leave, Goto, NoJob
<1>11. CASE LeaseAfter(p)
  BY <1>11 DEF LeaseAfter, Goto, NoJob
<1>12. CASE Snapshot(p)
  BY <1>12 DEF Snapshot, Goto
<1>13. CASE PickOldest(p)
  BY <1>13 DEF PickOldest, Goto
<1>14. CASE CollectOver(p)
  BY <1>14 DEF CollectOver, Finish, Leave, Goto, NoJob
<1>15. CASE VerifyPassed(p)
  BY <1>15 DEF VerifyPassed, Goto
<1>16. CASE NotVerified(p)
  BY <1>16 DEF NotVerified, Finish, Leave, Goto, NoJob
<1>17. CASE VerifyReport(p)
  BY <1>17 DEF VerifyReport, Goto, NoJob
<1>18. CASE Evict(p)
  BY <1>18 DEF Evict, AtRun, Goto
<1>19. CASE EvictForced(p)
  BY <1>19 DEF EvictForced, AtRun, Goto
<1>20. CASE EvictRefused(p)
  BY <1>20 DEF EvictRefused, AtRun, Finish, Leave, Goto, NoJob
<1>21. CASE RemoveFile(p)
  BY <1>21 DEF RemoveFile
<1>22. CASE RemoveDirectory(p)
  BY <1>22 DEF RemoveDirectory, Goto
<1>23. CASE Forget(p)
  BY <1>23 DEF Forget, Finish, Leave, Goto, NoJob
<1>24. CASE Upload(p)
  BY <1>24 DEF Upload
<1>25. CASE UploadOver(p)
  BY <1>25 DEF UploadOver, Goto
<1>26. CASE Checked(p)
  BY <1>26 DEF Checked, Goto
<1>27. CASE RemoveSource(p)
  BY <1>27 DEF RemoveSource, Finish, Leave, Goto, NoJob
<1>28. CASE ClearTarget(p)
  BY <1>28 DEF ClearTarget, Goto
<1>29. CASE Move(p)
  BY <1>29 DEF Move, Goto
<1>30. CASE WriteMarker(p)
  BY <1>30 DEF WriteMarker, Goto
<1>31. CASE Register(p)
  BY <1>31 DEF Register, Finish, Leave, Goto, NoJob
<1>32. CASE SetPinned(p)
  BY <1>32 DEF SetPinned, AtRun, Finish, Leave, Goto, NoJob
<1>. QED
  BY <1>1, <1>2, <1>3, <1>4, <1>5, <1>6, <1>7, <1>8, <1>9, <1>10, <1>11, <1>12, <1>13,
     <1>14, <1>15, <1>16, <1>17, <1>18, <1>19, <1>20, <1>21, <1>22, <1>23, <1>24, <1>25, <1>26,
     <1>27, <1>28, <1>29, <1>30, <1>31, <1>32 DEF Step

\* The store and the outputs change where files are sent and moved.
LEMMA StoreOut ==
  ASSUME TypeOK, NEW p \in Proc, Step(p)
  PROVE  (pc[p] # "upload" => store' = store) /\ (pc[p] \notin {"move", "rmsrc"} => out' = out)
<1>. USE DEF diskVars
<1>1. CASE Reconcile(p)
  BY <1>1 DEF Reconcile, Goto
<1>2. CASE ResolveHit(p)
  BY <1>2 DEF ResolveHit, AtRun, Goto
<1>3. CASE MissInCache(p)
  BY <1>3 DEF MissInCache, AtRun, Goto
<1>4. CASE MissInStore(p)
  BY <1>4 DEF MissInStore, AtRun, Goto
<1>5. CASE FetchFromStore(p)
  BY <1>5 DEF FetchFromStore, Goto
<1>6. CASE FetchFromHub(p)
  BY <1>6 DEF FetchFromHub, Goto
<1>7. CASE HubHasNot(p)
  BY <1>7 DEF HubHasNot, Finish, Leave, Goto, NoJob
<1>8. CASE Place(p)
  BY <1>8 DEF Place, Goto
<1>9. CASE PlaceRefused(p)
  BY <1>9 DEF PlaceRefused, Finish, Leave, Goto, NoJob
<1>10. CASE Return(p)
  BY <1>10 DEF Return, Finish, Leave, Goto, NoJob
<1>11. CASE LeaseAfter(p)
  BY <1>11 DEF LeaseAfter, Goto, NoJob
<1>12. CASE Snapshot(p)
  BY <1>12 DEF Snapshot, Goto
<1>13. CASE PickOldest(p)
  BY <1>13 DEF PickOldest, Goto
<1>14. CASE CollectOver(p)
  BY <1>14 DEF CollectOver, Finish, Leave, Goto, NoJob
<1>15. CASE VerifyPassed(p)
  BY <1>15 DEF VerifyPassed, Goto
<1>16. CASE NotVerified(p)
  BY <1>16 DEF NotVerified, Finish, Leave, Goto, NoJob
<1>17. CASE VerifyReport(p)
  BY <1>17 DEF VerifyReport, Goto, NoJob
<1>18. CASE Evict(p)
  BY <1>18 DEF Evict, AtRun, Goto
<1>19. CASE EvictForced(p)
  BY <1>19 DEF EvictForced, AtRun, Goto
<1>20. CASE EvictRefused(p)
  BY <1>20 DEF EvictRefused, AtRun, Finish, Leave, Goto, NoJob
<1>21. CASE RemoveFile(p)
  BY <1>21 DEF RemoveFile
<1>22. CASE RemoveDirectory(p)
  BY <1>22 DEF RemoveDirectory, Goto
<1>23. CASE Forget(p)
  BY <1>23 DEF Forget, Finish, Leave, Goto, NoJob
<1>24. CASE Upload(p)
  BY <1>24 DEF Upload
<1>25. CASE UploadOver(p)
  BY <1>25 DEF UploadOver, Goto
<1>26. CASE Checked(p)
  BY <1>26 DEF Checked, Goto
<1>27. CASE RemoveSource(p)
  BY <1>27 DEF RemoveSource, Finish, Leave, Goto, NoJob
<1>28. CASE ClearTarget(p)
  BY <1>28 DEF ClearTarget, Goto
<1>29. CASE Move(p)
  BY <1>29 DEF Move, Goto
<1>30. CASE WriteMarker(p)
  BY <1>30 DEF WriteMarker, Goto
<1>31. CASE Register(p)
  BY <1>31 DEF Register, Finish, Leave, Goto, NoJob
<1>32. CASE SetPinned(p)
  BY <1>32 DEF SetPinned, AtRun, Finish, Leave, Goto, NoJob
<1>. QED
  BY <1>1, <1>2, <1>3, <1>4, <1>5, <1>6, <1>7, <1>8, <1>9, <1>10, <1>11, <1>12, <1>13,
     <1>14, <1>15, <1>16, <1>17, <1>18, <1>19, <1>20, <1>21, <1>22, <1>23, <1>24, <1>25, <1>26,
     <1>27, <1>28, <1>29, <1>30, <1>31, <1>32 DEF Step

\* What nobody keeps is kept by nobody, but by one who takes a lease or keeps it.
LEMMA UnheldStep ==
  ASSUME TypeOK, NEW p \in Proc, pc[p] \in Locked \ {"return"}, Step(p), job[p].op # "pin"
  PROVE  pinned' \subseteq pinned /\ leases' = leases /\ \A q \in Proc : pc'[q] = "lease" => pc[q] = "lease" /\ job'[q] = job[q]
<1>. USE DEF TypeOK, rowVars
<1>0. \A q \in Proc \ {p} : pc'[q] = pc[q] /\ job'[q] = job[q]
  BY Frame
<1>1. CASE Reconcile(p)
  BY <1>1, <1>0 DEF Reconcile, Goto
<1>2. CASE ResolveHit(p)
  BY <1>2, <1>0 DEF ResolveHit, AtRun, Goto
<1>3. CASE MissInCache(p)
  BY <1>3, <1>0 DEF MissInCache, AtRun, Goto
<1>4. CASE MissInStore(p)
  BY <1>4, <1>0 DEF MissInStore, AtRun, Goto
<1>5. CASE FetchFromStore(p)
  BY <1>5, <1>0 DEF FetchFromStore, Goto
<1>6. CASE FetchFromHub(p)
  BY <1>6, <1>0 DEF FetchFromHub, Goto
<1>7. CASE HubHasNot(p)
  BY <1>7, <1>0 DEF HubHasNot, Finish, Leave, Goto, NoJob
<1>8. CASE Place(p)
  BY <1>8, <1>0 DEF Place, Goto
<1>9. CASE PlaceRefused(p)
  BY <1>9, <1>0 DEF PlaceRefused, Finish, Leave, Goto, NoJob
<1>10. CASE Return(p)
  BY <1>10, <1>0 DEF Return, Finish, Leave, Goto, NoJob
<1>11. CASE LeaseAfter(p)
  BY <1>11 DEF LeaseAfter, Locked
<1>12. CASE Snapshot(p)
  BY <1>12, <1>0 DEF Snapshot, Goto
<1>13. CASE PickOldest(p)
  BY <1>13, <1>0 DEF PickOldest, Goto
<1>14. CASE CollectOver(p)
  BY <1>14, <1>0 DEF CollectOver, Finish, Leave, Goto, NoJob
<1>15. CASE VerifyPassed(p)
  BY <1>15, <1>0 DEF VerifyPassed, Goto
<1>16. CASE NotVerified(p)
  BY <1>16, <1>0 DEF NotVerified, Finish, Leave, Goto, NoJob
<1>17. CASE VerifyReport(p)
  BY <1>17 DEF VerifyReport, Locked
<1>18. CASE Evict(p)
  BY <1>18, <1>0 DEF Evict, AtRun, Goto
<1>19. CASE EvictForced(p)
  BY <1>19, <1>0 DEF EvictForced, AtRun, Goto
<1>20. CASE EvictRefused(p)
  BY <1>20, <1>0 DEF EvictRefused, AtRun, Finish, Leave, Goto, NoJob
<1>21. CASE RemoveFile(p)
  BY <1>21, <1>0 DEF RemoveFile
<1>22. CASE RemoveDirectory(p)
  BY <1>22, <1>0 DEF RemoveDirectory, Goto
<1>23. CASE Forget(p)
  BY <1>23, <1>0 DEF Forget, Finish, Leave, Goto, NoJob
<1>24. CASE Upload(p)
  BY <1>24, <1>0 DEF Upload
<1>25. CASE UploadOver(p)
  BY <1>25, <1>0 DEF UploadOver, Goto
<1>26. CASE Checked(p)
  BY <1>26, <1>0 DEF Checked, Goto
<1>27. CASE RemoveSource(p)
  BY <1>27, <1>0 DEF RemoveSource, Finish, Leave, Goto, NoJob
<1>28. CASE ClearTarget(p)
  BY <1>28, <1>0 DEF ClearTarget, Goto
<1>29. CASE Move(p)
  BY <1>29, <1>0 DEF Move, Goto
<1>30. CASE WriteMarker(p)
  BY <1>30, <1>0 DEF WriteMarker, Goto
<1>31. CASE Register(p)
  BY <1>31, <1>0 DEF Register, Finish, Leave, Goto, NoJob
<1>32. CASE SetPinned(p)
  BY <1>32, <1>0 DEF SetPinned, AtRun, Finish, Leave, Goto, NoJob
<1>. QED
  BY <1>1, <1>2, <1>3, <1>4, <1>5, <1>6, <1>7, <1>8, <1>9, <1>10, <1>11, <1>12, <1>13,
     <1>14, <1>15, <1>16, <1>17, <1>18, <1>19, <1>20, <1>21, <1>22, <1>23, <1>24, <1>25, <1>26,
     <1>27, <1>28, <1>29, <1>30, <1>31, <1>32 DEF Step

\* What came from the hub stays in the store.
LEMMA WorldStep ==
  ASSUME TypeOK, OnTrack, Safe, Cleared, NEW p \in Proc, pc[p] \in Locked, Step(p), KnowsStore(p),
         World, Minds(p), Faults \cap {"crash", "store"} = {}
  PROVE  World'
<1>. USE DEF TypeOK, OnTrack, OnTrackAt, World, Job, rowVars, diskVars, Resolving, Adding,
       Publishing, InPlace, Collecting, OnKey, Reclaiming
<1>0. /\ \A k \in Key : Landed(k) => Landed(k)'
      /\ \A k \in HubKeys : k \in Key
      /\ \A q \in Proc \ {p} : pc'[q] = pc[q] /\ job'[q] = job[q]
  BY StoreGrows, CacheAssumption, Frame DEF Landed, CacheAssumption
<1>k. ASSUME UNCHANGED <<rows, manifest, leases>>, pinned' \subseteq rows, pc'[p] # "lease",
             \A k \in Key : out'[k] \subseteq out[k]
      PROVE  World'
  <2>1. ASSUME NEW q \in Proc, pc'[q] = "lease" PROVE Landed(job[q].key)'
    <3>1. pc[q] = "lease" /\ job'[q] = job[q] /\ Landed(job[q].key)
      BY <1>0, <1>k, <2>1
    <3>2. PICK k \in Key : k = job[q].key
      BY <3>1
    <3>. QED  BY <1>0, <3>1, <3>2
  <2>2. \A l \in leases : l[2] \in Key /\ Landed(l[2])
    OBVIOUS
  <2>. QED  BY <1>0, <1>k, <2>1, <2>2
<1>1. CASE Reconcile(p)
  <2>1. UNCHANGED <<rows, pinned, manifest>>
    BY <1>1, NothingToReconcile DEF Minds
  <2>2. UNCHANGED <<leases, out>> /\ pc'[p] # "lease"
    BY <1>1 DEF Reconcile, Goto
  <2>. QED  BY <2>1, <2>2, <1>k
<1>2. CASE ResolveHit(p)
  <2>1. /\ UNCHANGED <<rows, manifest, leases>> /\ pinned' \subseteq rows /\ pc'[p] # "lease"
        /\ \A k \in Key : out'[k] \subseteq out[k]
    BY <1>2 DEF ResolveHit, AtRun, Goto
  <2>. QED  BY <2>1, <1>k
<1>3. CASE MissInCache(p)
  <2>1. /\ UNCHANGED <<rows, manifest, leases>> /\ pinned' \subseteq rows /\ pc'[p] # "lease"
        /\ \A k \in Key : out'[k] \subseteq out[k]
    BY <1>3 DEF MissInCache, AtRun, Goto
  <2>. QED  BY <2>1, <1>k
<1>4. CASE MissInStore(p)
  <2>1. /\ UNCHANGED <<rows, manifest, leases>> /\ pinned' \subseteq rows /\ pc'[p] # "lease"
        /\ \A k \in Key : out'[k] \subseteq out[k]
    BY <1>4 DEF MissInStore, AtRun, Goto
  <2>. QED  BY <2>1, <1>k
<1>5. CASE FetchFromStore(p)
  <2>1. /\ UNCHANGED <<rows, manifest, leases>> /\ pinned' \subseteq rows /\ pc'[p] # "lease"
        /\ \A k \in Key : out'[k] \subseteq out[k]
    BY <1>5 DEF FetchFromStore, Goto
  <2>. QED  BY <2>1, <1>k
<1>6. CASE FetchFromHub(p)
  <2>1. /\ UNCHANGED <<rows, manifest, leases>> /\ pinned' \subseteq rows /\ pc'[p] # "lease"
        /\ \A k \in Key : out'[k] \subseteq out[k]
    BY <1>6 DEF FetchFromHub, Goto
  <2>. QED  BY <2>1, <1>k
<1>7. CASE HubHasNot(p)
  <2>1. /\ UNCHANGED <<rows, manifest, leases>> /\ pinned' \subseteq rows /\ pc'[p] # "lease"
        /\ \A k \in Key : out'[k] \subseteq out[k]
    BY <1>7 DEF HubHasNot, Finish, Leave, Goto, NoJob
  <2>. QED  BY <2>1, <1>k
<1>8. CASE Place(p)
  <2>1. /\ UNCHANGED <<rows, manifest, leases>> /\ pinned' \subseteq rows /\ pc'[p] # "lease"
        /\ \A k \in Key : out'[k] \subseteq out[k]
    BY <1>8 DEF Place, Goto
  <2>. QED  BY <2>1, <1>k
<1>9. CASE PlaceRefused(p)
  <2>1. /\ UNCHANGED <<rows, manifest, leases>> /\ pinned' \subseteq rows /\ pc'[p] # "lease"
        /\ \A k \in Key : out'[k] \subseteq out[k]
    BY <1>9 DEF PlaceRefused, Finish, Leave, Goto, NoJob
  <2>. QED  BY <2>1, <1>k
<1>10. CASE Return(p)
  <2>1. Landed(job[p].key) /\ job[p].key \in Key
    BY <1>10 DEF Return, Minds, NewBy
  <2>2. /\ leases' \subseteq leases \cup {<<p, job[p].key>>} /\ UNCHANGED <<rows, pinned, manifest, out, store>>
        /\ pc'[p] = "lease" => job' = job
    BY <1>10 DEF Return, Finish, Leave, Goto
  <2>. QED  BY <1>0, <2>1, <2>2
<1>11. CASE LeaseAfter(p)
  BY <1>11 DEF LeaseAfter, Locked
<1>12. CASE Snapshot(p)
  <2>1. /\ UNCHANGED <<rows, manifest, leases>> /\ pinned' \subseteq rows /\ pc'[p] # "lease"
        /\ \A k \in Key : out'[k] \subseteq out[k]
    BY <1>12 DEF Snapshot, Goto
  <2>. QED  BY <2>1, <1>k
<1>13. CASE PickOldest(p)
  <2>1. /\ UNCHANGED <<rows, manifest, leases>> /\ pinned' \subseteq rows /\ pc'[p] # "lease"
        /\ \A k \in Key : out'[k] \subseteq out[k]
    BY <1>13 DEF PickOldest, Goto
  <2>. QED  BY <2>1, <1>k
<1>14. CASE CollectOver(p)
  <2>1. /\ UNCHANGED <<rows, manifest, leases>> /\ pinned' \subseteq rows /\ pc'[p] # "lease"
        /\ \A k \in Key : out'[k] \subseteq out[k]
    BY <1>14 DEF CollectOver, Finish, Leave, Goto, NoJob
  <2>. QED  BY <2>1, <1>k
<1>15. CASE VerifyPassed(p)
  <2>1. /\ UNCHANGED <<rows, manifest, leases>> /\ pinned' \subseteq rows /\ pc'[p] # "lease"
        /\ \A k \in Key : out'[k] \subseteq out[k]
    BY <1>15 DEF VerifyPassed, Goto
  <2>. QED  BY <2>1, <1>k
<1>16. CASE NotVerified(p)
  <2>1. /\ UNCHANGED <<rows, manifest, leases>> /\ pinned' \subseteq rows /\ pc'[p] # "lease"
        /\ \A k \in Key : out'[k] \subseteq out[k]
    BY <1>16 DEF NotVerified, Finish, Leave, Goto, NoJob
  <2>. QED  BY <2>1, <1>k
<1>17. CASE VerifyReport(p)
  BY <1>17 DEF VerifyReport, Locked
<1>18. CASE Evict(p)
  <2>1. /\ UNCHANGED <<rows, manifest, leases>> /\ pinned' \subseteq rows /\ pc'[p] # "lease"
        /\ \A k \in Key : out'[k] \subseteq out[k]
    BY <1>18 DEF Evict, AtRun, Goto
  <2>. QED  BY <2>1, <1>k
<1>19. CASE EvictForced(p)
  <2>1. /\ UNCHANGED <<rows, manifest, leases>> /\ pinned' \subseteq rows /\ pc'[p] # "lease"
        /\ \A k \in Key : out'[k] \subseteq out[k]
    BY <1>19 DEF EvictForced, AtRun, Goto
  <2>. QED  BY <2>1, <1>k
<1>20. CASE EvictRefused(p)
  <2>1. /\ UNCHANGED <<rows, manifest, leases>> /\ pinned' \subseteq rows /\ pc'[p] # "lease"
        /\ \A k \in Key : out'[k] \subseteq out[k]
    BY <1>20 DEF EvictRefused, AtRun, Finish, Leave, Goto, NoJob
  <2>. QED  BY <2>1, <1>k
<1>21. CASE RemoveFile(p)
  BY <1>21, <1>0 DEF RemoveFile
<1>22. CASE RemoveDirectory(p)
  <2>1. /\ UNCHANGED <<rows, manifest, leases>> /\ pinned' \subseteq rows /\ pc'[p] # "lease"
        /\ \A k \in Key : out'[k] \subseteq out[k]
    BY <1>22 DEF RemoveDirectory, Goto
  <2>. QED  BY <2>1, <1>k
<1>23. CASE Forget(p)
  BY <1>23, <1>0 DEF Forget, Finish, Leave, Goto, NoJob
<1>24. CASE Upload(p)
  <2>1. UNCHANGED <<pc, rows, pinned, manifest, leases, out>> /\ pc[p] = "upload"
    BY <1>24 DEF Upload
  <2>. QED  BY <1>0, <2>1
<1>25. CASE UploadOver(p)
  <2>1. /\ UNCHANGED <<rows, manifest, leases>> /\ pinned' \subseteq rows /\ pc'[p] # "lease"
        /\ \A k \in Key : out'[k] \subseteq out[k]
    BY <1>25 DEF UploadOver, Goto
  <2>. QED  BY <2>1, <1>k
<1>26. CASE Checked(p)
  <2>1. /\ UNCHANGED <<rows, manifest, leases>> /\ pinned' \subseteq rows /\ pc'[p] # "lease"
        /\ \A k \in Key : out'[k] \subseteq out[k]
    BY <1>26 DEF Checked, Goto
  <2>. QED  BY <2>1, <1>k
<1>27. CASE RemoveSource(p)
  <2>1. UNCHANGED <<rows, pinned, manifest, leases, store>> /\ pc'[p] # "lease" /\ \A k \in Key : out'[k] \subseteq out[k]
    BY <1>27 DEF RemoveSource, Finish, Leave, Goto
  <2>. QED  BY <1>0, <2>1
<1>28. CASE ClearTarget(p)
  <2>1. /\ UNCHANGED <<rows, manifest, leases>> /\ pinned' \subseteq rows /\ pc'[p] # "lease"
        /\ \A k \in Key : out'[k] \subseteq out[k]
    BY <1>28 DEF ClearTarget, Goto
  <2>. QED  BY <2>1, <1>k
<1>29. CASE Move(p)
  <2>1. /\ UNCHANGED <<rows, manifest, leases>> /\ pinned' \subseteq rows /\ pc'[p] # "lease"
        /\ \A k \in Key : out'[k] \subseteq out[k]
    BY <1>29 DEF Move, Goto
  <2>. QED  BY <2>1, <1>k
<1>30. CASE WriteMarker(p)
  <2>1. /\ UNCHANGED <<rows, manifest, leases>> /\ pinned' \subseteq rows /\ pc'[p] # "lease"
        /\ \A k \in Key : out'[k] \subseteq out[k]
    BY <1>30 DEF WriteMarker, Goto
  <2>. QED  BY <2>1, <1>k
<1>31. CASE Register(p)
  <2>1. Landed(job[p].key) /\ job[p].key \in Key
    BY <1>31 DEF Register, Minds, NewBy, Landed
  <2>2. /\ rows' = rows \cup {job[p].key} /\ UNCHANGED <<pinned, leases, out, store>> /\ pc'[p] # "lease"
        /\ manifest' = [manifest EXCEPT ![job[p].key] = Content(job[p].key)]
    BY <1>31 DEF Register, Finish, Leave, Goto
  <2>3. \A k \in Key \ rows' : manifest'[k] = {}
    BY <2>1, <2>2
  <2>4. \A k \in rows' : Landed(k)'
    BY <1>0, <2>1, <2>2
  <2>5. \A q \in Proc : pc'[q] = "lease" => job'[q] = job[q] /\ Landed(job[q].key)'
    <3>. SUFFICES ASSUME NEW q \in Proc, pc'[q] = "lease" PROVE job'[q] = job[q] /\ Landed(job[q].key)'
      OBVIOUS
    <3>1. pc[q] = "lease" /\ job'[q] = job[q] /\ Landed(job[q].key)
      BY <1>0, <2>2
    <3>2. job[q].key \in Key
      BY <3>1
    <3>. QED  BY <1>0, <3>1, <3>2
  <2>6. \A l \in leases' : Landed(l[2])'
    BY <1>0, <2>2
  <2>7. \A k \in HubKeys : out'[k] = {}
    BY <2>2
  <2>8. pinned' \subseteq rows'
    BY <2>2
  <2>. QED  BY <2>3, <2>4, <2>5, <2>6, <2>7, <2>8
<1>32. CASE SetPinned(p)
  <2>1. /\ UNCHANGED <<rows, manifest, leases>> /\ pinned' \subseteq rows /\ pc'[p] # "lease"
        /\ \A k \in Key : out'[k] \subseteq out[k]
    BY <1>32 DEF SetPinned, AtRun, Finish, Leave, Goto, NoJob
  <2>. QED  BY <2>1, <1>k
<1>. QED
  BY <1>1, <1>2, <1>3, <1>4, <1>5, <1>6, <1>7, <1>8, <1>9, <1>10, <1>11, <1>12, <1>13,
     <1>14, <1>15, <1>16, <1>17, <1>18, <1>19, <1>20, <1>21, <1>22, <1>23, <1>24, <1>25, <1>26,
     <1>27, <1>28, <1>29, <1>30, <1>31, <1>32 DEF Step

\* What is new stays new, and nobody takes what comes from the hub.
LEMMA NewStep ==
  ASSUME TypeOK, OnTrack, Safe, Cleared, NEW p \in Proc, pc[p] \in Locked, Step(p), KnowsStore(p),
         World, Minds(p), Faults \cap {"crash", "store"} = {}
  PROVE  NewBy(p)'
<1>. USE DEF TypeOK, OnTrack, OnTrackAt, Job, Resolving, Adding, Publishing, InPlace, Collecting,
       OnKey, Reclaiming
<1>a. \A k \in Key : Landed(k) => Landed(k)'
  BY StoreGrows, CacheAssumption DEF Landed, CacheAssumption
<1>b. job[p].op # "pin" /\ pc[p] # "return" => \A k \in Key : Unheld(k) => Unheld(k)'
  BY UnheldStep DEF Unheld, Leased
<1>c. pc[p] \notin {"forget", "register"} => rows' = rows
  BY RecordStep DEF Minds
<1>u. job'[p] = NoJob => NewBy(p)'
  BY DEF NewBy, NoJob
<1>1. CASE Reconcile(p)
  <2>1. pc[p] = "reconcile" /\ pc'[p] \in {"run", "space"} /\ job' = job
    BY <1>1 DEF Reconcile, Goto
  <2>. QED  BY <2>1, <1>u, <1>a, <1>b, <1>c DEF NewBy, Minds, Fetching, Going
<1>2. CASE ResolveHit(p)
  <2>1. pc[p] = "run" /\ pc'[p] = "return" /\ job' = job /\ job[p].key \in rows /\ job[p].op \in Resolving
    BY <1>2 DEF ResolveHit, AtRun, Goto, Resolving, Adding, Hit
  <2>2. Landed(job[p].key)
    BY <2>1 DEF World
  <2>. QED  BY <2>1, <2>2, <1>u, <1>a, <1>b, <1>c DEF NewBy, Minds, Fetching, Going
<1>3. CASE MissInCache(p)
  <2>1. /\ pc[p] = "run" /\ pc'[p] = "space" /\ job[p].op \in Resolving /\ store[job[p].key] # {}
        /\ ~(job[p].key \in rows /\ job[p].key \in present)
        /\ job'[p].op = job[p].op /\ job'[p].key = job[p].key /\ job'[p].staged = job[p].staged
        /\ job'[p].from = "store"
        /\ job'[p].size = Cardinality(store[job[p].key]) /\ job'[p].need = job'[p].size
    BY <1>3 DEF MissInCache, AtRun, Goto, Resolving, Adding, Hit
  <2>2. Landed(job[p].key) /\ rows = present
    BY <2>1 DEF Landed, Minds, RecordedBy, Arriving
  <2>. QED  BY <2>1, <2>2, <1>u, <1>a, <1>b, <1>c DEF NewBy, Minds, Fetching, Going
<1>4. CASE MissInStore(p)
  <2>1. /\ pc[p] = "run" /\ pc'[p] = "space" /\ job[p].op \in Resolving /\ store[job[p].key] = {}
        /\ ~(job[p].key \in rows /\ job[p].key \in present)
        /\ job'[p].op = job[p].op /\ job'[p].key = job[p].key /\ job'[p].staged = job[p].staged
        /\ job'[p].from = "hub"
        /\ job'[p].size \in HubSizes
        /\ job'[p].need = IF job'[p].size = 0 THEN MinFree ELSE job'[p].size
    BY <1>4 DEF MissInStore, AtRun, Goto, Resolving, Adding, Hit
  <2>2. /\ job[p].key \in HubKeys /\ File # {} => Unheld(job[p].key)
        /\ job[p].key \notin rows
    <3>1. rows = present
      BY <2>1 DEF Minds, RecordedBy, Arriving
    <3>2. job[p].key \in HubKeys /\ File # {} => ~Landed(job[p].key)
      BY <2>1 DEF Landed
    <3>3. Leased(job[p].key) => \E l \in leases : l[2] = job[p].key
      BY DEF Leased
    <3>. QED  BY <2>1, <3>1, <3>2, <3>3 DEF World, Unheld
  <2>. QED  BY <2>1, <2>2, <1>u, <1>a, <1>b, <1>c DEF NewBy, Minds, Fetching, Going
<1>5. CASE FetchFromStore(p)
  <2>1. /\ pc[p] = "fetch" /\ pc'[p] = "place" /\ job[p].from = "store"
        /\ job'[p].op = job[p].op /\ job'[p].key = job[p].key /\ job'[p].from = job[p].from
        /\ job'[p].size = job[p].size /\ job'[p].need = job[p].need
        /\ job'[p].staged = store[job[p].key]
    BY <1>5 DEF FetchFromStore, Goto
  <2>. QED  BY <2>1, <1>u, <1>a, <1>b, <1>c DEF NewBy, Minds, Fetching, Going
<1>6. CASE FetchFromHub(p)
  <2>1. /\ pc[p] = "fetch" /\ pc'[p] = "upload" /\ job[p].from = "hub" /\ job[p].key \in HubKeys
        /\ job'[p].op = job[p].op /\ job'[p].key = job[p].key /\ job'[p].from = job[p].from
        /\ job'[p].size = job[p].size /\ job'[p].need = job[p].need
        /\ job'[p].staged = File
    BY <1>6 DEF FetchFromHub, Goto
  <2>. QED  BY <2>1, <1>u, <1>a, <1>b, <1>c DEF NewBy, Minds, Fetching, Going
<1>7. CASE HubHasNot(p)
  BY <1>7, <1>u DEF HubHasNot, Finish, Leave, Goto, NoJob
<1>8. CASE Place(p)
  <2>1. pc[p] = "place" /\ pc'[p] = "register" /\ job' = job
    BY <1>8 DEF Place, Goto
  <2>. QED  BY <2>1, <1>u, <1>a, <1>b, <1>c DEF NewBy, Minds, Fetching, Going
<1>9. CASE PlaceRefused(p)
  BY <1>9, <1>u DEF PlaceRefused, Finish, Leave, Goto, NoJob
<1>10. CASE Return(p)
  <2>1. pc[p] = "return" /\ rows' = rows /\ (job'[p] = NoJob \/ (job' = job /\ pc'[p] = "lease" /\ job[p].op = "hold"))
    BY <1>10, <1>c DEF Return, Finish, Leave, Goto
  <2>. QED  BY <2>1, <1>u, <1>a DEF NewBy, Minds, Fetching, Going
<1>11. CASE LeaseAfter(p)
  BY <1>11 DEF LeaseAfter, Locked
<1>12. CASE Snapshot(p)
  <2>1. /\ pc[p] = "space" /\ pc'[p] = "collect"
        /\ job'[p].op = job[p].op /\ job'[p].key = job[p].key /\ job'[p].from = job[p].from
        /\ job'[p].size = job[p].size /\ job'[p].need = job[p].need /\ job'[p].staged = job[p].staged
    BY <1>12 DEF Snapshot, Goto
  <2>. QED  BY <2>1, <1>u, <1>a, <1>b, <1>c DEF NewBy, Minds, Fetching, Going
<1>13. CASE PickOldest(p)
  <2>1. /\ pc[p] = "collect" /\ pc'[p] = "verify"
        /\ job'[p].op = job[p].op /\ job'[p].key = job[p].key /\ job'[p].from = job[p].from
        /\ job'[p].size = job[p].size /\ job'[p].need = job[p].need /\ job'[p].staged = job[p].staged /\ job'[p].goal = job[p].goal
    BY <1>13 DEF PickOldest, Goto
  <2>. QED  BY <2>1, <1>u, <1>a, <1>b, <1>c DEF NewBy, Minds, Fetching, Going
<1>14. CASE CollectOver(p)
  <2>1. \/ job'[p] = NoJob
        \/ job' = job /\ pc[p] = "collect" /\ pc'[p] \in {"return", "fetch", "clear", "move"} /\ (job[p].op \in Adding => job[p].key \notin present)
           /\ (job[p].op \in Resolving => pc'[p] = IF job[p].from = "placed" THEN "return" ELSE "fetch")
    BY <1>14 DEF CollectOver, Finish, Leave, Goto
  <2>2. pc[p] = "collect" => rows \subseteq present
    BY DEF Minds, RecordedBy
  <2>. QED  BY <2>1, <2>2, <1>a, <1>b, <1>c, <1>u DEF NewBy, Minds, Fetching, Going
<1>15. CASE VerifyPassed(p)
  <2>1. /\ pc[p] = "verify" /\ pc'[p] \in {"rmtree", "collect"}
        /\ job'[p].op = job[p].op /\ job'[p].key = job[p].key /\ job'[p].from = job[p].from
        /\ job'[p].size = job[p].size /\ job'[p].need = job[p].need /\ job'[p].staged = job[p].staged
    BY <1>15 DEF VerifyPassed, Goto
  <2>. QED  BY <2>1, <1>u, <1>a, <1>b, <1>c DEF NewBy, Minds, Fetching, Going
<1>16. CASE NotVerified(p)
  <2>1. \/ job'[p] = NoJob
        \/ job' = job /\ pc[p] = "verify" /\ pc'[p] = "collect"
    BY <1>16 DEF NotVerified, Finish, Leave, Goto
  <2>. QED  BY <2>1, <1>a, <1>b, <1>c, <1>u DEF NewBy, Minds, Fetching, Going
<1>17. CASE VerifyReport(p)
  BY <1>17 DEF VerifyReport, Locked
<1>18. CASE Evict(p)
  <2>1. pc[p] = "run" /\ job[p].op = "evict" /\ job'[p].op = "evict" /\ job'[p].from = job[p].from /\ pc'[p] = "verify"
    BY <1>18 DEF Evict, AtRun, Goto
  <2>. QED  BY <2>1, <1>u, <1>a, <1>b, <1>c DEF NewBy, Minds, Fetching, Going
<1>19. CASE EvictForced(p)
  <2>1. pc[p] = "run" /\ job[p].op = "force" /\ job'[p].op = "force" /\ job'[p].from = job[p].from /\ pc'[p] = "rmtree"
    BY <1>19 DEF EvictForced, AtRun, Goto
  <2>. QED  BY <2>1, <1>u, <1>a, <1>b, <1>c DEF NewBy, Minds, Fetching, Going
<1>20. CASE EvictRefused(p)
  BY <1>20, <1>u DEF EvictRefused, AtRun, Finish, Leave, Goto, NoJob
<1>21. CASE RemoveFile(p)
  <2>1. pc[p] = "rmtree" /\ pc' = pc /\ job' = job
    BY <1>21 DEF RemoveFile
  <2>. QED  BY <2>1, <1>u, <1>a, <1>b, <1>c DEF NewBy, Minds, Fetching, Going
<1>22. CASE RemoveDirectory(p)
  <2>1. pc[p] = "rmtree" /\ pc'[p] = "forget" /\ job' = job
    BY <1>22 DEF RemoveDirectory, Goto
  <2>. QED  BY <2>1, <1>u, <1>a, <1>b, <1>c DEF NewBy, Minds, Fetching, Going
<1>23. CASE Forget(p)
  <2>1. rows' \subseteq rows /\ pc[p] = "forget"
    BY <1>23 DEF Forget
  <2>2. \/ job'[p] = NoJob
        \/ job'[p].op = job[p].op /\ job'[p].key = job[p].key /\ job'[p].from = job[p].from /\ pc'[p] = "collect"
    BY <1>23 DEF Forget, Finish, Leave, Goto
  <2>. QED  BY <2>1, <2>2, <1>a, <1>b, <1>u DEF NewBy, Minds, Fetching, Going
<1>24. CASE Upload(p)
  <2>1. /\ pc[p] = "upload" /\ pc' = pc
        /\ job'[p].op = job[p].op /\ job'[p].key = job[p].key /\ job'[p].from = job[p].from
        /\ job'[p].size = job[p].size /\ job'[p].need = job[p].need /\ job'[p].staged = job[p].staged
    BY <1>24 DEF Upload
  <2>. QED  BY <2>1, <1>u, <1>a, <1>b, <1>c DEF NewBy, Minds, Fetching, Going
<1>25. CASE UploadOver(p)
  <2>1. pc[p] = "upload" /\ pc'[p] = "check" /\ job' = job /\ store' = store
    BY <1>25 DEF UploadOver, Goto
  <2>. QED  BY <2>1, <1>u, <1>a, <1>b, <1>c DEF NewBy, Minds, Fetching, Going
<1>26. CASE Checked(p)
  <2>1. /\ pc[p] = "check" /\ Sent(p) \subseteq store[job[p].key]
        /\ job'[p].op = job[p].op /\ job'[p].key = job[p].key /\ job'[p].from = job[p].from
        /\ job'[p].size = job[p].size /\ job'[p].staged = job[p].staged
        /\ pc'[p] \in {"place", "rmsrc", "reconcile", "register", "rmtree", "marker"}
        /\ job[p].op \in Resolving => pc'[p] = "place"
        /\ job[p].op \in Adding => pc'[p] = "marker"
        /\ job[p].op = "publish" => pc'[p] = "rmsrc"
        /\ job[p].op = "publishKeep" => pc'[p] = "reconcile" /\ job'[p].need = Cardinality(Sent(p))
    BY <1>26 DEF Checked, Goto, Publishing, InPlace, Resolving, Adding
  <2>2. job[p].op \in Resolving => Landed(job[p].key)
    BY <2>1 DEF Minds, NewBy, Landed, Sent
  <2>. QED  BY <2>1, <2>2, <1>u, <1>a, <1>b, <1>c DEF NewBy, Minds, Fetching, Going
<1>27. CASE RemoveSource(p)
  <2>1. job'[p] = NoJob \/ (job' = job /\ pc' = pc /\ pc[p] = "rmsrc")
    BY <1>27 DEF RemoveSource, Finish, Leave, Goto
  <2>. QED  BY <2>1, <1>u DEF NewBy, Minds
<1>28. CASE ClearTarget(p)
  <2>1. pc[p] = "clear" /\ pc'[p] \in {"clear", "move"} /\ job' = job
    BY <1>28 DEF ClearTarget, Goto
  <2>. QED  BY <2>1, <1>u, <1>a, <1>b, <1>c DEF NewBy, Minds, Fetching, Going
<1>29. CASE Move(p)
  <2>1. /\ pc[p] = "move" /\ pc'[p] \in {"upload", "marker"}
        /\ job'[p].op = job[p].op /\ job'[p].key = job[p].key /\ job'[p].from = job[p].from
        /\ job'[p].size = job[p].size /\ job'[p].need = job[p].need /\ job'[p].staged = job[p].staged
    BY <1>29 DEF Move, Goto
  <2>. QED  BY <2>1, <1>u, <1>a, <1>b, <1>c DEF NewBy, Minds, Fetching, Going
<1>30. CASE WriteMarker(p)
  <2>1. pc[p] = "marker" /\ pc'[p] = "register" /\ job' = job
    BY <1>30 DEF WriteMarker, Goto
  <2>. QED  BY <2>1, <1>u, <1>a, <1>b, <1>c DEF NewBy, Minds, Fetching, Going
<1>31. CASE Register(p)
  <2>1. pc[p] = "register" /\ (job'[p] = NoJob \/ job[p].op \in Resolving)
    BY <1>31 DEF Register, Finish
  <2>2. job[p].op \in Resolving => job'[p].key = job[p].key /\ job'[p].op = job[p].op /\ job'[p].from = "placed" /\ pc'[p] \in {"reconcile", "return"}
    BY <1>31 DEF Register, Goto
  <2>. QED  BY <2>1, <2>2, <1>a, <1>u DEF NewBy, Minds, Fetching, Going
<1>32. CASE SetPinned(p)
  BY <1>32, <1>u DEF SetPinned, AtRun, Finish, Leave, Goto, NoJob
<1>. QED
  BY <1>1, <1>2, <1>3, <1>4, <1>5, <1>6, <1>7, <1>8, <1>9, <1>10, <1>11, <1>12, <1>13,
     <1>14, <1>15, <1>16, <1>17, <1>18, <1>19, <1>20, <1>21, <1>22, <1>23, <1>24, <1>25, <1>26,
     <1>27, <1>28, <1>29, <1>30, <1>31, <1>32 DEF Step

\* What is asked for stays what is needed.
LEMMA NeedStep ==
  ASSUME TypeOK, OnTrack, Safe, Cleared, NEW p \in Proc, pc[p] \in Locked, Step(p), KnowsStore(p),
         World, Minds(p), Faults \cap {"crash", "store"} = {}
  PROVE  NeedBy(p)'
<1>. USE DEF TypeOK, OnTrack, OnTrackAt, Job, Resolving, Adding, Publishing, InPlace, Collecting,
       OnKey, Reclaiming
<1>a. /\ pc[p] # "upload" => store' = store
      /\ pc[p] \notin {"move", "rmsrc"} => out' = out
  BY StoreOut
<1>u. job'[p] = NoJob => NeedBy(p)'
  BY DEF NeedBy, NoJob
<1>1. CASE Reconcile(p)
  <2>1. pc[p] = "reconcile" /\ pc'[p] \in {"run", "space"} /\ job' = job
    BY <1>1 DEF Reconcile, Goto
  <2>. QED  BY <2>1, <1>a, <1>u DEF NeedBy, Minds, Fetching, Going
<1>2. CASE ResolveHit(p)
  <2>1. pc[p] = "run" /\ pc'[p] = "return" /\ job' = job /\ job[p].key \in rows /\ job[p].op \in Resolving
    BY <1>2 DEF ResolveHit, AtRun, Goto, Resolving, Adding, Hit
  <2>2. job[p].from \notin {"store", "hub"}
    BY <2>1 DEF Minds, NewBy, Fetching, Going
  <2>. QED  BY <2>1, <2>2, <1>a, <1>u DEF NeedBy, Minds, Fetching, Going
<1>3. CASE MissInCache(p)
  <2>1. /\ pc[p] = "run" /\ pc'[p] = "space" /\ job[p].op \in Resolving /\ store[job[p].key] # {}
        /\ ~(job[p].key \in rows /\ job[p].key \in present)
        /\ job'[p].op = job[p].op /\ job'[p].key = job[p].key /\ job'[p].staged = job[p].staged
        /\ job'[p].from = "store"
        /\ job'[p].size = Cardinality(store[job[p].key]) /\ job'[p].need = job'[p].size
    BY <1>3 DEF MissInCache, AtRun, Goto, Resolving, Adding, Hit
  <2>. QED  BY <2>1, <1>a, <1>u DEF NeedBy, Minds, Fetching, Going
<1>4. CASE MissInStore(p)
  <2>1. /\ pc[p] = "run" /\ pc'[p] = "space" /\ job[p].op \in Resolving /\ store[job[p].key] = {}
        /\ ~(job[p].key \in rows /\ job[p].key \in present)
        /\ job'[p].op = job[p].op /\ job'[p].key = job[p].key /\ job'[p].staged = job[p].staged
        /\ job'[p].from = "hub"
        /\ job'[p].size \in HubSizes
        /\ job'[p].need = IF job'[p].size = 0 THEN MinFree ELSE job'[p].size
    BY <1>4 DEF MissInStore, AtRun, Goto, Resolving, Adding, Hit
  <2>. QED  BY <2>1, <1>a, <1>u DEF NeedBy, Minds, Fetching, Going
<1>5. CASE FetchFromStore(p)
  <2>1. /\ pc[p] = "fetch" /\ pc'[p] = "place" /\ job[p].from = "store"
        /\ job'[p].op = job[p].op /\ job'[p].key = job[p].key /\ job'[p].from = job[p].from
        /\ job'[p].size = job[p].size /\ job'[p].need = job[p].need
        /\ job'[p].staged = store[job[p].key]
    BY <1>5 DEF FetchFromStore, Goto
  <2>. QED  BY <2>1, <1>a, <1>u DEF NeedBy, Minds, Fetching, Going
<1>6. CASE FetchFromHub(p)
  <2>1. /\ pc[p] = "fetch" /\ pc'[p] = "upload" /\ job[p].from = "hub" /\ job[p].key \in HubKeys
        /\ job'[p].op = job[p].op /\ job'[p].key = job[p].key /\ job'[p].from = job[p].from
        /\ job'[p].size = job[p].size /\ job'[p].need = job[p].need
        /\ job'[p].staged = File
    BY <1>6 DEF FetchFromHub, Goto
  <2>. QED  BY <2>1, <1>a, <1>u DEF NeedBy, Minds, Fetching, Going
<1>7. CASE HubHasNot(p)
  BY <1>7, <1>u DEF HubHasNot, Finish, Leave, Goto, NoJob
<1>8. CASE Place(p)
  <2>1. pc[p] = "place" /\ pc'[p] = "register" /\ job' = job
    BY <1>8 DEF Place, Goto
  <2>. QED  BY <2>1, <1>a, <1>u DEF NeedBy, Minds, Fetching, Going
<1>9. CASE PlaceRefused(p)
  BY <1>9, <1>u DEF PlaceRefused, Finish, Leave, Goto, NoJob
<1>10. CASE Return(p)
  <2>1. pc[p] = "return" /\ (job'[p] = NoJob \/ (job' = job /\ pc'[p] = "lease" /\ job[p].op = "hold"))
    BY <1>10 DEF Return, Finish, Leave, Goto
  <2>. QED  BY <2>1, <1>a, <1>u DEF NeedBy, NewBy, Minds, Fetching, Going
<1>11. CASE LeaseAfter(p)
  BY <1>11 DEF LeaseAfter, Locked
<1>12. CASE Snapshot(p)
  <2>1. /\ pc[p] = "space" /\ pc'[p] = "collect"
        /\ job'[p].op = job[p].op /\ job'[p].key = job[p].key /\ job'[p].from = job[p].from
        /\ job'[p].size = job[p].size /\ job'[p].need = job[p].need /\ job'[p].staged = job[p].staged
    BY <1>12 DEF Snapshot, Goto
  <2>. QED  BY <2>1, <1>a, <1>u DEF NeedBy, Minds, Fetching, Going
<1>13. CASE PickOldest(p)
  <2>1. /\ pc[p] = "collect" /\ pc'[p] = "verify"
        /\ job'[p].op = job[p].op /\ job'[p].key = job[p].key /\ job'[p].from = job[p].from
        /\ job'[p].size = job[p].size /\ job'[p].need = job[p].need /\ job'[p].staged = job[p].staged /\ job'[p].goal = job[p].goal
    BY <1>13 DEF PickOldest, Goto
  <2>. QED  BY <2>1, <1>a, <1>u DEF NeedBy, Minds, Fetching, Going
<1>14. CASE CollectOver(p)
  <2>1. \/ job'[p] = NoJob
        \/ job' = job /\ pc[p] = "collect" /\ pc'[p] \in {"return", "fetch", "clear", "move"}
    BY <1>14 DEF CollectOver, Finish, Leave, Goto
  <2>. QED  BY <2>1, <1>a, <1>u DEF NeedBy, Minds, Fetching, Going
<1>15. CASE VerifyPassed(p)
  <2>1. /\ pc[p] = "verify" /\ pc'[p] \in {"rmtree", "collect"}
        /\ job'[p].op = job[p].op /\ job'[p].key = job[p].key /\ job'[p].from = job[p].from
        /\ job'[p].size = job[p].size /\ job'[p].need = job[p].need /\ job'[p].staged = job[p].staged
    BY <1>15 DEF VerifyPassed, Goto
  <2>. QED  BY <2>1, <1>a, <1>u DEF NeedBy, Minds, Fetching, Going
<1>16. CASE NotVerified(p)
  <2>1. \/ job'[p] = NoJob
        \/ job' = job /\ pc[p] = "verify" /\ pc'[p] = "collect"
    BY <1>16 DEF NotVerified, Finish, Leave, Goto
  <2>. QED  BY <2>1, <1>a, <1>u DEF NeedBy, Minds, Fetching, Going
<1>17. CASE VerifyReport(p)
  BY <1>17 DEF VerifyReport, Locked
<1>18. CASE Evict(p)
  <2>1. pc[p] = "run" /\ job[p].op = "evict" /\ job'[p].op = "evict" /\ job'[p].from = job[p].from /\ pc'[p] = "verify"
    BY <1>18 DEF Evict, AtRun, Goto
  <2>. QED  BY <2>1, <1>a, <1>u DEF NeedBy, Minds, Fetching, Going
<1>19. CASE EvictForced(p)
  <2>1. pc[p] = "run" /\ job[p].op = "force" /\ job'[p].op = "force" /\ job'[p].from = job[p].from /\ pc'[p] = "rmtree"
    BY <1>19 DEF EvictForced, AtRun, Goto
  <2>. QED  BY <2>1, <1>a, <1>u DEF NeedBy, Minds, Fetching, Going
<1>20. CASE EvictRefused(p)
  BY <1>20, <1>u DEF EvictRefused, AtRun, Finish, Leave, Goto, NoJob
<1>21. CASE RemoveFile(p)
  <2>1. pc[p] = "rmtree" /\ pc' = pc /\ job' = job
    BY <1>21 DEF RemoveFile
  <2>. QED  BY <2>1, <1>a, <1>u DEF NeedBy, Minds, Fetching, Going
<1>22. CASE RemoveDirectory(p)
  <2>1. pc[p] = "rmtree" /\ pc'[p] = "forget" /\ job' = job
    BY <1>22 DEF RemoveDirectory, Goto
  <2>. QED  BY <2>1, <1>a, <1>u DEF NeedBy, Minds, Fetching, Going
<1>23. CASE Forget(p)
  <2>1. pc[p] = "forget"
    BY <1>23 DEF Forget
  <2>2. \/ job'[p] = NoJob
        \/ job'[p].op = job[p].op /\ job'[p].key = job[p].key /\ job'[p].from = job[p].from /\ pc'[p] = "collect"
           /\ job'[p].size = job[p].size /\ job'[p].need = job[p].need
    BY <1>23 DEF Forget, Finish, Leave, Goto
  <2>. QED  BY <2>1, <2>2, <1>a, <1>u DEF NeedBy, Minds, Fetching, Going
<1>24. CASE Upload(p)
  <2>1. /\ pc[p] = "upload" /\ pc' = pc
        /\ job'[p].op = job[p].op /\ job'[p].key = job[p].key /\ job'[p].from = job[p].from
        /\ job'[p].size = job[p].size /\ job'[p].need = job[p].need
    BY <1>24 DEF Upload
  <2>2. job[p].op \in Resolving => job[p].from = "hub"
    BY <2>1 DEF Minds, NewBy
  <2>. QED  BY <2>1, <2>2, <1>a DEF NeedBy, Minds, Fetching, Going
<1>25. CASE UploadOver(p)
  <2>1. pc[p] = "upload" /\ pc'[p] = "check" /\ job' = job /\ store' = store
    BY <1>25 DEF UploadOver, Goto
  <2>. QED  BY <2>1, <1>a, <1>u DEF NeedBy, Minds, Fetching, Going
<1>26. CASE Checked(p)
  <2>1. /\ pc[p] = "check" /\ Sent(p) \subseteq store[job[p].key]
        /\ job'[p].op = job[p].op /\ job'[p].key = job[p].key /\ job'[p].from = job[p].from
        /\ job'[p].size = job[p].size /\ job'[p].staged = job[p].staged
        /\ pc'[p] \in {"place", "rmsrc", "reconcile", "register", "rmtree", "marker"}
        /\ job[p].op \in Resolving => pc'[p] = "place"
        /\ job[p].op \in Adding => pc'[p] = "marker"
        /\ job[p].op = "publish" => pc'[p] = "rmsrc"
        /\ job[p].op = "publishKeep" => pc'[p] = "reconcile" /\ job'[p].need = Cardinality(Sent(p))
    BY <1>26 DEF Checked, Goto, Publishing, InPlace, Resolving, Adding
  <2>2. /\ job[p].op = "publishKeep" => Sent(p) = out[job[p].key] /\ out[job[p].key] # {}
        /\ job[p].op \in Resolving => job[p].from = "hub"
    BY <2>1 DEF Sent, Source, Safe, Knows, Minds, NewBy
  <2>. QED  BY <2>1, <2>2, <1>a, <1>u DEF NeedBy, Minds, Fetching, Going
<1>27. CASE RemoveSource(p)
  <2>1. job'[p] = NoJob \/ (job' = job /\ pc' = pc /\ pc[p] = "rmsrc")
    BY <1>27 DEF RemoveSource, Finish, Leave, Goto
  <2>. QED  BY <2>1, <1>u DEF NeedBy
<1>28. CASE ClearTarget(p)
  <2>1. pc[p] = "clear" /\ pc'[p] \in {"clear", "move"} /\ job' = job
    BY <1>28 DEF ClearTarget, Goto
  <2>. QED  BY <2>1, <1>a, <1>u DEF NeedBy, Minds, Fetching, Going
<1>29. CASE Move(p)
  <2>1. /\ pc[p] = "move" /\ pc'[p] \in {"upload", "marker"}
        /\ job'[p].op = job[p].op /\ job'[p].key = job[p].key /\ job'[p].from = job[p].from
        /\ job'[p].size = job[p].size /\ job'[p].need = job[p].need /\ job'[p].staged = job[p].staged
    BY <1>29 DEF Move, Goto
  <2>. QED  BY <2>1, <1>a, <1>u DEF NeedBy, Minds, Fetching, Going
<1>30. CASE WriteMarker(p)
  <2>1. pc[p] = "marker" /\ pc'[p] = "register" /\ job' = job
    BY <1>30 DEF WriteMarker, Goto
  <2>. QED  BY <2>1, <1>a, <1>u DEF NeedBy, Minds, Fetching, Going
<1>31. CASE Register(p)
  <2>1. pc[p] = "register" /\ (job'[p] = NoJob \/ job[p].op \in Resolving)
    BY <1>31 DEF Register, Finish
  <2>2. job[p].op \in Resolving => job'[p].op = job[p].op /\ job'[p].from = "placed"
    BY <1>31 DEF Register
  <2>. QED  BY <2>1, <2>2, <1>u DEF NeedBy
<1>32. CASE SetPinned(p)
  BY <1>32, <1>u DEF SetPinned, AtRun, Finish, Leave, Goto, NoJob
<1>. QED
  BY <1>1, <1>2, <1>3, <1>4, <1>5, <1>6, <1>7, <1>8, <1>9, <1>10, <1>11, <1>12, <1>13,
     <1>14, <1>15, <1>16, <1>17, <1>18, <1>19, <1>20, <1>21, <1>22, <1>23, <1>24, <1>25, <1>26,
     <1>27, <1>28, <1>29, <1>30, <1>31, <1>32 DEF Step

-----------------------------------------------------------------------------
(* What is used.                                                           *)

\* The directories change where files are removed, placed and moved.
LEMMA FilesStep ==
  ASSUME TypeOK, NEW p \in Proc, Step(p), pc[p] \notin {"rmtree", "clear", "move", "place", "marker"}
  PROVE  files' = files
<1>. USE DEF diskVars
<1>1. CASE Reconcile(p)
  BY <1>1 DEF Reconcile, Goto
<1>2. CASE ResolveHit(p)
  BY <1>2 DEF ResolveHit, AtRun, Goto
<1>3. CASE MissInCache(p)
  BY <1>3 DEF MissInCache, AtRun, Goto
<1>4. CASE MissInStore(p)
  BY <1>4 DEF MissInStore, AtRun, Goto
<1>5. CASE FetchFromStore(p)
  BY <1>5 DEF FetchFromStore, Goto
<1>6. CASE FetchFromHub(p)
  BY <1>6 DEF FetchFromHub, Goto
<1>7. CASE HubHasNot(p)
  BY <1>7 DEF HubHasNot, Finish, Leave, Goto, NoJob
<1>8. CASE Place(p)
  BY <1>8 DEF Place, Goto
<1>9. CASE PlaceRefused(p)
  BY <1>9 DEF PlaceRefused, Finish, Leave, Goto, NoJob
<1>10. CASE Return(p)
  BY <1>10 DEF Return, Finish, Leave, Goto, NoJob
<1>11. CASE LeaseAfter(p)
  BY <1>11 DEF LeaseAfter, Goto, NoJob
<1>12. CASE Snapshot(p)
  BY <1>12 DEF Snapshot, Goto
<1>13. CASE PickOldest(p)
  BY <1>13 DEF PickOldest, Goto
<1>14. CASE CollectOver(p)
  BY <1>14 DEF CollectOver, Finish, Leave, Goto, NoJob
<1>15. CASE VerifyPassed(p)
  BY <1>15 DEF VerifyPassed, Goto
<1>16. CASE NotVerified(p)
  BY <1>16 DEF NotVerified, Finish, Leave, Goto, NoJob
<1>17. CASE VerifyReport(p)
  BY <1>17 DEF VerifyReport, Goto, NoJob
<1>18. CASE Evict(p)
  BY <1>18 DEF Evict, AtRun, Goto
<1>19. CASE EvictForced(p)
  BY <1>19 DEF EvictForced, AtRun, Goto
<1>20. CASE EvictRefused(p)
  BY <1>20 DEF EvictRefused, AtRun, Finish, Leave, Goto, NoJob
<1>21. CASE RemoveFile(p)
  BY <1>21 DEF RemoveFile
<1>22. CASE RemoveDirectory(p)
  BY <1>22 DEF RemoveDirectory, Goto
<1>23. CASE Forget(p)
  BY <1>23 DEF Forget, Finish, Leave, Goto, NoJob
<1>24. CASE Upload(p)
  BY <1>24 DEF Upload
<1>25. CASE UploadOver(p)
  BY <1>25 DEF UploadOver, Goto
<1>26. CASE Checked(p)
  BY <1>26 DEF Checked, Goto
<1>27. CASE RemoveSource(p)
  BY <1>27 DEF RemoveSource, Finish, Leave, Goto, NoJob
<1>28. CASE ClearTarget(p)
  BY <1>28 DEF ClearTarget, Goto
<1>29. CASE Move(p)
  BY <1>29 DEF Move, Goto
<1>30. CASE WriteMarker(p)
  BY <1>30 DEF WriteMarker, Goto
<1>31. CASE Register(p)
  BY <1>31 DEF Register, Finish, Leave, Goto, NoJob
<1>32. CASE SetPinned(p)
  BY <1>32 DEF SetPinned, AtRun, Finish, Leave, Goto, NoJob
<1>. QED
  BY <1>1, <1>2, <1>3, <1>4, <1>5, <1>6, <1>7, <1>8, <1>9, <1>10, <1>11, <1>12, <1>13,
     <1>14, <1>15, <1>16, <1>17, <1>18, <1>19, <1>20, <1>21, <1>22, <1>23, <1>24, <1>25, <1>26,
     <1>27, <1>28, <1>29, <1>30, <1>31, <1>32 DEF Step

\* A row that is forgotten gives back what was counted for it, and one that is registered
\* counts what is there instead of what was.
LEMMA UsedStep ==
  ASSUME TypeOK, TypeOK', OnTrack, World, World', NEW p \in Proc, Step(p), RecordedBy(p)
  PROVE  /\ Used \in Nat /\ Used' \in Nat
         /\ pc[p] \notin {"forget", "register"} => Used' = Used
         /\ Forget(p) => Used' + Cardinality(manifest[job[p].victim]) = Used
         /\ Register(p) => Used' + Cardinality(manifest[job[p].key]) = Used + Cardinality(Content(job[p].key))
<1>1. Used = Counted(manifest) /\ Used' = Counted(manifest')
  BY UsedIs, UsedIsThen DEF World
<1>2. manifest \in [Key -> SUBSET File] /\ manifest' \in [Key -> SUBSET File]
  BY DEF TypeOK
<1>3. ASSUME Forget(p) PROVE Used' + Cardinality(manifest[job[p].victim]) = Used /\ Used' \in Nat /\ Used \in Nat
  <2>1. job[p].victim \in Key
    BY <1>3 DEF Forget, OnTrack, OnTrackAt
  <2>2. manifest'[job[p].victim] = {} /\ \A j \in Key \ {job[p].victim} : manifest'[j] = manifest[j]
    BY <1>2, <1>3, <2>1 DEF Forget
  <2>3. {} \in SUBSET File /\ Cardinality({}) = 0
    BY FS_EmptySet
  <2>4. Counted(manifest') + Cardinality(manifest[job[p].victim]) = Counted(manifest) + Cardinality({})
    <3>1. PICK S \in SUBSET File : S = {}
      BY <2>3
    <3>2. manifest'[job[p].victim] = S
      BY <2>2, <3>1
    <3>3. Counted(manifest') + Cardinality(manifest[job[p].victim]) = Counted(manifest) + Cardinality(S)
      BY <1>2, <2>1, <2>2, <3>2, CountedExcept
    <3>. QED  BY <3>1, <3>3
  <2>5. Counted(manifest) \in Nat /\ Counted(manifest') \in Nat
    BY <1>2, <2>1, CountedApart
  <2>. QED  BY <1>1, <2>3, <2>4, <2>5
<1>4. ASSUME Register(p) PROVE Used' + Cardinality(manifest[job[p].key]) = Used + Cardinality(Content(job[p].key)) /\ Used' \in Nat /\ Used \in Nat
  <2>1. job[p].key \in Key
    BY <1>4 DEF Register, OnTrack, OnTrackAt, Resolving, Adding, Publishing, InPlace, Collecting
  <2>2. /\ manifest'[job[p].key] = Content(job[p].key) /\ Content(job[p].key) \in SUBSET File
        /\ \A j \in Key \ {job[p].key} : manifest'[j] = manifest[j]
    BY <1>2, <1>4, <2>1 DEF Register, Content
  <2>3. Counted(manifest') + Cardinality(manifest[job[p].key]) = Counted(manifest) + Cardinality(Content(job[p].key))
    BY <1>2, <2>1, <2>2, CountedExcept
  <2>4. Counted(manifest) \in Nat /\ Counted(manifest') \in Nat
    BY <1>2, <2>1, CountedApart
  <2>. QED  BY <1>1, <2>3, <2>4
<1>5. pc[p] \notin {"forget", "register"} => Used' = Used
  BY RecordStep DEF Used
<1>6. Used \in Nat
  BY Numbers
<1>7. pc[p] \in {"forget", "register"} => Forget(p) \/ Register(p)
  BY DEF Step, Reconcile, ResolveHit, AtRun, MissInCache, MissInStore, FetchFromStore,
     FetchFromHub, HubHasNot, Place, PlaceRefused, Return, LeaseAfter, Snapshot,
     PickOldest, CollectOver, VerifyPassed, NotVerified, VerifyReport, Evict, EvictForced,
     EvictRefused, RemoveFile, RemoveDirectory, Upload, UploadOver, Checked, RemoveSource,
     ClearTarget, Move, WriteMarker, SetPinned
<1>. QED  BY <1>3, <1>4, <1>5, <1>6, <1>7

\* Collecting the deficit makes the room that was asked for.
LEMMA DeficitIsEnough ==
  ASSUME NEW n \in Nat, NEW d \in Nat, Used \in Nat
  PROVE  Deficit(n, d) \in Nat /\ Used + n <= Ceiling + Deficit(n, d)
BY CacheAssumption DEF CacheAssumption, Deficit, Monus

\* Candidates to remove include what nobody keeps.
LEMMA UnheldIsCandidate ==
  ASSUME NEW k \in rows, Unheld(k)
  PROVE  k \in Candidates
BY DEF Unheld, Candidates

\* There stays room for what comes.
LEMMA RoomStep ==
  ASSUME TypeOK, TypeOK', OnTrack, Safe, Cleared, NEW p \in Proc, pc[p] \in Locked, Step(p), KnowsStore(p),
         World, World', Minds(p), Faults \cap {"crash", "store"} = {},
         0 \in HubSizes => Cardinality(File) <= MinFree
  PROVE  RoomBy(p)'
<1>a. /\ Used \in Nat /\ Used' \in Nat /\ Ceiling \in Nat /\ MinFree \in Nat \ {0} /\ HubSizes \subseteq Nat
      /\ pc[p] \notin {"forget", "register"} => Used' = Used
  BY UsedStep, CacheAssumption DEF Minds, CacheAssumption
<1>u. job'[p] = NoJob /\ Used' <= Ceiling => RoomBy(p)'
  <2>. SUFFICES ASSUME job'[p] = NoJob, Used' <= Ceiling PROVE RoomBy(p)'
    OBVIOUS
  <2>1. job'[p].op = "none" /\ job'[p].need = 0
    BY DEF NoJob
  <2>2. Used' + job'[p].need <= Ceiling
    BY <1>a, <2>1
  <2>3. ~Arriving(p)' /\ job'[p].op \notin Resolving \cup Reclaiming
    BY <2>1 DEF Arriving, Resolving, Adding, Collecting, Reclaiming
  <2>. QED  BY <2>2, <2>3 DEF RoomBy
<1>. USE DEF TypeOK, OnTrack, OnTrackAt, Job, Resolving, Adding, Publishing, InPlace, Collecting,
       OnKey, Reclaiming
<1>b. \A S \in SUBSET File : Cardinality(S) \in Nat
  BY Sizes
<1>d. pc[p] \notin {"rmtree", "clear", "move", "place", "marker"} => \A k \in Key : Content(k)' = Content(k)
  BY FilesStep DEF Content
<1>1. CASE Reconcile(p)
  <2>1. pc[p] = "reconcile" /\ pc'[p] \in {"run", "space"} /\ job' = job
    BY <1>1 DEF Reconcile, Goto
  <2>2. job[p].op \in Resolving /\ job[p].from = "placed" => pc'[p] = "space"
    BY <1>1 DEF Reconcile, Goto
  <2>. QED  BY <2>1, <2>2, <1>a, <1>b, <1>d DEF RoomBy, Returning, Arriving, Minds, Fetching, Going, Underestimated
<1>2. CASE ResolveHit(p)
  <2>1. pc[p] = "run" /\ pc'[p] = "return" /\ job' = job /\ job[p].key \in rows /\ job[p].op \in Resolving
    BY <1>2 DEF ResolveHit, AtRun, Goto, Resolving, Adding, Hit
  <2>. QED  BY <2>1, <1>a, <1>b, <1>d DEF RoomBy, Returning, Arriving, Minds, Fetching, Going, Underestimated
<1>3. CASE MissInCache(p)
  <2>1. /\ pc[p] = "run" /\ pc'[p] = "space" /\ job[p].op \in Resolving /\ store[job[p].key] # {}
        /\ ~(job[p].key \in rows /\ job[p].key \in present)
        /\ job'[p].op = job[p].op /\ job'[p].key = job[p].key /\ job'[p].staged = job[p].staged
        /\ job'[p].from = "store"
        /\ job'[p].size = Cardinality(store[job[p].key]) /\ job'[p].need = job'[p].size
    BY <1>3 DEF MissInCache, AtRun, Goto, Resolving, Adding, Hit
  <2>. QED  BY <2>1, <1>a, <1>b, <1>d DEF RoomBy, Returning, Arriving, Minds, Fetching, Going, Underestimated
<1>4. CASE MissInStore(p)
  <2>1. /\ pc[p] = "run" /\ pc'[p] = "space" /\ job[p].op \in Resolving /\ store[job[p].key] = {}
        /\ ~(job[p].key \in rows /\ job[p].key \in present)
        /\ job'[p].op = job[p].op /\ job'[p].key = job[p].key /\ job'[p].staged = job[p].staged
        /\ job'[p].from = "hub"
        /\ job'[p].size \in HubSizes
        /\ job'[p].need = IF job'[p].size = 0 THEN MinFree ELSE job'[p].size
    BY <1>4 DEF MissInStore, AtRun, Goto, Resolving, Adding, Hit
  <2>. QED  BY <2>1, <1>a, <1>b, <1>d DEF RoomBy, Returning, Arriving, Minds, Fetching, Going, Underestimated
<1>5. CASE FetchFromStore(p)
  <2>1. /\ pc[p] = "fetch" /\ pc'[p] = "place" /\ job[p].from = "store"
        /\ job'[p].op = job[p].op /\ job'[p].key = job[p].key /\ job'[p].from = job[p].from
        /\ job'[p].size = job[p].size /\ job'[p].need = job[p].need
        /\ job'[p].staged = store[job[p].key]
    BY <1>5 DEF FetchFromStore, Goto
  <2>2. job[p].op \in Resolving => job[p].need = job[p].size /\ job[p].size = Cardinality(store[job[p].key])
    BY <2>1 DEF Minds, NeedBy, Fetching
  <2>. QED  BY <2>1, <2>2, <1>a, <1>b, <1>d DEF RoomBy, Returning, Arriving, Minds, Fetching, Going, Underestimated
<1>6. CASE FetchFromHub(p)
  <2>1. /\ pc[p] = "fetch" /\ pc'[p] = "upload" /\ job[p].from = "hub" /\ job[p].key \in HubKeys
        /\ job'[p].op = job[p].op /\ job'[p].key = job[p].key /\ job'[p].from = job[p].from
        /\ job'[p].size = job[p].size /\ job'[p].need = job[p].need
        /\ job'[p].staged = File
    BY <1>6 DEF FetchFromHub, Goto
  <2>2. job[p].op \in Resolving => /\ job[p].need = IF job[p].size = 0 THEN MinFree ELSE job[p].size
                                   /\ job[p].size \in HubSizes
    BY <2>1 DEF Minds, NeedBy, Fetching
  <2>. QED  BY <2>1, <2>2, <1>a, <1>b, <1>d DEF RoomBy, Returning, Arriving, Minds, Fetching, Going, Underestimated
<1>7. CASE HubHasNot(p)
  <2>1. job'[p] = NoJob /\ pc[p] \in {"fetch", "place", "run"}
    BY <1>7 DEF HubHasNot, Finish, Leave
  <2>. QED  BY <2>1, <1>a, <1>u DEF Minds, RoomBy, Returning, Going
<1>8. CASE Place(p)
  <2>1. pc[p] = "place" /\ pc'[p] = "register" /\ job' = job
    BY <1>8 DEF Place, Goto
  <2>2. Content(job[p].key)' = job[p].staged
    BY <1>8, CacheAssumption DEF Place, Content, CacheAssumption
  <2>. QED  BY <2>1, <2>2, <1>a, <1>b, <1>d DEF RoomBy, Returning, Arriving, Minds, Fetching, Going, Underestimated
<1>9. CASE PlaceRefused(p)
  <2>1. job'[p] = NoJob /\ pc[p] \in {"fetch", "place", "run"}
    BY <1>9 DEF PlaceRefused, Finish, Leave
  <2>. QED  BY <2>1, <1>a, <1>u DEF Minds, RoomBy, Returning, Going
<1>10. CASE Return(p)
  <2>1. pc[p] = "return" /\ (job'[p] = NoJob \/ (job' = job /\ pc'[p] = "lease"))
    BY <1>10 DEF Return, Finish, Leave, Goto
  <2>. QED  BY <2>1, <1>a, <1>u DEF RoomBy, Returning, Arriving, Minds, Fetching, Going
<1>11. CASE LeaseAfter(p)
  BY <1>11 DEF LeaseAfter, Locked
<1>12. CASE Snapshot(p)
  <2>1. /\ pc[p] = "space" /\ pc'[p] = "collect"
        /\ job'[p].op = job[p].op /\ job'[p].key = job[p].key /\ job'[p].from = job[p].from
        /\ job'[p].size = job[p].size /\ job'[p].need = job[p].need /\ job'[p].staged = job[p].staged
        /\ \E d \in DiskShort : job'[p].goal = Deficit(job[p].need, d) /\ job'[p].todo = Candidates
    BY <1>12 DEF Snapshot, Goto
  <2>2. job'[p].goal \in Nat /\ Used + job'[p].need <= Ceiling + job'[p].goal
    BY <2>1, <1>a, DeficitIsEnough, CacheAssumption DEF CacheAssumption
  <2>. QED  BY <2>1, <2>2, <1>a, <1>b, <1>d DEF RoomBy, Returning, Arriving, Minds, Fetching, Going, Underestimated
<1>13. CASE PickOldest(p)
  <2>1. /\ pc[p] = "collect" /\ pc'[p] = "verify"
        /\ job'[p].op = job[p].op /\ job'[p].key = job[p].key /\ job'[p].from = job[p].from
        /\ job'[p].size = job[p].size /\ job'[p].need = job[p].need /\ job'[p].staged = job[p].staged /\ job'[p].goal = job[p].goal
        /\ job'[p].victim \in job[p].todo /\ job'[p].todo = job[p].todo \ {job'[p].victim}
    BY <1>13 DEF PickOldest, Goto
  <2>. QED  BY <2>1, <1>a, <1>b, <1>d DEF RoomBy, Returning, Arriving, Minds, Fetching, Going, Underestimated
<1>14. CASE CollectOver(p)
  <2>1. /\ pc[p] = "collect" /\ (job[p].goal = 0 \/ job[p].todo = {})
        /\ \/ job'[p] = NoJob /\ ~(job[p].op \in Resolving /\ job[p].from = "placed")
           \/ /\ job' = job /\ (job[p].goal = 0 \/ job[p].from = "placed") /\ pc'[p] \in {"return", "fetch", "clear", "move"}
              /\ job[p].op \in Resolving => pc'[p] = IF job[p].from = "placed" THEN "return" ELSE "fetch"
              /\ job[p].op \notin Collecting
    BY <1>14 DEF CollectOver, Finish, Leave, Goto
  <2>2. job[p].from = "placed" => Used <= Ceiling
    <3>. SUFFICES ASSUME job[p].from = "placed" PROVE Used <= Ceiling
      OBVIOUS
    <3>1. Returning(p)
      BY <2>1 DEF Minds, NewBy, Returning, Going
    <3>2. Used <= Ceiling + Cardinality(manifest[job[p].key]) /\ job[p].need = 0
      BY <3>1 DEF Minds, ReturnBy
    <3>3. CASE job[p].goal = 0
      <4>1. Used + job[p].need <= Ceiling + job[p].goal
        BY <2>1, <3>1 DEF Minds, RoomBy, Going, Returning
      <4>. QED  BY <3>2, <3>3, <4>1, <1>a
    <3>4. CASE job[p].todo = {}
      <4>1. job[p].key \notin rows /\ job[p].key \in Key
        BY <2>1, <3>1, <3>4 DEF Minds, ReturnBy, Returning
      <4>2. manifest[job[p].key] = {}
        BY <4>1 DEF World
      <4>3. Cardinality({}) = 0
        BY FS_EmptySet
      <4>. QED  BY <3>2, <4>2, <4>3, <1>a
    <3>. QED  BY <2>1, <3>3, <3>4
  <2>3. CASE job'[p] = NoJob /\ ~(job[p].op \in Resolving /\ job[p].from = "placed")
    BY <2>1, <2>3, <1>a, <1>u DEF Minds, RoomBy, Returning
  <2>4. CASE job' = job /\ (job[p].goal = 0 \/ job[p].from = "placed") /\ pc'[p] \in {"return", "fetch", "clear", "move"}
    <3>1. Used' = Used
      BY <2>1, <1>a
    <3>2. Used <= Ceiling
      BY <2>1, <2>2, <2>4 DEF Minds, RoomBy, Returning
    <3>3. job[p].op \notin Collecting
      BY <1>14, <2>4 DEF CollectOver, Finish, Leave, Goto, OnTrackAt
    <3>4. pc'[p] \in {"fetch", "clear", "move"} => Used + job[p].need <= Ceiling
      BY <2>1, <2>2, <2>4, <3>3, <1>a DEF Minds, NewBy, RoomBy, Returning, Going
    <3>. QED  BY <2>4, <3>1, <3>2, <3>4, <1>a DEF RoomBy, Returning, Arriving, Fetching, Going
  <2>. QED  BY <2>1, <2>3, <2>4
<1>15. CASE VerifyPassed(p)
  <2>1. /\ pc[p] = "verify" /\ pc'[p] \in {"rmtree", "collect"}
        /\ job'[p].op = job[p].op /\ job'[p].key = job[p].key /\ job'[p].from = job[p].from
        /\ job'[p].size = job[p].size /\ job'[p].need = job[p].need /\ job'[p].staged = job[p].staged
        /\ job[p].op # "dryRun" => job' = job
    BY <1>15 DEF VerifyPassed, Goto
  <2>. QED  BY <2>1, <1>a, <1>b, <1>d DEF RoomBy, Returning, Arriving, Minds, Fetching, Going, Underestimated
<1>16. CASE NotVerified(p)
  <2>1. \/ job'[p] = NoJob /\ pc[p] = "verify" /\ job[p].op = "evict"
        \/ job' = job /\ pc[p] = "verify" /\ pc'[p] = "collect"
    BY <1>16 DEF NotVerified, Finish, Leave, Goto
  <2>. QED  BY <2>1, <1>a, <1>u DEF RoomBy, Returning, Arriving, Minds, Fetching, Going
<1>17. CASE VerifyReport(p)
  BY <1>17 DEF VerifyReport, Locked
<1>18. CASE Evict(p)
  <2>1. pc[p] = "run" /\ job[p].op = "evict" /\ job'[p].op = "evict" /\ job'[p].from = job[p].from /\ pc'[p] = "verify"
    BY <1>18 DEF Evict, AtRun, Goto
  <2>. QED  BY <2>1, <1>a, <1>b, <1>d DEF RoomBy, Returning, Arriving, Minds, Fetching, Going, Underestimated
<1>19. CASE EvictForced(p)
  <2>1. pc[p] = "run" /\ job[p].op = "force" /\ job'[p].op = "force" /\ job'[p].from = job[p].from /\ pc'[p] = "rmtree"
    BY <1>19 DEF EvictForced, AtRun, Goto
  <2>. QED  BY <2>1, <1>a, <1>b, <1>d DEF RoomBy, Returning, Arriving, Minds, Fetching, Going, Underestimated
<1>20. CASE EvictRefused(p)
  <2>1. job'[p] = NoJob /\ pc[p] \in {"fetch", "place", "run"}
    BY <1>20 DEF EvictRefused, AtRun, Finish, Leave
  <2>. QED  BY <2>1, <1>a, <1>u DEF Minds, RoomBy, Returning, Going
<1>21. CASE RemoveFile(p)
  <2>1. pc[p] = "rmtree" /\ pc' = pc /\ job' = job
    BY <1>21 DEF RemoveFile
  <2>. QED  BY <2>1, <1>a, <1>b, <1>d DEF RoomBy, Returning, Arriving, Minds, Fetching, Going, Underestimated
<1>22. CASE RemoveDirectory(p)
  <2>1. pc[p] = "rmtree" /\ pc'[p] = "forget" /\ job' = job
    BY <1>22 DEF RemoveDirectory, Goto
  <2>. QED  BY <2>1, <1>a, <1>b, <1>d DEF RoomBy, Returning, Arriving, Minds, Fetching, Going, Underestimated
<1>23. CASE Forget(p)
  <2>1. pc[p] = "forget" /\ Used' + Cardinality(manifest[job[p].victim]) = Used /\ Cardinality(manifest[job[p].victim]) \in Nat
    BY <1>23, UsedStep, Sizes DEF Forget, Minds
  <2>2. \/ job'[p] = NoJob /\ job[p].op \in {"evict", "force", "publishHere"}
        \/ /\ job'[p].op = job[p].op /\ job'[p].key = job[p].key /\ job'[p].from = job[p].from /\ pc'[p] = "collect"
           /\ job'[p].size = job[p].size /\ job'[p].need = job[p].need
           /\ job'[p].goal = Monus(job[p].goal, Cardinality(manifest[job[p].victim]))
    BY <1>23 DEF Forget, Finish, Leave, Goto
  <2>. QED  BY <2>1, <2>2, <1>a, <1>u DEF RoomBy, Returning, Arriving, Minds, Fetching, Going, Monus
<1>24. CASE Upload(p)
  <2>1. /\ pc[p] = "upload" /\ pc' = pc
        /\ job'[p].op = job[p].op /\ job'[p].key = job[p].key /\ job'[p].from = job[p].from
        /\ job'[p].size = job[p].size /\ job'[p].need = job[p].need /\ job'[p].staged = job[p].staged
    BY <1>24 DEF Upload
  <2>. QED  BY <2>1, <1>a, <1>b, <1>d DEF RoomBy, Returning, Arriving, Minds, Fetching, Going, Underestimated
<1>25. CASE UploadOver(p)
  <2>1. pc[p] = "upload" /\ pc'[p] = "check" /\ job' = job
    BY <1>25 DEF UploadOver, Goto
  <2>. QED  BY <2>1, <1>a, <1>b, <1>d DEF RoomBy, Returning, Arriving, Minds, Fetching, Going, Underestimated
<1>26. CASE Checked(p)
  <2>1. /\ pc[p] = "check" /\ Sent(p) \subseteq store[job[p].key]
        /\ job'[p].op = job[p].op /\ job'[p].key = job[p].key /\ job'[p].from = job[p].from
        /\ job'[p].size = job[p].size /\ job'[p].staged = job[p].staged
        /\ pc'[p] \in {"place", "rmsrc", "reconcile", "register", "rmtree", "marker"}
        /\ job[p].op \in Resolving => pc'[p] = "place"
        /\ job[p].op \in Adding => pc'[p] = "marker"
        /\ job[p].op = "publish" => pc'[p] = "rmsrc"
        /\ job[p].op = "publishKeep" => pc'[p] = "reconcile" /\ job'[p].need = Cardinality(Sent(p))
    BY <1>26 DEF Checked, Goto, Publishing, InPlace, Resolving, Adding
  <2>. QED  BY <2>1, <1>a, <1>b, <1>d DEF RoomBy, Returning, Arriving, Minds, Fetching, Going, Underestimated
<1>27. CASE RemoveSource(p)
  <2>1. pc[p] = "rmsrc" /\ (job'[p] = NoJob \/ (job' = job /\ pc' = pc))
    BY <1>27 DEF RemoveSource, Finish, Leave, Goto
  <2>. QED  BY <2>1, <1>a, <1>u DEF RoomBy, Returning, Arriving, Minds, Fetching, Going
<1>28. CASE ClearTarget(p)
  <2>1. pc[p] = "clear" /\ pc'[p] \in {"clear", "move"} /\ job' = job
    BY <1>28 DEF ClearTarget, Goto
  <2>. QED  BY <2>1, <1>a, <1>b, <1>d DEF RoomBy, Returning, Arriving, Minds, Fetching, Going, Underestimated
<1>29. CASE Move(p)
  <2>1. /\ pc[p] = "move" /\ pc'[p] \in {"upload", "marker"}
        /\ job'[p].op = job[p].op /\ job'[p].key = job[p].key /\ job'[p].from = job[p].from
        /\ job'[p].size = job[p].size /\ job'[p].need = job[p].need /\ job'[p].staged = job[p].staged
    BY <1>29 DEF Move, Goto
  <2>2. Content(job[p].key)' = out[job[p].key] /\ job[p].need = Cardinality(out[job[p].key])
    BY <1>29, <2>1 DEF Move, Content, Minds, NeedBy
  <2>. QED  BY <2>1, <2>2, <1>a, <1>b, <1>d DEF RoomBy, Returning, Arriving, Minds, Fetching, Going, Underestimated
<1>30. CASE WriteMarker(p)
  <2>1. pc[p] = "marker" /\ pc'[p] = "register" /\ job' = job
    BY <1>30 DEF WriteMarker, Goto
  <2>2. Content(job[p].key)' = Content(job[p].key)
    BY <1>30, CacheAssumption DEF WriteMarker, Content, CacheAssumption
  <2>. QED  BY <2>1, <2>2, <1>a, <1>b, <1>d DEF RoomBy, Returning, Arriving, Minds, Fetching, Going, Underestimated
<1>31. CASE Register(p)
  <2>. DEFINE k == job[p].key
  <2>1. /\ pc[p] = "register" /\ Used' + Cardinality(manifest[k]) = Used + Cardinality(Content(k))
        /\ Cardinality(manifest[k]) \in Nat /\ Cardinality(Content(k)) \in Nat /\ Used <= Ceiling
    BY <1>31, UsedStep, Sizes, <1>a DEF Register, Minds, Content, RoomBy, Returning, Going
  <2>2. job[p].op \notin Resolving => job'[p] = NoJob
    BY <1>31 DEF Register, Finish
  <2>3. job[p].op \in Resolving => /\ job'[p].op = job[p].op /\ job'[p].from = "placed"
                                   /\ pc'[p] = IF Underestimated(job[p]) THEN "reconcile" ELSE "return"
    BY <1>31 DEF Register, Goto
  <2>4. CASE job[p].op \in Resolving
    <3>1. manifest[k] = {} /\ Cardinality({}) = 0 /\ Content(k) = job[p].staged
      BY <2>1, <2>4, FS_EmptySet DEF Minds, NewBy, Fetching, World, RoomBy
    <3>2. ~Underestimated(job[p]) => Used' <= Ceiling
      BY <2>1, <2>4, <3>1, <1>a DEF Minds, RoomBy, Fetching
    <3>. QED  BY <2>3, <2>4, <3>2 DEF RoomBy, Returning, Arriving, Fetching, Going
  <2>5. CASE job[p].op \in InPlace
    <3>1. Content(k) \subseteq manifest[k]
      BY <2>1, <2>5 DEF Minds, NewBy, RecordedBy, Arriving
    <3>2. k \in Key
      BY <2>1, <2>5
    <3>3. manifest[k] \in SUBSET File
      BY <3>2
    <3>4. Cardinality(Content(k)) <= Cardinality(manifest[k])
      BY <3>1, <3>3, CountedMore
    <3>. QED  BY <2>1, <2>2, <2>5, <3>4, <1>a, <1>u
  <2>6. CASE job[p].op \in Adding \cup {"publishKeep"}
    <3>1. Used + Cardinality(Content(k)) <= Ceiling
      BY <2>1, <2>6 DEF Minds, RoomBy, Arriving
    <3>. QED  BY <2>1, <2>2, <2>6, <3>1, <1>a, <1>u
  <2>. QED  BY <2>1, <2>4, <2>5, <2>6 DEF Minds, NewBy
<1>32. CASE SetPinned(p)
  <2>1. job'[p] = NoJob /\ pc[p] \in {"fetch", "place", "run"}
    BY <1>32 DEF SetPinned, AtRun, Finish, Leave
  <2>. QED  BY <2>1, <1>a, <1>u DEF Minds, RoomBy, Returning, Going
<1>. QED
  BY <1>1, <1>2, <1>3, <1>4, <1>5, <1>6, <1>7, <1>8, <1>9, <1>10, <1>11, <1>12, <1>13,
     <1>14, <1>15, <1>16, <1>17, <1>18, <1>19, <1>20, <1>21, <1>22, <1>23, <1>24, <1>25, <1>26,
     <1>27, <1>28, <1>29, <1>30, <1>31, <1>32 DEF Step

-----------------------------------------------------------------------------
(* What turned out larger is given back.                                   *)

\* What is to be given back can still be, until it is.
LEMMA ReturnStep ==
  ASSUME TypeOK, TypeOK', OnTrack, Safe, Cleared, NEW p \in Proc, pc[p] \in Locked, Step(p), KnowsStore(p),
         World, World', Minds(p), Faults \cap {"crash", "store"} = {}
  PROVE  ReturnBy(p)'
<1>a. job[p].op # "pin" /\ pc[p] # "return" => \A k \in Key : Unheld(k) => Unheld(k)'
  BY UnheldStep DEF Unheld, Leased
<1>c. /\ Used \in Nat /\ Used' \in Nat /\ Ceiling \in Nat
      /\ pc[p] \notin {"forget", "register"} => Used' = Used /\ rows' = rows /\ manifest' = manifest
  BY UsedStep, RecordStep, CacheAssumption DEF Minds, CacheAssumption
<1>e. ASSUME Returning(p), pc[p] # "forget", NEW k \in Key, k = job[p].key, Content(k)' \subseteq Content(k)
      PROVE  Unheld(k)' /\ Content(k)' \subseteq store'[k] /\ Used' <= Ceiling + Cardinality(manifest'[k])
  <2>1. Unheld(k) /\ Content(k) \subseteq store[k] /\ Used <= Ceiling + Cardinality(manifest[k])
    BY <1>e DEF Minds, ReturnBy
  <2>2. store[k] \subseteq store'[k]
    BY <1>e, StoreGrows
  <2>3. job[p].op # "pin" /\ pc[p] \notin {"return", "forget", "register"}
    BY <1>e DEF Returning, Resolving, Going
  <2>. QED  BY <1>a, <1>c, <1>e, <2>1, <2>2, <2>3
<1>f. \A S \in SUBSET File : Cardinality(S) \in Nat
  BY Sizes
<1>r. Returning(p) => job[p].key \in Key
  BY DEF Returning, Going, OnTrack, OnTrackAt, Resolving, Collecting
<1>s. pc[p] \notin {"rmtree", "clear", "move", "place", "marker"} => \A k \in Key : Content(k)' = Content(k)
  BY FilesStep DEF Content
<1>u. job'[p] = NoJob => ReturnBy(p)'
  BY DEF ReturnBy, Returning, Resolving, NoJob
<1>v. pc'[p] \notin {"reconcile", "space", "collect", "verify", "rmtree", "forget"} \/ job'[p].op \notin Resolving \/ job'[p].from # "placed"
      => ReturnBy(p)'
  BY DEF ReturnBy, Returning, Going
<1>. USE DEF TypeOK, OnTrack, OnTrackAt, Job, Resolving, Adding, Publishing, InPlace, Collecting,
       OnKey, Reclaiming
<1>1. CASE Reconcile(p)
  <2>1. /\ pc[p] = "reconcile" /\ job' = job
        /\ job[p].op \in Resolving /\ job[p].from = "placed" => pc'[p] = "space"
        /\ pc'[p] \in {"run", "space"}
    BY <1>1 DEF Reconcile, Goto
  <2>2. \A k \in Key : Content(k)' \subseteq Content(k)
    BY <2>1, <1>s
  <2>3. CASE Returning(p)
    <3>0. PICK k \in Key : k = job[p].key
      BY <2>3, <1>r
    <3>1. Unheld(k)' /\ Content(k)' \subseteq store'[k] /\ Used' <= Ceiling + Cardinality(manifest'[k])
      BY <2>1, <2>2, <2>3, <3>0, <1>e DEF Returning, Going
    <3>. QED  BY <2>1, <2>2, <2>3, <3>0, <3>1 DEF ReturnBy, Returning, Going, Minds
  <2>. QED  BY <2>1, <2>3, <1>v DEF Returning, Going
<1>2. CASE ResolveHit(p)
  <2>1. pc'[p] = "return"
    BY <1>2 DEF ResolveHit, AtRun, Goto
  <2>. QED  BY <2>1, <1>v
<1>3. CASE MissInCache(p)
  <2>1. job'[p].from = "store"
    BY <1>3 DEF MissInCache, AtRun, Goto
  <2>. QED  BY <2>1, <1>v
<1>4. CASE MissInStore(p)
  <2>1. job'[p].from = "hub"
    BY <1>4 DEF MissInStore, AtRun, Goto
  <2>. QED  BY <2>1, <1>v
<1>5. CASE FetchFromStore(p)
  <2>1. pc'[p] = "place"
    BY <1>5 DEF FetchFromStore, Goto
  <2>. QED  BY <2>1, <1>v
<1>6. CASE FetchFromHub(p)
  <2>1. pc'[p] = "upload"
    BY <1>6 DEF FetchFromHub, Goto
  <2>. QED  BY <2>1, <1>v
<1>7. CASE HubHasNot(p)
  <2>1. job'[p] = NoJob
    BY <1>7 DEF HubHasNot, Finish, Leave
  <2>. QED  BY <2>1, <1>u
<1>8. CASE Place(p)
  <2>1. pc'[p] = "register"
    BY <1>8 DEF Place, Goto
  <2>. QED  BY <2>1, <1>v
<1>9. CASE PlaceRefused(p)
  <2>1. job'[p] = NoJob
    BY <1>9 DEF PlaceRefused, Finish, Leave
  <2>. QED  BY <2>1, <1>u
<1>10. CASE Return(p)
  <2>1. pc'[p] \in {"idle", "lease"}
    BY <1>10 DEF Return, Finish, Leave, Goto
  <2>. QED  BY <2>1, <1>v
<1>11. CASE LeaseAfter(p)
  BY <1>11 DEF LeaseAfter, Locked
<1>12. CASE Snapshot(p)
  <2>1. /\ pc[p] = "space" /\ pc'[p] = "collect"
        /\ job'[p].op = job[p].op /\ job'[p].key = job[p].key /\ job'[p].from = job[p].from
        /\ job'[p].need = job[p].need
        /\ job'[p].todo = Candidates
    BY <1>12 DEF Snapshot, Goto
  <2>2. \A k \in Key : Content(k)' \subseteq Content(k)
    BY <2>1, <1>s
  <2>3. CASE Returning(p)
    <3>0. PICK k \in Key : k = job[p].key
      BY <2>3, <1>r
    <3>1. Unheld(k)' /\ Content(k)' \subseteq store'[k] /\ Used' <= Ceiling + Cardinality(manifest'[k])
      BY <2>1, <2>2, <2>3, <3>0, <1>e DEF Returning, Going
    <3>2. job[p].key \in rows => job[p].key \in Candidates
      BY <2>3, UnheldIsCandidate DEF Minds, ReturnBy
    <3>3. rows' = rows
      BY <2>1, <1>c
    <3>. QED  BY <2>1, <2>2, <2>3, <3>0, <3>1, <3>2, <3>3 DEF ReturnBy, Returning, Going, Minds
  <2>. QED  BY <2>1, <2>3, <1>v DEF Returning, Going
<1>13. CASE PickOldest(p)
  <2>1. /\ pc[p] = "collect" /\ pc'[p] = "verify"
        /\ job'[p].op = job[p].op /\ job'[p].key = job[p].key /\ job'[p].from = job[p].from
        /\ job'[p].need = job[p].need
        /\ job'[p].todo \cup {job'[p].victim} = job[p].todo
    BY <1>13 DEF PickOldest, Goto
  <2>2. \A k \in Key : Content(k)' \subseteq Content(k)
    BY <2>1, <1>s
  <2>3. CASE Returning(p)
    <3>0. PICK k \in Key : k = job[p].key
      BY <2>3, <1>r
    <3>1. Unheld(k)' /\ Content(k)' \subseteq store'[k] /\ Used' <= Ceiling + Cardinality(manifest'[k])
      BY <2>1, <2>2, <2>3, <3>0, <1>e DEF Returning, Going
    <3>2. rows' = rows
      BY <2>1, <1>c
    <3>. QED  BY <2>1, <2>2, <2>3, <3>0, <3>1, <3>2 DEF ReturnBy, Returning, Going, Minds
  <2>. QED  BY <2>1, <2>3, <1>v DEF Returning, Going
<1>14. CASE CollectOver(p)
  <2>1. \/ job'[p] = NoJob
        \/ pc'[p] \in {"return", "fetch", "clear", "move"}
    BY <1>14 DEF CollectOver, Finish, Leave, Goto
  <2>. QED  BY <2>1, <1>u, <1>v
<1>15. CASE VerifyPassed(p)
  <2>1. /\ pc[p] = "verify" /\ pc'[p] \in {"rmtree", "collect"}
        /\ job'[p].op = job[p].op /\ job'[p].key = job[p].key /\ job'[p].from = job[p].from
        /\ job[p].op # "dryRun" => job' = job /\ pc'[p] = "rmtree"
    BY <1>15 DEF VerifyPassed, Goto
  <2>2. \A k \in Key : Content(k)' \subseteq Content(k)
    BY <2>1, <1>s
  <2>3. CASE Returning(p)
    <3>0. PICK k \in Key : k = job[p].key
      BY <2>3, <1>r
    <3>1. Unheld(k)' /\ Content(k)' \subseteq store'[k] /\ Used' <= Ceiling + Cardinality(manifest'[k])
      BY <2>1, <2>2, <2>3, <3>0, <1>e DEF Returning, Going
    <3>2. rows' = rows
      BY <2>1, <1>c
    <3>. QED  BY <2>1, <2>2, <2>3, <3>0, <3>1, <3>2 DEF ReturnBy, Returning, Going, Minds
  <2>. QED  BY <2>1, <2>3, <1>v DEF Returning, Going
<1>16. CASE NotVerified(p)
  <2>1. /\ pc[p] = "verify" /\ ~Verified(job[p].victim)
        /\ job[p].op # "evict" => job' = job /\ pc'[p] = "collect"
        /\ job[p].op = "evict" => job'[p] = NoJob
    BY <1>16 DEF NotVerified, Finish, Leave, Goto
  <2>2. \A k \in Key : Content(k)' \subseteq Content(k)
    BY <2>1, <1>s
  <2>3. CASE Returning(p)
    <3>0. PICK k \in Key : k = job[p].key
      BY <2>3, <1>r
    <3>1. Unheld(k)' /\ Content(k)' \subseteq store'[k] /\ Used' <= Ceiling + Cardinality(manifest'[k])
      BY <2>1, <2>2, <2>3, <3>0, <1>e DEF Returning, Going
    <3>2. rows' = rows
      BY <2>1, <1>c
    <3>3. job[p].key \in rows => job[p].key # job[p].victim
      BY <2>1, <2>3 DEF Minds, RecordedBy, Arriving, ReturnBy, Verified, Returning
    <3>. QED  BY <2>1, <2>2, <2>3, <3>0, <3>1, <3>2, <3>3 DEF ReturnBy, Returning, Going, Minds
  <2>. QED  BY <2>1, <2>3, <1>u, <1>v DEF Returning, Going
<1>17. CASE VerifyReport(p)
  BY <1>17 DEF VerifyReport, Locked
<1>18. CASE Evict(p)
  <2>1. job'[p].op \notin Resolving
    BY <1>18 DEF Evict, AtRun, Goto
  <2>. QED  BY <2>1, <1>v
<1>19. CASE EvictForced(p)
  <2>1. job'[p].op \notin Resolving
    BY <1>19 DEF EvictForced, AtRun, Goto
  <2>. QED  BY <2>1, <1>v
<1>20. CASE EvictRefused(p)
  <2>1. job'[p] = NoJob
    BY <1>20 DEF EvictRefused, AtRun, Finish, Leave
  <2>. QED  BY <2>1, <1>u
<1>21. CASE RemoveFile(p)
  <2>1. /\ pc[p] = "rmtree" /\ pc' = pc /\ job' = job
        /\ \E f \in files[job[p].victim] : files' = [files EXCEPT ![job[p].victim] = files[job[p].victim] \ {f}]
    BY <1>21 DEF RemoveFile
  <2>2. \A k \in Key : Content(k)' \subseteq Content(k)
    BY <2>1 DEF Content
  <2>3. CASE Returning(p)
    <3>0. PICK k \in Key : k = job[p].key
      BY <2>3, <1>r
    <3>1. Unheld(k)' /\ Content(k)' \subseteq store'[k] /\ Used' <= Ceiling + Cardinality(manifest'[k])
      BY <2>1, <2>2, <2>3, <3>0, <1>e DEF Returning, Going
    <3>2. rows' = rows
      BY <2>1, <1>c
    <3>. QED  BY <2>1, <2>2, <2>3, <3>0, <3>1, <3>2 DEF ReturnBy, Returning, Going, Minds
  <2>. QED  BY <2>1, <2>3, <1>v DEF Returning, Going
<1>22. CASE RemoveDirectory(p)
  <2>1. /\ pc[p] = "rmtree" /\ pc'[p] = "forget" /\ job' = job /\ files' = files
    BY <1>22 DEF RemoveDirectory, Goto
  <2>2. \A k \in Key : Content(k)' \subseteq Content(k)
    BY <2>1 DEF Content
  <2>3. CASE Returning(p)
    <3>0. PICK k \in Key : k = job[p].key
      BY <2>3, <1>r
    <3>1. Unheld(k)' /\ Content(k)' \subseteq store'[k] /\ Used' <= Ceiling + Cardinality(manifest'[k])
      BY <2>1, <2>2, <2>3, <3>0, <1>e DEF Returning, Going
    <3>2. rows' = rows
      BY <2>1, <1>c
    <3>. QED  BY <2>1, <2>2, <2>3, <3>0, <3>1, <3>2 DEF ReturnBy, Returning, Going, Minds
  <2>. QED  BY <2>1, <2>3, <1>v DEF Returning, Going
<1>23. CASE Forget(p)
  <2>. DEFINE v == job[p].victim
  <2>1. /\ pc[p] = "forget" /\ rows' = rows \ {v} /\ manifest' = [manifest EXCEPT ![v] = {}]
        /\ UNCHANGED <<files, store>>
        /\ \/ job'[p] = NoJob
           \/ job'[p].op = job[p].op /\ job'[p].key = job[p].key /\ job'[p].from = job[p].from /\ pc'[p] = "collect"
              /\ job'[p].need = job[p].need /\ job'[p].todo = job[p].todo
    BY <1>23 DEF Forget, Finish, Leave, Goto, diskVars
  <2>2. Used' + Cardinality(manifest[v]) = Used
    BY <1>23, UsedStep DEF Minds
  <2>3. CASE Returning(p) /\ job'[p] # NoJob
    <3>1. PICK k \in Key : k = job[p].key
      BY <2>3, <1>r
    <3>0. v \in Key
      BY <2>1, <2>3 DEF Returning
    <3>2. Unheld(k)' /\ Content(k)' \subseteq store'[k] /\ job[p].need = 0
      BY <2>1, <2>3, <3>1, <1>a DEF Minds, ReturnBy, Content, Returning
    <3>3. Cardinality(manifest[k]) \in Nat /\ Cardinality(manifest[v]) \in Nat /\ Cardinality({}) = 0
      BY <3>0, <3>1, <1>f, FS_EmptySet
    <3>4. Used <= Ceiling + Cardinality(manifest[k])
      BY <2>3, <3>1 DEF Minds, ReturnBy
    <3>5. Used' <= Ceiling + Cardinality(manifest'[k])
      <4>1. CASE k = v
        <5>1. manifest'[k] = {}
          BY <2>1, <3>0, <3>1, <4>1
        <5>. QED  BY <2>2, <3>3, <3>4, <4>1, <5>1, <1>c
      <4>2. CASE k # v
        <5>1. manifest'[k] = manifest[k]
          BY <2>1, <3>0, <3>1, <4>2
        <5>. QED  BY <2>2, <3>3, <3>4, <4>2, <5>1, <1>c
      <4>. QED  BY <4>1, <4>2
    <3>6. k \in rows' => k \in job[p].todo
      BY <2>1, <2>3, <3>1 DEF Minds, ReturnBy
    <3>. QED  BY <2>1, <2>3, <3>1, <3>2, <3>5, <3>6 DEF ReturnBy, Returning
  <2>. QED  BY <2>1, <2>3, <1>u DEF ReturnBy, Returning, Going
<1>24. CASE Upload(p)
  <2>1. pc'[p] = "upload"
    BY <1>24 DEF Upload
  <2>. QED  BY <2>1, <1>v
<1>25. CASE UploadOver(p)
  <2>1. pc'[p] = "check"
    BY <1>25 DEF UploadOver, Goto
  <2>. QED  BY <2>1, <1>v
<1>26. CASE Checked(p)
  <2>1. pc[p] = "check" /\ job'[p].op = job[p].op /\ job'[p].from = job[p].from
    BY <1>26 DEF Checked
  <2>2. job[p].op \in Resolving => job[p].from = "hub"
    BY <2>1 DEF Minds, NewBy
  <2>. QED  BY <2>1, <2>2, <1>v
<1>27. CASE RemoveSource(p)
  <2>1. pc'[p] \in {"idle", "rmsrc"}
    BY <1>27 DEF RemoveSource, Finish, Leave, Goto
  <2>. QED  BY <2>1, <1>v
<1>28. CASE ClearTarget(p)
  <2>1. pc'[p] \in {"clear", "move"}
    BY <1>28 DEF ClearTarget, Goto
  <2>. QED  BY <2>1, <1>v
<1>29. CASE Move(p)
  <2>1. pc'[p] \in {"upload", "marker"}
    BY <1>29 DEF Move, Goto
  <2>. QED  BY <2>1, <1>v
<1>30. CASE WriteMarker(p)
  <2>1. pc'[p] = "register"
    BY <1>30 DEF WriteMarker, Goto
  <2>. QED  BY <2>1, <1>v
<1>31. CASE Register(p)
  <2>0. PICK k \in Key : k = job[p].key
    BY <1>31 DEF Register
  <2>1. /\ pc[p] = "register" /\ manifest' = [manifest EXCEPT ![k] = Content(k)]
        /\ UNCHANGED <<files, store>>
        /\ job[p].op \notin Resolving => job'[p] = NoJob
        /\ job[p].op \in Resolving =>
             /\ job'[p].op = job[p].op /\ job'[p].key = k /\ job'[p].need = 0
             /\ pc'[p] = IF Underestimated(job[p]) THEN "reconcile" ELSE "return"
    BY <1>31, <2>0 DEF Register, Finish, Goto, diskVars
  <2>2. CASE job[p].op \in Resolving /\ Underestimated(job[p])
    <3>1. /\ k \notin rows /\ job[p].from = "hub" /\ k \in HubKeys
          /\ Content(k) \subseteq store[k] /\ Content(k) = job[p].staged /\ Used <= Ceiling
      BY <2>0, <2>1, <2>2 DEF Minds, RoomBy, NewBy, Fetching, KnowsStore, Returning, Going
    <3>2. File # {}
      <4>1. Cardinality({}) = 0
        BY FS_EmptySet
      <4>2. job[p].staged # {}
        <5>1. job[p].size \in Nat
          OBVIOUS
        <5>2. job[p].staged = {} => Cardinality(job[p].staged) = 0
          BY <4>1
        <5>3. job[p].size > 0 /\ Cardinality(job[p].staged) > job[p].size
          BY <2>2 DEF Underestimated
        <5>. HIDE DEF TypeOK, OnTrack, OnTrackAt, Job
        <5>. QED  BY <5>1, <5>2, <5>3
      <4>3. job[p].staged \subseteq File
        OBVIOUS
      <4>. QED  BY <4>2, <4>3
    <3>3. Unheld(k)'
      BY <2>0, <2>1, <2>2, <3>1, <3>2, <1>a DEF Minds, NewBy
    <3>4. Used' + Cardinality(manifest[k]) = Used + Cardinality(Content(k))
      BY <1>31, <2>0, UsedStep DEF Minds
    <3>5. manifest[k] = {} /\ Cardinality({}) = 0 /\ manifest'[k] = Content(k)
      BY <2>1, <3>1, FS_EmptySet DEF World
    <3>6. Cardinality(Content(k)) \in Nat
      BY <1>f DEF Content
    <3>7. Used' <= Ceiling + Cardinality(manifest'[k])
      BY <3>1, <3>4, <3>5, <3>6, <1>c
    <3>8. Content(k)' \subseteq store'[k]
      BY <2>1, <3>1 DEF Content
    <3>. QED  BY <2>0, <2>1, <2>2, <3>3, <3>7, <3>8 DEF ReturnBy
  <2>. QED  BY <2>1, <2>2, <1>u, <1>v
<1>32. CASE SetPinned(p)
  <2>1. job'[p] = NoJob
    BY <1>32 DEF SetPinned, AtRun, Finish, Leave
  <2>. QED  BY <2>1, <1>u
<1>. QED
  BY <1>1, <1>2, <1>3, <1>4, <1>5, <1>6, <1>7, <1>8, <1>9, <1>10, <1>11, <1>12, <1>13,
     <1>14, <1>15, <1>16, <1>17, <1>18, <1>19, <1>20, <1>21, <1>22, <1>23, <1>24, <1>25, <1>26,
     <1>27, <1>28, <1>29, <1>30, <1>31, <1>32 DEF Step

-----------------------------------------------------------------------------
(* Every step.                                                             *)

\* An operation begins with nothing in hand.
LEMMA SpaceBegin ==
  ASSUME TypeOK, NEW p \in Proc, Begin(p), World, Recorded, Used <= Ceiling
  PROVE  pc'[p] \in Locked => Minds(p)'
<1>0. UNCHANGED <<rows, pinned, manifest, diskVars, store, leases>>
  BY DEF Begin, BeginOnKey, BeginPublish, BeginAdd, BeginCollect, Enter, VerifyRead, rowVars
<1>1. ASSUME job'[p].from = "none",
             pc'[p] = "reconcile" \/ (pc'[p] = "upload" /\ job'[p].op \in Publishing),
             job'[p].op \in Adding \cup {"publishKeep"} => out[job'[p].key] # {} /\ job'[p].key \in Key,
             job'[p].op \in Adding => job'[p].need = Cardinality(out[job'[p].key]),
             job'[p].op \in InPlace => job'[p].key \in present,
             job'[p].op \in Publishing => pc'[p] = "upload"
      PROVE  Minds(p)'
  <2>. USE DEF Resolving, Adding, Publishing, InPlace
  <2>1. RecordedBy(p)'
    BY <1>0, <1>1 DEF RecordedBy, Recorded, Arriving, Content, diskVars
  <2>2. NewBy(p)'
    BY <1>0, <1>1 DEF NewBy, Recorded, World, Fetching
  <2>3. NeedBy(p)'
    BY <1>0, <1>1 DEF NeedBy, Fetching, Going, diskVars
  <2>4. Used' = Used
    BY <1>0 DEF Used
  <2>5. RoomBy(p)'
    BY <1>1, <2>4 DEF RoomBy, Returning, Arriving, Fetching, Going
  <2>6. ReturnBy(p)'
    BY <1>1 DEF ReturnBy, Returning
  <2>. QED  BY <2>1, <2>2, <2>3, <2>5, <2>6 DEF Minds
<1>2. ASSUME NEW o \in Ops, NEW k \in Key, BeginOnKey(p, o, k) PROVE Minds(p)'
  <2>1. /\ pc'[p] = "reconcile" /\ job'[p].op = o /\ job'[p].from = "none"
        /\ o \in Resolving \cup OnKey
    BY <1>2 DEF BeginOnKey, Enter, Goto, NoJob, TypeOK
  <2>. QED  BY <1>1, <2>1 DEF Resolving, OnKey, Adding, Publishing, InPlace
<1>3. ASSUME NEW o \in Ops, NEW k \in Key, BeginPublish(p, o, k) PROVE Minds(p)'
  <2>1. /\ pc'[p] = "upload" /\ job'[p].op = o /\ job'[p].key = k /\ job'[p].from = "none"
        /\ o \in Publishing /\ Source(o, k) # {} /\ (o \in InPlace => k \in present)
    BY <1>3 DEF BeginPublish, Enter, Goto, NoJob, TypeOK
  <2>. QED  BY <1>1, <2>1 DEF Source, Adding, Publishing, InPlace
<1>4. ASSUME NEW o \in Ops, NEW k \in Key, BeginAdd(p, o, k) PROVE Minds(p)'
  <2>1. /\ pc'[p] = "reconcile" /\ job'[p].op = o /\ job'[p].key = k /\ job'[p].from = "none"
        /\ o \in Adding /\ out[k] # {} /\ job'[p].need = Cardinality(out[k])
    BY <1>4 DEF BeginAdd, Enter, Goto, NoJob, TypeOK
  <2>. QED  BY <1>1, <2>1 DEF Adding, Publishing, InPlace
<1>5. ASSUME NEW o \in Ops, NEW n \in Needs, BeginCollect(p, o, n) PROVE Minds(p)'
  <2>1. pc'[p] = "reconcile" /\ job'[p].op = o /\ job'[p].from = "none" /\ o \in Collecting
    BY <1>5 DEF BeginCollect, Enter, Goto, NoJob, TypeOK
  <2>. QED  BY <1>1, <2>1 DEF Collecting, Adding, Publishing, InPlace
<1>6. ASSUME NEW k \in Key, VerifyRead(p, k) PROVE pc'[p] \notin Locked
  BY <1>6 DEF VerifyRead, Goto, TypeOK, Locked
<1>7. CASE \E k \in Key, o \in Ops : BeginOnKey(p, o, k) \/ BeginPublish(p, o, k) \/ BeginAdd(p, o, k)
  BY <1>2, <1>3, <1>4, <1>7
<1>8. CASE \E n \in Needs, o \in Ops : BeginCollect(p, o, n)
  BY <1>5, <1>8
<1>9. CASE \E k \in Key : VerifyRead(p, k)
  BY <1>6, <1>9
<1>. QED  BY <1>7, <1>8, <1>9 DEF Begin

\* Outside the lock a process changes nothing but its own leases.
LEMMA Lightly ==
  ASSUME TypeOK, NEW q \in Proc, pc[q] \notin Locked, Begin(q) \/ Step(q) \/ Environment(q)
  PROVE  /\ UNCHANGED <<rows, pinned, manifest, diskVars, store>>
         /\ leases' \subseteq leases \/ (pc[q] = "lease" /\ leases' = leases \cup {<<q, job[q].key>>})
         /\ pc'[q] # "lease" /\ (pc'[q] \in Locked => lock = NoProc /\ Begin(q))
         /\ lock' \in {lock, q} \/ "crash" \in Faults
<1>1. CASE Begin(q)
  <2>1. ASSUME NEW o \in Ops, NEW k \in Key, BeginOnKey(q, o, k) \/ BeginPublish(q, o, k) \/ BeginAdd(q, o, k)
        PROVE  /\ UNCHANGED <<rows, pinned, manifest, diskVars, store, leases>> /\ pc'[q] # "lease"
               /\ lock = NoProc /\ lock' = q
    BY <2>1 DEF BeginOnKey, BeginPublish, BeginAdd, Enter, Goto, TypeOK, rowVars
  <2>2. ASSUME NEW o \in Ops, NEW n \in Needs, BeginCollect(q, o, n)
        PROVE  /\ UNCHANGED <<rows, pinned, manifest, diskVars, store, leases>> /\ pc'[q] # "lease"
               /\ lock = NoProc /\ lock' = q
    BY <2>2 DEF BeginCollect, Enter, Goto, TypeOK, rowVars
  <2>3. ASSUME NEW k \in Key, VerifyRead(q, k)
        PROVE  /\ UNCHANGED <<rows, pinned, manifest, diskVars, store, leases, lock>> /\ pc'[q] = "report"
    BY <2>3 DEF VerifyRead, Goto, TypeOK, rowVars
  <2>. QED  BY <1>1, <2>1, <2>2, <2>3 DEF Begin, Locked
<1>2. CASE Step(q)
  <2>1. LeaseAfter(q) \/ VerifyReport(q)
    BY <1>2, StepOutside
  <2>2. CASE LeaseAfter(q)
    BY <2>2 DEF LeaseAfter, Goto, TypeOK, rowVars, Locked
  <2>3. CASE VerifyReport(q)
    BY <2>3 DEF VerifyReport, Goto, TypeOK, rowVars, Locked
  <2>. QED  BY <2>1, <2>2, <2>3
<1>3. CASE Environment(q)
  <2>1. CASE StoreFails(q)
    BY <2>1 DEF StoreFails, AtRun, Locked
  <2>2. CASE Crash(q)
    BY <2>2 DEF Crash, Goto, TypeOK, rowVars, Locked
  <2>3. ASSUME NEW k \in Key, Release(q, k)
        PROVE  /\ UNCHANGED <<rows, pinned, manifest, diskVars, store, lock>>
               /\ leases' \subseteq leases /\ pc'[q] = "idle"
    BY <2>3 DEF Release, rowVars
  <2>. QED  BY <1>3, <2>1, <2>2, <2>3 DEF Environment, Locked
<1>. QED  BY <1>1, <1>2, <1>3

\* So the world stays as it is, and what p has in hand.
LEMMA SpaceOutside ==
  ASSUME TypeOK, OnTrack, NEW q \in Proc, pc[q] \notin Locked, Begin(q) \/ Step(q) \/ Environment(q), World
  PROVE  /\ World'
         /\ \A p \in Proc \ {q} : Minds(p) => Minds(p)'
         /\ Used' = Used /\ (Recorded => Recorded')
<1>1. /\ UNCHANGED <<rows, pinned, manifest, present, files, out, store>>
      /\ leases' \subseteq leases \/ (pc[q] = "lease" /\ leases' = leases \cup {<<q, job[q].key>>})
      /\ pc'[q] # "lease"
  BY Lightly DEF diskVars
<1>2. \A p \in Proc \ {q} : pc'[p] = pc[p] /\ job'[p] = job[p]
  BY Frame
<1>3. Used' = Used /\ (Recorded => Recorded')
  BY <1>1 DEF Used, Recorded, Content
<1>4. World'
  BY <1>1, <1>2 DEF World, Landed
<1>5. \A k \in Key : Unheld(k) => Unheld(k)'
  BY <1>1, <1>2 DEF Unheld, Leased
<1>6. ASSUME NEW p \in Proc \ {q}, Minds(p) PROVE Minds(p)'
  <2>1. pc'[p] = pc[p] /\ job'[p] = job[p]
    BY <1>2
  <2>2. RecordedBy(p)'
    BY <1>1, <1>6, <2>1 DEF Minds, RecordedBy, Arriving, Content
  <2>3. NewBy(p)'
    BY <1>1, <1>5, <1>6, <2>1, CacheAssumption DEF Minds, NewBy, Landed, CacheAssumption
  <2>4. NeedBy(p)'
    BY <1>1, <1>6, <2>1 DEF Minds, NeedBy
  <2>5. RoomBy(p)'
    BY <1>1, <1>3, <1>6, <2>1 DEF Minds, RoomBy, Returning, Arriving, Content, Underestimated
  <2>6. ReturnBy(p)'
    <3>1. Returning(p)' => Returning(p) /\ job[p].key \in Key
      BY <2>1 DEF Returning, Going, OnTrack, OnTrackAt, Resolving, Collecting
    <3>. QED  BY <1>1, <1>3, <1>5, <1>6, <2>1, <3>1 DEF Minds, ReturnBy, Content
  <2>. QED  BY <2>2, <2>3, <2>4, <2>5, <2>6 DEF Minds
<1>. QED  BY <1>3, <1>4, <1>6

\* Outputs that are produced are of a key nobody has in hand.
LEMMA SpaceProduce ==
  ASSUME TypeOK, OnTrack, NEW k \in Key, Produce(k), Space
  PROVE  Space'
<1>1. /\ UNCHANGED <<lock, pc, job, rows, pinned, manifest, leases, present, files, store>>
      /\ k \notin HubKeys /\ out[k] = {} /\ out' = [out EXCEPT ![k] = File]
  BY DEF Produce, rowVars
<1>2. Used' = Used /\ (Recorded => Recorded')
  BY <1>1 DEF Used, Recorded, Content
<1>3. World'
  BY <1>1, CacheAssumption DEF Space, World, Landed, TypeOK, CacheAssumption
<1>4. ASSUME NEW p \in Proc, Minds(p) PROVE Minds(p)'
  <2>1. RecordedBy(p)'
    BY <1>1, <1>4 DEF Minds, RecordedBy, Arriving, Content
  <2>2. NewBy(p)'
    BY <1>1, <1>4 DEF Minds, NewBy, Landed, Unheld, Leased
  <2>3. NeedBy(p)'
    BY <1>1, <1>4 DEF Minds, NeedBy, TypeOK
  <2>4. RoomBy(p)'
    BY <1>1, <1>2, <1>4 DEF Minds, RoomBy, Returning, Arriving, Content, Underestimated
  <2>5. ReturnBy(p)'
    BY <1>1, <1>2, <1>4 DEF Minds, ReturnBy, Returning, Content, Unheld, Leased
  <2>. QED  BY <2>1, <2>2, <2>3, <2>4, <2>5 DEF Minds
<1>. QED  BY <1>1, <1>2, <1>3, <1>4 DEF Space

\* Every step keeps the record, and the room.
LEMMA SpaceNext ==
  ASSUME TypeOK, TypeOK', OnTrack, Mutex, Safe, Cleared, \A p \in Proc : KnowsStore(p), Space,
         Faults \cap {"crash", "store"} = {}, 0 \in HubSizes => Cardinality(File) <= MinFree, [Next]_vars
  PROVE  Space'
<1>0. NoProc \notin Proc
  BY CacheAssumption DEF CacheAssumption
<1>1. ASSUME NEW p \in Proc, Step(p), pc[p] \in Locked PROVE Space'
  <2>1. lock = p /\ World /\ Minds(p) /\ KnowsStore(p)
    BY <1>1 DEF Mutex, Space
  <2>2. World'
    BY <1>1, <2>1, WorldStep
  <2>3. Minds(p)'
    BY <1>1, <2>1, <2>2, RecordedStep, NewStep, NeedStep, RoomStep, ReturnStep DEF Minds
  <2>4. ASSUME NEW q \in Proc, pc'[q] \in Locked PROVE q = p
    BY <1>1, <2>1, <2>4, Frame DEF Mutex
  <2>5. lock' = p \/ (lock' = NoProc /\ pc'[p] \in {"idle", "lease"})
    BY <1>1, <2>1, LockStep
  <2>6. pc'[p] \in {"idle", "lease"} => Recorded' /\ Used' <= Ceiling
    BY <2>3 DEF Minds, RecordedBy, RoomBy, Recorded, Arriving, Returning, Going
  <2>. QED  BY <1>0, <2>2, <2>3, <2>4, <2>5, <2>6 DEF Space
<1>2. ASSUME NEW p \in Proc, Begin(p) \/ Step(p) \/ Environment(p), pc[p] \notin Locked PROVE Space'
  <2>1. /\ World' /\ Used' = Used /\ (Recorded => Recorded')
        /\ \A q \in Proc \ {p} : Minds(q) => Minds(q)'
    BY <1>2, SpaceOutside DEF Space
  <2>2. /\ pc'[p] \in Locked => lock = NoProc /\ Begin(p)
        /\ lock' = NoProc => lock = NoProc
    BY <1>0, <1>2, Lightly
  <2>3. pc'[p] \in Locked => Minds(p)'
    BY <2>2, SpaceBegin DEF Space
  <2>4. \A q \in Proc \ {p} : pc'[q] \in Locked => Minds(q)'
    BY <1>2, <2>1, Frame DEF Space
  <2>. QED  BY <2>1, <2>2, <2>3, <2>4 DEF Space
<1>3. ASSUME NEW p \in Proc, Environment(p) PROVE pc[p] \notin Locked
  BY <1>3 DEF Environment, StoreFails, Crash, Release, Locked
<1>4. ASSUME NEW p \in Proc, Begin(p) PROVE pc[p] \notin Locked
  <2>1. pc[p] = "idle"
    BY <1>4 DEF Begin, BeginOnKey, BeginPublish, BeginAdd, BeginCollect, Enter, VerifyRead
  <2>. QED  BY <2>1 DEF Locked
<1>5. ASSUME NEW k \in Key, Produce(k) PROVE Space'
  BY <1>5, SpaceProduce
<1>6. CASE UNCHANGED vars
  <2>1. UNCHANGED <<lock, pc, job, rows, pinned, manifest, leases, present, files, out, store>>
    BY <1>6 DEF vars, rowVars, diskVars
  <2>2. Used' = Used /\ (Recorded => Recorded')
    BY <2>1 DEF Used, Recorded, Content
  <2>3. World => World'
    BY <2>1 DEF World, Landed
  <2>4. ASSUME NEW p \in Proc, Minds(p) PROVE Minds(p)'
    <3>1. RecordedBy(p)' /\ NewBy(p)'
      BY <2>1, <2>4 DEF Minds, RecordedBy, NewBy, Arriving, Content, Landed, Unheld, Leased
    <3>2. NeedBy(p)' /\ RoomBy(p)'
      BY <2>1, <2>2, <2>4 DEF Minds, NeedBy, RoomBy, Returning, Arriving, Content, Underestimated
    <3>3. ReturnBy(p)'
      BY <2>1, <2>2, <2>4 DEF Minds, ReturnBy, Returning, Content, Unheld, Leased
    <3>. QED  BY <3>1, <3>2, <3>3 DEF Minds
  <2>. QED  BY <2>1, <2>2, <2>3, <2>4 DEF Space
<1>. QED  BY <1>1, <1>2, <1>3, <1>4, <1>5, <1>6 DEF Next

\* The ceiling is honoured: outside the lock the record never exceeds it, and a download that
\* turns out larger than announced is given back, or others for it, before it is returned --
\* where no process dies and the store does not fail, and where what is reserved for a download
\* of unknown size is enough for it.
THEOREM SpaceHeld ==
  ASSUME Faults \cap {"crash", "store"} = {}, 0 \in HubSizes => Cardinality(File) <= MinFree
  PROVE  Spec => []SpaceKept
<1>. DEFINE I == /\ TypeOK /\ OnTrack /\ Mutex /\ Safe /\ Asked /\ Cleared /\ Space
                 /\ \A p \in Proc : KnowsStore(p)
<1>1. Init => I
  <2>1. Init => Safe /\ Mutex
    BY CacheAssumption DEF Init, Mutex, Safe, Bare, OutWhole, NoLoss, Knows, NoJob, Locked
  <2>2. Init => Used = 0
    <3>. SUFFICES ASSUME Init PROVE Used = 0
      OBVIOUS
    <3>1. {x \in Key \X File : x[1] \in rows /\ x[2] \in manifest[x[1]]} = {}
      BY DEF Init
    <3>. QED  BY <3>1, FS_EmptySet DEF Used
  <2>3. Init => Space
    BY <2>2, CacheAssumption DEF Init, Space, World, Recorded, Locked, CacheAssumption
  <2>. QED  BY <2>1, <2>3, TypeInit DEF Init, Asked, Cleared, KnowsStore, NoJob
<1>2. I /\ [Next]_vars => I'
  BY TypeNext, SafeNext, AskedNext, ClearedNext, KnowsStoreNext, SpaceNext DEF Safe
<1>3. I => SpaceKept
  <2>. SUFFICES ASSUME I PROVE SpaceKept
    OBVIOUS
  <2>1. ASSUME NEW p \in Proc, pc[p] = "return" PROVE Used <= Ceiling
    <3>1. RoomBy(p)
      BY <2>1 DEF Space, Minds, Locked
    <3>. QED  BY <2>1, <3>1 DEF RoomBy, Returning, Going
  <2>. QED  BY <2>1 DEF SpaceKept, CeilingHonoured, FetchGivesBack, Space
<1>. QED  BY <1>1, <1>2, <1>3, PTL DEF Spec
=============================================================================
