----------------------------- MODULE SessionProofs -----------------------------
(***************************************************************************)
(* What Session promises.  First, for any number of clients doing whatever *)
(* they like: nobody kills, or inherits the lease of, a process that is    *)
(* not the server it was meant for.  The reason is that a pid and a start  *)
(* time name a process once in a boot (Times), so that a session or the    *)
(* lease on a model that matches a process matches the server it was made  *)
(* for (Names).                                                            *)
(*                                                                         *)
(* Second, where one client starts servers and loads adapters and all the  *)
(* others look, stop and reap: at most one server runs, and what it reads  *)
(* is leased.  Then the row is what that client has read or nothing        *)
(* (Mine), a server is in the row or about to be written there (Alone),    *)
(* and the lease behind each artifact is remembered by nobody who could    *)
(* give it back while the server runs (Backs): what is buried is dead.     *)
(***************************************************************************)
EXTENDS Session, TLAPS

-----------------------------------------------------------------------------
(* The invariants.                                                         *)

\* c goes on at a point with a session at hand, or is done.
Goes(c, at, s) ==
  /\ pc' = [pc EXCEPT ![c] = at]
  /\ job' = [job EXCEPT ![c] = IF at = "idle" THEN NoJob ELSE [job[c] EXCEPT !.sess = s]]

\* What an operation has at hand at each point.
Placed(c) ==
  LET j == job[c]
  IN /\ pc[c] = "idle" => j = NoJob
     /\ pc[c] \in {"look", "stop", "launch", "lease"} => j.sess = NoSession
     /\ pc[c] \in {"bury", "stopped", "save", "wait", "failed", "touch", "acquire", "post", "giveback", "record"} =>
          j.sess # NoSession
     /\ pc[c] \in {"lease", "save", "wait", "failed"} => j.pid # NoPid
     /\ pc[c] \in {"look", "bury", "launch", "touch", "acquire", "post", "giveback", "record"} => j.pid = NoPid
     /\ pc[c] \in {"launch", "lease", "save", "wait", "failed"} => j.op = "start"
     /\ pc[c] \in {"post", "record"} => j.op \in {"load", "unload"}
     /\ pc[c] \in {"acquire", "giveback"} => j.op = "load"
     /\ j.op = "start" => j.key \in Model
     /\ j.op \in {"load", "unload"} => j.key \in Adapter
     /\ pc[c] \in {"post", "giveback", "record"} /\ j.op = "load" => j.lease # NoLease

\* A start time is not used twice, and a pid that is free serves nothing.
Times ==
  /\ tick \in 0..MaxTick[boot]
  /\ \A p \in Pid : procs[p].state # "gone" => procs[p].start < tick
  /\ \A p \in Pid : procs[p].state = "gone" => server[p] = NoServer

\* What a step may do to a pid: a process stays what it is until its entry is gone,
\* and a new one is younger.  Its entry stays while a starter waits.
Persists(p) ==
  IF boot' = boot
  THEN /\ tick' \in {tick, tick + 1}
       /\ procs'[p].state = "gone" => procs[p].state = "gone" \/ \A c \in Client : job[c].pid # p
       /\ procs'[p].state # "gone" => IF procs[p].state = "gone" THEN procs'[p].start = tick /\ tick' = tick + 1
                                                                 ELSE procs'[p].start = procs[p].start
       /\ procs'[p].state = "running" => procs[p].state # "zombie"
  ELSE boot' = boot + 1 /\ procs'[p].state = "gone"

\* And to a server: it goes on serving its model until its process is gone.
Stays(p) ==
  server[p] # NoServer /\ procs'[p].state # "gone" =>
    server'[p] # NoServer /\ server'[p].model = server[p].model

\* Somebody looks after the server.
Minded(p) == Running(p) /\ ~server[p].orphan

\* A server that is looked after was so before, or is launched in this step.
Ran(p) == Minded(p)' => Minded(p) \/ \E c \in Client : Launch(c, p)

\* A server is still there while its starter waits for it, as its session says.
Attended(c) ==
  LET j == job[c]
  IN /\ j.pid # NoPid => server[j.pid] # NoServer /\ server[j.pid].model = j.key
     /\ pc[c] \in {"save", "wait", "failed"} =>
          j.sess.pid = j.pid /\ j.sess.boot = boot /\ j.sess.start = StartTime(j.pid)

\* What has a server's pid and start time is a server of m, or the server is gone.
Names(r, m) ==
  /\ r.boot <= boot /\ r.start \in Nat
  /\ r.boot = boot => r.start < tick
  /\ r.boot = boot /\ StartTime(r.pid) = r.start => server[r.pid] # NoServer /\ server[r.pid].model = m

\* Sessions somebody knows of.
Remembered == ({row} \cup {job[c].sess : c \in Client}) \ {NoSession}

\* The same session, whatever has been written into it.
Like(s, t) == s.pid = t.pid /\ s.boot = t.boot /\ s.start = t.start /\ s.model = t.model

NamesServers ==
  /\ row # NoSession => Names(row, row.model)
  /\ \A c \in Client : job[c].sess # NoSession => Names(job[c].sess, job[c].sess.model)
  /\ \A l \in leases : l.key \in Model => Names(l, l.key)

\* The weights of a model are leased in this step.
Weighs == \E c \in Client, i \in LeaseId : LeaseWeights(c, i)

\* The sessions after a step are those before it, but for one that is new or has a
\* lease more.
Twin(s, t) == Like(s, t) /\ s.leases = t.leases

Twins ==
  \/ \A s \in Remembered' : \E t \in Remembered : Twin(s, t)
  \/ Weighs
  \/ \E c \in Client : Record(c) /\ job[c].op = "load"

\* All but one client only look, stop and reap.
Idler == {"reap", "stop", "current"}

Other(c) ==
  /\ pc[c] \in {"idle", "look", "bury", "stop", "stopped"}
  /\ job[c].op \in Idler \cup {"none"}
  /\ job[c].pid = NoPid /\ job[c].lease = NoLease

\* What is buried or has failed does not run any more.
Dead(c) == pc[c] \in {"bury", "stopped", "failed"} => ~Alive(job[c].sess)

\* Nobody but a writes the row: it is what a has read, or forgotten.
Mine(a) ==
  /\ pc[a] \in {"wait", "touch", "acquire", "post", "giveback", "record"} =>
       row = NoSession \/ Same(row, job[a].sess)
  /\ pc[a] \in {"save", "wait", "touch", "acquire", "post", "giveback", "record"} => job[a].sess.state \in Live

Recorded(p) == row # NoSession /\ row.pid = p /\ row.state \in Live /\ Alive(row)

Alone(a) ==
  \A p \in Pid : Minded(p) =>
    /\ pc[a] \notin {"bury", "stopped", "launch"}
    /\ IF pc[a] \in {"lease", "save"} THEN p = job[a].pid ELSE Recorded(p)

\* What a server reads that has to be leased.
Reads(p) == {server[p].model} \cup (IF server[p].orphan THEN {} ELSE server[p].adapters \ server[p].lost)

\* The lease is alive, and nobody could give it back before the server has stopped.
Backs(l, p, a) ==
  /\ l.pid = p /\ Alive(l)
  /\ \A s \in Remembered : l.id \in s.leases => s.pid = p /\ Alive(s)
  /\ l.id = job[a].lease => pc[a] = "record" /\ job[a].sess.pid = p /\ Alive(job[a].sess)

Backed(a) ==
  \A p \in Pid : Running(p) /\ server[p].held =>
    \A k \in Reads(p) : \E l \in leases : l.key = k /\ Backs(l, p, a)

\* A server has no adapters before its weights are leased.
Bare(a) == pc[a] = "lease" => server[job[a].pid].adapters = {}

\* Nobody but the one that loads an adapter knows of its lease yet, ...
Unshared(a) ==
  pc[a] \in {"post", "giveback"} /\ job[a].op = "load" => \A s \in Remembered : job[a].lease \notin s.leases

\* ... which is there if the server is.
Taken(a) ==
  pc[a] = "post" /\ job[a].op = "load" /\ Alive(job[a].sess) =>
    \E l \in leases : l.id = job[a].lease /\ l.key = job[a].key /\ l.pid = job[a].sess.pid /\ Alive(l)

\* A step lets a server read more only where a lease on it is taken or an adapter
\* loaded.
Less(p) ==
  Running(p)' /\ server'[p].held =>
    \/ Running(p) /\ server[p].held /\ Reads(p)' \subseteq Reads(p)
    \/ \E c \in Client, i \in LeaseId : LeaseWeights(c, i) /\ job[c].pid = p
    \/ \E c \in Client : Posted(c, p) /\ job[c].op = "load"

\* The lease is there after a step, and on the way into the row only if it was so.
Lasts(l, a) ==
  /\ l \in leases'
  /\ l.id = job'[a].lease => pc'[a] = "record" /\ job'[a].sess = job[a].sess /\ l.id = job[a].lease


-----------------------------------------------------------------------------
(* Records.                                                                *)

\* What is changed of the locals is of their type.
LEMMA JobChanged ==
  ASSUME NEW j \in Job
  PROVE  /\ \A s \in SessionRow \cup {NoSession} : [j EXCEPT !.sess = s] \in Job
         /\ \A p \in Pid : [j EXCEPT !.pid = p] \in Job
         /\ \A i \in LeaseId : [j EXCEPT !.lease = i] \in Job
         /\ NoJob \in Job
BY DEF Job, NoJob

\* So are the locals an operation begins with.
LEMMA JobBegun ==
  ASSUME NEW o \in AllOps, NEW k \in Key \cup {NoPid}
  PROVE  [NoJob EXCEPT !.op = o, !.key = k] \in Job
BY DEF Job, NoJob

\* What is changed of a session is of its type, and it stays the same session.
LEMMA RowChanged ==
  ASSUME NEW s \in SessionRow, NEW b \in BOOLEAN, NEW t \in Live \cup {"failed"},
         NEW A \in SUBSET Adapter, NEW I \in SUBSET LeaseId
  PROVE  /\ [s EXCEPT !.fresh = b] \in SessionRow
         /\ [s EXCEPT !.state = t] \in SessionRow
         /\ [s EXCEPT !.state = t, !.fresh = b] \in SessionRow
         /\ [s EXCEPT !.adapters = A, !.fresh = b] \in SessionRow
         /\ [s EXCEPT !.adapters = A, !.fresh = b, !.leases = I] \in SessionRow
BY DEF SessionRow

\* A session is not the absence of one.
LEMMA IsSession ==
  ASSUME NEW s \in SessionRow
  PROVE  /\ s # NoSession
         /\ s.model \in Model /\ s.pid \in Pid /\ s.boot \in 1..MaxBoot /\ s.start \in Start
         /\ s.state \in Live \cup {"failed"} /\ s.adapters \subseteq Adapter /\ s.leases \subseteq LeaseId
BY SessionAssumption DEF SessionAssumption, SessionRow

\* What an operation keeps of a session is that session.
LEMMA KeptIs ==
  ASSUME NEW s \in SessionRow \cup {NoSession}, NEW n
  PROVE  /\ Kept(s, n) \in SessionRow \cup {NoSession}
         /\ Kept(s, n) = NoSession <=> s = NoSession \/ n \in {"stop", "launch"}
         /\ Kept(s, n) # NoSession =>
              LET r == Kept(s, n)
              IN /\ r.model = s.model /\ r.pid = s.pid /\ r.boot = s.boot /\ r.start = s.start
                 /\ r.state = s.state /\ r.leases = s.leases
<1>1. CASE s = NoSession \/ n \in {"stop", "launch"}
  BY <1>1 DEF Kept
<1>2. CASE ~(s = NoSession \/ n \in {"stop", "launch"})
  <2>1. Kept(s, n) = [s EXCEPT !.fresh = FALSE] /\ s \in SessionRow
    BY <1>2 DEF Kept
  <2>2. Kept(s, n) \in SessionRow
    BY <2>1 DEF SessionRow
  <2>. QED  BY <1>2, <2>1, <2>2, IsSession DEF SessionRow
<1>. QED  BY <1>1, <1>2

\* Where an operation goes on depends on what it is and on what it has found.
LEMMA FoundIs ==
  ASSUME NEW j, NEW s
  PROVE  LET next == Found(j, s)
         IN /\ next \in {"idle", "launch", "touch", "stop", "acquire", "post"}
            /\ next = "launch" => j.op = "start" /\ s = NoSession
            /\ next = "touch" => j.op \in {"start", "touch"} /\ s # NoSession
            /\ next = "stop" => j.op \in {"start", "reap"} /\ s # NoSession
            /\ next = "acquire" => j.op = "load" /\ s # NoSession
            /\ next = "post" => j.op = "unload" /\ s # NoSession
BY DEF Found

\* Who looks finds nothing, a dead session or a live one.
LEMMA Looked ==
  ASSUME TypeOK, NEW c \in Client, Look(c)
  PROVE  \E next, s :
           /\ pc[c] = "look" /\ Goes(c, next, s)
           /\ next \in {"idle", "bury", "launch", "touch", "stop", "acquire", "post"}
           /\ s \in SessionRow \cup {NoSession}
           /\ next \in {"launch", "stop"} => s = NoSession
           /\ next \in {"bury", "touch", "acquire", "post"} =>
                /\ s # NoSession /\ row # NoSession /\ row.state \in Live
                /\ s.model = row.model /\ s.pid = row.pid /\ s.boot = row.boot /\ s.start = row.start
                /\ s.state = row.state /\ s.leases = row.leases
           /\ next = "bury" => ~Alive(row)
           /\ next = "launch" => job[c].op = "start" /\ (row # NoSession => row.state \notin Live)
           /\ next = "touch" => job[c].op \in {"start", "touch"}
           /\ next = "stop" => job[c].op \in {"start", "reap"}
           /\ next = "acquire" => job[c].op = "load"
           /\ next = "post" => job[c].op = "unload"
           /\ UNCHANGED <<boot, tick, procs, leases, row, server>>
<1>. DEFINE f == IF row # NoSession /\ row.state \in Live THEN row ELSE NoSession
            next == IF f # NoSession /\ ~Alive(f) THEN "bury" ELSE Found(job[c], f)
            s == Kept(f, next)
<1>1. /\ pc[c] = "look" /\ Proceed(c, next, [job[c] EXCEPT !.sess = s])
      /\ UNCHANGED <<boot, tick, procs, leases, row, server>>
  BY DEF Look, leaseVars
<1>2. f \in SessionRow \cup {NoSession} /\ (f # NoSession => f = row /\ row.state \in Live)
  BY DEF TypeOK
<1>3. /\ s \in SessionRow \cup {NoSession}
      /\ s = NoSession <=> f = NoSession \/ next \in {"stop", "launch"}
      /\ s # NoSession => /\ s.model = f.model /\ s.pid = f.pid /\ s.boot = f.boot /\ s.start = f.start
                          /\ s.state = f.state /\ s.leases = f.leases
  <2>. HIDE DEF f, next
  <2>. QED  BY <1>2, KeptIs
<1>4. next # "bury" => next = Found(job[c], f)
  OBVIOUS
<1>5. next = "bury" => f # NoSession /\ ~Alive(f)
  <2>1. Found(job[c], f) # "bury"
    BY FoundIs
  <2>. QED  BY <2>1
<1>6. row # NoSession /\ row.state \in Live => f = row
  OBVIOUS
<1>7. /\ Goes(c, next, s)
  <2>. HIDE DEF s, next
  <2>. QED  BY <1>1 DEF Proceed, Finish, Goto, Goes
<1>8. /\ next \in {"idle", "bury", "launch", "touch", "stop", "acquire", "post"}
      /\ next = "launch" => job[c].op = "start" /\ f = NoSession
      /\ next = "touch" => job[c].op \in {"start", "touch"} /\ f # NoSession
      /\ next = "stop" => job[c].op \in {"start", "reap"} /\ f # NoSession
      /\ next = "acquire" => job[c].op = "load" /\ f # NoSession
      /\ next = "post" => job[c].op = "unload" /\ f # NoSession
  <2>. HIDE DEF f, next
  <2>. QED  BY <1>4, FoundIs
<1>. HIDE DEF f, next, s
<1>. QED
  <2>1. next \in {"bury", "touch", "acquire", "post"} =>
                /\ s # NoSession /\ row # NoSession /\ row.state \in Live
                /\ s.model = row.model /\ s.pid = row.pid /\ s.boot = row.boot /\ s.start = row.start
                /\ s.state = row.state /\ s.leases = row.leases
    BY <1>2, <1>3, <1>5, <1>8
  <2>2. next \in {"launch", "stop"} => s = NoSession
    BY <1>3
  <2>3. next = "bury" => ~Alive(row)
    BY <1>2, <1>5
  <2>4. next = "launch" => (row # NoSession => row.state \notin Live)
    BY <1>6, <1>8
  <2>. QED  BY <1>1, <1>3, <1>7, <1>8, <2>1, <2>2, <2>3, <2>4

\* Who buries a session forgets it, and starts one of its own or is done.
LEMMA Buried ==
  ASSUME TypeOK, NEW c \in Client, Bury(c)
  PROVE  \E next :
           /\ pc[c] \in {"bury", "stopped"} /\ Goes(c, next, NoSession)
           /\ next \in {"idle", "launch"}
           /\ next = "launch" => job[c].op = "start" /\ (pc[c] = "bury" \/ job[c].pid = NoPid)
           /\ leases' = Released(job[c].sess.leases)
           /\ row' = row \/ row' = NoSession
           /\ row' # row => row # NoSession /\ Same(row, job[c].sess)
           /\ UNCHANGED <<boot, tick, procs, server>>
<1>. DEFINE next == IF pc[c] = "bury" THEN Found(job[c], NoSession) ELSE AfterStop(job[c])
<1>1. /\ pc[c] \in {"bury", "stopped"} /\ Proceed(c, next, [job[c] EXCEPT !.sess = NoSession])
      /\ leases' = Released(job[c].sess.leases) /\ row' = Forgotten(job[c].sess)
      /\ UNCHANGED <<boot, tick, procs, server>>
  BY DEF Bury
<1>2. /\ next \in {"idle", "launch"}
      /\ next = "launch" => job[c].op = "start" /\ (pc[c] = "bury" \/ job[c].pid = NoPid)
  BY FoundIs DEF AfterStop
<1>. HIDE DEF next
<1>3. /\ row' = row \/ row' = NoSession
      /\ row' # row => row # NoSession /\ Same(row, job[c].sess)
  BY <1>1 DEF Forgotten
<1>. QED  BY <1>1, <1>2, <1>3 DEF Proceed, Finish, Goto, Goes

\* Who stops a session takes its server down if it is still the one.
LEMMA Stopped ==
  ASSUME TypeOK, NEW c \in Client, Stop(c)
  PROVE  \E s \in SessionRow :
           /\ pc[c] = "stop" /\ Goes(c, "stopped", s)
           /\ row \in SessionRow
           /\ s.model = row.model /\ s.pid = row.pid /\ s.boot = row.boot /\ s.start = row.start
           /\ s.state = row.state /\ s.leases = row.leases
           /\ procs' = IF Alive(row) THEN [procs EXCEPT ![row.pid].state = "zombie"] ELSE procs
           /\ UNCHANGED <<boot, tick, leases, row, server>>
<1>. DEFINE s == Kept(row, "stopped")
<1>1. /\ pc[c] = "stop" /\ row # NoSession /\ Proceed(c, "stopped", [job[c] EXCEPT !.sess = s])
      /\ procs' = IF Alive(row) THEN [procs EXCEPT ![row.pid].state = "zombie"] ELSE procs
      /\ UNCHANGED <<boot, tick, leases, row, server>>
  BY DEF Stop
<1>2. /\ row \in SessionRow /\ s \in SessionRow
      /\ s.model = row.model /\ s.pid = row.pid /\ s.boot = row.boot /\ s.start = row.start
      /\ s.state = row.state /\ s.leases = row.leases
  BY <1>1, KeptIs DEF TypeOK
<1>. HIDE DEF s
<1>. QED  BY <1>1, <1>2 DEF Proceed, Goto, Goes

\* A client that goes on, or is done, is at a point of its program.
LEMMA Proceeds ==
  ASSUME TypeOK, NEW c \in Client, NEW at \in PC, NEW j \in Job, Proceed(c, at, j) \/ Finish(c)
  PROVE  pc' \in [Client -> PC] /\ job' \in [Client -> Job]
<1>1. NoJob \in Job /\ "idle" \in PC
  BY DEF NoJob, Job, PC
<1>. QED  BY <1>1 DEF TypeOK, Proceed, Finish, Goto

\* The process table and the leases are of their type whatever the kernel does.
LEMMA LeaseStep ==
  ASSUME LeaseTypeOK,
         \/ UNCHANGED leaseVars
         \/ UNCHANGED <<boot, tick, procs>> /\ leases' \subseteq LeaseRecord
         \/ UNCHANGED <<boot, leases>> /\ \E p \in Pid : Spawned(p)
         \/ UNCHANGED <<boot, tick, leases>> /\ \E p \in Pid : Exited(p) \/ WaitedFor(p)
         \/ UNCHANGED leases /\ Rebooted
  PROVE  LeaseTypeOK'
<1>. USE LeaseAssumption DEF LeaseAssumption, LeaseTypeOK
<1>1. boot \in 1..MaxBoot /\ MaxTick[boot] \in Nat /\ \A b \in 1..MaxBoot : 0..MaxTick[b] \subseteq Start
  BY DEF Start
<1>2. \A n \in Start : n \in Nat
  BY DEF Start
<1>3. \A s \in {"running", "zombie", "gone"}, n \in Start : [state |-> s, start |-> n] \in Process
  BY DEF Process
<1>4. Gone \in Process
  BY <1>1, <1>3 DEF Gone
<1>5. CASE UNCHANGED leaseVars
  BY <1>5 DEF leaseVars
<1>6. CASE UNCHANGED <<boot, tick, procs>> /\ leases' \subseteq LeaseRecord
  BY <1>6
<1>7. CASE UNCHANGED <<boot, leases>> /\ \E p \in Pid : Spawned(p)
  <2>1. tick + 1 \in Start
    BY <1>1, <1>2, <1>7 DEF Spawned
  <2>. QED  BY <1>3, <1>7, <2>1 DEF Spawned
<1>8. CASE UNCHANGED <<boot, tick, leases>> /\ \E p \in Pid : Exited(p) \/ WaitedFor(p)
  <2>1. ASSUME NEW q \in Process PROVE [q EXCEPT !.state = "zombie"] \in Process
    BY DEF Process
  <2>. QED  BY <1>4, <1>8, <2>1 DEF Exited, WaitedFor
<1>9. CASE UNCHANGED leases /\ Rebooted
  <2>1. boot + 1 \in 1..MaxBoot /\ 0 \in Start
    BY <1>1, <1>9 DEF Rebooted
  <2>. QED  BY <1>4, <1>9, <2>1 DEF Rebooted
<1>. QED  BY <1>5, <1>6, <1>7, <1>8, <1>9

\* The lease that is taken is of its type.
LEMMA NewLeaseType ==
  ASSUME LeaseTypeOK, NEW i \in LeaseId, NEW k \in Key, NEW p \in Pid
  PROVE  NewLease(i, k, p) \in LeaseRecord
<1>1. StartTime(p) \in Start \cup {UnknownStart}
  BY DEF StartTime, LeaseTypeOK, Process
<1>. QED  BY <1>1 DEF NewLease, LeaseRecord, LeaseTypeOK

\* What is changed of a server is of its type.
LEMMA ServerChanged ==
  ASSUME NEW s \in Server, NEW b \in BOOLEAN, NEW A \in SUBSET Adapter, NEW L \in SUBSET Adapter
  PROVE  /\ [s EXCEPT !.up = b] \in Server
         /\ [s EXCEPT !.held = b] \in Server
         /\ [s EXCEPT !.orphan = b] \in Server
         /\ [s EXCEPT !.adapters = A, !.lost = L] \in Server
         /\ s # NoServer /\ s.adapters \subseteq Adapter /\ s.lost \subseteq Adapter
BY SessionAssumption DEF Server, SessionAssumption

\* A client that goes on with a session is at a point of its program, too.
LEMMA GoesType ==
  ASSUME TypeOK, NEW c \in Client, NEW at \in PC, NEW s \in SessionRow \cup {NoSession}, Goes(c, at, s)
  PROVE  pc' \in [Client -> PC] /\ job' \in [Client -> Job]
<1>1. [job[c] EXCEPT !.sess = s] \in Job /\ NoJob \in Job
  BY JobChanged DEF TypeOK
<1>. QED  BY <1>1 DEF TypeOK, Goes

\* It knows a process, a session and a lease, or none.
LEMMA JobHas ==
  ASSUME NEW j \in Job
  PROVE  /\ j.op \in AllOps \cup {"none"} /\ j.key \in Key \cup {NoPid} /\ j.pid \in Pid \cup {NoPid}
         /\ j.sess \in SessionRow \cup {NoSession} /\ j.lease \in LeaseId \cup {NoLease}
BY DEF Job

\* Who leases the weights does so in the name of a server that is there, and makes
\* a session of it.
LEMMA Weighed ==
  ASSUME TypeOK, NEW c \in Client, Placed(c), Attended(c), Times, NEW i \in LeaseId, LeaseWeights(c, i)
  PROVE  LET p == job[c].pid
         IN \E s \in SessionRow :
              /\ pc[c] = "lease" /\ Goes(c, "save", s)
              /\ p \in Pid /\ server[p] \in Server /\ job[c].key \in Model /\ server[p].model = job[c].key
              /\ s.model = job[c].key /\ s.pid = p /\ s.boot = boot /\ s.start = StartTime(p)
              /\ s.state = "starting" /\ s.leases = {i} /\ s # NoSession
              /\ StartTime(p) \in Nat /\ StartTime(p) < tick
              /\ FreshId(i, Mentioned)
              /\ leases' = leases \cup {NewLease(i, job[c].key, p)}
              /\ server' = [server EXCEPT ![p].held = TRUE]
              /\ UNCHANGED <<boot, tick, procs, row>>
<1>. DEFINE p == job[c].pid
            s == [model |-> job[c].key, pid |-> p, boot |-> boot, start |-> StartTime(p),
                  state |-> "starting", fresh |-> FALSE, adapters |-> {}, leases |-> {i}]
<1>1. /\ pc[c] = "lease" /\ Proceed(c, "save", [job[c] EXCEPT !.sess = s])
      /\ FreshId(i, Mentioned) /\ leases' = leases \cup {NewLease(i, job[c].key, p)}
      /\ server' = [server EXCEPT ![p].held = TRUE] /\ UNCHANGED <<boot, tick, procs, row>>
  BY DEF LeaseWeights
<1>2. p \in Pid /\ server[p] \in Server /\ job[c].key \in Model /\ server[p].model = job[c].key
  BY <1>1, JobHas DEF TypeOK, Placed, Attended
<1>3. procs[p].state # "gone"
  BY <1>2, SessionAssumption DEF Times, SessionAssumption
<1>4. StartTime(p) \in Start /\ StartTime(p) < tick
  BY <1>2, <1>3 DEF StartTime, Times, TypeOK, LeaseTypeOK, Process
<1>5. s \in SessionRow
  BY <1>2, <1>4 DEF SessionRow, Live, TypeOK, LeaseTypeOK
<1>6. Goes(c, "save", s)
  <2>. HIDE DEF s
  <2>. QED  BY <1>1 DEF Proceed, Goto, Goes
<1>7. /\ s.model = job[c].key /\ s.pid = p /\ s.boot = boot /\ s.start = StartTime(p)
      /\ s.state = "starting" /\ s.leases = {i}
  OBVIOUS
<1>8. StartTime(p) \in Nat
  BY <1>4, LeaseAssumption DEF Start, LeaseAssumption
<1>9. s # NoSession
  BY <1>5, IsSession
<1>. HIDE DEF s
<1>. QED  BY <1>1, <1>2, <1>4, <1>5, <1>6, <1>7, <1>8, <1>9

\* Every step keeps every variable in its type.
LEMMA TypeStep ==
  ASSUME TypeOK, \A c \in Client : Placed(c) /\ Attended(c), Times, [Next]_vars
  PROVE  TypeOK'
<1>. USE SessionAssumption
<1>1. ASSUME NEW c \in Client, NEW o \in AllOps, NEW k \in Key \cup {NoPid}, Begin(c, o, k) PROVE TypeOK'
  <2>1. [NoJob EXCEPT !.op = o, !.key = k] \in Job
    BY JobBegun
  <2>2. pc' \in [Client -> PC] /\ job' \in [Client -> Job]
    BY <1>1, <2>1 DEF Begin, TypeOK, Goto, PC
  <2>3. UNCHANGED <<leaseVars, row, server>>
    BY <1>1 DEF Begin
  <2>4. LeaseTypeOK'
    BY <2>3, LeaseStep DEF TypeOK
  <2>. QED  BY <2>1, <2>2, <2>3, <2>4 DEF TypeOK
<1>2. ASSUME NEW c \in Client, Look(c) PROVE TypeOK'
  <2>1. PICK next, s :
          /\ Goes(c, next, s) /\ next \in PC
          /\ s \in SessionRow \cup {NoSession}
          /\ UNCHANGED <<boot, tick, procs, leases, row, server>>
    BY <1>2, Looked DEF PC
  <2>2. pc' \in [Client -> PC] /\ job' \in [Client -> Job]
    BY <2>1, GoesType DEF PC
  <2>3. LeaseTypeOK'
    BY <2>1, LeaseStep DEF TypeOK, leaseVars
  <2>. QED  BY <2>1, <2>2, <2>3 DEF TypeOK
<1>3. ASSUME NEW c \in Client, Bury(c) PROVE TypeOK'
  <2>1. PICK next :
          /\ Goes(c, next, NoSession) /\ next \in PC
          /\ leases' = Released(job[c].sess.leases)
          /\ row' = row \/ row' = NoSession
          /\ UNCHANGED <<boot, tick, procs, server>>
    BY <1>3, Buried DEF PC
  <2>2. pc' \in [Client -> PC] /\ job' \in [Client -> Job]
    BY <2>1, GoesType DEF PC
  <2>3. LeaseTypeOK'
    BY <2>1, LeaseStep DEF TypeOK, Released, LeaseTypeOK
  <2>. QED  BY <2>1, <2>2, <2>3 DEF TypeOK
<1>4. ASSUME NEW c \in Client, Stop(c) PROVE TypeOK'
  <2>1. PICK s \in SessionRow :
          /\ Goes(c, "stopped", s)
          /\ row \in SessionRow
          /\ procs' = IF Alive(row) THEN [procs EXCEPT ![row.pid].state = "zombie"] ELSE procs
          /\ UNCHANGED <<boot, tick, leases, row, server>>
    BY <1>4, Stopped
  <2>2. pc' \in [Client -> PC] /\ job' \in [Client -> Job]
    BY <2>1, GoesType DEF PC
  <2>3. Alive(row) => Exited(row.pid) /\ row.pid \in Pid
    BY <2>1, IsSession DEF Exited, Alive, ProcessAlive
  <2>4. LeaseTypeOK'
    BY <2>1, <2>3, LeaseStep DEF TypeOK, leaseVars
  <2>. QED  BY <2>1, <2>2, <2>4 DEF TypeOK
<1>5. ASSUME NEW c \in Client, NothingToStop(c) PROVE TypeOK'
  <2>1. job[c] \in Job /\ [job[c] EXCEPT !.sess = NoSession] \in Job
    BY JobChanged DEF TypeOK
  <2>2. pc' \in [Client -> PC] /\ job' \in [Client -> Job]
    BY <1>5, <2>1, Proceeds DEF NothingToStop, AfterStop, PC
  <2>3. LeaseTypeOK'
    BY <1>5, LeaseStep DEF NothingToStop, TypeOK
  <2>4. row' \in SessionRow \cup {NoSession}
    BY <1>5 DEF NothingToStop, TypeOK
  <2>5. server' \in [Pid -> Server \cup {NoServer}]
    BY <1>5 DEF NothingToStop, TypeOK
  <2>. QED  BY <2>1, <2>2, <2>3, <2>4, <2>5 DEF TypeOK
<1>6. ASSUME NEW c \in Client, CannotLaunch(c) PROVE TypeOK'
  <2>1. job[c] \in Job /\ [job[c] EXCEPT !.sess = NoSession] \in Job
    BY JobChanged DEF TypeOK
  <2>2. pc' \in [Client -> PC] /\ job' \in [Client -> Job]
    BY <1>6, <2>1, Proceeds DEF CannotLaunch, PC
  <2>3. LeaseTypeOK'
    BY <1>6, LeaseStep DEF CannotLaunch, TypeOK
  <2>4. row' \in SessionRow \cup {NoSession}
    BY <1>6 DEF CannotLaunch, TypeOK
  <2>5. server' \in [Pid -> Server \cup {NoServer}]
    BY <1>6 DEF CannotLaunch, TypeOK
  <2>. QED  BY <2>1, <2>2, <2>3, <2>4, <2>5 DEF TypeOK
<1>7. ASSUME NEW c \in Client, NEW p \in Pid, Launch(c, p) PROVE TypeOK'
  <2>1. job[c] \in Job /\ [job[c] EXCEPT !.pid = p] \in Job
    BY JobChanged DEF TypeOK
  <2>2. [model |-> job[c].key, adapters |-> {}, up |-> FALSE, held |-> FALSE, lost |-> {}, orphan |-> FALSE] \in Server
    BY <1>7 DEF Launch, Placed, Server
  <2>3. pc' \in [Client -> PC] /\ job' \in [Client -> Job]
    BY <1>7, <2>1, Proceeds DEF Launch, PC
  <2>4. LeaseTypeOK'
    BY <1>7, LeaseStep DEF Launch, TypeOK
  <2>5. row' \in SessionRow \cup {NoSession}
    BY <1>7 DEF Launch, TypeOK
  <2>6. server' \in [Pid -> Server \cup {NoServer}]
    BY <1>7, <2>2 DEF Launch, TypeOK
  <2>. QED  BY <2>1, <2>2, <2>3, <2>4, <2>5, <2>6 DEF TypeOK
<1>8. ASSUME NEW c \in Client, NEW i \in LeaseId, LeaseWeights(c, i) PROVE TypeOK'
  <2>. DEFINE p == job[c].pid
  <2>1. PICK s \in SessionRow :
          /\ p \in Pid /\ server[p] \in Server /\ job[c].key \in Model
          /\ Goes(c, "save", s)
          /\ leases' = leases \cup {NewLease(i, job[c].key, p)}
          /\ server' = [server EXCEPT ![p].held = TRUE] /\ UNCHANGED <<boot, tick, procs, row>>
    BY <1>8, Weighed
  <2>2. pc' \in [Client -> PC] /\ job' \in [Client -> Job]
    BY <2>1, GoesType DEF PC
  <2>3. NewLease(i, job[c].key, p) \in LeaseRecord
    BY <2>1, NewLeaseType, SessionAssumption DEF TypeOK, SessionAssumption
  <2>4. LeaseTypeOK'
    BY <2>1, <2>3, LeaseStep DEF TypeOK, LeaseTypeOK
  <2>5. [server[p] EXCEPT !.held = TRUE] \in Server
    BY <2>1, ServerChanged
  <2>. QED  BY <2>1, <2>2, <2>4, <2>5 DEF TypeOK
<1>9. ASSUME NEW c \in Client, NEW i \in LeaseId, LeaseAdapter(c, i) PROVE TypeOK'
  <2>1. job[c] \in Job /\ [job[c] EXCEPT !.lease = i] \in Job
    BY JobChanged DEF TypeOK
  <2>2. NewLease(i, job[c].key, job[c].sess.pid) \in LeaseRecord
    BY <1>9, JobHas, IsSession, NewLeaseType, SessionAssumption DEF TypeOK, LeaseAdapter, Placed,
       SessionAssumption
  <2>3. pc' \in [Client -> PC] /\ job' \in [Client -> Job]
    BY <1>9, <2>1, Proceeds DEF LeaseAdapter, PC
  <2>4. LeaseTypeOK'
    BY <1>9, <2>2, LeaseStep DEF LeaseAdapter, TypeOK, LeaseTypeOK
  <2>5. row' \in SessionRow \cup {NoSession}
    BY <1>9 DEF LeaseAdapter, TypeOK
  <2>6. server' \in [Pid -> Server \cup {NoServer}]
    BY <1>9 DEF LeaseAdapter, TypeOK
  <2>. QED  BY <2>1, <2>2, <2>3, <2>4, <2>5, <2>6 DEF TypeOK
<1>10. ASSUME NEW c \in Client, SaveStarting(c) PROVE TypeOK'
  <2>1. job[c] \in Job /\ job[c].sess \in SessionRow
    BY <1>10, JobHas DEF TypeOK, Placed, SaveStarting
  <2>2. pc' \in [Client -> PC] /\ job' \in [Client -> Job]
    BY <1>10, <2>1, Proceeds DEF SaveStarting, PC
  <2>3. LeaseTypeOK'
    BY <1>10, LeaseStep DEF SaveStarting, TypeOK
  <2>4. row' \in SessionRow \cup {NoSession}
    BY <1>10, <2>1, RowChanged DEF SaveStarting, Written
  <2>5. server' \in [Pid -> Server \cup {NoServer}]
    BY <1>10 DEF SaveStarting, TypeOK
  <2>. QED  BY <2>1, <2>2, <2>3, <2>4, <2>5 DEF TypeOK
<1>11. ASSUME NEW c \in Client, StartFailed(c) PROVE TypeOK'
  <2>1. job[c] \in Job /\ job[c].sess \in SessionRow
    BY <1>11, JobHas DEF TypeOK, Placed, StartFailed
  <2>2. pc' \in [Client -> PC] /\ job' \in [Client -> Job]
    BY <1>11, <2>1, Proceeds DEF StartFailed, PC
  <2>3. LeaseTypeOK'
    BY <1>11, LeaseStep DEF StartFailed, TypeOK
  <2>4. row' \in SessionRow \cup {NoSession}
    BY <1>11, <2>1, RowChanged DEF StartFailed, Written
  <2>5. server' \in [Pid -> Server \cup {NoServer}]
    BY <1>11 DEF StartFailed, TypeOK
  <2>. QED  BY <2>1, <2>2, <2>3, <2>4, <2>5 DEF TypeOK
<1>12. ASSUME NEW c \in Client, ReleaseFailed(c) PROVE TypeOK'
  <2>1. job[c] \in Job
    BY JobChanged DEF TypeOK
  <2>2. pc' \in [Client -> PC] /\ job' \in [Client -> Job]
    BY <1>12, <2>1, Proceeds DEF ReleaseFailed, PC
  <2>3. LeaseTypeOK'
    BY <1>12, LeaseStep DEF ReleaseFailed, TypeOK, LeaseTypeOK, Released
  <2>4. row' \in SessionRow \cup {NoSession}
    BY <1>12 DEF ReleaseFailed, TypeOK
  <2>5. server' \in [Pid -> Server \cup {NoServer}]
    BY <1>12 DEF ReleaseFailed, TypeOK
  <2>. QED  BY <2>1, <2>2, <2>3, <2>4, <2>5 DEF TypeOK
<1>13. ASSUME NEW c \in Client, StartReady(c) PROVE TypeOK'
  <2>1. job[c] \in Job /\ job[c].sess \in SessionRow
    BY <1>13, JobHas DEF TypeOK, Placed, StartReady
  <2>2. pc' \in [Client -> PC] /\ job' \in [Client -> Job]
    BY <1>13, <2>1, Proceeds DEF StartReady, PC
  <2>3. LeaseTypeOK'
    BY <1>13, LeaseStep DEF StartReady, TypeOK
  <2>4. row' \in SessionRow \cup {NoSession}
    BY <1>13, <2>1, RowChanged DEF StartReady, Written, Live
  <2>5. server' \in [Pid -> Server \cup {NoServer}]
    BY <1>13 DEF StartReady, TypeOK
  <2>. QED  BY <2>1, <2>2, <2>3, <2>4, <2>5 DEF TypeOK
<1>14. ASSUME NEW c \in Client, StartTimedOut(c) PROVE TypeOK'
  <2>1. job[c] \in Job /\ [job[c] EXCEPT !.sess = NoSession] \in Job
    BY JobChanged DEF TypeOK
  <2>2. pc' \in [Client -> PC] /\ job' \in [Client -> Job]
    BY <1>14, <2>1, Proceeds DEF StartTimedOut, PC
  <2>3. LeaseTypeOK'
    BY <1>14, LeaseStep DEF StartTimedOut, TypeOK
  <2>4. row' \in SessionRow \cup {NoSession}
    BY <1>14 DEF StartTimedOut, TypeOK
  <2>5. server' \in [Pid -> Server \cup {NoServer}]
    BY <1>14 DEF StartTimedOut, TypeOK
  <2>. QED  BY <2>1, <2>2, <2>3, <2>4, <2>5 DEF TypeOK
<1>15. ASSUME NEW c \in Client, Touch(c) PROVE TypeOK'
  <2>1. job[c] \in Job /\ job[c].sess \in SessionRow
    BY <1>15, JobHas DEF TypeOK, Placed, Touch
  <2>2. pc' \in [Client -> PC] /\ job' \in [Client -> Job]
    BY <1>15, <2>1, Proceeds DEF Touch, PC
  <2>3. LeaseTypeOK'
    BY <1>15, LeaseStep DEF Touch, TypeOK
  <2>4. row' \in SessionRow \cup {NoSession}
    BY <1>15, <2>1, RowChanged DEF Touch, Written
  <2>5. server' \in [Pid -> Server \cup {NoServer}]
    BY <1>15 DEF Touch, TypeOK
  <2>. QED  BY <2>1, <2>2, <2>3, <2>4, <2>5 DEF TypeOK
<1>16. ASSUME NEW c \in Client, NEW p \in Pid, Posted(c, p) PROVE TypeOK'
  <2>. DEFINE k == job[c].key
              A == IF job[c].op = "load" THEN server[p].adapters \cup {k} ELSE server[p].adapters \ {k}
              L == server[p].lost \ {k}
  <2>1. p \in Pid /\ server[p] \in Server /\ job[c] \in Job /\ k \in Adapter
    BY <1>16, JobHas DEF Posted, TypeOK, Placed, Answering, Running
  <2>2. A \in SUBSET Adapter /\ L \in SUBSET Adapter
    BY <2>1, ServerChanged
  <2>3. server' = [server EXCEPT ![p] = [server[p] EXCEPT !.adapters = A, !.lost = L]]
    BY <1>16 DEF Posted
  <2>. HIDE DEF A, L
  <2>4. [server[p] EXCEPT !.adapters = A, !.lost = L] \in Server
    BY <2>1, <2>2, ServerChanged
  <2>5. server' \in [Pid -> Server \cup {NoServer}]
    BY <2>1, <2>3, <2>4 DEF TypeOK
  <2>6. pc' \in [Client -> PC] /\ job' \in [Client -> Job]
    BY <1>16, <2>1, Proceeds DEF Posted, PC
  <2>7. LeaseTypeOK' /\ UNCHANGED row
    BY <1>16, LeaseStep DEF Posted, TypeOK
  <2>. QED  BY <2>5, <2>6, <2>7 DEF TypeOK
<1>17. ASSUME NEW c \in Client, NEW p \in Pid, AnswerLost(c, p) PROVE TypeOK'
  <2>. DEFINE k == job[c].key
              A == server[p].adapters \cup {k}
              L == server[p].lost \cup {k}
  <2>1. p \in Pid /\ server[p] \in Server /\ job[c] \in Job /\ k \in Adapter
    BY <1>17, JobHas DEF AnswerLost, TypeOK, Placed, Answering, Running
  <2>2. A \in SUBSET Adapter /\ L \in SUBSET Adapter
    BY <2>1, ServerChanged
  <2>3. server' = [server EXCEPT ![p] = [server[p] EXCEPT !.adapters = A, !.lost = L]]
    BY <1>17 DEF AnswerLost
  <2>. HIDE DEF A, L
  <2>4. [server[p] EXCEPT !.adapters = A, !.lost = L] \in Server
    BY <2>1, <2>2, ServerChanged
  <2>5. server' \in [Pid -> Server \cup {NoServer}]
    BY <2>1, <2>3, <2>4 DEF TypeOK
  <2>6. pc' \in [Client -> PC] /\ job' \in [Client -> Job]
    BY <1>17, <2>1, Proceeds DEF AnswerLost, PC
  <2>7. LeaseTypeOK' /\ UNCHANGED row
    BY <1>17, LeaseStep DEF AnswerLost, TypeOK
  <2>. QED  BY <2>5, <2>6, <2>7 DEF TypeOK
<1>18. ASSUME NEW c \in Client, Refused(c) PROVE TypeOK'
  <2>1. job[c] \in Job /\ [job[c] EXCEPT !.sess = NoSession] \in Job
    BY JobChanged DEF TypeOK
  <2>2. pc' \in [Client -> PC] /\ job' \in [Client -> Job]
    BY <1>18, <2>1, Proceeds DEF Refused, PC
  <2>3. LeaseTypeOK'
    BY <1>18, LeaseStep DEF Refused, TypeOK
  <2>4. row' \in SessionRow \cup {NoSession}
    BY <1>18 DEF Refused, TypeOK
  <2>5. server' \in [Pid -> Server \cup {NoServer}]
    BY <1>18 DEF Refused, TypeOK
  <2>. QED  BY <2>1, <2>2, <2>3, <2>4, <2>5 DEF TypeOK
<1>19. ASSUME NEW c \in Client, GiveBack(c) PROVE TypeOK'
  <2>1. job[c] \in Job
    BY JobChanged DEF TypeOK
  <2>2. pc' \in [Client -> PC] /\ job' \in [Client -> Job]
    BY <1>19, <2>1, Proceeds DEF GiveBack, PC
  <2>3. LeaseTypeOK'
    BY <1>19, LeaseStep DEF GiveBack, TypeOK, LeaseTypeOK, Released
  <2>4. row' \in SessionRow \cup {NoSession}
    BY <1>19 DEF GiveBack, TypeOK
  <2>5. server' \in [Pid -> Server \cup {NoServer}]
    BY <1>19 DEF GiveBack, TypeOK
  <2>. QED  BY <2>1, <2>2, <2>3, <2>4, <2>5 DEF TypeOK
<1>20. ASSUME NEW c \in Client, Record(c) PROVE TypeOK'
  <2>. DEFINE s == job[c].sess
              k == job[c].key
  <2>1. job[c] \in Job /\ s \in SessionRow /\ k \in Adapter
    BY <1>20, JobHas DEF TypeOK, Placed, Record
  <2>2. job[c].op = "load" => job[c].lease \in LeaseId
    BY <1>20, JobHas DEF TypeOK, Placed, Record
  <2>3. s.adapters \subseteq Adapter /\ s.leases \subseteq LeaseId
    BY <2>1, IsSession
  <2>4. job[c].op = "load" =>
          [s EXCEPT !.adapters = s.adapters \cup {k}, !.fresh = TRUE, !.leases = s.leases \cup {job[c].lease}] \in SessionRow
    BY <2>1, <2>2, <2>3, RowChanged
  <2>5. [s EXCEPT !.adapters = s.adapters \ {k}, !.fresh = TRUE] \in SessionRow
    BY <2>1, <2>3, RowChanged
  <2>6. row' \in SessionRow
    BY <1>20, <2>4, <2>5 DEF Record, Written
  <2>7. pc' \in [Client -> PC] /\ job' \in [Client -> Job]
    BY <1>20, <2>1, Proceeds DEF Record, PC
  <2>8. LeaseTypeOK' /\ UNCHANGED server
    BY <1>20, LeaseStep DEF Record, TypeOK
  <2>. QED  BY <2>6, <2>7, <2>8 DEF TypeOK
<1>21. ASSUME NEW c \in Client, Crash(c) PROVE TypeOK'
  <2>1. job[c] \in Job
    BY JobChanged DEF TypeOK
  <2>2. pc[c] \in {"lease", "save"} => job[c].pid \in Pid /\ [server[job[c].pid] EXCEPT !.orphan = TRUE] \in Server
    BY JobHas, ServerChanged DEF TypeOK, Placed, Attended
  <2>3. pc' \in [Client -> PC] /\ job' \in [Client -> Job]
    BY <1>21, <2>1, Proceeds DEF Crash, PC
  <2>4. LeaseTypeOK'
    BY <1>21, LeaseStep DEF Crash, TypeOK
  <2>5. row' \in SessionRow \cup {NoSession}
    BY <1>21 DEF Crash, TypeOK
  <2>6. server' \in [Pid -> Server \cup {NoServer}]
    BY <1>21, <2>2 DEF Crash, TypeOK
  <2>. QED  BY <2>1, <2>2, <2>3, <2>4, <2>5, <2>6 DEF TypeOK
<1>22. ASSUME NEW p \in Pid, ServerUp(p) PROVE TypeOK'
  <2>1. pc' \in [Client -> PC] /\ job' \in [Client -> Job]
    BY <1>22 DEF ServerUp, TypeOK
  <2>2. LeaseTypeOK'
    BY <1>22, LeaseStep DEF ServerUp, TypeOK
  <2>3. row' \in SessionRow \cup {NoSession}
    BY <1>22 DEF ServerUp, TypeOK
  <2>4. server' \in [Pid -> Server \cup {NoServer}]
    BY <1>22, ServerChanged DEF ServerUp, TypeOK, Running
  <2>. QED  BY <2>1, <2>2, <2>3, <2>4 DEF TypeOK
<1>23. ASSUME NEW p \in Pid, ProcessExits(p) PROVE TypeOK'
  <2>1. pc' \in [Client -> PC] /\ job' \in [Client -> Job]
    BY <1>23 DEF ProcessExits, TypeOK
  <2>2. LeaseTypeOK'
    BY <1>23, LeaseStep DEF ProcessExits, TypeOK
  <2>3. row' \in SessionRow \cup {NoSession}
    BY <1>23 DEF ProcessExits, TypeOK
  <2>4. server' \in [Pid -> Server \cup {NoServer}]
    BY <1>23 DEF ProcessExits, TypeOK
  <2>. QED  BY <2>1, <2>2, <2>3, <2>4 DEF TypeOK
<1>24. ASSUME NEW p \in Pid, ProcessReaped(p) PROVE TypeOK'
  <2>1. pc' \in [Client -> PC] /\ job' \in [Client -> Job]
    BY <1>24 DEF ProcessReaped, TypeOK
  <2>2. LeaseTypeOK'
    BY <1>24, LeaseStep DEF ProcessReaped, TypeOK
  <2>3. row' \in SessionRow \cup {NoSession}
    BY <1>24 DEF ProcessReaped, TypeOK
  <2>4. server' \in [Pid -> Server \cup {NoServer}]
    BY <1>24 DEF ProcessReaped, TypeOK
  <2>. QED  BY <2>1, <2>2, <2>3, <2>4 DEF TypeOK
<1>25. ASSUME NEW p \in Pid, StrangerStarts(p) PROVE TypeOK'
  <2>1. pc' \in [Client -> PC] /\ job' \in [Client -> Job]
    BY <1>25 DEF StrangerStarts, TypeOK
  <2>2. LeaseTypeOK'
    BY <1>25, LeaseStep DEF StrangerStarts, TypeOK
  <2>3. row' \in SessionRow \cup {NoSession}
    BY <1>25 DEF StrangerStarts, TypeOK
  <2>4. server' \in [Pid -> Server \cup {NoServer}]
    BY <1>25 DEF StrangerStarts, TypeOK
  <2>. QED  BY <2>1, <2>2, <2>3, <2>4 DEF TypeOK
<1>26. CASE LeasesReaped
  <2>1. pc' \in [Client -> PC] /\ job' \in [Client -> Job]
    BY <1>26 DEF LeasesReaped, TypeOK
  <2>2. LeaseTypeOK'
    BY <1>26, LeaseStep DEF LeasesReaped, Reap, TypeOK, LeaseTypeOK
  <2>3. row' \in SessionRow \cup {NoSession}
    BY <1>26 DEF LeasesReaped, TypeOK
  <2>4. server' \in [Pid -> Server \cup {NoServer}]
    BY <1>26 DEF LeasesReaped, TypeOK
  <2>. QED  BY <2>1, <2>2, <2>3, <2>4 DEF TypeOK
<1>27. CASE TimePasses
  <2>1. pc' \in [Client -> PC] /\ job' \in [Client -> Job]
    BY <1>27 DEF TimePasses, TypeOK
  <2>2. LeaseTypeOK'
    BY <1>27, LeaseStep DEF TimePasses, TypeOK
  <2>3. row' \in SessionRow \cup {NoSession}
    BY <1>27, RowChanged DEF TimePasses, TypeOK
  <2>4. server' \in [Pid -> Server \cup {NoServer}]
    BY <1>27 DEF TimePasses, TypeOK
  <2>. QED  BY <2>1, <2>2, <2>3, <2>4 DEF TypeOK
<1>28. CASE Reboot
  <2>1. NoJob \in Job
    BY DEF NoJob, Job
  <2>2. pc' \in [Client -> PC] /\ job' \in [Client -> Job]
    BY <1>28, <2>1 DEF Reboot, PC
  <2>3. LeaseTypeOK'
    BY <1>28, LeaseStep DEF Reboot, TypeOK
  <2>4. row' \in SessionRow \cup {NoSession}
    BY <1>28 DEF Reboot, TypeOK
  <2>5. server' \in [Pid -> Server \cup {NoServer}]
    BY <1>28 DEF Reboot, TypeOK
  <2>. QED  BY <2>1, <2>2, <2>3, <2>4, <2>5 DEF TypeOK
<1>29. CASE UNCHANGED vars
  BY <1>29, LeaseStep DEF vars, TypeOK
<1>. QED
  BY <1>1, <1>2, <1>3, <1>4, <1>5, <1>6, <1>7, <1>8, <1>9, <1>10, <1>11, <1>12, <1>13, <1>14, <1>15,
     <1>16, <1>17, <1>18, <1>19, <1>20, <1>21, <1>22, <1>23, <1>24, <1>25, <1>26, <1>27, <1>28,
     <1>29 DEF Next, Step, Environment

\* Every step brings along what the next one needs.
LEMMA PlacedStep ==
  ASSUME TypeOK, \A c \in Client : Placed(c) /\ Attended(c), Times, [Next]_vars
  PROVE  \A d \in Client : Placed(d)'
<1>. USE SessionAssumption DEF Placed, TypeOK, NoJob, SessionAssumption
<1>1. ASSUME NEW c \in Client, NEW o \in AllOps, NEW k \in Key \cup {NoPid}, Begin(c, o, k)
      PROVE  \A d \in Client : Placed(d)'
  BY <1>1, IsSession DEF Begin, Job, Proceed, Finish, Goto, leaseVars
<1>2. ASSUME NEW c \in Client, Look(c) PROVE \A d \in Client : Placed(d)'
  <2>1. PICK next, s :
          /\ pc[c] = "look" /\ Goes(c, next, s)
          /\ next \in {"idle", "bury", "launch", "touch", "stop", "acquire", "post"}
          /\ s \in SessionRow \cup {NoSession}
          /\ next \in {"launch", "stop"} => s = NoSession
          /\ next \in {"bury", "touch", "acquire", "post"} => s # NoSession
          /\ next = "launch" => job[c].op = "start"
          /\ next = "acquire" => job[c].op = "load"
          /\ next = "post" => job[c].op = "unload"
    BY <1>2, Looked
  <2>. QED  BY <2>1 DEF Job, Goes
<1>3. ASSUME NEW c \in Client, Bury(c) PROVE \A d \in Client : Placed(d)'
  <2>1. PICK next :
          /\ pc[c] \in {"bury", "stopped"} /\ Goes(c, next, NoSession)
          /\ next \in {"idle", "launch"}
          /\ next = "launch" => job[c].op = "start" /\ (pc[c] = "bury" \/ job[c].pid = NoPid)
    BY <1>3, Buried
  <2>. QED  BY <2>1 DEF Job, Goes
<1>4. ASSUME NEW c \in Client, Stop(c) PROVE \A d \in Client : Placed(d)'
  <2>1. PICK s \in SessionRow :
          /\ pc[c] = "stop" /\ Goes(c, "stopped", s) /\ s # NoSession
    BY <1>4, Stopped, IsSession
  <2>. QED  BY <2>1 DEF Job, Goes
<1>5. ASSUME NEW c \in Client, NothingToStop(c) PROVE \A d \in Client : Placed(d)'
  BY <1>5 DEF NothingToStop, AfterStop, Job, Proceed, Finish, Goto, leaseVars
<1>6. ASSUME NEW c \in Client, CannotLaunch(c) PROVE \A d \in Client : Placed(d)'
  BY <1>6, IsSession DEF CannotLaunch, Job, Proceed, Finish, Goto, leaseVars
<1>7. ASSUME NEW c \in Client, NEW p \in Pid, Launch(c, p) PROVE \A d \in Client : Placed(d)'
  BY <1>7, IsSession DEF Launch, Job, Proceed, Finish, Goto, leaseVars
<1>8. ASSUME NEW c \in Client, NEW i \in LeaseId, LeaseWeights(c, i) PROVE \A d \in Client : Placed(d)'
  <2>. HIDE DEF Placed, TypeOK, NoJob, SessionAssumption
  <2>. DEFINE p == job[c].pid
  <2>1. PICK s \in SessionRow :
          /\ p \in Pid /\ pc[c] = "lease" /\ job[c].key \in Model
          /\ Goes(c, "save", s)
          /\ s # NoSession
    BY <1>8, Weighed
  <2>. USE DEF Placed, TypeOK, NoJob
  <2>. QED  BY <2>1 DEF Job, Goes
<1>9. ASSUME NEW c \in Client, NEW i \in LeaseId, LeaseAdapter(c, i) PROVE \A d \in Client : Placed(d)'
  BY <1>9, IsSession DEF LeaseAdapter, Job, Proceed, Finish, Goto, leaseVars
<1>10. ASSUME NEW c \in Client, SaveStarting(c) PROVE \A d \in Client : Placed(d)'
  BY <1>10, IsSession DEF SaveStarting, Job, Proceed, Finish, Goto, leaseVars
<1>11. ASSUME NEW c \in Client, StartFailed(c) PROVE \A d \in Client : Placed(d)'
  BY <1>11, IsSession DEF StartFailed, Job, Proceed, Finish, Goto, leaseVars
<1>12. ASSUME NEW c \in Client, ReleaseFailed(c) PROVE \A d \in Client : Placed(d)'
  BY <1>12, IsSession DEF ReleaseFailed, Job, Proceed, Finish, Goto, leaseVars
<1>13. ASSUME NEW c \in Client, StartReady(c) PROVE \A d \in Client : Placed(d)'
  BY <1>13, IsSession DEF StartReady, Job, Proceed, Finish, Goto, leaseVars
<1>14. ASSUME NEW c \in Client, StartTimedOut(c) PROVE \A d \in Client : Placed(d)'
  BY <1>14, IsSession DEF StartTimedOut, Job, Proceed, Finish, Goto, leaseVars
<1>15. ASSUME NEW c \in Client, Touch(c) PROVE \A d \in Client : Placed(d)'
  BY <1>15, IsSession DEF Touch, Job, Proceed, Finish, Goto, leaseVars
<1>16. ASSUME NEW c \in Client, NEW p \in Pid, Posted(c, p) PROVE \A d \in Client : Placed(d)'
  BY <1>16, IsSession DEF Posted, Job, Proceed, Finish, Goto, leaseVars
<1>17. ASSUME NEW c \in Client, NEW p \in Pid, AnswerLost(c, p) PROVE \A d \in Client : Placed(d)'
  BY <1>17, IsSession DEF AnswerLost, Job, Proceed, Finish, Goto, leaseVars
<1>18. ASSUME NEW c \in Client, Refused(c) PROVE \A d \in Client : Placed(d)'
  BY <1>18, IsSession DEF Refused, Job, Proceed, Finish, Goto, leaseVars
<1>19. ASSUME NEW c \in Client, GiveBack(c) PROVE \A d \in Client : Placed(d)'
  BY <1>19, IsSession DEF GiveBack, Job, Proceed, Finish, Goto, leaseVars
<1>20. ASSUME NEW c \in Client, Record(c) PROVE \A d \in Client : Placed(d)'
  BY <1>20, IsSession DEF Record, Job, Proceed, Finish, Goto, leaseVars
<1>21. ASSUME NEW c \in Client, Crash(c) PROVE \A d \in Client : Placed(d)'
  BY <1>21, IsSession DEF Crash, Job, Proceed, Finish, Goto, leaseVars
<1>22. ASSUME NEW p \in Pid, ServerUp(p) PROVE \A d \in Client : Placed(d)'
  BY <1>22, IsSession DEF ServerUp, Job, Proceed, Finish, Goto, leaseVars
<1>23. ASSUME NEW p \in Pid, ProcessExits(p) PROVE \A d \in Client : Placed(d)'
  BY <1>23, IsSession DEF ProcessExits, Job, Proceed, Finish, Goto, leaseVars
<1>24. ASSUME NEW p \in Pid, ProcessReaped(p) PROVE \A d \in Client : Placed(d)'
  BY <1>24, IsSession DEF ProcessReaped, Job, Proceed, Finish, Goto, leaseVars
<1>25. ASSUME NEW p \in Pid, StrangerStarts(p) PROVE \A d \in Client : Placed(d)'
  BY <1>25, IsSession DEF StrangerStarts, Job, Proceed, Finish, Goto, leaseVars
<1>26. CASE LeasesReaped
  BY <1>26, IsSession DEF LeasesReaped, Job, Proceed, Finish, Goto, leaseVars
<1>27. CASE TimePasses
  BY <1>27, IsSession DEF TimePasses, Job, Proceed, Finish, Goto, leaseVars
<1>28. CASE Reboot
  BY <1>28, IsSession DEF Reboot, Job, Proceed, Finish, Goto, leaseVars
<1>29. CASE UNCHANGED vars
  BY <1>29 DEF vars, leaseVars
<1>. HIDE DEF Placed, TypeOK, NoJob, SessionAssumption
<1>. QED
  BY <1>1, <1>2, <1>3, <1>4, <1>5, <1>6, <1>7, <1>8, <1>9, <1>10, <1>11, <1>12, <1>13, <1>14, <1>15,
     <1>16, <1>17, <1>18, <1>19, <1>20, <1>21, <1>22, <1>23, <1>24, <1>25, <1>26, <1>27, <1>28,
     <1>29 DEF Next, Step, Environment

\* A process stays what it is until its entry is gone, and a new one is younger.
LEMMA ProcessStep ==
  ASSUME TypeOK, \A c \in Client : Placed(c) /\ Attended(c), NEW q \in Pid, [Next]_vars
  PROVE  Persists(q)
<1>. USE DEF Persists, Spawned, Exited, WaitedFor, Rebooted, Gone
<1>a. \A p \in Pid : /\ procs[p] \in Process /\ procs[p].state \in {"running", "zombie", "gone"} /\ procs[p].start \in Nat
                     /\ server[p] \in Server \cup {NoServer}
  BY LeaseAssumption DEF TypeOK, LeaseTypeOK, Process, Start, LeaseAssumption
<1>b. tick \in Nat /\ boot \in Nat /\ MaxTick[boot] \in Nat
  BY LeaseAssumption DEF TypeOK, LeaseTypeOK, Start, LeaseAssumption
<1>1. ASSUME NEW c \in Client, NEW o \in AllOps, NEW k \in Key \cup {NoPid}, Begin(c, o, k)
      PROVE  Persists(q)
  BY <1>1, <1>a, <1>b DEF Begin, Proceed, Finish, Goto, leaseVars, Process, Reap, TypeOK,
     LeaseTypeOK
<1>2. ASSUME NEW c \in Client, Look(c) PROVE Persists(q)
  BY <1>2, Looked
<1>3. ASSUME NEW c \in Client, Bury(c) PROVE Persists(q)
  BY <1>3, Buried
<1>4. ASSUME NEW c \in Client, Stop(c) PROVE Persists(q)
  <2>1. /\ procs' = IF Alive(row) THEN [procs EXCEPT ![row.pid].state = "zombie"] ELSE procs
        /\ row \in SessionRow /\ UNCHANGED <<boot, tick, server>>
    BY <1>4, Stopped
  <2>2. Alive(row) => row.pid \in Pid /\ procs[row.pid].state = "running"
    BY <2>1, IsSession DEF Alive, ProcessAlive
  <2>. QED  BY <2>1, <2>2, <1>a, <1>b DEF Process, TypeOK, LeaseTypeOK
<1>5. ASSUME NEW c \in Client, NothingToStop(c) PROVE Persists(q)
  BY <1>5, <1>a, <1>b DEF NothingToStop, Proceed, Finish, Goto, leaseVars, Process, Reap, TypeOK,
     LeaseTypeOK
<1>6. ASSUME NEW c \in Client, CannotLaunch(c) PROVE Persists(q)
  BY <1>6, <1>a, <1>b DEF CannotLaunch, Proceed, Finish, Goto, leaseVars, Process, Reap, TypeOK,
     LeaseTypeOK
<1>7. ASSUME NEW c \in Client, NEW p \in Pid, Launch(c, p) PROVE Persists(q)
  BY <1>7, <1>a, <1>b DEF Launch, Proceed, Finish, Goto, leaseVars, Process, Reap, TypeOK,
     LeaseTypeOK
<1>8. ASSUME NEW c \in Client, NEW i \in LeaseId, LeaseWeights(c, i) PROVE Persists(q)
  BY <1>8, <1>a, <1>b DEF LeaseWeights, Proceed, Finish, Goto, leaseVars, Process, Reap, TypeOK,
     LeaseTypeOK
<1>9. ASSUME NEW c \in Client, NEW i \in LeaseId, LeaseAdapter(c, i) PROVE Persists(q)
  BY <1>9, <1>a, <1>b DEF LeaseAdapter, Proceed, Finish, Goto, leaseVars, Process, Reap, TypeOK,
     LeaseTypeOK
<1>10. ASSUME NEW c \in Client, SaveStarting(c) PROVE Persists(q)
  BY <1>10, <1>a, <1>b DEF SaveStarting, Proceed, Finish, Goto, leaseVars, Process, Reap, TypeOK,
     LeaseTypeOK
<1>11. ASSUME NEW c \in Client, StartFailed(c) PROVE Persists(q)
  BY <1>11, <1>a, <1>b DEF StartFailed, Proceed, Finish, Goto, leaseVars, Process, Reap, TypeOK,
     LeaseTypeOK
<1>12. ASSUME NEW c \in Client, ReleaseFailed(c) PROVE Persists(q)
  BY <1>12, <1>a, <1>b DEF ReleaseFailed, Proceed, Finish, Goto, leaseVars, Process, Reap, TypeOK,
     LeaseTypeOK
<1>13. ASSUME NEW c \in Client, StartReady(c) PROVE Persists(q)
  BY <1>13, <1>a, <1>b DEF StartReady, Proceed, Finish, Goto, leaseVars, Process, Reap, TypeOK,
     LeaseTypeOK
<1>14. ASSUME NEW c \in Client, StartTimedOut(c) PROVE Persists(q)
  BY <1>14, <1>a, <1>b DEF StartTimedOut, Proceed, Finish, Goto, leaseVars, Process, Reap, TypeOK,
     LeaseTypeOK
<1>15. ASSUME NEW c \in Client, Touch(c) PROVE Persists(q)
  BY <1>15, <1>a, <1>b DEF Touch, Proceed, Finish, Goto, leaseVars, Process, Reap, TypeOK,
     LeaseTypeOK
<1>16. ASSUME NEW c \in Client, NEW p \in Pid, Posted(c, p) PROVE Persists(q)
  BY <1>16, <1>a, <1>b DEF Posted, Proceed, Finish, Goto, leaseVars, Process, Reap, TypeOK,
     LeaseTypeOK
<1>17. ASSUME NEW c \in Client, NEW p \in Pid, AnswerLost(c, p) PROVE Persists(q)
  BY <1>17, <1>a, <1>b DEF AnswerLost, Proceed, Finish, Goto, leaseVars, Process, Reap, TypeOK,
     LeaseTypeOK
<1>18. ASSUME NEW c \in Client, Refused(c) PROVE Persists(q)
  BY <1>18, <1>a, <1>b DEF Refused, Proceed, Finish, Goto, leaseVars, Process, Reap, TypeOK,
     LeaseTypeOK
<1>19. ASSUME NEW c \in Client, GiveBack(c) PROVE Persists(q)
  BY <1>19, <1>a, <1>b DEF GiveBack, Proceed, Finish, Goto, leaseVars, Process, Reap, TypeOK,
     LeaseTypeOK
<1>20. ASSUME NEW c \in Client, Record(c) PROVE Persists(q)
  BY <1>20, <1>a, <1>b DEF Record, Proceed, Finish, Goto, leaseVars, Process, Reap, TypeOK,
     LeaseTypeOK
<1>21. ASSUME NEW c \in Client, Crash(c) PROVE Persists(q)
  BY <1>21, <1>a, <1>b DEF Crash, Proceed, Finish, Goto, leaseVars, Process, Reap, TypeOK,
     LeaseTypeOK
<1>22. ASSUME NEW p \in Pid, ServerUp(p) PROVE Persists(q)
  BY <1>22, <1>a, <1>b DEF ServerUp, Proceed, Finish, Goto, leaseVars, Process, Reap, TypeOK,
     LeaseTypeOK
<1>23. ASSUME NEW p \in Pid, ProcessExits(p) PROVE Persists(q)
  BY <1>23, <1>a, <1>b DEF ProcessExits, Proceed, Finish, Goto, leaseVars, Process, Reap, TypeOK,
     LeaseTypeOK
<1>24. ASSUME NEW p \in Pid, ProcessReaped(p) PROVE Persists(q)
  BY <1>24, <1>a, <1>b DEF ProcessReaped, Proceed, Finish, Goto, leaseVars, Process, Reap, TypeOK,
     LeaseTypeOK
<1>25. ASSUME NEW p \in Pid, StrangerStarts(p) PROVE Persists(q)
  BY <1>25, <1>a, <1>b DEF StrangerStarts, Proceed, Finish, Goto, leaseVars, Process, Reap, TypeOK,
     LeaseTypeOK
<1>26. CASE LeasesReaped
  BY <1>26, <1>a, <1>b DEF LeasesReaped, Proceed, Finish, Goto, leaseVars, Process, Reap, TypeOK,
     LeaseTypeOK
<1>27. CASE TimePasses
  BY <1>27, <1>a, <1>b DEF TimePasses, Proceed, Finish, Goto, leaseVars, Process, Reap, TypeOK,
     LeaseTypeOK
<1>28. CASE Reboot
  BY <1>28, <1>a, <1>b DEF Reboot, Proceed, Finish, Goto, leaseVars, Process, Reap, TypeOK,
     LeaseTypeOK
<1>29. CASE UNCHANGED vars
  BY <1>29 DEF vars, leaseVars
<1>. HIDE DEF Persists, Spawned, Exited, WaitedFor, Rebooted, Gone
<1>. QED
  BY <1>1, <1>2, <1>3, <1>4, <1>5, <1>6, <1>7, <1>8, <1>9, <1>10, <1>11, <1>12, <1>13, <1>14, <1>15,
     <1>16, <1>17, <1>18, <1>19, <1>20, <1>21, <1>22, <1>23, <1>24, <1>25, <1>26, <1>27, <1>28,
     <1>29 DEF Next, Step, Environment

\* The processes of a boot start one after the other.
LEMMA TimesStep ==
  ASSUME TypeOK, \A c \in Client : Placed(c) /\ Attended(c), Times, [Next]_vars
  PROVE  Times'
<1>. USE DEF Times
<1>a. \A p \in Pid : /\ procs[p] \in Process /\ procs[p].state \in {"running", "zombie", "gone"} /\ procs[p].start \in Nat
                     /\ server[p] \in Server \cup {NoServer}
  BY LeaseAssumption DEF TypeOK, LeaseTypeOK, Process, Start, LeaseAssumption
<1>b. tick \in Nat /\ boot \in Nat /\ MaxTick[boot] \in Nat
  BY LeaseAssumption DEF TypeOK, LeaseTypeOK, Start, LeaseAssumption
<1>1. ASSUME NEW c \in Client, NEW o \in AllOps, NEW k \in Key \cup {NoPid}, Begin(c, o, k) PROVE Times'
  BY <1>1, <1>a, <1>b DEF Begin, Proceed, Finish, Goto, leaseVars, Process, Reap, Spawned, Exited,
     WaitedFor, Gone, Running, Answering, ProcessAlive, TypeOK, LeaseTypeOK
<1>2. ASSUME NEW c \in Client, Look(c) PROVE Times'
  BY <1>2, Looked
<1>3. ASSUME NEW c \in Client, Bury(c) PROVE Times'
  BY <1>3, Buried
<1>4. ASSUME NEW c \in Client, Stop(c) PROVE Times'
  <2>1. /\ procs' = IF Alive(row) THEN [procs EXCEPT ![row.pid].state = "zombie"] ELSE procs
        /\ row \in SessionRow /\ UNCHANGED <<boot, tick, server>>
    BY <1>4, Stopped
  <2>2. Alive(row) => row.pid \in Pid /\ procs[row.pid].state = "running"
    BY <2>1, IsSession DEF Alive, ProcessAlive
  <2>. QED  BY <2>1, <2>2, <1>a, <1>b DEF Process, TypeOK, LeaseTypeOK
<1>5. ASSUME NEW c \in Client, NothingToStop(c) PROVE Times'
  BY <1>5, <1>a, <1>b DEF NothingToStop, Proceed, Finish, Goto, leaseVars, Process, Reap, Spawned,
     Exited, WaitedFor, Gone, Running, Answering, ProcessAlive, TypeOK, LeaseTypeOK
<1>6. ASSUME NEW c \in Client, CannotLaunch(c) PROVE Times'
  BY <1>6, <1>a, <1>b DEF CannotLaunch, Proceed, Finish, Goto, leaseVars, Process, Reap, Spawned,
     Exited, WaitedFor, Gone, Running, Answering, ProcessAlive, TypeOK, LeaseTypeOK
<1>7. ASSUME NEW c \in Client, NEW p \in Pid, Launch(c, p) PROVE Times'
  <2>1. /\ procs[p].state = "gone" /\ tick < MaxTick[boot] /\ tick' = tick + 1 /\ UNCHANGED boot
        /\ procs' = [procs EXCEPT ![p] = [state |-> "running", start |-> tick]]
        /\ \A q \in Pid \ {p} : server'[q] = server[q]
    BY <1>7 DEF Launch, Spawned, TypeOK
  <2>. QED  BY <2>1, <1>a, <1>b DEF TypeOK, LeaseTypeOK
<1>8. ASSUME NEW c \in Client, NEW i \in LeaseId, LeaseWeights(c, i) PROVE Times'
  <2>. HIDE DEF Times
  <2>1. /\ job[c].pid \in Pid /\ server[job[c].pid] \in Server
        /\ server' = [server EXCEPT ![job[c].pid].held = TRUE] /\ UNCHANGED <<boot, tick, procs>>
    BY <1>8, Weighed
  <2>2. server[job[c].pid] # NoServer
    BY <2>1, SessionAssumption DEF SessionAssumption
  <2>. QED  BY <2>1, <2>2, <1>a, <1>b DEF Times
<1>9. ASSUME NEW c \in Client, NEW i \in LeaseId, LeaseAdapter(c, i) PROVE Times'
  BY <1>9, <1>a, <1>b DEF LeaseAdapter, Proceed, Finish, Goto, leaseVars, Process, Reap, Spawned,
     Exited, WaitedFor, Gone, Running, Answering, ProcessAlive, TypeOK, LeaseTypeOK
<1>10. ASSUME NEW c \in Client, SaveStarting(c) PROVE Times'
  BY <1>10, <1>a, <1>b DEF SaveStarting, Proceed, Finish, Goto, leaseVars, Process, Reap, Spawned,
     Exited, WaitedFor, Gone, Running, Answering, ProcessAlive, TypeOK, LeaseTypeOK
<1>11. ASSUME NEW c \in Client, StartFailed(c) PROVE Times'
  BY <1>11, <1>a, <1>b DEF StartFailed, Proceed, Finish, Goto, leaseVars, Process, Reap, Spawned,
     Exited, WaitedFor, Gone, Running, Answering, ProcessAlive, TypeOK, LeaseTypeOK
<1>12. ASSUME NEW c \in Client, ReleaseFailed(c) PROVE Times'
  BY <1>12, <1>a, <1>b DEF ReleaseFailed, Proceed, Finish, Goto, leaseVars, Process, Reap, Spawned,
     Exited, WaitedFor, Gone, Running, Answering, ProcessAlive, TypeOK, LeaseTypeOK
<1>13. ASSUME NEW c \in Client, StartReady(c) PROVE Times'
  BY <1>13, <1>a, <1>b DEF StartReady, Proceed, Finish, Goto, leaseVars, Process, Reap, Spawned,
     Exited, WaitedFor, Gone, Running, Answering, ProcessAlive, TypeOK, LeaseTypeOK
<1>14. ASSUME NEW c \in Client, StartTimedOut(c) PROVE Times'
  BY <1>14, <1>a, <1>b DEF StartTimedOut, Proceed, Finish, Goto, leaseVars, Process, Reap, Spawned,
     Exited, WaitedFor, Gone, Running, Answering, ProcessAlive, TypeOK, LeaseTypeOK
<1>15. ASSUME NEW c \in Client, Touch(c) PROVE Times'
  BY <1>15, <1>a, <1>b DEF Touch, Proceed, Finish, Goto, leaseVars, Process, Reap, Spawned, Exited,
     WaitedFor, Gone, Running, Answering, ProcessAlive, TypeOK, LeaseTypeOK
<1>16. ASSUME NEW c \in Client, NEW p \in Pid, Posted(c, p) PROVE Times'
  BY <1>16, <1>a, <1>b DEF Posted, Proceed, Finish, Goto, leaseVars, Process, Reap, Spawned, Exited,
     WaitedFor, Gone, Running, Answering, ProcessAlive, TypeOK, LeaseTypeOK
<1>17. ASSUME NEW c \in Client, NEW p \in Pid, AnswerLost(c, p) PROVE Times'
  BY <1>17, <1>a, <1>b DEF AnswerLost, Proceed, Finish, Goto, leaseVars, Process, Reap, Spawned,
     Exited, WaitedFor, Gone, Running, Answering, ProcessAlive, TypeOK, LeaseTypeOK
<1>18. ASSUME NEW c \in Client, Refused(c) PROVE Times'
  BY <1>18, <1>a, <1>b DEF Refused, Proceed, Finish, Goto, leaseVars, Process, Reap, Spawned,
     Exited, WaitedFor, Gone, Running, Answering, ProcessAlive, TypeOK, LeaseTypeOK
<1>19. ASSUME NEW c \in Client, GiveBack(c) PROVE Times'
  BY <1>19, <1>a, <1>b DEF GiveBack, Proceed, Finish, Goto, leaseVars, Process, Reap, Spawned,
     Exited, WaitedFor, Gone, Running, Answering, ProcessAlive, TypeOK, LeaseTypeOK
<1>20. ASSUME NEW c \in Client, Record(c) PROVE Times'
  BY <1>20, <1>a, <1>b DEF Record, Proceed, Finish, Goto, leaseVars, Process, Reap, Spawned, Exited,
     WaitedFor, Gone, Running, Answering, ProcessAlive, TypeOK, LeaseTypeOK
<1>21. ASSUME NEW c \in Client, Crash(c) PROVE Times'
  <2>1. /\ server' = server \/ \E q \in Pid : server[q] # NoServer /\ server' = [server EXCEPT ![q].orphan = TRUE]
        /\ UNCHANGED <<boot, tick, procs>>
    BY <1>21, JobHas DEF Crash, Placed, Attended, TypeOK, leaseVars
  <2>. QED  BY <2>1, <1>a, <1>b DEF TypeOK
<1>22. ASSUME NEW p \in Pid, ServerUp(p) PROVE Times'
  BY <1>22, <1>a, <1>b DEF ServerUp, Proceed, Finish, Goto, leaseVars, Process, Reap, Spawned,
     Exited, WaitedFor, Gone, Running, Answering, ProcessAlive, TypeOK, LeaseTypeOK
<1>23. ASSUME NEW p \in Pid, ProcessExits(p) PROVE Times'
  BY <1>23, <1>a, <1>b DEF ProcessExits, Proceed, Finish, Goto, leaseVars, Process, Reap, Spawned,
     Exited, WaitedFor, Gone, Running, Answering, ProcessAlive, TypeOK, LeaseTypeOK
<1>24. ASSUME NEW p \in Pid, ProcessReaped(p) PROVE Times'
  BY <1>24, <1>a, <1>b DEF ProcessReaped, Proceed, Finish, Goto, leaseVars, Process, Reap, Spawned,
     Exited, WaitedFor, Gone, Running, Answering, ProcessAlive, TypeOK, LeaseTypeOK
<1>25. ASSUME NEW p \in Pid, StrangerStarts(p) PROVE Times'
  <2>1. /\ procs[p].state = "gone" /\ tick < MaxTick[boot] /\ tick' = tick + 1 /\ UNCHANGED boot
        /\ procs' = [procs EXCEPT ![p] = [state |-> "running", start |-> tick]]
        /\ \A q \in Pid \ {p} : server'[q] = server[q]
    BY <1>25 DEF StrangerStarts, Spawned, TypeOK
  <2>. QED  BY <2>1, <1>a, <1>b DEF TypeOK, LeaseTypeOK
<1>26. CASE LeasesReaped
  BY <1>26, <1>a, <1>b DEF LeasesReaped, Proceed, Finish, Goto, leaseVars, Process, Reap, Spawned,
     Exited, WaitedFor, Gone, Running, Answering, ProcessAlive, TypeOK, LeaseTypeOK
<1>27. CASE TimePasses
  BY <1>27, <1>a, <1>b DEF TimePasses, Proceed, Finish, Goto, leaseVars, Process, Reap, Spawned,
     Exited, WaitedFor, Gone, Running, Answering, ProcessAlive, TypeOK, LeaseTypeOK
<1>28. CASE Reboot
  <2>1. MaxTick[boot'] \in Nat
    BY <1>28, LeaseAssumption DEF Reboot, Rebooted, LeaseAssumption, TypeOK, LeaseTypeOK
  <2>. QED  BY <1>28, <2>1, <1>a, <1>b DEF Reboot, Rebooted, Gone
<1>29. CASE UNCHANGED vars
  BY <1>29 DEF vars, leaseVars
<1>. HIDE DEF Times
<1>. QED
  BY <1>1, <1>2, <1>3, <1>4, <1>5, <1>6, <1>7, <1>8, <1>9, <1>10, <1>11, <1>12, <1>13, <1>14, <1>15,
     <1>16, <1>17, <1>18, <1>19, <1>20, <1>21, <1>22, <1>23, <1>24, <1>25, <1>26, <1>27, <1>28,
     <1>29 DEF Next, Step, Environment

\* No step takes a server away before its process is gone.
LEMMA ServerStep ==
  ASSUME TypeOK, \A c \in Client : Placed(c) /\ Attended(c), Times, NEW q \in Pid, [Next]_vars
  PROVE  Stays(q)
<1>. USE DEF Stays
<1>1. ASSUME NEW c \in Client, NEW o \in AllOps, NEW k \in Key \cup {NoPid}, Begin(c, o, k)
      PROVE  Stays(q)
  BY <1>1 DEF Begin, Proceed, Finish, Goto, leaseVars, TypeOK, LeaseTypeOK, WaitedFor, Gone,
     Rebooted
<1>2. ASSUME NEW c \in Client, Look(c) PROVE Stays(q)
  BY <1>2, Looked
<1>3. ASSUME NEW c \in Client, Bury(c) PROVE Stays(q)
  BY <1>3, Buried
<1>4. ASSUME NEW c \in Client, Stop(c) PROVE Stays(q)
  BY <1>4, Stopped
<1>5. ASSUME NEW c \in Client, NothingToStop(c) PROVE Stays(q)
  BY <1>5 DEF NothingToStop, Proceed, Finish, Goto, leaseVars, TypeOK, LeaseTypeOK, WaitedFor, Gone,
     Rebooted
<1>6. ASSUME NEW c \in Client, CannotLaunch(c) PROVE Stays(q)
  BY <1>6 DEF CannotLaunch, Proceed, Finish, Goto, leaseVars, TypeOK, LeaseTypeOK, WaitedFor, Gone,
     Rebooted
<1>7. ASSUME NEW c \in Client, NEW p \in Pid, Launch(c, p) PROVE Stays(q)
  BY <1>7 DEF Launch, Spawned, Times, TypeOK
<1>8. ASSUME NEW c \in Client, NEW i \in LeaseId, LeaseWeights(c, i) PROVE Stays(q)
  <2>1. /\ job[c].pid \in Pid /\ server[job[c].pid] \in Server
        /\ server' = [server EXCEPT ![job[c].pid].held = TRUE]
    BY <1>8, Weighed
  <2>2. \A t \in Server : [t EXCEPT !.held = TRUE] # NoServer /\ [t EXCEPT !.held = TRUE].model = t.model
    BY SessionAssumption DEF Server, SessionAssumption
  <2>. QED  BY <2>1, <2>2 DEF TypeOK
<1>9. ASSUME NEW c \in Client, NEW i \in LeaseId, LeaseAdapter(c, i) PROVE Stays(q)
  BY <1>9 DEF LeaseAdapter, Proceed, Finish, Goto, leaseVars, TypeOK, LeaseTypeOK, WaitedFor, Gone,
     Rebooted
<1>10. ASSUME NEW c \in Client, SaveStarting(c) PROVE Stays(q)
  BY <1>10 DEF SaveStarting, Proceed, Finish, Goto, leaseVars, TypeOK, LeaseTypeOK, WaitedFor, Gone,
     Rebooted
<1>11. ASSUME NEW c \in Client, StartFailed(c) PROVE Stays(q)
  BY <1>11 DEF StartFailed, Proceed, Finish, Goto, leaseVars, TypeOK, LeaseTypeOK, WaitedFor, Gone,
     Rebooted
<1>12. ASSUME NEW c \in Client, ReleaseFailed(c) PROVE Stays(q)
  BY <1>12 DEF ReleaseFailed, Proceed, Finish, Goto, leaseVars, TypeOK, LeaseTypeOK, WaitedFor,
     Gone, Rebooted
<1>13. ASSUME NEW c \in Client, StartReady(c) PROVE Stays(q)
  BY <1>13 DEF StartReady, Proceed, Finish, Goto, leaseVars, TypeOK, LeaseTypeOK, WaitedFor, Gone,
     Rebooted
<1>14. ASSUME NEW c \in Client, StartTimedOut(c) PROVE Stays(q)
  BY <1>14 DEF StartTimedOut, Proceed, Finish, Goto, leaseVars, TypeOK, LeaseTypeOK, WaitedFor,
     Gone, Rebooted
<1>15. ASSUME NEW c \in Client, Touch(c) PROVE Stays(q)
  BY <1>15 DEF Touch, Proceed, Finish, Goto, leaseVars, TypeOK, LeaseTypeOK, WaitedFor, Gone,
     Rebooted
<1>16. ASSUME NEW c \in Client, NEW p \in Pid, Posted(c, p) PROVE Stays(q)
  <2>1. p \in Pid /\ server[p] \in Server /\ job[c].key \in Adapter
    BY <1>16, JobHas DEF Posted, TypeOK, Placed, Answering, Running
  <2>2. server[p].adapters \subseteq Adapter /\ server[p].lost \subseteq Adapter
    BY <2>1, ServerChanged
  <2>3. \A A \in SUBSET Adapter, B \in SUBSET Adapter :
          LET t == [server[p] EXCEPT !.adapters = A, !.lost = B]
          IN t \in Server /\ t # NoServer /\ t.model = server[p].model
    BY <2>1, SessionAssumption DEF Server, SessionAssumption
  <2>4. PICK A \in SUBSET Adapter, B \in SUBSET Adapter :
          server' = [server EXCEPT ![p] = [server[p] EXCEPT !.adapters = A, !.lost = B]]
    BY <1>16, <2>1, <2>2 DEF Posted
  <2>5. server'[p] = [server[p] EXCEPT !.adapters = A, !.lost = B] /\ \A x \in Pid \ {p} : server'[x] = server[x]
    BY <2>4 DEF TypeOK
  <2>6. server'[p] # NoServer /\ server'[p].model = server[p].model
    BY <2>3, <2>5
  <2>. QED  BY <2>5, <2>6
<1>17. ASSUME NEW c \in Client, NEW p \in Pid, AnswerLost(c, p) PROVE Stays(q)
  <2>1. p \in Pid /\ server[p] \in Server /\ job[c].key \in Adapter
    BY <1>17, JobHas DEF AnswerLost, TypeOK, Placed, Answering, Running
  <2>2. server[p].adapters \subseteq Adapter /\ server[p].lost \subseteq Adapter
    BY <2>1, ServerChanged
  <2>3. \A A \in SUBSET Adapter, B \in SUBSET Adapter :
          LET t == [server[p] EXCEPT !.adapters = A, !.lost = B]
          IN t \in Server /\ t # NoServer /\ t.model = server[p].model
    BY <2>1, SessionAssumption DEF Server, SessionAssumption
  <2>4. PICK A \in SUBSET Adapter, B \in SUBSET Adapter :
          server' = [server EXCEPT ![p] = [server[p] EXCEPT !.adapters = A, !.lost = B]]
    BY <1>17, <2>1, <2>2 DEF AnswerLost
  <2>5. server'[p] = [server[p] EXCEPT !.adapters = A, !.lost = B] /\ \A x \in Pid \ {p} : server'[x] = server[x]
    BY <2>4 DEF TypeOK
  <2>6. server'[p] # NoServer /\ server'[p].model = server[p].model
    BY <2>3, <2>5
  <2>. QED  BY <2>5, <2>6
<1>18. ASSUME NEW c \in Client, Refused(c) PROVE Stays(q)
  BY <1>18 DEF Refused, Proceed, Finish, Goto, leaseVars, TypeOK, LeaseTypeOK, WaitedFor, Gone,
     Rebooted
<1>19. ASSUME NEW c \in Client, GiveBack(c) PROVE Stays(q)
  BY <1>19 DEF GiveBack, Proceed, Finish, Goto, leaseVars, TypeOK, LeaseTypeOK, WaitedFor, Gone,
     Rebooted
<1>20. ASSUME NEW c \in Client, Record(c) PROVE Stays(q)
  BY <1>20 DEF Record, Proceed, Finish, Goto, leaseVars, TypeOK, LeaseTypeOK, WaitedFor, Gone,
     Rebooted
<1>21. ASSUME NEW c \in Client, Crash(c) PROVE Stays(q)
  <2>1. \/ server' = server
        \/ \E p \in Pid : server[p] \in Server /\ server' = [server EXCEPT ![p] = [server[p] EXCEPT !.orphan = TRUE]]
    BY <1>21, JobHas DEF Crash, Placed, Attended, TypeOK
  <2>2. \A t \in Server : [t EXCEPT !.orphan = TRUE] # NoServer /\ [t EXCEPT !.orphan = TRUE].model = t.model
    BY SessionAssumption DEF Server, SessionAssumption
  <2>. QED  BY <2>1, <2>2 DEF TypeOK
<1>22. ASSUME NEW p \in Pid, ServerUp(p) PROVE Stays(q)
  <2>1. server[p] \in Server /\ server' = [server EXCEPT ![p] = [server[p] EXCEPT !.up = TRUE]]
    BY <1>22 DEF ServerUp, Running, TypeOK
  <2>2. [server[p] EXCEPT !.up = TRUE] # NoServer /\ [server[p] EXCEPT !.up = TRUE].model = server[p].model
    BY <2>1, SessionAssumption DEF Server, SessionAssumption
  <2>. QED  BY <2>1, <2>2 DEF TypeOK
<1>23. ASSUME NEW p \in Pid, ProcessExits(p) PROVE Stays(q)
  BY <1>23 DEF ProcessExits, Proceed, Finish, Goto, leaseVars, TypeOK, LeaseTypeOK, WaitedFor, Gone,
     Rebooted
<1>24. ASSUME NEW p \in Pid, ProcessReaped(p) PROVE Stays(q)
  BY <1>24 DEF ProcessReaped, Proceed, Finish, Goto, leaseVars, TypeOK, LeaseTypeOK, WaitedFor,
     Gone, Rebooted
<1>25. ASSUME NEW p \in Pid, StrangerStarts(p) PROVE Stays(q)
  BY <1>25 DEF StrangerStarts, Proceed, Finish, Goto, leaseVars, TypeOK, LeaseTypeOK, WaitedFor,
     Gone, Rebooted
<1>26. CASE LeasesReaped
  BY <1>26 DEF LeasesReaped, Proceed, Finish, Goto, leaseVars, TypeOK, LeaseTypeOK, WaitedFor, Gone,
     Rebooted
<1>27. CASE TimePasses
  BY <1>27 DEF TimePasses, Proceed, Finish, Goto, leaseVars, TypeOK, LeaseTypeOK, WaitedFor, Gone,
     Rebooted
<1>28. CASE Reboot
  BY <1>28 DEF Reboot, Proceed, Finish, Goto, leaseVars, TypeOK, LeaseTypeOK, WaitedFor, Gone,
     Rebooted
<1>29. CASE UNCHANGED vars
  BY <1>29 DEF vars, leaseVars
<1>. HIDE DEF Stays
<1>. QED
  BY <1>1, <1>2, <1>3, <1>4, <1>5, <1>6, <1>7, <1>8, <1>9, <1>10, <1>11, <1>12, <1>13, <1>14, <1>15,
     <1>16, <1>17, <1>18, <1>19, <1>20, <1>21, <1>22, <1>23, <1>24, <1>25, <1>26, <1>27, <1>28,
     <1>29 DEF Next, Step, Environment

\* A server that is being started stays there, and what its starter knows of it true.
LEMMA AttendedStep ==
  ASSUME TypeOK, \A c \in Client : Placed(c) /\ Attended(c), Times, [Next]_vars
  PROVE  \A d \in Client : Attended(d)'
<1>a. \A p \in Pid : /\ procs[p] \in Process /\ procs[p].state \in {"running", "zombie", "gone"} /\ procs[p].start \in Nat
                     /\ server[p] \in Server \cup {NoServer}
  BY LeaseAssumption DEF TypeOK, LeaseTypeOK, Process, Start, LeaseAssumption
<1>b. tick \in Nat /\ boot \in Nat /\ MaxTick[boot] \in Nat
  BY LeaseAssumption DEF TypeOK, LeaseTypeOK, Start, LeaseAssumption
<1>c. \A q \in Pid : Persists(q) /\ Stays(q)
  BY ProcessStep, ServerStep
<1>i. ASSUME NEW d \in Client, NEW q \in Pid, job[d].pid = q, boot' = boot
      PROVE  procs[q].state # "gone" /\ procs'[q].state # "gone" /\ procs'[q].start = procs[q].start
  <2>1. q # NoPid
    BY SessionAssumption DEF SessionAssumption
  <2>2. procs[q].state # "gone"
    BY <1>i, <2>1 DEF Attended, Times
  <2>3. Persists(q)
    BY <1>c
  <2>4. ~\A c \in Client : job[c].pid # q
    BY <1>i
  <2>. QED  BY <2>2, <2>3, <2>4, <1>i DEF Persists
<1>d. ASSUME NEW d \in Client, boot' = boot, job'[d] = job[d], pc'[d] = pc[d] PROVE Attended(d)'
  <2>1. job[d].pid \in Pid \cup {NoPid}
    BY JobHas DEF TypeOK
  <2>2. ASSUME job[d].pid # NoPid
        PROVE  /\ procs[job[d].pid].state # "gone" /\ procs'[job[d].pid].state # "gone"
               /\ procs'[job[d].pid].start = procs[job[d].pid].start
    BY <2>1, <2>2, <1>d, <1>i
  <2>. QED  BY <2>1, <2>2, <1>c, <1>d DEF Attended, Stays, StartTime, Placed
<1>e. ASSUME NEW d \in Client, job'[d].pid = NoPid, pc'[d] \notin {"save", "wait", "failed"} PROVE Attended(d)'
  BY <1>e DEF Attended
<1>f. NoJob.pid = NoPid
  BY DEF NoJob
<1>g. ASSUME NEW d \in Client, boot' = boot, job'[d].pid = job[d].pid, job'[d].key = job[d].key,
             pc'[d] \notin {"save", "wait", "failed"} PROVE Attended(d)'
  <2>1. job[d].pid \in Pid \cup {NoPid}
    BY JobHas DEF TypeOK
  <2>2. job[d].pid # NoPid => procs'[job[d].pid].state # "gone"
    BY <2>1, <1>g, <1>i
  <2>. QED  BY <2>1, <2>2, <1>c, <1>g DEF Attended, Stays
<1>h. ASSUME NEW c \in Client, boot' = boot, Attended(c)',
             \A d \in Client \ {c} : job'[d] = job[d] /\ pc'[d] = pc[d]
      PROVE  \A d \in Client : Attended(d)'
  BY <1>d, <1>h
<1>1. ASSUME NEW c \in Client, NEW o \in AllOps, NEW k \in Key \cup {NoPid}, Begin(c, o, k)
      PROVE  \A d \in Client : Attended(d)'
  <2>1. /\ boot' = boot /\ pc'[c] \in {"stop", "look"}
        /\ \A d \in Client \ {c} : job'[d] = job[d] /\ pc'[d] = pc[d]
        /\ job'[c].pid = NoPid
    BY <1>1 DEF Begin, Goto, leaseVars, TypeOK, NoJob
  <2>. QED  BY <2>1, <1>e, <1>h
<1>2. ASSUME NEW c \in Client, Look(c) PROVE \A d \in Client : Attended(d)'
  <2>1. PICK next, s :
          /\ Goes(c, next, s) /\ UNCHANGED boot
          /\ next \in {"idle", "bury", "launch", "touch", "stop", "acquire", "post"}
    BY <1>2, Looked
  <2>2. /\ boot' = boot /\ pc'[c] \notin {"save", "wait", "failed"}
        /\ \A d \in Client \ {c} : job'[d] = job[d] /\ pc'[d] = pc[d]
        /\ (job'[c] = NoJob /\ pc'[c] = "idle") \/ (job'[c].pid = job[c].pid /\ job'[c].key = job[c].key)
    BY <2>1 DEF Goes, TypeOK, Job
  <2>. QED  BY <2>2, <1>e, <1>f, <1>g, <1>h
<1>3. ASSUME NEW c \in Client, Bury(c) PROVE \A d \in Client : Attended(d)'
  <2>1. PICK next : Goes(c, next, NoSession) /\ UNCHANGED boot /\ next \in {"idle", "launch"}
    BY <1>3, Buried
  <2>2. /\ boot' = boot /\ pc'[c] \notin {"save", "wait", "failed"}
        /\ \A d \in Client \ {c} : job'[d] = job[d] /\ pc'[d] = pc[d]
        /\ (job'[c] = NoJob /\ pc'[c] = "idle") \/ (job'[c].pid = job[c].pid /\ job'[c].key = job[c].key)
    BY <2>1 DEF Goes, TypeOK, Job
  <2>. QED  BY <2>2, <1>e, <1>f, <1>g, <1>h
<1>4. ASSUME NEW c \in Client, Stop(c) PROVE \A d \in Client : Attended(d)'
  <2>1. PICK s : Goes(c, "stopped", s) /\ UNCHANGED boot
    BY <1>4, Stopped
  <2>2. /\ boot' = boot /\ pc'[c] \notin {"save", "wait", "failed"}
        /\ \A d \in Client \ {c} : job'[d] = job[d] /\ pc'[d] = pc[d]
        /\ (job'[c] = NoJob /\ pc'[c] = "idle") \/ (job'[c].pid = job[c].pid /\ job'[c].key = job[c].key)
    BY <2>1 DEF Goes, TypeOK, Job
  <2>. QED  BY <2>2, <1>e, <1>f, <1>g, <1>h
<1>5. ASSUME NEW c \in Client, NothingToStop(c) PROVE \A d \in Client : Attended(d)'
  <2>1. /\ boot' = boot /\ pc'[c] \notin {"save", "wait", "failed"}
        /\ \A d \in Client \ {c} : job'[d] = job[d] /\ pc'[d] = pc[d]
        /\ (job'[c] = NoJob /\ pc'[c] = "idle") \/ (job'[c].pid = job[c].pid /\ job'[c].key = job[c].key)
    BY <1>5 DEF NothingToStop, Proceed, Finish, Goto, leaseVars, TypeOK, Job, AfterStop
  <2>. QED  BY <2>1, <1>e, <1>f, <1>g, <1>h
<1>6. ASSUME NEW c \in Client, CannotLaunch(c) PROVE \A d \in Client : Attended(d)'
  <2>1. boot' = boot /\ pc' = [pc EXCEPT ![c] = "idle"] /\ job' = [job EXCEPT ![c] = NoJob]
    BY <1>6 DEF CannotLaunch, Finish, Goto, leaseVars
  <2>. QED  BY <2>1, <1>e, <1>f, <1>h DEF TypeOK
<1>7. ASSUME NEW c \in Client, NEW p \in Pid, Launch(c, p) PROVE \A d \in Client : Attended(d)'
  <2>1. /\ boot' = boot /\ pc'[c] = "lease" /\ job'[c].pid = p /\ job'[c].key = job[c].key
        /\ \A d \in Client \ {c} : job'[d] = job[d] /\ pc'[d] = pc[d]
    BY <1>7 DEF Launch, Proceed, Goto, TypeOK, Job
  <2>2. [model |-> job[c].key, adapters |-> {}, up |-> FALSE, held |-> FALSE, lost |-> {}, orphan |-> FALSE] \in Server
    BY <1>7, JobHas DEF Launch, Placed, Server
  <2>3. server'[p] \in Server /\ server'[p].model = job[c].key
    BY <1>7, <2>2 DEF Launch, TypeOK
  <2>4. server'[p] # NoServer
    BY <2>3, SessionAssumption DEF SessionAssumption
  <2>5. Attended(c)'
    BY <2>1, <2>3, <2>4 DEF Attended
  <2>. QED  BY <2>1, <2>5, <1>h
<1>8. ASSUME NEW c \in Client, NEW i \in LeaseId, LeaseWeights(c, i) PROVE \A d \in Client : Attended(d)'
  <2>1. PICK s \in SessionRow :
          /\ Goes(c, "save", s) /\ job[c].pid \in Pid /\ server[job[c].pid] \in Server
          /\ s.pid = job[c].pid /\ s.boot = boot /\ s.start = StartTime(job[c].pid)
          /\ server' = [server EXCEPT ![job[c].pid].held = TRUE] /\ UNCHANGED <<boot, procs>>
    BY <1>8, Weighed
  <2>2. /\ pc'[c] = "save" /\ job'[c].sess = s /\ job'[c].pid = job[c].pid /\ job'[c].key = job[c].key
        /\ \A d \in Client \ {c} : job'[d] = job[d] /\ pc'[d] = pc[d]
    BY <2>1 DEF Goes, TypeOK, Job
  <2>3. procs'[job[c].pid].state # "gone"
    BY <2>1, SessionAssumption DEF Times, SessionAssumption
  <2>4. Attended(c)'
    BY <2>1, <2>2, <2>3, <1>c DEF Attended, Stays, StartTime
  <2>. QED  BY <2>1, <2>2, <2>4, <1>h
<1>9. ASSUME NEW c \in Client, NEW i \in LeaseId, LeaseAdapter(c, i) PROVE \A d \in Client : Attended(d)'
  <2>1. /\ boot' = boot /\ pc'[c] \notin {"save", "wait", "failed"}
        /\ \A d \in Client \ {c} : job'[d] = job[d] /\ pc'[d] = pc[d]
        /\ (job'[c] = NoJob /\ pc'[c] = "idle") \/ (job'[c].pid = job[c].pid /\ job'[c].key = job[c].key)
    BY <1>9 DEF LeaseAdapter, Proceed, Finish, Goto, leaseVars, TypeOK, Job, AfterStop
  <2>. QED  BY <2>1, <1>e, <1>f, <1>g, <1>h
<1>10. ASSUME NEW c \in Client, SaveStarting(c) PROVE \A d \in Client : Attended(d)'
  <2>1. /\ job' = job \/ (job' = [job EXCEPT ![c] = NoJob] /\ pc'[c] = "idle")
        /\ pc[c] \in {"save", "wait"} /\ pc'[c] \in {"wait", "failed", "idle"}
        /\ UNCHANGED <<boot, procs, server>> /\ \A d \in Client \ {c} : job'[d] = job[d] /\ pc'[d] = pc[d]
    BY <1>10 DEF SaveStarting, Proceed, Finish, Goto, leaseVars, TypeOK
  <2>2. CASE job' = job
    <3>1. Attended(c)'
      BY <2>1, <2>2 DEF Attended, StartTime
    <3>. QED  BY <2>1, <3>1, <1>h
  <2>3. CASE job' = [job EXCEPT ![c] = NoJob] /\ pc'[c] = "idle"
    <3>1. job'[c].pid = NoPid
      BY <2>3, <1>f DEF TypeOK
    <3>. QED  BY <2>1, <2>3, <3>1, <1>e, <1>h
  <2>. QED  BY <2>1, <2>2, <2>3
<1>11. ASSUME NEW c \in Client, StartFailed(c) PROVE \A d \in Client : Attended(d)'
  <2>1. /\ job' = job \/ (job' = [job EXCEPT ![c] = NoJob] /\ pc'[c] = "idle")
        /\ pc[c] \in {"save", "wait"} /\ pc'[c] \in {"wait", "failed", "idle"}
        /\ UNCHANGED <<boot, procs, server>> /\ \A d \in Client \ {c} : job'[d] = job[d] /\ pc'[d] = pc[d]
    BY <1>11 DEF StartFailed, Proceed, Finish, Goto, leaseVars, TypeOK
  <2>2. CASE job' = job
    <3>1. Attended(c)'
      BY <2>1, <2>2 DEF Attended, StartTime
    <3>. QED  BY <2>1, <3>1, <1>h
  <2>3. CASE job' = [job EXCEPT ![c] = NoJob] /\ pc'[c] = "idle"
    <3>1. job'[c].pid = NoPid
      BY <2>3, <1>f DEF TypeOK
    <3>. QED  BY <2>1, <2>3, <3>1, <1>e, <1>h
  <2>. QED  BY <2>1, <2>2, <2>3
<1>12. ASSUME NEW c \in Client, ReleaseFailed(c) PROVE \A d \in Client : Attended(d)'
  <2>1. boot' = boot /\ pc' = [pc EXCEPT ![c] = "idle"] /\ job' = [job EXCEPT ![c] = NoJob]
    BY <1>12 DEF ReleaseFailed, Finish, Goto, leaseVars
  <2>. QED  BY <2>1, <1>e, <1>f, <1>h DEF TypeOK
<1>13. ASSUME NEW c \in Client, StartReady(c) PROVE \A d \in Client : Attended(d)'
  <2>1. boot' = boot /\ pc' = [pc EXCEPT ![c] = "idle"] /\ job' = [job EXCEPT ![c] = NoJob]
    BY <1>13 DEF StartReady, Finish, Goto, leaseVars
  <2>. QED  BY <2>1, <1>e, <1>f, <1>h DEF TypeOK
<1>14. ASSUME NEW c \in Client, StartTimedOut(c) PROVE \A d \in Client : Attended(d)'
  <2>1. /\ boot' = boot /\ pc'[c] \notin {"save", "wait", "failed"}
        /\ \A d \in Client \ {c} : job'[d] = job[d] /\ pc'[d] = pc[d]
        /\ (job'[c] = NoJob /\ pc'[c] = "idle") \/ (job'[c].pid = job[c].pid /\ job'[c].key = job[c].key)
    BY <1>14 DEF StartTimedOut, Proceed, Finish, Goto, leaseVars, TypeOK, Job, AfterStop
  <2>. QED  BY <2>1, <1>e, <1>f, <1>g, <1>h
<1>15. ASSUME NEW c \in Client, Touch(c) PROVE \A d \in Client : Attended(d)'
  <2>1. boot' = boot /\ pc' = [pc EXCEPT ![c] = "idle"] /\ job' = [job EXCEPT ![c] = NoJob]
    BY <1>15 DEF Touch, Finish, Goto, leaseVars
  <2>. QED  BY <2>1, <1>e, <1>f, <1>h DEF TypeOK
<1>16. ASSUME NEW c \in Client, NEW p \in Pid, Posted(c, p) PROVE \A d \in Client : Attended(d)'
  <2>1. /\ boot' = boot /\ pc'[c] \notin {"save", "wait", "failed"}
        /\ \A d \in Client \ {c} : job'[d] = job[d] /\ pc'[d] = pc[d]
        /\ (job'[c] = NoJob /\ pc'[c] = "idle") \/ (job'[c].pid = job[c].pid /\ job'[c].key = job[c].key)
    BY <1>16 DEF Posted, Proceed, Finish, Goto, leaseVars, TypeOK, Job, AfterStop
  <2>. QED  BY <2>1, <1>e, <1>f, <1>g, <1>h
<1>17. ASSUME NEW c \in Client, NEW p \in Pid, AnswerLost(c, p) PROVE \A d \in Client : Attended(d)'
  <2>1. /\ boot' = boot /\ pc'[c] \notin {"save", "wait", "failed"}
        /\ \A d \in Client \ {c} : job'[d] = job[d] /\ pc'[d] = pc[d]
        /\ (job'[c] = NoJob /\ pc'[c] = "idle") \/ (job'[c].pid = job[c].pid /\ job'[c].key = job[c].key)
    BY <1>17 DEF AnswerLost, Proceed, Finish, Goto, leaseVars, TypeOK, Job, AfterStop
  <2>. QED  BY <2>1, <1>e, <1>f, <1>g, <1>h
<1>18. ASSUME NEW c \in Client, Refused(c) PROVE \A d \in Client : Attended(d)'
  <2>1. /\ boot' = boot /\ pc'[c] \notin {"save", "wait", "failed"}
        /\ \A d \in Client \ {c} : job'[d] = job[d] /\ pc'[d] = pc[d]
        /\ (job'[c] = NoJob /\ pc'[c] = "idle") \/ (job'[c].pid = job[c].pid /\ job'[c].key = job[c].key)
    BY <1>18 DEF Refused, Proceed, Finish, Goto, leaseVars, TypeOK, Job, AfterStop
  <2>. QED  BY <2>1, <1>e, <1>f, <1>g, <1>h
<1>19. ASSUME NEW c \in Client, GiveBack(c) PROVE \A d \in Client : Attended(d)'
  <2>1. boot' = boot /\ pc' = [pc EXCEPT ![c] = "idle"] /\ job' = [job EXCEPT ![c] = NoJob]
    BY <1>19 DEF GiveBack, Finish, Goto, leaseVars
  <2>. QED  BY <2>1, <1>e, <1>f, <1>h DEF TypeOK
<1>20. ASSUME NEW c \in Client, Record(c) PROVE \A d \in Client : Attended(d)'
  <2>1. boot' = boot /\ pc' = [pc EXCEPT ![c] = "idle"] /\ job' = [job EXCEPT ![c] = NoJob]
    BY <1>20 DEF Record, Finish, Goto, leaseVars
  <2>. QED  BY <2>1, <1>e, <1>f, <1>h DEF TypeOK
<1>21. ASSUME NEW c \in Client, Crash(c) PROVE \A d \in Client : Attended(d)'
  <2>1. boot' = boot /\ pc' = [pc EXCEPT ![c] = "idle"] /\ job' = [job EXCEPT ![c] = NoJob]
    BY <1>21 DEF Crash, Finish, Goto, leaseVars
  <2>. QED  BY <2>1, <1>e, <1>f, <1>h DEF TypeOK
<1>22. ASSUME NEW p \in Pid, ServerUp(p) PROVE \A d \in Client : Attended(d)'
  <2>1. UNCHANGED <<boot, pc, job>>
    BY <1>22 DEF ServerUp, Reap, Spawned, Exited, WaitedFor, leaseVars
  <2>. QED  BY <2>1, <1>d
<1>23. ASSUME NEW p \in Pid, ProcessExits(p) PROVE \A d \in Client : Attended(d)'
  <2>1. UNCHANGED <<boot, pc, job>>
    BY <1>23 DEF ProcessExits, Reap, Spawned, Exited, WaitedFor, leaseVars
  <2>. QED  BY <2>1, <1>d
<1>24. ASSUME NEW p \in Pid, ProcessReaped(p) PROVE \A d \in Client : Attended(d)'
  <2>1. UNCHANGED <<boot, pc, job>>
    BY <1>24 DEF ProcessReaped, Reap, Spawned, Exited, WaitedFor, leaseVars
  <2>. QED  BY <2>1, <1>d
<1>25. ASSUME NEW p \in Pid, StrangerStarts(p) PROVE \A d \in Client : Attended(d)'
  <2>1. UNCHANGED <<boot, pc, job>>
    BY <1>25 DEF StrangerStarts, Reap, Spawned, Exited, WaitedFor, leaseVars
  <2>. QED  BY <2>1, <1>d
<1>26. CASE LeasesReaped
  <2>1. UNCHANGED <<boot, pc, job>>
    BY <1>26 DEF LeasesReaped, Reap, Spawned, Exited, WaitedFor, leaseVars
  <2>. QED  BY <2>1, <1>d
<1>27. CASE TimePasses
  <2>1. UNCHANGED <<boot, pc, job>>
    BY <1>27 DEF TimePasses, Reap, Spawned, Exited, WaitedFor, leaseVars
  <2>. QED  BY <2>1, <1>d
<1>28. CASE Reboot
  BY <1>28, <1>e, <1>f DEF Reboot
<1>29. CASE UNCHANGED vars
  BY <1>29, <1>d DEF vars, leaseVars
<1>. QED
  BY <1>1, <1>2, <1>3, <1>4, <1>5, <1>6, <1>7, <1>8, <1>9, <1>10, <1>11, <1>12, <1>13, <1>14, <1>15,
     <1>16, <1>17, <1>18, <1>19, <1>20, <1>21, <1>22, <1>23, <1>24, <1>25, <1>26, <1>27, <1>28,
     <1>29 DEF Next, Step, Environment

\* What names a server goes on naming it, and nothing that is started later.
LEMMA NamesKept ==
  ASSUME TypeOK, \A c \in Client : Placed(c) /\ Attended(c), Times, [Next]_vars,
         NEW r, NEW m, r.pid \in Pid, r.boot \in Nat, Names(r, m)
  PROVE  Names(r, m)'
<1>1. Persists(r.pid) /\ Stays(r.pid)
  BY ProcessStep, ServerStep
<1>2. /\ procs[r.pid].state = "gone" => StartTime(r.pid) = -1
      /\ procs'[r.pid].state = "gone" => StartTime(r.pid)' = -1
      /\ procs[r.pid].state # "gone" => StartTime(r.pid) = procs[r.pid].start
      /\ procs'[r.pid].state # "gone" => StartTime(r.pid)' = procs'[r.pid].start
  BY DEF StartTime, UnknownStart
<1>3. boot \in Nat /\ tick \in Nat /\ r.start \in Nat /\ r.start # -1
  BY LeaseAssumption DEF Names, TypeOK, LeaseTypeOK, Start, LeaseAssumption
<1>4. CASE boot' = boot
  <2>1. tick' \in {tick, tick + 1}
    BY <1>1, <1>4 DEF Persists
  <2>2. r.boot <= boot' /\ (r.boot = boot' => r.start < tick')
    BY <1>3, <1>4, <2>1 DEF Names
  <2>3. ASSUME r.boot = boot, StartTime(r.pid)' = r.start
        PROVE  server'[r.pid] # NoServer /\ server'[r.pid].model = m
    <3>1. procs'[r.pid].state # "gone" /\ procs'[r.pid].start = r.start
      BY <1>2, <1>3, <2>3
    <3>2. procs[r.pid].state # "gone" /\ procs[r.pid].start = r.start
      BY <1>1, <1>3, <1>4, <2>3, <3>1 DEF Persists, Names
    <3>3. server[r.pid] # NoServer /\ server[r.pid].model = m
      BY <1>2, <2>3, <3>2 DEF Names
    <3>. QED  BY <1>1, <3>1, <3>3 DEF Stays
  <2>. QED  BY <1>3, <1>4, <2>2, <2>3 DEF Names
<1>5. CASE boot' # boot
  <2>1. boot' = boot + 1
    BY <1>1, <1>5 DEF Persists
  <2>2. r.boot <= boot' /\ r.boot # boot'
    BY <1>3, <2>1 DEF Names
  <2>. QED  BY <1>3, <2>2 DEF Names
<1>. QED  BY <1>4, <1>5

\* The sessions and the leases after a step are those before it, or leases on
\* adapters.
LEMMA NamesFollow ==
  ASSUME TypeOK, \A c \in Client : Placed(c) /\ Attended(c), Times, NamesServers, [Next]_vars,
         row' # NoSession => \E s \in Remembered : Like(row', s),
         \A d \in Client : job'[d].sess # NoSession => \E s \in Remembered : Like(job'[d].sess, s),
         \A l \in leases' : l \in leases \/ l.key \notin Model
  PROVE  NamesServers'
<1>1. ASSUME NEW s \in Remembered PROVE s.pid \in Pid /\ s.boot \in Nat /\ Names(s, s.model)
  <2>1. s \in SessionRow
    BY JobHas DEF Remembered, TypeOK
  <2>. QED  BY <2>1, IsSession DEF Remembered, NamesServers
<1>2. ASSUME NEW s \in Remembered PROVE Names(s, s.model)'
  BY <1>1, NamesKept
<1>3. ASSUME NEW s \in Remembered, NEW t, Like(t, s) PROVE Names(t, t.model)'
  BY <1>2, <1>3 DEF Like, Names
<1>4. ASSUME NEW l \in leases, l.key \in Model PROVE Names(l, l.key)'
  <2>1. l.pid \in Pid /\ l.boot \in Nat /\ Names(l, l.key)
    BY <1>4 DEF NamesServers, TypeOK, LeaseTypeOK, LeaseRecord
  <2>. QED  BY <2>1, NamesKept
<1>. QED  BY <1>3, <1>4 DEF NamesServers

\* Who writes the row writes the session it has at hand.
LEMMA Wrote ==
  ASSUME TypeOK, NEW c \in Client, Placed(c),
         SaveStarting(c) \/ StartFailed(c) \/ StartReady(c) \/ Touch(c) \/ Record(c)
  PROVE  LET s == job[c].sess
         IN /\ s \in SessionRow /\ row' \in SessionRow /\ Like(row', s)
            /\ pc[c] \in {"save", "touch", "record"} => row'.state = s.state
            /\ pc[c] = "wait" /\ Alive(s) => row'.state = "ready"
            /\ row'.leases = IF pc[c] = "record" /\ job[c].op = "load" THEN s.leases \cup {job[c].lease} ELSE s.leases
            /\ UNCHANGED <<boot, tick, procs, leases, server>>
<1>. DEFINE s == job[c].sess
            k == job[c].key
            i == job[c].lease
<1>1. s \in SessionRow
  BY JobHas DEF TypeOK, Placed, SaveStarting, StartFailed, StartReady, Touch, Record
<1>2. s.adapters \subseteq Adapter /\ s.leases \subseteq LeaseId
  BY <1>1, IsSession
<1>. HIDE DEF s
<1>3. CASE SaveStarting(c) \/ Touch(c)
  <2>1. row' = [s EXCEPT !.fresh = TRUE] /\ pc[c] \in {"save", "touch"} /\ UNCHANGED <<leaseVars, server>>
    BY <1>3 DEF SaveStarting, Touch, Written, s
  <2>2. row' \in SessionRow
    BY <1>1, <2>1, RowChanged
  <2>. QED  BY <1>1, <2>1, <2>2 DEF SessionRow, Like, leaseVars, s
<1>4. CASE StartFailed(c)
  <2>1. row' = [s EXCEPT !.state = "failed"] /\ pc[c] = "wait" /\ ~Alive(s) /\ UNCHANGED <<leaseVars, server>>
    BY <1>4 DEF StartFailed, Written, s
  <2>2. row' \in SessionRow
    BY <1>1, <2>1, RowChanged
  <2>. QED  BY <1>1, <2>1, <2>2 DEF SessionRow, Like, leaseVars, s
<1>5. CASE StartReady(c)
  <2>1. row' = [s EXCEPT !.state = "ready", !.fresh = TRUE] /\ pc[c] = "wait" /\ UNCHANGED <<leaseVars, server>>
    BY <1>5 DEF StartReady, Written, s
  <2>2. row' \in SessionRow
    BY <1>1, <2>1, RowChanged DEF Live
  <2>. QED  BY <1>1, <2>1, <2>2 DEF SessionRow, Like, leaseVars, s
<1>6. CASE Record(c)
  <2>1. k \in Adapter /\ (job[c].op = "load" => i \in LeaseId) /\ pc[c] = "record" /\ UNCHANGED <<leaseVars, server>>
    BY <1>6, JobHas DEF TypeOK, Placed, Record
  <2>2. CASE job[c].op = "load"
    <3>1. row' = [s EXCEPT !.adapters = s.adapters \cup {k}, !.fresh = TRUE, !.leases = s.leases \cup {i}]
      BY <1>6, <2>2 DEF Record, Written, s
    <3>2. row' \in SessionRow
      BY <1>1, <1>2, <2>1, <2>2, <3>1, RowChanged
    <3>. QED  BY <1>1, <2>1, <2>2, <3>1, <3>2 DEF SessionRow, Like, leaseVars, s
  <2>3. CASE job[c].op # "load"
    <3>1. row' = [s EXCEPT !.adapters = s.adapters \ {k}, !.fresh = TRUE]
      BY <1>6, <2>3 DEF Record, Written, s
    <3>2. row' \in SessionRow
      BY <1>1, <1>2, <3>1, RowChanged
    <3>. QED  BY <1>1, <2>1, <2>3, <3>1, <3>2 DEF SessionRow, Like, leaseVars, s
  <2>. QED  BY <2>2, <2>3
<1>. QED  BY <1>3, <1>4, <1>5, <1>6

\* It is enough to look at the row and at what each client has at hand.
LEMMA TwinFollow ==
  ASSUME row' # NoSession => \E t \in Remembered : Twin(row', t),
         \A d \in Client : job'[d].sess # NoSession => \E t \in Remembered : Twin(job'[d].sess, t)
  PROVE  Twins
BY DEF Twins, Remembered

\* No step but two adds to the leases that sessions remember.
LEMMA TwinsStep ==
  ASSUME TypeOK, \A c \in Client : Placed(c) /\ Attended(c), Times, [Next]_vars
  PROVE  Twins
<1>r. row # NoSession => row \in Remembered /\ Twin(row, row) /\ row \in SessionRow
  BY DEF Remembered, Twin, Like, TypeOK
<1>j. \A d \in Client : /\ job[d] \in Job /\ job[d].sess \in SessionRow \cup {NoSession}
                        /\ job[d].sess # NoSession => job[d].sess \in Remembered /\ Twin(job[d].sess, job[d].sess)
  BY JobHas DEF Remembered, Twin, Like, TypeOK
<1>n. NoJob.sess = NoSession
  BY DEF NoJob
<1>1. ASSUME NEW c \in Client, NEW o \in AllOps, NEW k \in Key \cup {NoPid}, Begin(c, o, k) PROVE Twins
  <2>1. row' # NoSession => \E t \in Remembered : Twin(row', t)
    BY <1>1, <1>r DEF Begin
  <2>2. \A d \in Client : job'[d].sess # NoSession => \E t \in Remembered : Twin(job'[d].sess, t)
    BY <1>1, <1>j, <1>n DEF Begin, TypeOK, NoJob
  <2>. QED  BY <2>1, <2>2, TwinFollow
<1>2. ASSUME NEW c \in Client, Look(c) PROVE Twins
  <2>1. PICK next, s :
          /\ Goes(c, next, s) /\ UNCHANGED row /\ s \in SessionRow \cup {NoSession}
          /\ next \in {"idle", "bury", "launch", "touch", "stop", "acquire", "post"}
          /\ next \in {"launch", "stop"} => s = NoSession
          /\ next \in {"bury", "touch", "acquire", "post"} =>
               /\ row # NoSession /\ s.leases = row.leases
               /\ s.model = row.model /\ s.pid = row.pid /\ s.boot = row.boot /\ s.start = row.start
    BY <1>2, Looked
  <2>2. \A d \in Client : job'[d].sess # NoSession => \E t \in Remembered : Twin(job'[d].sess, t)
    BY <2>1, <1>j, <1>n, <1>r DEF Goes, TypeOK, Job, Twin, Like
  <2>3. row' # NoSession => \E t \in Remembered : Twin(row', t)
    BY <2>1, <1>r
  <2>. QED  BY <2>2, <2>3, TwinFollow
<1>3. ASSUME NEW c \in Client, Bury(c) PROVE Twins
  <2>1. PICK next :
          /\ Goes(c, next, NoSession) /\ next \in {"idle", "launch"} /\ row' \in {row, NoSession}
    BY <1>3, Buried
  <2>2. \A d \in Client : job'[d].sess # NoSession => \E t \in Remembered : Twin(job'[d].sess, t)
    BY <2>1, <1>j, <1>n, <1>r DEF Goes, TypeOK, Job, Twin, Like
  <2>3. row' # NoSession => \E t \in Remembered : Twin(row', t)
    BY <2>1, <1>r
  <2>. QED  BY <2>2, <2>3, TwinFollow
<1>4. ASSUME NEW c \in Client, Stop(c) PROVE Twins
  <2>1. PICK s \in SessionRow :
          /\ Goes(c, "stopped", s) /\ UNCHANGED row /\ row \in SessionRow /\ s.leases = row.leases
          /\ s.model = row.model /\ s.pid = row.pid /\ s.boot = row.boot /\ s.start = row.start
    BY <1>4, Stopped
  <2>2. \A d \in Client : job'[d].sess # NoSession => \E t \in Remembered : Twin(job'[d].sess, t)
    BY <2>1, <1>j, <1>n, <1>r, IsSession DEF Goes, TypeOK, Job, Twin, Like
  <2>3. row' # NoSession => \E t \in Remembered : Twin(row', t)
    BY <2>1, <1>r
  <2>. QED  BY <2>2, <2>3, TwinFollow
<1>5. ASSUME NEW c \in Client, NothingToStop(c) PROVE Twins
  <2>1. row' # NoSession => \E t \in Remembered : Twin(row', t)
    BY <1>5, <1>r DEF NothingToStop
  <2>2. \A d \in Client : job'[d].sess # NoSession => \E t \in Remembered : Twin(job'[d].sess, t)
    BY <1>5, <1>j, <1>n DEF NothingToStop, Proceed, Finish, Goto, TypeOK, Job, AfterStop
  <2>. QED  BY <2>1, <2>2, TwinFollow
<1>6. ASSUME NEW c \in Client, CannotLaunch(c) PROVE Twins
  <2>1. row' # NoSession => \E t \in Remembered : Twin(row', t)
    BY <1>6, <1>r DEF CannotLaunch
  <2>2. \A d \in Client : job'[d].sess # NoSession => \E t \in Remembered : Twin(job'[d].sess, t)
    BY <1>6, <1>j, <1>n DEF CannotLaunch, Proceed, Finish, Goto, TypeOK, Job
  <2>. QED  BY <2>1, <2>2, TwinFollow
<1>7. ASSUME NEW c \in Client, NEW p \in Pid, Launch(c, p) PROVE Twins
  <2>1. row' # NoSession => \E t \in Remembered : Twin(row', t)
    BY <1>7, <1>r DEF Launch
  <2>2. \A d \in Client : job'[d].sess # NoSession => \E t \in Remembered : Twin(job'[d].sess, t)
    BY <1>7, <1>j, <1>n DEF Launch, Proceed, Finish, Goto, TypeOK, Job
  <2>. QED  BY <2>1, <2>2, TwinFollow
<1>8. ASSUME NEW c \in Client, NEW i \in LeaseId, LeaseWeights(c, i) PROVE Twins
  BY <1>8 DEF Twins, Weighs
<1>9. ASSUME NEW c \in Client, NEW i \in LeaseId, LeaseAdapter(c, i) PROVE Twins
  <2>1. row' # NoSession => \E t \in Remembered : Twin(row', t)
    BY <1>9, <1>r DEF LeaseAdapter
  <2>2. \A d \in Client : job'[d].sess # NoSession => \E t \in Remembered : Twin(job'[d].sess, t)
    BY <1>9, <1>j, <1>n DEF LeaseAdapter, Proceed, Finish, Goto, TypeOK, Job
  <2>. QED  BY <2>1, <2>2, TwinFollow
<1>10. ASSUME NEW c \in Client, SaveStarting(c) PROVE Twins
  <2>1. Twin(row', job[c].sess) /\ job[c].sess # NoSession
    BY <1>10, Wrote, IsSession DEF SaveStarting, Twin
  <2>2. \A d \in Client : job'[d].sess # NoSession => \E t \in Remembered : Twin(job'[d].sess, t)
    BY <1>10, <1>j, <1>n DEF SaveStarting, Proceed, Finish, Goto, TypeOK
  <2>. QED  BY <2>1, <2>2, <1>j, TwinFollow
<1>11. ASSUME NEW c \in Client, StartFailed(c) PROVE Twins
  <2>1. Twin(row', job[c].sess) /\ job[c].sess # NoSession
    BY <1>11, Wrote, IsSession DEF StartFailed, Twin
  <2>2. \A d \in Client : job'[d].sess # NoSession => \E t \in Remembered : Twin(job'[d].sess, t)
    BY <1>11, <1>j, <1>n DEF StartFailed, Proceed, Finish, Goto, TypeOK
  <2>. QED  BY <2>1, <2>2, <1>j, TwinFollow
<1>12. ASSUME NEW c \in Client, ReleaseFailed(c) PROVE Twins
  <2>1. row' # NoSession => \E t \in Remembered : Twin(row', t)
    BY <1>12, <1>r DEF ReleaseFailed
  <2>2. \A d \in Client : job'[d].sess # NoSession => \E t \in Remembered : Twin(job'[d].sess, t)
    BY <1>12, <1>j, <1>n DEF ReleaseFailed, Proceed, Finish, Goto, TypeOK, Job
  <2>. QED  BY <2>1, <2>2, TwinFollow
<1>13. ASSUME NEW c \in Client, StartReady(c) PROVE Twins
  <2>1. Twin(row', job[c].sess) /\ job[c].sess # NoSession
    BY <1>13, Wrote, IsSession DEF StartReady, Twin
  <2>2. \A d \in Client : job'[d].sess # NoSession => \E t \in Remembered : Twin(job'[d].sess, t)
    BY <1>13, <1>j, <1>n DEF StartReady, Proceed, Finish, Goto, TypeOK
  <2>. QED  BY <2>1, <2>2, <1>j, TwinFollow
<1>14. ASSUME NEW c \in Client, StartTimedOut(c) PROVE Twins
  <2>1. row' # NoSession => \E t \in Remembered : Twin(row', t)
    BY <1>14, <1>r DEF StartTimedOut
  <2>2. \A d \in Client : job'[d].sess # NoSession => \E t \in Remembered : Twin(job'[d].sess, t)
    BY <1>14, <1>j, <1>n DEF StartTimedOut, Proceed, Finish, Goto, TypeOK, Job
  <2>. QED  BY <2>1, <2>2, TwinFollow
<1>15. ASSUME NEW c \in Client, Touch(c) PROVE Twins
  <2>1. Twin(row', job[c].sess) /\ job[c].sess # NoSession
    BY <1>15, Wrote, IsSession DEF Touch, Twin
  <2>2. \A d \in Client : job'[d].sess # NoSession => \E t \in Remembered : Twin(job'[d].sess, t)
    BY <1>15, <1>j, <1>n DEF Touch, Proceed, Finish, Goto, TypeOK
  <2>. QED  BY <2>1, <2>2, <1>j, TwinFollow
<1>16. ASSUME NEW c \in Client, NEW p \in Pid, Posted(c, p) PROVE Twins
  <2>1. row' # NoSession => \E t \in Remembered : Twin(row', t)
    BY <1>16, <1>r DEF Posted
  <2>2. \A d \in Client : job'[d].sess # NoSession => \E t \in Remembered : Twin(job'[d].sess, t)
    BY <1>16, <1>j, <1>n DEF Posted, Proceed, Finish, Goto, TypeOK, Job
  <2>. QED  BY <2>1, <2>2, TwinFollow
<1>17. ASSUME NEW c \in Client, NEW p \in Pid, AnswerLost(c, p) PROVE Twins
  <2>1. row' # NoSession => \E t \in Remembered : Twin(row', t)
    BY <1>17, <1>r DEF AnswerLost
  <2>2. \A d \in Client : job'[d].sess # NoSession => \E t \in Remembered : Twin(job'[d].sess, t)
    BY <1>17, <1>j, <1>n DEF AnswerLost, Proceed, Finish, Goto, TypeOK, Job
  <2>. QED  BY <2>1, <2>2, TwinFollow
<1>18. ASSUME NEW c \in Client, Refused(c) PROVE Twins
  <2>1. row' # NoSession => \E t \in Remembered : Twin(row', t)
    BY <1>18, <1>r DEF Refused
  <2>2. \A d \in Client : job'[d].sess # NoSession => \E t \in Remembered : Twin(job'[d].sess, t)
    BY <1>18, <1>j, <1>n DEF Refused, Proceed, Finish, Goto, TypeOK, Job
  <2>. QED  BY <2>1, <2>2, TwinFollow
<1>19. ASSUME NEW c \in Client, GiveBack(c) PROVE Twins
  <2>1. row' # NoSession => \E t \in Remembered : Twin(row', t)
    BY <1>19, <1>r DEF GiveBack
  <2>2. \A d \in Client : job'[d].sess # NoSession => \E t \in Remembered : Twin(job'[d].sess, t)
    BY <1>19, <1>j, <1>n DEF GiveBack, Proceed, Finish, Goto, TypeOK, Job
  <2>. QED  BY <2>1, <2>2, TwinFollow
<1>20. ASSUME NEW c \in Client, Record(c) PROVE Twins
  <2>1. CASE job[c].op = "load"
    BY <1>20, <2>1 DEF Twins
  <2>2. CASE job[c].op # "load"
    <3>1. Twin(row', job[c].sess) /\ job[c].sess # NoSession
      BY <1>20, <2>2, Wrote, IsSession DEF Record, Twin
    <3>2. \A d \in Client : job'[d].sess # NoSession => \E t \in Remembered : Twin(job'[d].sess, t)
      BY <1>20, <1>j, <1>n DEF Record, Finish, Goto, TypeOK
    <3>. QED  BY <3>1, <3>2, <1>j, TwinFollow
  <2>. QED  BY <2>1, <2>2
<1>21. ASSUME NEW c \in Client, Crash(c) PROVE Twins
  <2>1. row' # NoSession => \E t \in Remembered : Twin(row', t)
    BY <1>21, <1>r DEF Crash
  <2>2. \A d \in Client : job'[d].sess # NoSession => \E t \in Remembered : Twin(job'[d].sess, t)
    BY <1>21, <1>j, <1>n DEF Crash, Proceed, Finish, Goto, TypeOK, Job
  <2>. QED  BY <2>1, <2>2, TwinFollow
<1>22. ASSUME NEW p \in Pid, ServerUp(p) PROVE Twins
  <2>1. row' # NoSession => \E t \in Remembered : Twin(row', t)
    BY <1>22, <1>r DEF ServerUp
  <2>2. \A d \in Client : job'[d].sess # NoSession => \E t \in Remembered : Twin(job'[d].sess, t)
    BY <1>22, <1>j DEF ServerUp
  <2>. QED  BY <2>1, <2>2, TwinFollow
<1>23. ASSUME NEW p \in Pid, ProcessExits(p) PROVE Twins
  <2>1. row' # NoSession => \E t \in Remembered : Twin(row', t)
    BY <1>23, <1>r DEF ProcessExits
  <2>2. \A d \in Client : job'[d].sess # NoSession => \E t \in Remembered : Twin(job'[d].sess, t)
    BY <1>23, <1>j DEF ProcessExits
  <2>. QED  BY <2>1, <2>2, TwinFollow
<1>24. ASSUME NEW p \in Pid, ProcessReaped(p) PROVE Twins
  <2>1. row' # NoSession => \E t \in Remembered : Twin(row', t)
    BY <1>24, <1>r DEF ProcessReaped
  <2>2. \A d \in Client : job'[d].sess # NoSession => \E t \in Remembered : Twin(job'[d].sess, t)
    BY <1>24, <1>j DEF ProcessReaped
  <2>. QED  BY <2>1, <2>2, TwinFollow
<1>25. ASSUME NEW p \in Pid, StrangerStarts(p) PROVE Twins
  <2>1. row' # NoSession => \E t \in Remembered : Twin(row', t)
    BY <1>25, <1>r DEF StrangerStarts
  <2>2. \A d \in Client : job'[d].sess # NoSession => \E t \in Remembered : Twin(job'[d].sess, t)
    BY <1>25, <1>j DEF StrangerStarts
  <2>. QED  BY <2>1, <2>2, TwinFollow
<1>26. CASE LeasesReaped
  <2>1. row' # NoSession => \E t \in Remembered : Twin(row', t)
    BY <1>26, <1>r DEF LeasesReaped
  <2>2. \A d \in Client : job'[d].sess # NoSession => \E t \in Remembered : Twin(job'[d].sess, t)
    BY <1>26, <1>j DEF LeasesReaped
  <2>. QED  BY <2>1, <2>2, TwinFollow
<1>27. CASE TimePasses
  <2>1. row' # NoSession => \E t \in Remembered : Twin(row', t)
    BY <1>27, <1>r DEF TimePasses, Twin, Like, SessionRow
  <2>2. \A d \in Client : job'[d].sess # NoSession => \E t \in Remembered : Twin(job'[d].sess, t)
    BY <1>27, <1>j DEF TimePasses
  <2>. QED  BY <2>1, <2>2, TwinFollow
<1>28. CASE Reboot
  <2>1. row' # NoSession => \E t \in Remembered : Twin(row', t)
    BY <1>28, <1>r DEF Reboot
  <2>2. \A d \in Client : job'[d].sess # NoSession => \E t \in Remembered : Twin(job'[d].sess, t)
    BY <1>28, <1>n DEF Reboot
  <2>. QED  BY <2>1, <2>2, TwinFollow
<1>29. CASE UNCHANGED vars
  BY <1>29, <1>r, <1>j, TwinFollow DEF vars
<1>. QED
  BY <1>1, <1>2, <1>3, <1>4, <1>5, <1>6, <1>7, <1>8, <1>9, <1>10, <1>11, <1>12, <1>13, <1>14, <1>15,
     <1>16, <1>17, <1>18, <1>19, <1>20, <1>21, <1>22, <1>23, <1>24, <1>25, <1>26, <1>27, <1>28,
     <1>29 DEF Next, Step, Environment

\* Leases on models are only taken where the weights are.
LEMMA LeasesStep ==
  ASSUME TypeOK, \A c \in Client : Placed(c), [Next]_vars
  PROVE  Weighs \/ \A l \in leases' : l \in leases \/ l.key \notin Model
<1>1. ASSUME NEW c \in Client, NEW o \in AllOps, NEW k \in Key \cup {NoPid}, Begin(c, o, k)
      PROVE  Weighs \/ \A l \in leases' : l \in leases \/ l.key \notin Model
  BY <1>1 DEF Begin, leaseVars
<1>2. ASSUME NEW c \in Client, Look(c)
      PROVE  Weighs \/ \A l \in leases' : l \in leases \/ l.key \notin Model
  BY <1>2, Looked
<1>3. ASSUME NEW c \in Client, Bury(c)
      PROVE  Weighs \/ \A l \in leases' : l \in leases \/ l.key \notin Model
  BY <1>3, Buried DEF Released
<1>4. ASSUME NEW c \in Client, Stop(c)
      PROVE  Weighs \/ \A l \in leases' : l \in leases \/ l.key \notin Model
  BY <1>4, Stopped
<1>5. ASSUME NEW c \in Client, NothingToStop(c)
      PROVE  Weighs \/ \A l \in leases' : l \in leases \/ l.key \notin Model
  BY <1>5 DEF NothingToStop, leaseVars
<1>6. ASSUME NEW c \in Client, CannotLaunch(c)
      PROVE  Weighs \/ \A l \in leases' : l \in leases \/ l.key \notin Model
  BY <1>6 DEF CannotLaunch, leaseVars
<1>7. ASSUME NEW c \in Client, NEW p \in Pid, Launch(c, p)
      PROVE  Weighs \/ \A l \in leases' : l \in leases \/ l.key \notin Model
  BY <1>7 DEF Launch, leaseVars
<1>8. ASSUME NEW c \in Client, NEW i \in LeaseId, LeaseWeights(c, i)
      PROVE  Weighs \/ \A l \in leases' : l \in leases \/ l.key \notin Model
  BY <1>8 DEF Weighs
<1>9. ASSUME NEW c \in Client, NEW i \in LeaseId, LeaseAdapter(c, i)
      PROVE  Weighs \/ \A l \in leases' : l \in leases \/ l.key \notin Model
  BY <1>9, SessionAssumption DEF LeaseAdapter, NewLease, Placed, SessionAssumption
<1>10. ASSUME NEW c \in Client, SaveStarting(c)
      PROVE  Weighs \/ \A l \in leases' : l \in leases \/ l.key \notin Model
  BY <1>10 DEF SaveStarting, leaseVars
<1>11. ASSUME NEW c \in Client, StartFailed(c)
      PROVE  Weighs \/ \A l \in leases' : l \in leases \/ l.key \notin Model
  BY <1>11 DEF StartFailed, leaseVars
<1>12. ASSUME NEW c \in Client, ReleaseFailed(c)
      PROVE  Weighs \/ \A l \in leases' : l \in leases \/ l.key \notin Model
  BY <1>12 DEF ReleaseFailed, Released
<1>13. ASSUME NEW c \in Client, StartReady(c)
      PROVE  Weighs \/ \A l \in leases' : l \in leases \/ l.key \notin Model
  BY <1>13 DEF StartReady, leaseVars
<1>14. ASSUME NEW c \in Client, StartTimedOut(c)
      PROVE  Weighs \/ \A l \in leases' : l \in leases \/ l.key \notin Model
  BY <1>14 DEF StartTimedOut, leaseVars
<1>15. ASSUME NEW c \in Client, Touch(c)
      PROVE  Weighs \/ \A l \in leases' : l \in leases \/ l.key \notin Model
  BY <1>15 DEF Touch, leaseVars
<1>16. ASSUME NEW c \in Client, NEW p \in Pid, Posted(c, p)
      PROVE  Weighs \/ \A l \in leases' : l \in leases \/ l.key \notin Model
  BY <1>16 DEF Posted, leaseVars
<1>17. ASSUME NEW c \in Client, NEW p \in Pid, AnswerLost(c, p)
      PROVE  Weighs \/ \A l \in leases' : l \in leases \/ l.key \notin Model
  BY <1>17 DEF AnswerLost, leaseVars
<1>18. ASSUME NEW c \in Client, Refused(c)
      PROVE  Weighs \/ \A l \in leases' : l \in leases \/ l.key \notin Model
  BY <1>18 DEF Refused, leaseVars
<1>19. ASSUME NEW c \in Client, GiveBack(c)
      PROVE  Weighs \/ \A l \in leases' : l \in leases \/ l.key \notin Model
  BY <1>19 DEF GiveBack, Released
<1>20. ASSUME NEW c \in Client, Record(c)
      PROVE  Weighs \/ \A l \in leases' : l \in leases \/ l.key \notin Model
  BY <1>20 DEF Record, leaseVars
<1>21. ASSUME NEW c \in Client, Crash(c)
      PROVE  Weighs \/ \A l \in leases' : l \in leases \/ l.key \notin Model
  BY <1>21 DEF Crash, leaseVars
<1>22. ASSUME NEW p \in Pid, ServerUp(p)
      PROVE  Weighs \/ \A l \in leases' : l \in leases \/ l.key \notin Model
  BY <1>22 DEF ServerUp, leaseVars
<1>23. ASSUME NEW p \in Pid, ProcessExits(p)
      PROVE  Weighs \/ \A l \in leases' : l \in leases \/ l.key \notin Model
  BY <1>23 DEF ProcessExits, leaseVars
<1>24. ASSUME NEW p \in Pid, ProcessReaped(p)
      PROVE  Weighs \/ \A l \in leases' : l \in leases \/ l.key \notin Model
  BY <1>24 DEF ProcessReaped, leaseVars
<1>25. ASSUME NEW p \in Pid, StrangerStarts(p)
      PROVE  Weighs \/ \A l \in leases' : l \in leases \/ l.key \notin Model
  BY <1>25 DEF StrangerStarts, leaseVars
<1>26. CASE LeasesReaped
  BY <1>26 DEF LeasesReaped, Reap
<1>27. CASE TimePasses
  BY <1>27 DEF TimePasses, leaseVars
<1>28. CASE Reboot
  BY <1>28 DEF Reboot, leaseVars
<1>29. CASE UNCHANGED vars
  BY <1>29 DEF vars, leaseVars
<1>. QED
  BY <1>1, <1>2, <1>3, <1>4, <1>5, <1>6, <1>7, <1>8, <1>9, <1>10, <1>11, <1>12, <1>13, <1>14, <1>15,
     <1>16, <1>17, <1>18, <1>19, <1>20, <1>21, <1>22, <1>23, <1>24, <1>25, <1>26, <1>27, <1>28,
     <1>29 DEF Next, Step, Environment

\* Sessions and leases on models name the servers they were made for, always.
LEMMA NamesStep ==
  ASSUME TypeOK, \A c \in Client : Placed(c) /\ Attended(c), Times, NamesServers, [Next]_vars
  PROVE  NamesServers'
<1>r. row # NoSession => row \in Remembered /\ row \in SessionRow
  BY DEF Remembered, TypeOK
<1>j. \A d \in Client : job[d].sess # NoSession => job[d].sess \in Remembered
  BY DEF Remembered
<1>1. ASSUME ~Weighs, \A s \in Remembered' : \E t \in Remembered : Like(s, t)
      PROVE  NamesServers'
  <2>1. row' # NoSession => \E t \in Remembered : Like(row', t)
    BY <1>1 DEF Remembered
  <2>2. \A d \in Client : job'[d].sess # NoSession => \E t \in Remembered : Like(job'[d].sess, t)
    BY <1>1 DEF Remembered
  <2>. QED  BY <1>1, <2>1, <2>2, LeasesStep, NamesFollow
<1>2. ASSUME NEW c \in Client, NEW i \in LeaseId, LeaseWeights(c, i) PROVE NamesServers'
  <2>. DEFINE p == job[c].pid
  <2>1. PICK s \in SessionRow :
          /\ Goes(c, "save", s) /\ p \in Pid /\ server[p] \in Server /\ server[p].model = job[c].key
          /\ s.model = job[c].key /\ s.pid = p /\ s.boot = boot /\ s.start = StartTime(p)
          /\ StartTime(p) \in Nat /\ StartTime(p) < tick
          /\ leases' = leases \cup {NewLease(i, job[c].key, p)} /\ UNCHANGED <<boot, tick, procs, row>>
    BY <1>2, Weighed
  <2>2. server[p] # NoServer
    BY <2>1, SessionAssumption DEF SessionAssumption
  <2>3. boot \in Nat
    BY DEF TypeOK, LeaseTypeOK
  <2>4. Names(s, s.model) /\ s.pid \in Pid /\ s.boot \in Nat
    BY <2>1, <2>2, <2>3 DEF Names
  <2>5. ASSUME NEW l, l = NewLease(i, job[c].key, p)
        PROVE  Names(l, l.key)' /\ l.key = job[c].key
    <3>1. Names(l, l.key) /\ l.pid \in Pid /\ l.boot \in Nat /\ l.key = job[c].key
      BY <2>1, <2>2, <2>3, <2>5 DEF Names, NewLease
    <3>. QED  BY <3>1, NamesKept
  <2>6. Names(s, s.model)'
    BY <2>4, NamesKept
  <2>7. \A d \in Client : IF d = c THEN job'[d].sess = s ELSE job'[d] = job[d]
    BY <2>1 DEF Goes, TypeOK, Job
  <2>8. ASSUME NEW t \in Remembered PROVE Names(t, t.model)' /\ t \in SessionRow
    <3>1. t \in SessionRow /\ Names(t, t.model)
      BY JobHas DEF Remembered, TypeOK, NamesServers
    <3>2. t.pid \in Pid /\ t.boot \in Nat
      BY <3>1, IsSession
    <3>. QED  BY <3>1, <3>2, NamesKept
  <2>9. ASSUME NEW l \in leases, l.key \in Model PROVE Names(l, l.key)'
    <3>1. l.pid \in Pid /\ l.boot \in Nat /\ Names(l, l.key)
      BY <2>9 DEF NamesServers, TypeOK, LeaseTypeOK, LeaseRecord
    <3>. QED  BY <3>1, NamesKept
  <2>10. (\A d \in Client : job[d].sess # NoSession => Names(job[d].sess, job[d].sess.model))'
    BY <2>6, <2>7, <2>8, <1>j
  <2>11. (row # NoSession => Names(row, row.model))'
    BY <2>1, <2>8, <1>r
  <2>12. (\A l \in leases : l.key \in Model => Names(l, l.key))'
    BY <2>1, <2>5, <2>9
  <2>. QED  BY <2>10, <2>11, <2>12 DEF NamesServers
<1>3. ASSUME NEW c \in Client, Record(c), job[c].op = "load", ~Weighs PROVE NamesServers'
  <2>1. Like(row', job[c].sess) /\ job[c].sess \in Remembered
    BY <1>3, <1>j, Wrote DEF Record, Placed
  <2>2. NoJob.sess = NoSession
    BY DEF NoJob
  <2>3. \A s \in Remembered' : s = row' \/ s \in Remembered
    BY <1>3, <2>2 DEF Record, Finish, Remembered, TypeOK
  <2>. QED  BY <1>1, <1>3, <2>1, <2>3 DEF Like
<1>4. ASSUME ~Weighs, \A s \in Remembered' : \E t \in Remembered : Twin(s, t) PROVE NamesServers'
  BY <1>1, <1>4 DEF Twin
<1>. QED  BY <1>2, <1>3, <1>4, TwinsStep DEF Twins, Weighs

\* Only Stop leads from where it begins to where it ends.
LEMMA StopOnly ==
  ASSUME TypeOK, NEW d \in Client, pc[d] = "stop", pc'[d] = "stopped", [Next]_vars
  PROVE  Stop(d)
<1>1. ASSUME NEW c \in Client, NEW o \in AllOps, NEW k \in Key \cup {NoPid}, Begin(c, o, k) PROVE Stop(d)
  BY <1>1 DEF Begin, Proceed, Finish, Goto, leaseVars, TypeOK
<1>2. ASSUME NEW c \in Client, Look(c) PROVE Stop(d)
  <2>1. PICK next, s : Goes(c, next, s) /\ pc[c] = "look"
    BY <1>2, Looked
  <2>. QED  BY <2>1 DEF Goes, TypeOK
<1>3. ASSUME NEW c \in Client, Bury(c) PROVE Stop(d)
  <2>1. PICK next : Goes(c, next, NoSession) /\ pc[c] \in {"bury", "stopped"}
    BY <1>3, Buried
  <2>. QED  BY <2>1 DEF Goes, TypeOK
<1>4. ASSUME NEW c \in Client, Stop(c) PROVE Stop(d)
  <2>1. PICK s : Goes(c, "stopped", s)
    BY <1>4, Stopped
  <2>. QED  BY <1>4, <2>1 DEF Goes, TypeOK
<1>5. ASSUME NEW c \in Client, NothingToStop(c) PROVE Stop(d)
  BY <1>5 DEF NothingToStop, AfterStop, TypeOK, Proceed, Finish, Goto, leaseVars
<1>6. ASSUME NEW c \in Client, CannotLaunch(c) PROVE Stop(d)
  BY <1>6 DEF CannotLaunch, Proceed, Finish, Goto, leaseVars, TypeOK
<1>7. ASSUME NEW c \in Client, NEW p \in Pid, Launch(c, p) PROVE Stop(d)
  BY <1>7 DEF Launch, Proceed, Finish, Goto, leaseVars, TypeOK
<1>8. ASSUME NEW c \in Client, NEW i \in LeaseId, LeaseWeights(c, i) PROVE Stop(d)
  <2>1. Goto(c, "save")
    BY <1>8 DEF LeaseWeights, Proceed
  <2>. QED  BY <2>1 DEF Goto, TypeOK
<1>9. ASSUME NEW c \in Client, NEW i \in LeaseId, LeaseAdapter(c, i) PROVE Stop(d)
  BY <1>9 DEF LeaseAdapter, Proceed, Finish, Goto, leaseVars, TypeOK
<1>10. ASSUME NEW c \in Client, SaveStarting(c) PROVE Stop(d)
  BY <1>10 DEF SaveStarting, Proceed, Finish, Goto, leaseVars, TypeOK
<1>11. ASSUME NEW c \in Client, StartFailed(c) PROVE Stop(d)
  BY <1>11 DEF StartFailed, Proceed, Finish, Goto, leaseVars, TypeOK
<1>12. ASSUME NEW c \in Client, ReleaseFailed(c) PROVE Stop(d)
  BY <1>12 DEF ReleaseFailed, Proceed, Finish, Goto, leaseVars, TypeOK
<1>13. ASSUME NEW c \in Client, StartReady(c) PROVE Stop(d)
  BY <1>13 DEF StartReady, Proceed, Finish, Goto, leaseVars, TypeOK
<1>14. ASSUME NEW c \in Client, StartTimedOut(c) PROVE Stop(d)
  BY <1>14 DEF StartTimedOut, Proceed, Finish, Goto, leaseVars, TypeOK
<1>15. ASSUME NEW c \in Client, Touch(c) PROVE Stop(d)
  BY <1>15 DEF Touch, Proceed, Finish, Goto, leaseVars, TypeOK
<1>16. ASSUME NEW c \in Client, NEW p \in Pid, Posted(c, p) PROVE Stop(d)
  BY <1>16 DEF Posted, Proceed, Finish, Goto, leaseVars, TypeOK
<1>17. ASSUME NEW c \in Client, NEW p \in Pid, AnswerLost(c, p) PROVE Stop(d)
  BY <1>17 DEF AnswerLost, Proceed, Finish, Goto, leaseVars, TypeOK
<1>18. ASSUME NEW c \in Client, Refused(c) PROVE Stop(d)
  BY <1>18 DEF Refused, Proceed, Finish, Goto, leaseVars, TypeOK
<1>19. ASSUME NEW c \in Client, GiveBack(c) PROVE Stop(d)
  BY <1>19 DEF GiveBack, Proceed, Finish, Goto, leaseVars, TypeOK
<1>20. ASSUME NEW c \in Client, Record(c) PROVE Stop(d)
  BY <1>20 DEF Record, Proceed, Finish, Goto, leaseVars, TypeOK
<1>21. ASSUME NEW c \in Client, Crash(c) PROVE Stop(d)
  BY <1>21 DEF Crash, Proceed, Finish, Goto, leaseVars, TypeOK
<1>22. ASSUME NEW p \in Pid, ServerUp(p) PROVE Stop(d)
  BY <1>22 DEF ServerUp, Proceed, Finish, Goto, leaseVars, TypeOK
<1>23. ASSUME NEW p \in Pid, ProcessExits(p) PROVE Stop(d)
  BY <1>23 DEF ProcessExits, Proceed, Finish, Goto, leaseVars, TypeOK
<1>24. ASSUME NEW p \in Pid, ProcessReaped(p) PROVE Stop(d)
  BY <1>24 DEF ProcessReaped, Proceed, Finish, Goto, leaseVars, TypeOK
<1>25. ASSUME NEW p \in Pid, StrangerStarts(p) PROVE Stop(d)
  BY <1>25 DEF StrangerStarts, Proceed, Finish, Goto, leaseVars, TypeOK
<1>26. CASE LeasesReaped
  BY <1>26 DEF LeasesReaped, Proceed, Finish, Goto, leaseVars, TypeOK
<1>27. CASE TimePasses
  BY <1>27 DEF TimePasses, Proceed, Finish, Goto, leaseVars, TypeOK
<1>28. CASE Reboot
  BY <1>28 DEF Reboot, Proceed, Finish, Goto, leaseVars, TypeOK
<1>29. CASE UNCHANGED vars
  BY <1>29 DEF vars, leaseVars
<1>. QED
  BY <1>1, <1>2, <1>3, <1>4, <1>5, <1>6, <1>7, <1>8, <1>9, <1>10, <1>11, <1>12, <1>13, <1>14, <1>15,
     <1>16, <1>17, <1>18, <1>19, <1>20, <1>21, <1>22, <1>23, <1>24, <1>25, <1>26, <1>27, <1>28,
     <1>29 DEF Next, Step, Environment

-----------------------------------------------------------------------------
(* For any clients.                                                        *)

General == TypeOK /\ (\A c \in Client : Placed(c) /\ Attended(c)) /\ Times /\ NamesServers

\* It holds when the tables are empty, ...
LEMMA GeneralInit == Init => General
<1>. SUFFICES ASSUME Init PROVE General
  OBVIOUS
<1>. USE DEF Init, LeaseInit
<1>1. /\ 1 \in 1..MaxBoot /\ MaxTick[1] \in Nat /\ 0 \in 0..MaxTick[1] /\ 0 \in Start
  BY LeaseAssumption DEF Start, LeaseAssumption
<1>2. LeaseTypeOK
  BY <1>1 DEF LeaseTypeOK, Process, Gone
<1>3. TypeOK
  BY <1>2 DEF TypeOK, PC, NoJob, Job
<1>4. \A c \in Client : Placed(c) /\ Attended(c)
  BY DEF Placed, Attended, NoJob
<1>5. Times /\ NamesServers
  BY <1>1 DEF Times, NamesServers, Gone, NoJob
<1>. QED  BY <1>3, <1>4, <1>5 DEF General

\* ... and every step keeps it.
LEMMA GeneralAlways == Spec => []General
<1>1. General /\ [Next]_vars => General'
  BY TypeStep, PlacedStep, AttendedStep, TimesStep, NamesStep DEF General
<1>. QED  BY GeneralInit, <1>1, PTL DEF Spec

\* Processes, leases, locals, the row and the servers stay in the types Session.tla
\* declares for them.
THEOREM SessionTypes == Spec => []TypeOK
<1>1. General => TypeOK
  BY DEF General
<1>. QED  BY <1>1, GeneralAlways, PTL

\* A lease on a model that counts as alive is that of a server of that model,
\* whatever has happened to the process it was taken for: a pid used again, in this
\* boot or another one, does not inherit it.
THEOREM NothingInherited == Spec => []NoLeaseInherited
<1>1. General => NoLeaseInherited
  <2>. SUFFICES ASSUME General, NEW l \in leases, l.key \in Model, Alive(l)
                PROVE  server[l.pid] # NoServer /\ server[l.pid].model = l.key
    BY DEF NoLeaseInherited
  <2>1. Names(l, l.key)
    BY DEF General, NamesServers
  <2>2. l.boot = boot /\ l.start = StartTime(l.pid)
    BY <2>1 DEF Alive, Names, UnknownStart
  <2>. QED  BY <2>1, <2>2 DEF Names
<1>. QED  BY <1>1, GeneralAlways, PTL

\* Whoever stops the session signals a server or nobody: a row that outlived its
\* server, or a reboot, takes no stranger down.
THEOREM StrangersSpared == Spec => OnlyServersKilled
<1>1. General /\ [Next]_vars =>
        [\A c \in Client : pc[c] = "stop" /\ pc'[c] = "stopped" =>
           \A p \in Pid : procs'[p] # procs[p] => server[p] # NoServer]_vars
  <2>. SUFFICES ASSUME General, Next, NEW c \in Client, pc[c] = "stop", pc'[c] = "stopped",
                       NEW p \in Pid, procs'[p] # procs[p]
                PROVE  server[p] # NoServer
    OBVIOUS
  <2>1. Stop(c)
    BY StopOnly DEF General
  <2>2. /\ row \in SessionRow /\ procs' = IF Alive(row) THEN [procs EXCEPT ![row.pid].state = "zombie"] ELSE procs
    BY <2>1, Stopped DEF General
  <2>3. row.pid = p /\ Alive(row)
    BY <2>2 DEF General, TypeOK, LeaseTypeOK
  <2>4. Names(row, row.model)
    BY <2>2, IsSession DEF General, NamesServers
  <2>. QED  BY <2>3, <2>4 DEF Names, Alive, UnknownStart
<1>. QED  BY <1>1, GeneralAlways, PTL DEF Spec, OnlyServersKilled

-----------------------------------------------------------------------------
(* For one client that starts servers and loads adapters.                   *)

\* What has stopped stays so, and what is still running is what it was.
LEMMA AliveMoves ==
  ASSUME TypeOK, \A c \in Client : Placed(c) /\ Attended(c), Times, [Next]_vars,
         NEW r, NEW m, r.pid \in Pid, r.boot \in Nat, Names(r, m)
  PROVE  /\ Alive(r)' => Alive(r)
         /\ Alive(r) /\ ProcessAlive(r.pid)' => Alive(r)'
<1>1. Persists(r.pid)
  BY ProcessStep
<1>2. /\ procs[r.pid].state # "gone" => StartTime(r.pid) = procs[r.pid].start
      /\ procs'[r.pid].state # "gone" => StartTime(r.pid)' = procs'[r.pid].start
  BY DEF StartTime
<1>3. /\ boot \in Nat /\ tick \in Nat /\ r.start \in Nat /\ r.start # UnknownStart
      /\ r.boot <= boot /\ (r.boot = boot => r.start < tick)
      /\ procs[r.pid].state \in {"running", "zombie", "gone"}
  BY LeaseAssumption DEF Names, TypeOK, LeaseTypeOK, Start, Process, LeaseAssumption, UnknownStart
<1>4. CASE boot' = boot
  BY <1>1, <1>2, <1>3, <1>4 DEF Persists, Alive, ProcessAlive
<1>5. CASE boot' # boot
  BY <1>1, <1>3, <1>5 DEF Persists, Alive, ProcessAlive
<1>. QED  BY <1>4, <1>5

\* Sessions and leases on models name servers.
LEMMA KnownNames ==
  ASSUME TypeOK, NamesServers
  PROVE  /\ \A s \in Remembered : s \in SessionRow /\ s.pid \in Pid /\ s.boot \in Nat /\ Names(s, s.model)
         /\ row # NoSession => row \in Remembered
         /\ \A c \in Client : job[c].sess # NoSession => job[c].sess \in Remembered
<1>1. ASSUME NEW s \in Remembered PROVE s \in SessionRow
  BY JobHas DEF Remembered, TypeOK
<1>. QED  BY <1>1, IsSession DEF Remembered, NamesServers

\* What is buried or has failed goes on being dead.
LEMMA DeadStep ==
  ASSUME TypeOK, \A c \in Client : Placed(c) /\ Attended(c), Times, NamesServers,
         \A c \in Client : Dead(c), [Next]_vars
  PROVE  \A d \in Client : Dead(d)'
<1>k. ASSUME NEW s \in Remembered, ~Alive(s) PROVE ~Alive(s)'
  <2>1. s.pid \in Pid /\ s.boot \in Nat /\ Names(s, s.model)
    BY KnownNames
  <2>. QED  BY <2>1, <1>k, AliveMoves
<1>o. ASSUME NEW d \in Client, job'[d] = job[d], pc'[d] = pc[d] PROVE Dead(d)'
  <2>. SUFFICES ASSUME pc[d] \in {"bury", "stopped", "failed"} PROVE Dead(d)'
    BY <1>o DEF Dead
  <2>1. PICK s : s = job[d].sess
    OBVIOUS
  <2>2. s \in Remembered /\ ~Alive(s)
    BY <2>1, KnownNames DEF Placed, Dead
  <2>3. ~Alive(s)'
    BY <2>2, <1>k
  <2>. QED  BY <1>o, <2>1, <2>3 DEF Dead, Alive, ProcessAlive, StartTime
<1>h. ASSUME NEW c \in Client, \A d \in Client \ {c} : job'[d] = job[d] /\ pc'[d] = pc[d], Dead(c)'
      PROVE  \A d \in Client : Dead(d)'
  BY <1>o, <1>h
<1>g. ASSUME NEW c \in Client, \A d \in Client \ {c} : job'[d] = job[d] /\ pc'[d] = pc[d],
             pc'[c] \notin {"bury", "stopped", "failed"}
      PROVE  \A d \in Client : Dead(d)'
  <2>1. Dead(c)'
    BY <1>g DEF Dead
  <2>. QED  BY <1>g, <1>h, <2>1
<1>1. ASSUME NEW c \in Client, NEW o \in AllOps, NEW k \in Key \cup {NoPid}, Begin(c, o, k)
      PROVE  \A d \in Client : Dead(d)'
  <2>1. /\ \A d \in Client \ {c} : job'[d] = job[d] /\ pc'[d] = pc[d]
        /\ pc'[c] \notin {"bury", "stopped", "failed"}
    BY <1>1 DEF Begin, Proceed, Finish, Goto, TypeOK
  <2>. QED  BY <2>1, <1>g
<1>2. ASSUME NEW c \in Client, Look(c) PROVE \A d \in Client : Dead(d)'
  <2>1. PICK next, s :
          /\ Goes(c, next, s) /\ next \in {"idle", "bury", "launch", "touch", "stop", "acquire", "post"}
          /\ next = "bury" => ~Alive(row) /\ s.pid = row.pid /\ s.boot = row.boot /\ s.start = row.start
          /\ UNCHANGED <<boot, procs>>
    BY <1>2, Looked
  <2>2. /\ \A d \in Client \ {c} : job'[d] = job[d] /\ pc'[d] = pc[d]
        /\ pc'[c] = next /\ (next # "idle" => job'[c].sess = s)
    BY <2>1 DEF Goes, TypeOK, Job
  <2>3. CASE next # "bury"
    BY <2>1, <2>2, <2>3, <1>g
  <2>4. CASE next = "bury"
    <3>1. Dead(c)'
      BY <2>1, <2>2, <2>4 DEF Dead, Alive, ProcessAlive, StartTime
    <3>. QED  BY <2>2, <3>1, <1>h
  <2>. QED  BY <2>3, <2>4
<1>3. ASSUME NEW c \in Client, Bury(c) PROVE \A d \in Client : Dead(d)'
  <2>1. PICK next : Goes(c, next, NoSession) /\ next \in {"idle", "launch"}
    BY <1>3, Buried
  <2>2. /\ \A d \in Client \ {c} : job'[d] = job[d] /\ pc'[d] = pc[d]
        /\ pc'[c] \notin {"bury", "stopped", "failed"}
    BY <2>1 DEF Goes, TypeOK
  <2>. QED  BY <2>2, <1>g
<1>4. ASSUME NEW c \in Client, Stop(c) PROVE \A d \in Client : Dead(d)'
  <2>1. PICK s \in SessionRow :
          /\ Goes(c, "stopped", s) /\ row \in SessionRow
          /\ s.pid = row.pid /\ s.boot = row.boot /\ s.start = row.start
          /\ procs' = IF Alive(row) THEN [procs EXCEPT ![row.pid].state = "zombie"] ELSE procs
          /\ UNCHANGED boot
    BY <1>4, Stopped
  <2>2. /\ \A d \in Client \ {c} : job'[d] = job[d] /\ pc'[d] = pc[d]
        /\ job'[c].sess = s /\ row.pid \in Pid
    BY <2>1, IsSession DEF Goes, TypeOK, Job
  <2>3. ~Alive(s)'
    <3>1. CASE Alive(row)
      <4>1. procs'[row.pid].state = "zombie"
        BY <2>1, <2>2, <3>1 DEF TypeOK, LeaseTypeOK, Process
      <4>. QED  BY <2>1, <4>1 DEF Alive, ProcessAlive
    <3>2. CASE ~Alive(row)
      BY <2>1, <3>2 DEF Alive, ProcessAlive, StartTime
    <3>. QED  BY <3>1, <3>2
  <2>4. Dead(c)'
    BY <2>2, <2>3 DEF Dead, Alive, ProcessAlive, StartTime
  <2>. QED  BY <2>2, <2>4, <1>h
<1>5. ASSUME NEW c \in Client, NothingToStop(c) PROVE \A d \in Client : Dead(d)'
  <2>1. /\ \A d \in Client \ {c} : job'[d] = job[d] /\ pc'[d] = pc[d]
        /\ pc'[c] \notin {"bury", "stopped", "failed"}
    BY <1>5 DEF NothingToStop, Proceed, Finish, Goto, TypeOK, AfterStop
  <2>. QED  BY <2>1, <1>g
<1>6. ASSUME NEW c \in Client, CannotLaunch(c) PROVE \A d \in Client : Dead(d)'
  <2>1. /\ \A d \in Client \ {c} : job'[d] = job[d] /\ pc'[d] = pc[d]
        /\ pc'[c] \notin {"bury", "stopped", "failed"}
    BY <1>6 DEF CannotLaunch, Proceed, Finish, Goto, TypeOK
  <2>. QED  BY <2>1, <1>g
<1>7. ASSUME NEW c \in Client, NEW p \in Pid, Launch(c, p) PROVE \A d \in Client : Dead(d)'
  <2>1. /\ \A d \in Client \ {c} : job'[d] = job[d] /\ pc'[d] = pc[d]
        /\ pc'[c] \notin {"bury", "stopped", "failed"}
    BY <1>7 DEF Launch, Proceed, Finish, Goto, TypeOK
  <2>. QED  BY <2>1, <1>g
<1>8. ASSUME NEW c \in Client, NEW i \in LeaseId, LeaseWeights(c, i) PROVE \A d \in Client : Dead(d)'
  <2>1. /\ \A d \in Client \ {c} : job'[d] = job[d] /\ pc'[d] = pc[d]
        /\ pc'[c] \notin {"bury", "stopped", "failed"}
    BY <1>8 DEF LeaseWeights, Proceed, Finish, Goto, TypeOK
  <2>. QED  BY <2>1, <1>g
<1>9. ASSUME NEW c \in Client, NEW i \in LeaseId, LeaseAdapter(c, i) PROVE \A d \in Client : Dead(d)'
  <2>1. /\ \A d \in Client \ {c} : job'[d] = job[d] /\ pc'[d] = pc[d]
        /\ pc'[c] \notin {"bury", "stopped", "failed"}
    BY <1>9 DEF LeaseAdapter, Proceed, Finish, Goto, TypeOK
  <2>. QED  BY <2>1, <1>g
<1>10. ASSUME NEW c \in Client, SaveStarting(c) PROVE \A d \in Client : Dead(d)'
  <2>1. /\ \A d \in Client \ {c} : job'[d] = job[d] /\ pc'[d] = pc[d]
        /\ pc'[c] \notin {"bury", "stopped", "failed"}
    BY <1>10 DEF SaveStarting, Proceed, Finish, Goto, TypeOK
  <2>. QED  BY <2>1, <1>g
<1>11. ASSUME NEW c \in Client, StartFailed(c) PROVE \A d \in Client : Dead(d)'
  <2>1. /\ \A d \in Client \ {c} : job'[d] = job[d] /\ pc'[d] = pc[d]
        /\ job'[c] = job[c] /\ ~Alive(job[c].sess) /\ UNCHANGED <<boot, procs>>
    BY <1>11 DEF StartFailed, Proceed, Goto, TypeOK, leaseVars
  <2>2. Dead(c)'
    BY <2>1 DEF Dead, Alive, ProcessAlive, StartTime
  <2>. QED  BY <2>1, <2>2, <1>h
<1>12. ASSUME NEW c \in Client, ReleaseFailed(c) PROVE \A d \in Client : Dead(d)'
  <2>1. /\ \A d \in Client \ {c} : job'[d] = job[d] /\ pc'[d] = pc[d]
        /\ pc'[c] \notin {"bury", "stopped", "failed"}
    BY <1>12 DEF ReleaseFailed, Proceed, Finish, Goto, TypeOK
  <2>. QED  BY <2>1, <1>g
<1>13. ASSUME NEW c \in Client, StartReady(c) PROVE \A d \in Client : Dead(d)'
  <2>1. /\ \A d \in Client \ {c} : job'[d] = job[d] /\ pc'[d] = pc[d]
        /\ pc'[c] \notin {"bury", "stopped", "failed"}
    BY <1>13 DEF StartReady, Proceed, Finish, Goto, TypeOK
  <2>. QED  BY <2>1, <1>g
<1>14. ASSUME NEW c \in Client, StartTimedOut(c) PROVE \A d \in Client : Dead(d)'
  <2>1. /\ \A d \in Client \ {c} : job'[d] = job[d] /\ pc'[d] = pc[d]
        /\ pc'[c] \notin {"bury", "stopped", "failed"}
    BY <1>14 DEF StartTimedOut, Proceed, Finish, Goto, TypeOK
  <2>. QED  BY <2>1, <1>g
<1>15. ASSUME NEW c \in Client, Touch(c) PROVE \A d \in Client : Dead(d)'
  <2>1. /\ \A d \in Client \ {c} : job'[d] = job[d] /\ pc'[d] = pc[d]
        /\ pc'[c] \notin {"bury", "stopped", "failed"}
    BY <1>15 DEF Touch, Proceed, Finish, Goto, TypeOK
  <2>. QED  BY <2>1, <1>g
<1>16. ASSUME NEW c \in Client, NEW p \in Pid, Posted(c, p) PROVE \A d \in Client : Dead(d)'
  <2>1. /\ \A d \in Client \ {c} : job'[d] = job[d] /\ pc'[d] = pc[d]
        /\ pc'[c] \notin {"bury", "stopped", "failed"}
    BY <1>16 DEF Posted, Proceed, Finish, Goto, TypeOK
  <2>. QED  BY <2>1, <1>g
<1>17. ASSUME NEW c \in Client, NEW p \in Pid, AnswerLost(c, p) PROVE \A d \in Client : Dead(d)'
  <2>1. /\ \A d \in Client \ {c} : job'[d] = job[d] /\ pc'[d] = pc[d]
        /\ pc'[c] \notin {"bury", "stopped", "failed"}
    BY <1>17 DEF AnswerLost, Proceed, Finish, Goto, TypeOK
  <2>. QED  BY <2>1, <1>g
<1>18. ASSUME NEW c \in Client, Refused(c) PROVE \A d \in Client : Dead(d)'
  <2>1. /\ \A d \in Client \ {c} : job'[d] = job[d] /\ pc'[d] = pc[d]
        /\ pc'[c] \notin {"bury", "stopped", "failed"}
    BY <1>18 DEF Refused, Proceed, Finish, Goto, TypeOK
  <2>. QED  BY <2>1, <1>g
<1>19. ASSUME NEW c \in Client, GiveBack(c) PROVE \A d \in Client : Dead(d)'
  <2>1. /\ \A d \in Client \ {c} : job'[d] = job[d] /\ pc'[d] = pc[d]
        /\ pc'[c] \notin {"bury", "stopped", "failed"}
    BY <1>19 DEF GiveBack, Proceed, Finish, Goto, TypeOK
  <2>. QED  BY <2>1, <1>g
<1>20. ASSUME NEW c \in Client, Record(c) PROVE \A d \in Client : Dead(d)'
  <2>1. /\ \A d \in Client \ {c} : job'[d] = job[d] /\ pc'[d] = pc[d]
        /\ pc'[c] \notin {"bury", "stopped", "failed"}
    BY <1>20 DEF Record, Proceed, Finish, Goto, TypeOK
  <2>. QED  BY <2>1, <1>g
<1>21. ASSUME NEW c \in Client, Crash(c) PROVE \A d \in Client : Dead(d)'
  <2>1. /\ \A d \in Client \ {c} : job'[d] = job[d] /\ pc'[d] = pc[d]
        /\ pc'[c] \notin {"bury", "stopped", "failed"}
    BY <1>21 DEF Crash, Proceed, Finish, Goto, TypeOK
  <2>. QED  BY <2>1, <1>g
<1>22. ASSUME NEW p \in Pid, ServerUp(p) PROVE \A d \in Client : Dead(d)'
  <2>1. UNCHANGED <<pc, job>>
    BY <1>22 DEF ServerUp
  <2>. QED  BY <2>1, <1>o
<1>23. ASSUME NEW p \in Pid, ProcessExits(p) PROVE \A d \in Client : Dead(d)'
  <2>1. UNCHANGED <<pc, job>>
    BY <1>23 DEF ProcessExits
  <2>. QED  BY <2>1, <1>o
<1>24. ASSUME NEW p \in Pid, ProcessReaped(p) PROVE \A d \in Client : Dead(d)'
  <2>1. UNCHANGED <<pc, job>>
    BY <1>24 DEF ProcessReaped
  <2>. QED  BY <2>1, <1>o
<1>25. ASSUME NEW p \in Pid, StrangerStarts(p) PROVE \A d \in Client : Dead(d)'
  <2>1. UNCHANGED <<pc, job>>
    BY <1>25 DEF StrangerStarts
  <2>. QED  BY <2>1, <1>o
<1>26. CASE LeasesReaped
  <2>1. UNCHANGED <<pc, job>>
    BY <1>26 DEF LeasesReaped
  <2>. QED  BY <2>1, <1>o
<1>27. CASE TimePasses
  <2>1. UNCHANGED <<pc, job>>
    BY <1>27 DEF TimePasses
  <2>. QED  BY <2>1, <1>o
<1>28. CASE Reboot
  BY <1>28 DEF Reboot, Dead
<1>29. CASE UNCHANGED vars
  BY <1>29, <1>o DEF vars
<1>. QED
  BY <1>1, <1>2, <1>3, <1>4, <1>5, <1>6, <1>7, <1>8, <1>9, <1>10, <1>11, <1>12, <1>13, <1>14, <1>15,
     <1>16, <1>17, <1>18, <1>19, <1>20, <1>21, <1>22, <1>23, <1>24, <1>25, <1>26, <1>27, <1>28,
     <1>29 DEF Next, Step, Environment

\* All the others only look, stop and bury what is dead.
LEMMA OthersStep ==
  ASSUME NEW a \in Client, \A c \in Client \ {a} : Ops[c] \subseteq Idler, TypeOK,
         \A c \in Client \ {a} : Other(c), [Next]_vars
  PROVE  \A d \in Client \ {a} : Other(d)'
<1>h. ASSUME NEW c \in Client, \A d \in Client \ {c} : job'[d] = job[d] /\ pc'[d] = pc[d], c = a \/ Other(c)'
      PROVE  \A d \in Client \ {a} : Other(d)'
  BY <1>h DEF Other
<1>n. NoJob.op = "none" /\ NoJob.pid = NoPid /\ NoJob.lease = NoLease
  BY DEF NoJob
<1>1. ASSUME NEW c \in Client, NEW o \in AllOps, NEW k \in Key \cup {NoPid}, Begin(c, o, k)
      PROVE  \A d \in Client \ {a} : Other(d)'
  <2>1. /\ \A d \in Client \ {c} : job'[d] = job[d] /\ pc'[d] = pc[d]
        /\ pc'[c] \in {"look", "stop"} /\ o \in Ops[c]
        /\ job'[c].op = o /\ job'[c].pid = NoPid /\ job'[c].lease = NoLease
    BY <1>1 DEF Begin, Goto, TypeOK, NoJob
  <2>. QED  BY <2>1, <1>h DEF Other
<1>2. ASSUME NEW c \in Client, Look(c) PROVE \A d \in Client \ {a} : Other(d)'
  <2>1. PICK next, s :
          /\ Goes(c, next, s) /\ next \in {"idle", "bury", "launch", "touch", "stop", "acquire", "post"}
          /\ next = "launch" => job[c].op = "start"
          /\ next = "touch" => job[c].op \in {"start", "touch"}
          /\ next = "acquire" => job[c].op = "load"
          /\ next = "post" => job[c].op = "unload"
    BY <1>2, Looked
  <2>2. \A d \in Client \ {c} : job'[d] = job[d] /\ pc'[d] = pc[d]
    BY <2>1 DEF Goes, TypeOK
  <2>3. c = a \/ Other(c)'
    BY <2>1, <1>n DEF Goes, TypeOK, Job, Other, Idler
  <2>. QED  BY <2>2, <2>3, <1>h
<1>3. ASSUME NEW c \in Client, Bury(c) PROVE \A d \in Client \ {a} : Other(d)'
  <2>1. PICK next : Goes(c, next, NoSession) /\ next \in {"idle", "launch"} /\ (next = "launch" => job[c].op = "start")
    BY <1>3, Buried
  <2>2. \A d \in Client \ {c} : job'[d] = job[d] /\ pc'[d] = pc[d]
    BY <2>1 DEF Goes, TypeOK
  <2>3. c = a \/ Other(c)'
    BY <2>1, <1>n DEF Goes, TypeOK, Job, Other, Idler
  <2>. QED  BY <2>2, <2>3, <1>h
<1>4. ASSUME NEW c \in Client, Stop(c) PROVE \A d \in Client \ {a} : Other(d)'
  <2>1. PICK s : Goes(c, "stopped", s) /\ pc[c] = "stop"
    BY <1>4, Stopped
  <2>2. \A d \in Client \ {c} : job'[d] = job[d] /\ pc'[d] = pc[d]
    BY <2>1 DEF Goes, TypeOK
  <2>3. c = a \/ Other(c)'
    BY <2>1 DEF Goes, TypeOK, Job, Other
  <2>. QED  BY <2>2, <2>3, <1>h
<1>5. ASSUME NEW c \in Client, NothingToStop(c) PROVE \A d \in Client \ {a} : Other(d)'
  <2>1. \A d \in Client \ {c} : job'[d] = job[d] /\ pc'[d] = pc[d]
    BY <1>5 DEF NothingToStop, Proceed, Finish, Goto, TypeOK, AfterStop
  <2>2. c = a \/ Other(c)'
    BY <1>5, <1>n DEF NothingToStop, Proceed, Finish, Goto, TypeOK, Job, Other, Idler, AfterStop
  <2>. QED  BY <2>1, <2>2, <1>h
<1>6. ASSUME NEW c \in Client, CannotLaunch(c) PROVE \A d \in Client \ {a} : Other(d)'
  <2>1. \A d \in Client \ {c} : job'[d] = job[d] /\ pc'[d] = pc[d]
    BY <1>6 DEF CannotLaunch, Proceed, Finish, Goto, TypeOK
  <2>2. c = a \/ Other(c)'
    BY <1>6, <1>n DEF CannotLaunch, Proceed, Finish, Goto, TypeOK, Job, Other, Idler
  <2>. QED  BY <2>1, <2>2, <1>h
<1>7. ASSUME NEW c \in Client, NEW p \in Pid, Launch(c, p) PROVE \A d \in Client \ {a} : Other(d)'
  <2>1. \A d \in Client \ {c} : job'[d] = job[d] /\ pc'[d] = pc[d]
    BY <1>7 DEF Launch, Proceed, Finish, Goto, TypeOK
  <2>2. c = a \/ Other(c)'
    BY <1>7, <1>n DEF Launch, Proceed, Finish, Goto, TypeOK, Job, Other, Idler
  <2>. QED  BY <2>1, <2>2, <1>h
<1>8. ASSUME NEW c \in Client, NEW i \in LeaseId, LeaseWeights(c, i)
      PROVE  \A d \in Client \ {a} : Other(d)'
  <2>1. \A d \in Client \ {c} : job'[d] = job[d] /\ pc'[d] = pc[d]
    BY <1>8 DEF LeaseWeights, Proceed, Finish, Goto, TypeOK
  <2>2. c = a \/ Other(c)'
    BY <1>8, <1>n DEF LeaseWeights, Proceed, Finish, Goto, TypeOK, Job, Other, Idler
  <2>. QED  BY <2>1, <2>2, <1>h
<1>9. ASSUME NEW c \in Client, NEW i \in LeaseId, LeaseAdapter(c, i)
      PROVE  \A d \in Client \ {a} : Other(d)'
  <2>1. \A d \in Client \ {c} : job'[d] = job[d] /\ pc'[d] = pc[d]
    BY <1>9 DEF LeaseAdapter, Proceed, Finish, Goto, TypeOK
  <2>2. c = a \/ Other(c)'
    BY <1>9, <1>n DEF LeaseAdapter, Proceed, Finish, Goto, TypeOK, Job, Other, Idler
  <2>. QED  BY <2>1, <2>2, <1>h
<1>10. ASSUME NEW c \in Client, SaveStarting(c) PROVE \A d \in Client \ {a} : Other(d)'
  <2>1. \A d \in Client \ {c} : job'[d] = job[d] /\ pc'[d] = pc[d]
    BY <1>10 DEF SaveStarting, Proceed, Finish, Goto, TypeOK
  <2>2. c = a \/ Other(c)'
    BY <1>10, <1>n DEF SaveStarting, Proceed, Finish, Goto, TypeOK, Job, Other, Idler
  <2>. QED  BY <2>1, <2>2, <1>h
<1>11. ASSUME NEW c \in Client, StartFailed(c) PROVE \A d \in Client \ {a} : Other(d)'
  <2>1. \A d \in Client \ {c} : job'[d] = job[d] /\ pc'[d] = pc[d]
    BY <1>11 DEF StartFailed, Proceed, Finish, Goto, TypeOK
  <2>2. c = a \/ Other(c)'
    BY <1>11, <1>n DEF StartFailed, Proceed, Finish, Goto, TypeOK, Job, Other, Idler
  <2>. QED  BY <2>1, <2>2, <1>h
<1>12. ASSUME NEW c \in Client, ReleaseFailed(c) PROVE \A d \in Client \ {a} : Other(d)'
  <2>1. \A d \in Client \ {c} : job'[d] = job[d] /\ pc'[d] = pc[d]
    BY <1>12 DEF ReleaseFailed, Proceed, Finish, Goto, TypeOK
  <2>2. c = a \/ Other(c)'
    BY <1>12, <1>n DEF ReleaseFailed, Proceed, Finish, Goto, TypeOK, Job, Other, Idler
  <2>. QED  BY <2>1, <2>2, <1>h
<1>13. ASSUME NEW c \in Client, StartReady(c) PROVE \A d \in Client \ {a} : Other(d)'
  <2>1. \A d \in Client \ {c} : job'[d] = job[d] /\ pc'[d] = pc[d]
    BY <1>13 DEF StartReady, Proceed, Finish, Goto, TypeOK
  <2>2. c = a \/ Other(c)'
    BY <1>13, <1>n DEF StartReady, Proceed, Finish, Goto, TypeOK, Job, Other, Idler
  <2>. QED  BY <2>1, <2>2, <1>h
<1>14. ASSUME NEW c \in Client, StartTimedOut(c) PROVE \A d \in Client \ {a} : Other(d)'
  <2>1. \A d \in Client \ {c} : job'[d] = job[d] /\ pc'[d] = pc[d]
    BY <1>14 DEF StartTimedOut, Proceed, Finish, Goto, TypeOK
  <2>2. c = a \/ Other(c)'
    BY <1>14, <1>n DEF StartTimedOut, Proceed, Finish, Goto, TypeOK, Job, Other, Idler
  <2>. QED  BY <2>1, <2>2, <1>h
<1>15. ASSUME NEW c \in Client, Touch(c) PROVE \A d \in Client \ {a} : Other(d)'
  <2>1. \A d \in Client \ {c} : job'[d] = job[d] /\ pc'[d] = pc[d]
    BY <1>15 DEF Touch, Proceed, Finish, Goto, TypeOK
  <2>2. c = a \/ Other(c)'
    BY <1>15, <1>n DEF Touch, Proceed, Finish, Goto, TypeOK, Job, Other, Idler
  <2>. QED  BY <2>1, <2>2, <1>h
<1>16. ASSUME NEW c \in Client, NEW p \in Pid, Posted(c, p) PROVE \A d \in Client \ {a} : Other(d)'
  <2>1. \A d \in Client \ {c} : job'[d] = job[d] /\ pc'[d] = pc[d]
    BY <1>16 DEF Posted, Proceed, Finish, Goto, TypeOK
  <2>2. c = a \/ Other(c)'
    BY <1>16, <1>n DEF Posted, Proceed, Finish, Goto, TypeOK, Job, Other, Idler
  <2>. QED  BY <2>1, <2>2, <1>h
<1>17. ASSUME NEW c \in Client, NEW p \in Pid, AnswerLost(c, p) PROVE \A d \in Client \ {a} : Other(d)'
  <2>1. \A d \in Client \ {c} : job'[d] = job[d] /\ pc'[d] = pc[d]
    BY <1>17 DEF AnswerLost, Proceed, Finish, Goto, TypeOK
  <2>2. c = a \/ Other(c)'
    BY <1>17, <1>n DEF AnswerLost, Proceed, Finish, Goto, TypeOK, Job, Other, Idler
  <2>. QED  BY <2>1, <2>2, <1>h
<1>18. ASSUME NEW c \in Client, Refused(c) PROVE \A d \in Client \ {a} : Other(d)'
  <2>1. \A d \in Client \ {c} : job'[d] = job[d] /\ pc'[d] = pc[d]
    BY <1>18 DEF Refused, Proceed, Finish, Goto, TypeOK
  <2>2. c = a \/ Other(c)'
    BY <1>18, <1>n DEF Refused, Proceed, Finish, Goto, TypeOK, Job, Other, Idler
  <2>. QED  BY <2>1, <2>2, <1>h
<1>19. ASSUME NEW c \in Client, GiveBack(c) PROVE \A d \in Client \ {a} : Other(d)'
  <2>1. \A d \in Client \ {c} : job'[d] = job[d] /\ pc'[d] = pc[d]
    BY <1>19 DEF GiveBack, Proceed, Finish, Goto, TypeOK
  <2>2. c = a \/ Other(c)'
    BY <1>19, <1>n DEF GiveBack, Proceed, Finish, Goto, TypeOK, Job, Other, Idler
  <2>. QED  BY <2>1, <2>2, <1>h
<1>20. ASSUME NEW c \in Client, Record(c) PROVE \A d \in Client \ {a} : Other(d)'
  <2>1. \A d \in Client \ {c} : job'[d] = job[d] /\ pc'[d] = pc[d]
    BY <1>20 DEF Record, Proceed, Finish, Goto, TypeOK
  <2>2. c = a \/ Other(c)'
    BY <1>20, <1>n DEF Record, Proceed, Finish, Goto, TypeOK, Job, Other, Idler
  <2>. QED  BY <2>1, <2>2, <1>h
<1>21. ASSUME NEW c \in Client, Crash(c) PROVE \A d \in Client \ {a} : Other(d)'
  <2>1. \A d \in Client \ {c} : job'[d] = job[d] /\ pc'[d] = pc[d]
    BY <1>21 DEF Crash, Proceed, Finish, Goto, TypeOK
  <2>2. c = a \/ Other(c)'
    BY <1>21, <1>n DEF Crash, Proceed, Finish, Goto, TypeOK, Job, Other, Idler
  <2>. QED  BY <2>1, <2>2, <1>h
<1>22. ASSUME NEW p \in Pid, ServerUp(p) PROVE \A d \in Client \ {a} : Other(d)'
  BY <1>22 DEF ServerUp, Other
<1>23. ASSUME NEW p \in Pid, ProcessExits(p) PROVE \A d \in Client \ {a} : Other(d)'
  BY <1>23 DEF ProcessExits, Other
<1>24. ASSUME NEW p \in Pid, ProcessReaped(p) PROVE \A d \in Client \ {a} : Other(d)'
  BY <1>24 DEF ProcessReaped, Other
<1>25. ASSUME NEW p \in Pid, StrangerStarts(p) PROVE \A d \in Client \ {a} : Other(d)'
  BY <1>25 DEF StrangerStarts, Other
<1>26. CASE LeasesReaped
  BY <1>26 DEF LeasesReaped, Other
<1>27. CASE TimePasses
  BY <1>27 DEF TimePasses, Other
<1>28. CASE Reboot
  BY <1>28, <1>n DEF Reboot, Other
<1>29. CASE UNCHANGED vars
  BY <1>29 DEF vars, Other
<1>. QED
  BY <1>1, <1>2, <1>3, <1>4, <1>5, <1>6, <1>7, <1>8, <1>9, <1>10, <1>11, <1>12, <1>13, <1>14, <1>15,
     <1>16, <1>17, <1>18, <1>19, <1>20, <1>21, <1>22, <1>23, <1>24, <1>25, <1>26, <1>27, <1>28,
     <1>29 DEF Next, Step, Environment

\* Whatever runs with somebody to look after it did so before, or was just launched.
LEMMA RanStep ==
  ASSUME TypeOK, \A c \in Client : Placed(c) /\ Attended(c), Times, NEW q \in Pid, [Next]_vars
  PROVE  Ran(q)
<1>s. server[q] \in Server \cup {NoServer} /\ procs[q].state \in {"running", "zombie", "gone"}
  BY DEF TypeOK, LeaseTypeOK, Process
<1>r. ASSUME procs'[q].state = "running" => procs[q].state = "running", server'[q] = server[q] PROVE Ran(q)
  BY <1>r DEF Ran, Minded, Running, ProcessAlive
<1>1. ASSUME NEW c \in Client, NEW o \in AllOps, NEW k \in Key \cup {NoPid}, Begin(c, o, k) PROVE Ran(q)
  BY <1>1, <1>r DEF Begin, leaseVars, Reap
<1>2. ASSUME NEW c \in Client, Look(c) PROVE Ran(q)
  BY <1>2, Looked, <1>r
<1>3. ASSUME NEW c \in Client, Bury(c) PROVE Ran(q)
  BY <1>3, Buried, <1>r
<1>4. ASSUME NEW c \in Client, Stop(c) PROVE Ran(q)
  <2>1. /\ procs' = IF Alive(row) THEN [procs EXCEPT ![row.pid].state = "zombie"] ELSE procs
        /\ UNCHANGED server
    BY <1>4, Stopped
  <2>2. procs'[q].state = "running" => procs[q].state = "running"
    BY <2>1 DEF TypeOK, LeaseTypeOK, Process
  <2>. QED  BY <2>1, <2>2, <1>r
<1>5. ASSUME NEW c \in Client, NothingToStop(c) PROVE Ran(q)
  BY <1>5, <1>r DEF NothingToStop, leaseVars, Reap
<1>6. ASSUME NEW c \in Client, CannotLaunch(c) PROVE Ran(q)
  BY <1>6, <1>r DEF CannotLaunch, leaseVars, Reap
<1>7. ASSUME NEW c \in Client, NEW p \in Pid, Launch(c, p) PROVE Ran(q)
  BY <1>7 DEF Launch, Spawned, Ran, Minded, Running, ProcessAlive, TypeOK, LeaseTypeOK
<1>8. ASSUME NEW c \in Client, NEW i \in LeaseId, LeaseWeights(c, i) PROVE Ran(q)
  <2>. DEFINE p == job[c].pid
  <2>1. p \in Pid /\ server[p] \in Server /\ server' = [server EXCEPT ![p].held = TRUE] /\ UNCHANGED procs
    BY <1>8, Weighed
  <2>2. server'[p] = [server[p] EXCEPT !.held = TRUE] /\ [server[p] EXCEPT !.held = TRUE].orphan = server[p].orphan
    BY <2>1 DEF TypeOK, Server
  <2>. QED  BY <2>1, <2>2, ServerChanged DEF Ran, Minded, Running, ProcessAlive, TypeOK
<1>9. ASSUME NEW c \in Client, NEW i \in LeaseId, LeaseAdapter(c, i) PROVE Ran(q)
  BY <1>9, <1>r DEF LeaseAdapter, leaseVars, Reap
<1>10. ASSUME NEW c \in Client, SaveStarting(c) PROVE Ran(q)
  BY <1>10, <1>r DEF SaveStarting, leaseVars, Reap
<1>11. ASSUME NEW c \in Client, StartFailed(c) PROVE Ran(q)
  BY <1>11, <1>r DEF StartFailed, leaseVars, Reap
<1>12. ASSUME NEW c \in Client, ReleaseFailed(c) PROVE Ran(q)
  BY <1>12, <1>r DEF ReleaseFailed, leaseVars, Reap
<1>13. ASSUME NEW c \in Client, StartReady(c) PROVE Ran(q)
  BY <1>13, <1>r DEF StartReady, leaseVars, Reap
<1>14. ASSUME NEW c \in Client, StartTimedOut(c) PROVE Ran(q)
  BY <1>14, <1>r DEF StartTimedOut, leaseVars, Reap
<1>15. ASSUME NEW c \in Client, Touch(c) PROVE Ran(q)
  BY <1>15, <1>r DEF Touch, leaseVars, Reap
<1>16. ASSUME NEW c \in Client, NEW p \in Pid, Posted(c, p) PROVE Ran(q)
  <2>1. p \in Pid /\ server[p] \in Server /\ UNCHANGED procs
    BY <1>16 DEF Posted, Answering, Running, TypeOK, leaseVars
  <2>2. PICK A, B : server' = [server EXCEPT ![p] = [server[p] EXCEPT !.adapters = A, !.lost = B]]
    BY <1>16 DEF Posted
  <2>3. server'[p].orphan = server[p].orphan
    BY <2>1, <2>2 DEF TypeOK, Server
  <2>. QED  BY <2>1, <2>2, <2>3, ServerChanged DEF Ran, Minded, Running, ProcessAlive, TypeOK
<1>17. ASSUME NEW c \in Client, NEW p \in Pid, AnswerLost(c, p) PROVE Ran(q)
  <2>1. p \in Pid /\ server[p] \in Server /\ UNCHANGED procs
    BY <1>17 DEF AnswerLost, Answering, Running, TypeOK, leaseVars
  <2>2. PICK A, B : server' = [server EXCEPT ![p] = [server[p] EXCEPT !.adapters = A, !.lost = B]]
    BY <1>17 DEF AnswerLost
  <2>3. server'[p].orphan = server[p].orphan
    BY <2>1, <2>2 DEF TypeOK, Server
  <2>. QED  BY <2>1, <2>2, <2>3, ServerChanged DEF Ran, Minded, Running, ProcessAlive, TypeOK
<1>18. ASSUME NEW c \in Client, Refused(c) PROVE Ran(q)
  BY <1>18, <1>r DEF Refused, leaseVars, Reap
<1>19. ASSUME NEW c \in Client, GiveBack(c) PROVE Ran(q)
  BY <1>19, <1>r DEF GiveBack, leaseVars, Reap
<1>20. ASSUME NEW c \in Client, Record(c) PROVE Ran(q)
  BY <1>20, <1>r DEF Record, leaseVars, Reap
<1>21. ASSUME NEW c \in Client, Crash(c) PROVE Ran(q)
  <2>1. /\ UNCHANGED procs
        /\ \/ server' = server
           \/ \E p \in Pid : server[p] \in Server /\ server' = [server EXCEPT ![p] = [server[p] EXCEPT !.orphan = TRUE]]
    BY <1>21, JobHas DEF Crash, Placed, Attended, TypeOK, leaseVars
  <2>2. CASE server' = server
    BY <2>1, <2>2, <1>r
  <2>3. CASE server' # server
    <3>1. PICK p \in Pid : server[p] \in Server /\ server' = [server EXCEPT ![p] = [server[p] EXCEPT !.orphan = TRUE]]
      BY <2>1, <2>3
    <3>2. server'[p] = [server[p] EXCEPT !.orphan = TRUE] /\ [server[p] EXCEPT !.orphan = TRUE].orphan = TRUE
      BY <3>1 DEF TypeOK, Server
    <3>. QED  BY <2>1, <3>1, <3>2 DEF Ran, Minded, Running, ProcessAlive, TypeOK
  <2>. QED  BY <2>2, <2>3
<1>22. ASSUME NEW p \in Pid, ServerUp(p) PROVE Ran(q)
  <2>1. server[p] \in Server /\ server' = [server EXCEPT ![p].up = TRUE] /\ UNCHANGED procs
    BY <1>22 DEF ServerUp, Running, leaseVars, TypeOK
  <2>2. server'[p] = [server[p] EXCEPT !.up = TRUE] /\ [server[p] EXCEPT !.up = TRUE].orphan = server[p].orphan
    BY <2>1 DEF TypeOK, Server
  <2>. QED  BY <2>1, <2>2, ServerChanged DEF Ran, Minded, Running, ProcessAlive, TypeOK
<1>23. ASSUME NEW p \in Pid, ProcessExits(p) PROVE Ran(q)
  BY <1>23, <1>r DEF ProcessExits, Exited, TypeOK, LeaseTypeOK
<1>24. ASSUME NEW p \in Pid, ProcessReaped(p) PROVE Ran(q)
  BY <1>24 DEF ProcessReaped, WaitedFor, Gone, Ran, Minded, Running, ProcessAlive, TypeOK,
     LeaseTypeOK
<1>25. ASSUME NEW p \in Pid, StrangerStarts(p) PROVE Ran(q)
  BY <1>25 DEF StrangerStarts, Spawned, Times, Ran, Minded, Running, ProcessAlive, TypeOK,
     LeaseTypeOK
<1>26. CASE LeasesReaped
  BY <1>26, <1>r DEF LeasesReaped, leaseVars, Reap
<1>27. CASE TimePasses
  BY <1>27, <1>r DEF TimePasses, leaseVars, Reap
<1>28. CASE Reboot
  BY <1>28 DEF Reboot, Ran, Minded, Running
<1>29. CASE UNCHANGED vars
  BY <1>29, <1>r DEF vars, leaseVars
<1>. QED
  BY <1>1, <1>2, <1>3, <1>4, <1>5, <1>6, <1>7, <1>8, <1>9, <1>10, <1>11, <1>12, <1>13, <1>14, <1>15,
     <1>16, <1>17, <1>18, <1>19, <1>20, <1>21, <1>22, <1>23, <1>24, <1>25, <1>26, <1>27, <1>28,
     <1>29 DEF Next, Step, Environment

\* The row is what the starter has read.
LEMMA MineStep ==
  ASSUME TypeOK, \A c \in Client : Placed(c) /\ Attended(c), Times, NEW a \in Client,
         \A c \in Client \ {a} : Ops[c] \subseteq Idler, \A c \in Client \ {a} : Other(c), Mine(a),
         [Next]_vars
  PROVE  Mine(a)'
<1>u. ASSUME row' \in {row, NoSession}, job'[a] = job[a], pc'[a] = pc[a] PROVE Mine(a)'
  BY <1>u DEF Mine
<1>v. ASSUME pc'[a] \notin {"save", "wait", "touch", "acquire", "post", "giveback", "record"} PROVE Mine(a)'
  BY <1>v DEF Mine
<1>w. ASSUME UNCHANGED row, job'[a].sess = job[a].sess,
             pc[a] \in {"wait", "touch", "acquire", "post", "giveback", "record"} PROVE Mine(a)'
  BY <1>w DEF Mine
<1>1. ASSUME NEW c \in Client, NEW o \in AllOps, NEW k \in Key \cup {NoPid}, Begin(c, o, k)
      PROVE  Mine(a)'
  <2>1. CASE c # a
    BY <1>1, <2>1, <1>u DEF Begin, Proceed, Finish, Goto, TypeOK, Other
  <2>2. CASE c = a
    BY <1>1, <2>2, <1>v DEF Begin, Proceed, Finish, Goto, TypeOK
  <2>. QED  BY <2>1, <2>2
<1>2. ASSUME NEW c \in Client, Look(c) PROVE Mine(a)'
  <2>1. PICK next, s :
          /\ Goes(c, next, s) /\ next \in {"idle", "bury", "launch", "touch", "stop", "acquire", "post"}
          /\ next \in {"touch", "acquire", "post"} =>
               /\ row # NoSession /\ row.state \in Live /\ s.state = row.state
               /\ s.pid = row.pid /\ s.boot = row.boot /\ s.start = row.start
          /\ UNCHANGED row
    BY <1>2, Looked
  <2>2. CASE c # a
    BY <2>1, <2>2, <1>u DEF Goes, TypeOK
  <2>3. CASE c = a
    BY <2>1, <2>3 DEF Goes, TypeOK, Job, Mine, Same
  <2>. QED  BY <2>2, <2>3
<1>3. ASSUME NEW c \in Client, Bury(c) PROVE Mine(a)'
  <2>1. PICK next :
          /\ Goes(c, next, NoSession) /\ next \in {"idle", "launch"} /\ row' \in {row, NoSession}
    BY <1>3, Buried
  <2>2. CASE c # a
    BY <2>1, <2>2, <1>u DEF Goes, TypeOK
  <2>3. CASE c = a
    BY <2>1, <2>3, <1>v DEF Goes, TypeOK
  <2>. QED  BY <2>2, <2>3
<1>4. ASSUME NEW c \in Client, Stop(c) PROVE Mine(a)'
  <2>1. PICK s : Goes(c, "stopped", s) /\ UNCHANGED row
    BY <1>4, Stopped
  <2>2. CASE c # a
    BY <2>1, <2>2, <1>u DEF Goes, TypeOK
  <2>3. CASE c = a
    BY <2>1, <2>3, <1>v DEF Goes, TypeOK
  <2>. QED  BY <2>2, <2>3
<1>5. ASSUME NEW c \in Client, NothingToStop(c) PROVE Mine(a)'
  <2>1. CASE c # a
    BY <1>5, <2>1, <1>u DEF NothingToStop, Proceed, Finish, Goto, TypeOK, Other, AfterStop
  <2>2. CASE c = a
    BY <1>5, <2>2, <1>v DEF NothingToStop, Proceed, Finish, Goto, TypeOK, AfterStop
  <2>. QED  BY <2>1, <2>2
<1>6. ASSUME NEW c \in Client, CannotLaunch(c) PROVE Mine(a)'
  <2>1. CASE c # a
    BY <1>6, <2>1, <1>u DEF CannotLaunch, Proceed, Finish, Goto, TypeOK, Other
  <2>2. CASE c = a
    BY <1>6, <2>2, <1>v DEF CannotLaunch, Proceed, Finish, Goto, TypeOK
  <2>. QED  BY <2>1, <2>2
<1>7. ASSUME NEW c \in Client, NEW p \in Pid, Launch(c, p) PROVE Mine(a)'
  <2>1. CASE c # a
    BY <1>7, <2>1, <1>u DEF Launch, Proceed, Finish, Goto, TypeOK, Other
  <2>2. CASE c = a
    BY <1>7, <2>2, <1>v DEF Launch, Proceed, Finish, Goto, TypeOK
  <2>. QED  BY <2>1, <2>2
<1>8. ASSUME NEW c \in Client, NEW i \in LeaseId, LeaseWeights(c, i) PROVE Mine(a)'
  <2>1. PICK s \in SessionRow : Goes(c, "save", s) /\ pc[c] = "lease" /\ s.state = "starting" /\ UNCHANGED row
    BY <1>8, Weighed
  <2>2. c = a
    BY <2>1 DEF Other
  <2>. QED  BY <2>1, <2>2 DEF Goes, TypeOK, Job, Mine, Live
<1>9. ASSUME NEW c \in Client, NEW i \in LeaseId, LeaseAdapter(c, i) PROVE Mine(a)'
  <2>1. CASE c # a
    BY <1>9, <2>1, <1>u DEF LeaseAdapter, Proceed, Finish, Goto, TypeOK, Other
  <2>2. CASE c = a
    BY <1>9, <2>2, <1>v, <1>w DEF LeaseAdapter, Proceed, Finish, Goto, TypeOK, Job
  <2>. QED  BY <2>1, <2>2
<1>10. ASSUME NEW c \in Client, SaveStarting(c) PROVE Mine(a)'
  <2>1. /\ pc[c] = "save" /\ (pc'[c] = "idle" \/ (pc'[c] = "wait" /\ job'[c] = job[c]))
    BY <1>10 DEF SaveStarting, Proceed, Finish, Goto, TypeOK
  <2>2. c = a
    BY <2>1 DEF Other
  <2>3. Like(row', job[c].sess)
    BY <1>10, Wrote
  <2>. QED  BY <2>1, <2>2, <2>3 DEF Mine, Like, Same
<1>11. ASSUME NEW c \in Client, StartFailed(c) PROVE Mine(a)'
  <2>1. CASE c # a
    BY <1>11, <2>1, <1>u DEF StartFailed, Proceed, Finish, Goto, TypeOK, Other
  <2>2. CASE c = a
    BY <1>11, <2>2, <1>v DEF StartFailed, Proceed, Finish, Goto, TypeOK
  <2>. QED  BY <2>1, <2>2
<1>12. ASSUME NEW c \in Client, ReleaseFailed(c) PROVE Mine(a)'
  <2>1. CASE c # a
    BY <1>12, <2>1, <1>u DEF ReleaseFailed, Proceed, Finish, Goto, TypeOK, Other
  <2>2. CASE c = a
    BY <1>12, <2>2, <1>v DEF ReleaseFailed, Proceed, Finish, Goto, TypeOK
  <2>. QED  BY <2>1, <2>2
<1>13. ASSUME NEW c \in Client, StartReady(c) PROVE Mine(a)'
  <2>1. CASE c # a
    BY <1>13, <2>1, <1>u DEF StartReady, Proceed, Finish, Goto, TypeOK, Other
  <2>2. CASE c = a
    BY <1>13, <2>2, <1>v DEF StartReady, Proceed, Finish, Goto, TypeOK
  <2>. QED  BY <2>1, <2>2
<1>14. ASSUME NEW c \in Client, StartTimedOut(c) PROVE Mine(a)'
  <2>1. CASE c # a
    BY <1>14, <2>1, <1>u DEF StartTimedOut, Proceed, Finish, Goto, TypeOK, Other
  <2>2. CASE c = a
    BY <1>14, <2>2, <1>v DEF StartTimedOut, Proceed, Finish, Goto, TypeOK
  <2>. QED  BY <2>1, <2>2
<1>15. ASSUME NEW c \in Client, Touch(c) PROVE Mine(a)'
  <2>1. CASE c # a
    BY <1>15, <2>1, <1>u DEF Touch, Proceed, Finish, Goto, TypeOK, Other
  <2>2. CASE c = a
    BY <1>15, <2>2, <1>v DEF Touch, Proceed, Finish, Goto, TypeOK
  <2>. QED  BY <2>1, <2>2
<1>16. ASSUME NEW c \in Client, NEW p \in Pid, Posted(c, p) PROVE Mine(a)'
  <2>1. CASE c # a
    BY <1>16, <2>1, <1>u DEF Posted, Proceed, Finish, Goto, TypeOK, Other
  <2>2. CASE c = a
    BY <1>16, <2>2, <1>v, <1>w DEF Posted, Proceed, Finish, Goto, TypeOK, Job
  <2>. QED  BY <2>1, <2>2
<1>17. ASSUME NEW c \in Client, NEW p \in Pid, AnswerLost(c, p) PROVE Mine(a)'
  <2>1. CASE c # a
    BY <1>17, <2>1, <1>u DEF AnswerLost, Proceed, Finish, Goto, TypeOK, Other
  <2>2. CASE c = a
    BY <1>17, <2>2, <1>v, <1>w DEF AnswerLost, Proceed, Finish, Goto, TypeOK, Job
  <2>. QED  BY <2>1, <2>2
<1>18. ASSUME NEW c \in Client, Refused(c) PROVE Mine(a)'
  <2>1. CASE c # a
    BY <1>18, <2>1, <1>u DEF Refused, Proceed, Finish, Goto, TypeOK, Other
  <2>2. CASE c = a
    BY <1>18, <2>2, <1>v, <1>w DEF Refused, Proceed, Finish, Goto, TypeOK, Job
  <2>. QED  BY <2>1, <2>2
<1>19. ASSUME NEW c \in Client, GiveBack(c) PROVE Mine(a)'
  <2>1. CASE c # a
    BY <1>19, <2>1, <1>u DEF GiveBack, Proceed, Finish, Goto, TypeOK, Other
  <2>2. CASE c = a
    BY <1>19, <2>2, <1>v DEF GiveBack, Proceed, Finish, Goto, TypeOK
  <2>. QED  BY <2>1, <2>2
<1>20. ASSUME NEW c \in Client, Record(c) PROVE Mine(a)'
  <2>1. CASE c # a
    BY <1>20, <2>1, <1>u DEF Record, Proceed, Finish, Goto, TypeOK, Other
  <2>2. CASE c = a
    BY <1>20, <2>2, <1>v DEF Record, Proceed, Finish, Goto, TypeOK
  <2>. QED  BY <2>1, <2>2
<1>21. ASSUME NEW c \in Client, Crash(c) PROVE Mine(a)'
  <2>1. CASE c # a
    BY <1>21, <2>1, <1>u DEF Crash, Proceed, Finish, Goto, TypeOK, Other
  <2>2. CASE c = a
    BY <1>21, <2>2, <1>v DEF Crash, Proceed, Finish, Goto, TypeOK
  <2>. QED  BY <2>1, <2>2
<1>22. ASSUME NEW p \in Pid, ServerUp(p) PROVE Mine(a)'
  BY <1>22, <1>u DEF ServerUp, Mine
<1>23. ASSUME NEW p \in Pid, ProcessExits(p) PROVE Mine(a)'
  BY <1>23, <1>u DEF ProcessExits, Mine
<1>24. ASSUME NEW p \in Pid, ProcessReaped(p) PROVE Mine(a)'
  BY <1>24, <1>u DEF ProcessReaped, Mine
<1>25. ASSUME NEW p \in Pid, StrangerStarts(p) PROVE Mine(a)'
  BY <1>25, <1>u DEF StrangerStarts, Mine
<1>26. CASE LeasesReaped
  BY <1>26, <1>u DEF LeasesReaped, Mine
<1>27. CASE TimePasses
  <2>1. /\ UNCHANGED <<pc, job>> /\ row # NoSession
        /\ row'.pid = row.pid /\ row'.boot = row.boot /\ row'.start = row.start
    BY <1>27 DEF TimePasses, TypeOK, SessionRow
  <2>. QED  BY <2>1 DEF Mine, Same
<1>28. CASE Reboot
  BY <1>28, <1>v DEF Reboot
<1>29. CASE UNCHANGED vars
  BY <1>29, <1>u DEF vars
<1>. QED
  BY <1>1, <1>2, <1>3, <1>4, <1>5, <1>6, <1>7, <1>8, <1>9, <1>10, <1>11, <1>12, <1>13, <1>14, <1>15,
     <1>16, <1>17, <1>18, <1>19, <1>20, <1>21, <1>22, <1>23, <1>24, <1>25, <1>26, <1>27, <1>28,
     <1>29 DEF Next, Step, Environment

\* A server that is looked after is the one in the row, or about to be written there.
LEMMA AloneStep ==
  ASSUME TypeOK, \A c \in Client : Placed(c) /\ Attended(c), Times, NamesServers, NEW a \in Client,
         \A c \in Client \ {a} : Ops[c] \subseteq Idler, \A c \in Client \ {a} : Other(c),
         \A c \in Client : Dead(c), Mine(a), Alone(a), [Next]_vars
  PROVE  Alone(a)'
<1>t. ASSUME UNCHANGED tick \/ UNCHANGED pc, NEW q \in Pid, Minded(q)' PROVE Minded(q)
  <2>1. tick \in Nat
    BY LeaseAssumption DEF TypeOK, LeaseTypeOK, Start, LeaseAssumption
  <2>2. \A c \in Client : ~Launch(c, q)
    BY <1>t, <2>1 DEF Launch, Spawned, Proceed, Goto, TypeOK
  <2>. QED  BY <1>t, <2>2, RanStep DEF Ran
<1>k. ASSUME NEW q \in Pid, Recorded(q), Minded(q)', row' # NoSession, Same(row', row), row'.state \in Live PROVE Recorded(q)'
  <2>1. PICK s : s = row
    OBVIOUS
  <2>2. s.pid = q /\ s.boot \in Nat /\ Names(s, s.model) /\ Alive(s)
    BY <1>k, <2>1, KnownNames DEF Recorded
  <2>3. Alive(s)'
    BY <1>k, <2>2, AliveMoves DEF Minded, Running
  <2>. QED  BY <1>k, <2>1, <2>2, <2>3 DEF Recorded, Same, Alive, ProcessAlive, StartTime
<1>l. ASSUME NEW q \in Pid, Recorded(q), Minded(q)', UNCHANGED row PROVE Recorded(q)'
  <2>1. row' # NoSession /\ Same(row', row) /\ row'.state \in Live
    BY <1>l DEF Recorded, Same
  <2>. QED  BY <1>k, <1>l, <2>1
<1>u. ASSUME UNCHANGED tick \/ UNCHANGED pc, UNCHANGED row, pc'[a] = pc[a], job'[a].pid = job[a].pid PROVE Alone(a)'
  BY <1>t, <1>l, <1>u DEF Alone
<1>w. ASSUME UNCHANGED tick, UNCHANGED row, pc[a] \notin {"lease", "save"},
             pc'[a] \notin {"bury", "stopped", "launch", "lease", "save"} PROVE Alone(a)'
  BY <1>t, <1>l, <1>w DEF Alone
<1>z. ASSUME UNCHANGED tick, \A q \in Pid : Minded(q) => ~Minded(q)' PROVE Alone(a)'
  BY <1>t, <1>z DEF Alone
<1>v. ASSUME UNCHANGED tick, row' # NoSession, row' \in SessionRow, Same(row', row), row'.state \in Live, pc[a] \notin {"lease", "save"},
             pc'[a] \notin {"bury", "stopped", "launch", "lease", "save"} PROVE Alone(a)'
  BY <1>t, <1>k, <1>v DEF Alone
<1>1. ASSUME NEW c \in Client, NEW o \in AllOps, NEW k \in Key \cup {NoPid}, Begin(c, o, k)
      PROVE  Alone(a)'
  <2>1. CASE c # a
    BY <1>1, <2>1, <1>u DEF Begin, Proceed, Finish, Goto, TypeOK, Other, leaseVars
  <2>2. CASE c = a
    BY <1>1, <2>2, <1>w DEF Begin, Proceed, Finish, Goto, TypeOK, leaseVars
  <2>. QED  BY <2>1, <2>2
<1>2. ASSUME NEW c \in Client, Look(c) PROVE Alone(a)'
  <2>1. PICK next, s :
          /\ Goes(c, next, s) /\ next \in {"idle", "bury", "launch", "touch", "stop", "acquire", "post"}
          /\ pc[c] = "look"
          /\ next = "bury" => ~Alive(row)
          /\ next = "launch" => (row # NoSession => row.state \notin Live)
          /\ UNCHANGED <<tick, row>>
    BY <1>2, Looked
  <2>2. CASE c # a
    BY <2>1, <2>2, <1>u DEF Goes, TypeOK
  <2>3. CASE c = a /\ next \notin {"bury", "launch"}
    BY <2>1, <2>3, <1>w DEF Goes, TypeOK
  <2>4. CASE c = a /\ next \in {"bury", "launch"}
    BY <2>1, <2>4, <1>z DEF Alone, Recorded
  <2>. QED  BY <2>2, <2>3, <2>4
<1>3. ASSUME NEW c \in Client, Bury(c) PROVE Alone(a)'
  <2>1. PICK next :
          /\ Goes(c, next, NoSession) /\ next \in {"idle", "launch"} /\ pc[c] \in {"bury", "stopped"}
          /\ row' # row => row # NoSession /\ Same(row, job[c].sess)
          /\ UNCHANGED tick
    BY <1>3, Buried
  <2>2. CASE c # a
    <3>1. CASE UNCHANGED row
      BY <2>1, <2>2, <3>1, <1>u DEF Goes, TypeOK
    <3>2. CASE row' # row
      <4>1. ~Alive(row)
        BY <2>1, <3>2 DEF Dead, Same, Alive
      <4>. QED  BY <2>1, <2>2, <4>1, <1>t DEF Alone, Recorded, Goes, TypeOK
    <3>. QED  BY <3>1, <3>2
  <2>3. CASE c = a
    BY <2>1, <2>3, <1>z DEF Alone
  <2>. QED  BY <2>2, <2>3
<1>4. ASSUME NEW c \in Client, Stop(c) PROVE Alone(a)'
  <2>1. PICK s :
          /\ Goes(c, "stopped", s) /\ pc[c] = "stop" /\ row \in SessionRow
          /\ procs' = IF Alive(row) THEN [procs EXCEPT ![row.pid].state = "zombie"] ELSE procs
          /\ UNCHANGED <<tick, row>>
    BY <1>4, Stopped
  <2>2. ASSUME NEW q \in Pid, Recorded(q) PROVE ~Minded(q)'
    <3>1. procs'[q].state = "zombie"
      BY <2>1, <2>2 DEF Recorded, TypeOK, LeaseTypeOK, Process
    <3>. QED  BY <3>1 DEF Minded, Running, ProcessAlive
  <2>3. CASE c # a
    BY <2>1, <2>3, <1>u DEF Goes, TypeOK
  <2>4. CASE c = a
    BY <2>1, <2>2, <2>4, <1>z DEF Alone
  <2>. QED  BY <2>3, <2>4
<1>5. ASSUME NEW c \in Client, NothingToStop(c) PROVE Alone(a)'
  <2>1. CASE c # a
    BY <1>5, <2>1, <1>u DEF NothingToStop, Proceed, Finish, Goto, TypeOK, Other, leaseVars,
       AfterStop
  <2>2. CASE c = a
    BY <1>5, <2>2, <1>z DEF NothingToStop, leaseVars, Alone, Recorded
  <2>. QED  BY <2>1, <2>2
<1>6. ASSUME NEW c \in Client, CannotLaunch(c) PROVE Alone(a)'
  <2>1. CASE c # a
    BY <1>6, <2>1, <1>u DEF CannotLaunch, Proceed, Finish, Goto, TypeOK, Other, leaseVars
  <2>2. CASE c = a
    <3>1. CASE pc[a] = "launch"
      BY <1>6, <2>2, <3>1, <1>z DEF CannotLaunch, leaseVars, Alone
    <3>2. CASE pc[a] # "launch"
      BY <1>6, <2>2, <3>2, <1>w DEF CannotLaunch, Proceed, Finish, Goto, TypeOK, leaseVars
    <3>. QED  BY <3>1, <3>2
  <2>. QED  BY <2>1, <2>2
<1>7. ASSUME NEW c \in Client, NEW p \in Pid, Launch(c, p) PROVE Alone(a)'
  <2>1. c = a
    BY <1>7 DEF Launch, Other
  <2>2. pc'[a] = "lease" /\ job'[a].pid = p /\ pc[a] = "launch"
    BY <1>7, <2>1 DEF Launch, Proceed, Goto, TypeOK, Job
  <2>3. ASSUME NEW q \in Pid \ {p} PROVE ~Minded(q)'
    <3>1. procs'[q] = procs[q] /\ server'[q] = server[q]
      BY <1>7 DEF Launch, Spawned, TypeOK, LeaseTypeOK
    <3>. QED  BY <2>2, <3>1 DEF Minded, Running, ProcessAlive, Alone
  <2>. QED  BY <2>2, <2>3 DEF Alone
<1>8. ASSUME NEW c \in Client, NEW i \in LeaseId, LeaseWeights(c, i) PROVE Alone(a)'
  <2>1. PICK s : Goes(c, "save", s) /\ pc[c] = "lease" /\ UNCHANGED <<tick, row>>
    BY <1>8, Weighed
  <2>2. c = a
    BY <2>1 DEF Other
  <2>3. pc'[a] = "save" /\ job'[a].pid = job[a].pid
    BY <2>1, <2>2 DEF Goes, TypeOK, Job
  <2>. QED  BY <2>1, <2>2, <2>3, <1>t DEF Alone
<1>9. ASSUME NEW c \in Client, NEW i \in LeaseId, LeaseAdapter(c, i) PROVE Alone(a)'
  <2>1. CASE c # a
    BY <1>9, <2>1, <1>u DEF LeaseAdapter, Proceed, Finish, Goto, TypeOK, Other, leaseVars
  <2>2. CASE c = a
    BY <1>9, <2>2, <1>w DEF LeaseAdapter, Proceed, Finish, Goto, TypeOK, leaseVars
  <2>. QED  BY <2>1, <2>2
<1>10. ASSUME NEW c \in Client, SaveStarting(c) PROVE Alone(a)'
  <2>1. /\ pc[c] = "save" /\ pc'[c] \in {"idle", "wait"}
        /\ UNCHANGED <<boot, tick, procs>>
    BY <1>10 DEF SaveStarting, Proceed, Finish, Goto, TypeOK, leaseVars
  <2>2. c = a
    BY <2>1 DEF Other
  <2>3. row' # NoSession /\ Like(row', job[a].sess) /\ row'.state \in Live
    BY <1>10, <2>1, <2>2, Wrote, IsSession DEF Mine
  <2>4. job[a].sess.pid = job[a].pid /\ job[a].sess.boot = boot /\ job[a].sess.start = StartTime(job[a].pid)
    BY <2>1, <2>2 DEF Attended
  <2>5. ASSUME NEW q \in Pid, Minded(q)' PROVE Recorded(q)'
    <3>1. q = job[a].pid
      BY <2>1, <2>2, <2>5, <1>t DEF Alone
    <3>. QED  BY <2>1, <2>3, <2>4, <2>5, <3>1 DEF Recorded, Like, Alive, Minded, Running,
                 ProcessAlive, StartTime
  <2>. QED  BY <2>1, <2>2, <2>5 DEF Alone
<1>11. ASSUME NEW c \in Client, StartFailed(c) PROVE Alone(a)'
  <2>1. c = a /\ pc[a] = "wait" /\ ~Alive(job[a].sess) /\ UNCHANGED tick
    BY <1>11 DEF StartFailed, Other, leaseVars
  <2>2. row # NoSession => ~Alive(row)
    BY <2>1 DEF Mine, Same, Alive
  <2>. QED  BY <2>1, <2>2, <1>z DEF Alone, Recorded
<1>12. ASSUME NEW c \in Client, ReleaseFailed(c) PROVE Alone(a)'
  <2>1. CASE c # a
    BY <1>12, <2>1, <1>u DEF ReleaseFailed, Proceed, Finish, Goto, TypeOK, Other, leaseVars
  <2>2. CASE c = a
    BY <1>12, <2>2, <1>w DEF ReleaseFailed, Proceed, Finish, Goto, TypeOK, leaseVars
  <2>. QED  BY <2>1, <2>2
<1>13. ASSUME NEW c \in Client, StartReady(c) PROVE Alone(a)'
  <2>1. c = a /\ pc[a] = "wait" /\ UNCHANGED tick /\ pc'[a] = "idle" /\ Alive(job[a].sess)
    BY <1>13 DEF StartReady, Other, leaseVars, Finish, Goto, TypeOK
  <2>2. /\ row' # NoSession /\ row' \in SessionRow /\ Like(row', job[a].sess) /\ row'.state \in Live
    BY <1>13, <2>1, Wrote, IsSession DEF Mine, Live
  <2>3. CASE row = NoSession
    BY <2>1, <2>3, <1>z DEF Alone, Recorded
  <2>4. CASE row # NoSession
    <3>1. Same(row', row)
      BY <2>1, <2>2, <2>4 DEF Mine, Like, Same
    <3>. QED  BY <2>1, <2>2, <3>1, <1>v
  <2>. QED  BY <2>3, <2>4
<1>14. ASSUME NEW c \in Client, StartTimedOut(c) PROVE Alone(a)'
  <2>1. CASE c # a
    BY <1>14, <2>1, <1>u DEF StartTimedOut, Proceed, Finish, Goto, TypeOK, Other, leaseVars
  <2>2. CASE c = a
    BY <1>14, <2>2, <1>w DEF StartTimedOut, Proceed, Finish, Goto, TypeOK, leaseVars
  <2>. QED  BY <2>1, <2>2
<1>15. ASSUME NEW c \in Client, Touch(c) PROVE Alone(a)'
  <2>1. c = a /\ pc[a] = "touch" /\ UNCHANGED tick /\ pc'[a] = "idle"
    BY <1>15 DEF Touch, Other, leaseVars, Finish, Goto, TypeOK
  <2>2. /\ row' # NoSession /\ row' \in SessionRow /\ Like(row', job[a].sess) /\ row'.state \in Live
    BY <1>15, <2>1, Wrote, IsSession DEF Mine, Live
  <2>3. CASE row = NoSession
    BY <2>1, <2>3, <1>z DEF Alone, Recorded
  <2>4. CASE row # NoSession
    <3>1. Same(row', row)
      BY <2>1, <2>2, <2>4 DEF Mine, Like, Same
    <3>. QED  BY <2>1, <2>2, <3>1, <1>v
  <2>. QED  BY <2>3, <2>4
<1>16. ASSUME NEW c \in Client, NEW p \in Pid, Posted(c, p) PROVE Alone(a)'
  <2>1. CASE c # a
    BY <1>16, <2>1, <1>u DEF Posted, Proceed, Finish, Goto, TypeOK, Other, leaseVars
  <2>2. CASE c = a
    BY <1>16, <2>2, <1>w DEF Posted, Proceed, Finish, Goto, TypeOK, leaseVars
  <2>. QED  BY <2>1, <2>2
<1>17. ASSUME NEW c \in Client, NEW p \in Pid, AnswerLost(c, p) PROVE Alone(a)'
  <2>1. CASE c # a
    BY <1>17, <2>1, <1>u DEF AnswerLost, Proceed, Finish, Goto, TypeOK, Other, leaseVars
  <2>2. CASE c = a
    BY <1>17, <2>2, <1>w DEF AnswerLost, Proceed, Finish, Goto, TypeOK, leaseVars
  <2>. QED  BY <2>1, <2>2
<1>18. ASSUME NEW c \in Client, Refused(c) PROVE Alone(a)'
  <2>1. CASE c # a
    BY <1>18, <2>1, <1>u DEF Refused, Proceed, Finish, Goto, TypeOK, Other, leaseVars
  <2>2. CASE c = a
    BY <1>18, <2>2, <1>w DEF Refused, Proceed, Finish, Goto, TypeOK, leaseVars
  <2>. QED  BY <2>1, <2>2
<1>19. ASSUME NEW c \in Client, GiveBack(c) PROVE Alone(a)'
  <2>1. CASE c # a
    BY <1>19, <2>1, <1>u DEF GiveBack, Proceed, Finish, Goto, TypeOK, Other, leaseVars
  <2>2. CASE c = a
    BY <1>19, <2>2, <1>w DEF GiveBack, Proceed, Finish, Goto, TypeOK, leaseVars
  <2>. QED  BY <2>1, <2>2
<1>20. ASSUME NEW c \in Client, Record(c) PROVE Alone(a)'
  <2>1. c = a /\ pc[a] = "record" /\ UNCHANGED tick /\ pc'[a] = "idle"
    BY <1>20 DEF Record, Other, leaseVars, Finish, Goto, TypeOK
  <2>2. /\ row' # NoSession /\ row' \in SessionRow /\ Like(row', job[a].sess) /\ row'.state \in Live
    BY <1>20, <2>1, Wrote, IsSession DEF Mine, Live
  <2>3. CASE row = NoSession
    BY <2>1, <2>3, <1>z DEF Alone, Recorded
  <2>4. CASE row # NoSession
    <3>1. Same(row', row)
      BY <2>1, <2>2, <2>4 DEF Mine, Like, Same
    <3>. QED  BY <2>1, <2>2, <3>1, <1>v
  <2>. QED  BY <2>3, <2>4
<1>21. ASSUME NEW c \in Client, Crash(c) PROVE Alone(a)'
  <2>1. CASE c # a
    BY <1>21, <2>1, <1>u DEF Crash, Proceed, Finish, Goto, TypeOK, Other, leaseVars
  <2>2. CASE c = a
    <3>1. CASE pc[a] \in {"lease", "save"}
      <4>1. server' = [server EXCEPT ![job[a].pid].orphan = TRUE] /\ UNCHANGED tick
        BY <1>21, <2>2, <3>1 DEF Crash, leaseVars
      <4>2. job[a].pid \in Pid /\ server[job[a].pid] \in Server
        BY <3>1, JobHas DEF Placed, Attended, TypeOK
      <4>3. server'[job[a].pid].orphan
        BY <4>1, <4>2 DEF TypeOK, Server
      <4>. QED  BY <3>1, <4>1, <4>3, <1>z DEF Alone, Minded
    <3>2. CASE pc[a] \in {"bury", "stopped", "launch"}
      BY <1>21, <2>2, <3>2, <1>z DEF Crash, leaseVars, Alone
    <3>3. CASE pc[a] \notin {"bury", "stopped", "launch", "lease", "save"}
      BY <1>21, <2>2, <3>3, <1>w DEF Crash, Finish, Goto, TypeOK, leaseVars
    <3>. QED  BY <3>1, <3>2, <3>3
  <2>. QED  BY <2>1, <2>2
<1>22. ASSUME NEW p \in Pid, ServerUp(p) PROVE Alone(a)'
  BY <1>22, <1>u DEF ServerUp, Reap, leaseVars
<1>23. ASSUME NEW p \in Pid, ProcessExits(p) PROVE Alone(a)'
  BY <1>23, <1>u DEF ProcessExits, Reap, leaseVars
<1>24. ASSUME NEW p \in Pid, ProcessReaped(p) PROVE Alone(a)'
  BY <1>24, <1>u DEF ProcessReaped, Reap, leaseVars
<1>25. ASSUME NEW p \in Pid, StrangerStarts(p) PROVE Alone(a)'
  BY <1>25, <1>u DEF StrangerStarts, Reap, leaseVars
<1>26. CASE LeasesReaped
  BY <1>26, <1>u DEF LeasesReaped, Reap, leaseVars
<1>27. CASE TimePasses
  <2>1. /\ UNCHANGED <<pc, job>> /\ row # NoSession /\ row' # NoSession
        /\ row'.pid = row.pid /\ row'.boot = row.boot /\ row'.start = row.start /\ row'.state = row.state
    <3>1. row \in SessionRow /\ row' = [row EXCEPT !.fresh = FALSE] /\ UNCHANGED <<pc, job>>
      BY <1>27 DEF TimePasses, TypeOK
    <3>2. row' \in SessionRow
      BY <3>1, RowChanged
    <3>. QED  BY <3>1, <3>2, IsSession DEF SessionRow
  <2>2. ASSUME NEW q \in Pid, Recorded(q), Minded(q)' PROVE Recorded(q)'
    BY <2>1, <2>2, <1>k DEF Recorded, Same
  <2>. QED  BY <2>1, <2>2, <1>t DEF Alone
<1>28. CASE Reboot
  BY <1>28 DEF Reboot, Alone, Minded, Running
<1>29. CASE UNCHANGED vars
  BY <1>29, <1>u DEF vars, leaseVars
<1>. QED
  BY <1>1, <1>2, <1>3, <1>4, <1>5, <1>6, <1>7, <1>8, <1>9, <1>10, <1>11, <1>12, <1>13, <1>14, <1>15,
     <1>16, <1>17, <1>18, <1>19, <1>20, <1>21, <1>22, <1>23, <1>24, <1>25, <1>26, <1>27, <1>28,
     <1>29 DEF Next, Step, Environment

\* What is alive stays so while its process runs.
LEMMA AliveKept ==
  ASSUME TypeOK, \A c \in Client : Placed(c) /\ Attended(c), Times, [Next]_vars,
         NEW r, r.pid \in Pid, Alive(r), ProcessAlive(r.pid)'
  PROVE  Alive(r)'
<1>1. Persists(r.pid)
  BY ProcessStep
<1>. QED  BY <1>1 DEF Persists, Alive, ProcessAlive, StartTime

\* No step but two lets a server read more.
LEMMA LessStep ==
  ASSUME TypeOK, \A c \in Client : Placed(c) /\ Attended(c), Times, NEW q \in Pid, [Next]_vars
  PROVE  Less(q)
<1>s. server[q] \in Server \cup {NoServer}
  BY DEF TypeOK
<1>r. ASSUME procs'[q].state = "running" => procs[q].state = "running", server'[q] = server[q] PROVE Less(q)
  BY <1>r DEF Less, Reads, Running, ProcessAlive
<1>1. ASSUME NEW c \in Client, NEW o \in AllOps, NEW k \in Key \cup {NoPid}, Begin(c, o, k) PROVE Less(q)
  BY <1>1, <1>r DEF Begin, leaseVars, Reap
<1>2. ASSUME NEW c \in Client, Look(c) PROVE Less(q)
  BY <1>2, Looked, <1>r
<1>3. ASSUME NEW c \in Client, Bury(c) PROVE Less(q)
  BY <1>3, Buried, <1>r
<1>4. ASSUME NEW c \in Client, Stop(c) PROVE Less(q)
  <2>1. /\ procs' = IF Alive(row) THEN [procs EXCEPT ![row.pid].state = "zombie"] ELSE procs
        /\ UNCHANGED server
    BY <1>4, Stopped
  <2>2. procs'[q].state = "running" => procs[q].state = "running"
    BY <2>1 DEF TypeOK, LeaseTypeOK, Process
  <2>. QED  BY <2>1, <2>2, <1>r
<1>5. ASSUME NEW c \in Client, NothingToStop(c) PROVE Less(q)
  BY <1>5, <1>r DEF NothingToStop, leaseVars, Reap
<1>6. ASSUME NEW c \in Client, CannotLaunch(c) PROVE Less(q)
  BY <1>6, <1>r DEF CannotLaunch, leaseVars, Reap
<1>7. ASSUME NEW c \in Client, NEW p \in Pid, Launch(c, p) PROVE Less(q)
  <2>1. q = p => ~server'[q].held
    BY <1>7 DEF Launch, TypeOK
  <2>2. q # p => procs'[q] = procs[q] /\ server'[q] = server[q]
    BY <1>7 DEF Launch, Spawned, TypeOK, LeaseTypeOK
  <2>. QED  BY <2>1, <2>2, <1>r DEF Less
<1>8. ASSUME NEW c \in Client, NEW i \in LeaseId, LeaseWeights(c, i) PROVE Less(q)
  <2>1. job[c].pid \in Pid /\ server' = [server EXCEPT ![job[c].pid].held = TRUE] /\ UNCHANGED procs
    BY <1>8, Weighed
  <2>2. CASE job[c].pid = q
    BY <1>8, <2>2 DEF Less
  <2>3. CASE job[c].pid # q
    BY <2>1, <2>3, <1>r DEF TypeOK
  <2>. QED  BY <2>2, <2>3
<1>9. ASSUME NEW c \in Client, NEW i \in LeaseId, LeaseAdapter(c, i) PROVE Less(q)
  BY <1>9, <1>r DEF LeaseAdapter, leaseVars, Reap
<1>10. ASSUME NEW c \in Client, SaveStarting(c) PROVE Less(q)
  BY <1>10, <1>r DEF SaveStarting, leaseVars, Reap
<1>11. ASSUME NEW c \in Client, StartFailed(c) PROVE Less(q)
  BY <1>11, <1>r DEF StartFailed, leaseVars, Reap
<1>12. ASSUME NEW c \in Client, ReleaseFailed(c) PROVE Less(q)
  BY <1>12, <1>r DEF ReleaseFailed, leaseVars, Reap
<1>13. ASSUME NEW c \in Client, StartReady(c) PROVE Less(q)
  BY <1>13, <1>r DEF StartReady, leaseVars, Reap
<1>14. ASSUME NEW c \in Client, StartTimedOut(c) PROVE Less(q)
  BY <1>14, <1>r DEF StartTimedOut, leaseVars, Reap
<1>15. ASSUME NEW c \in Client, Touch(c) PROVE Less(q)
  BY <1>15, <1>r DEF Touch, leaseVars, Reap
<1>16. ASSUME NEW c \in Client, NEW p \in Pid, Posted(c, p) PROVE Less(q)
  <2>. DEFINE k == job[c].key
              A == IF job[c].op = "load" THEN server[p].adapters \cup {k} ELSE server[p].adapters \ {k}
              B == server[p].lost \ {k}
  <2>1. p \in Pid /\ server[p] \in Server /\ UNCHANGED procs
    BY <1>16 DEF Posted, Answering, Running, TypeOK, leaseVars
  <2>2. server' = [server EXCEPT ![p] = [server[p] EXCEPT !.adapters = A, !.lost = B]]
    BY <1>16 DEF Posted
  <2>3. job[c].op # "load" => A \ B \subseteq server[p].adapters \ server[p].lost
    OBVIOUS
  <2>. HIDE DEF A, B
  <2>4. /\ server'[p].orphan = server[p].orphan /\ server'[p].held = server[p].held /\ server'[p].model = server[p].model
        /\ server'[p].adapters = A /\ server'[p].lost = B
    BY <2>1, <2>2 DEF TypeOK, Server
  <2>5. CASE q # p
    BY <2>1, <2>2, <2>5, <1>r DEF TypeOK
  <2>6. CASE q = p
    BY <1>16, <2>1, <2>3, <2>4, <2>6, ServerChanged DEF Less, Running, ProcessAlive, Reads
  <2>. QED  BY <2>5, <2>6
<1>17. ASSUME NEW c \in Client, NEW p \in Pid, AnswerLost(c, p) PROVE Less(q)
  <2>. DEFINE k == job[c].key
              A == server[p].adapters \cup {k}
              B == server[p].lost \cup {k}
  <2>1. p \in Pid /\ server[p] \in Server /\ UNCHANGED procs
    BY <1>17 DEF AnswerLost, Answering, Running, TypeOK, leaseVars
  <2>2. server' = [server EXCEPT ![p] = [server[p] EXCEPT !.adapters = A, !.lost = B]]
    BY <1>17 DEF AnswerLost
  <2>3. A \ B \subseteq server[p].adapters \ server[p].lost
    OBVIOUS
  <2>. HIDE DEF A, B
  <2>4. /\ server'[p].orphan = server[p].orphan /\ server'[p].held = server[p].held /\ server'[p].model = server[p].model
        /\ server'[p].adapters = A /\ server'[p].lost = B
    BY <2>1, <2>2 DEF TypeOK, Server
  <2>5. CASE q # p
    BY <2>1, <2>2, <2>5, <1>r DEF TypeOK
  <2>6. CASE q = p
    BY <1>17, <2>1, <2>3, <2>4, <2>6, ServerChanged DEF Less, Running, ProcessAlive, Reads
  <2>. QED  BY <2>5, <2>6
<1>18. ASSUME NEW c \in Client, Refused(c) PROVE Less(q)
  BY <1>18, <1>r DEF Refused, leaseVars, Reap
<1>19. ASSUME NEW c \in Client, GiveBack(c) PROVE Less(q)
  BY <1>19, <1>r DEF GiveBack, leaseVars, Reap
<1>20. ASSUME NEW c \in Client, Record(c) PROVE Less(q)
  BY <1>20, <1>r DEF Record, leaseVars, Reap
<1>21. ASSUME NEW c \in Client, Crash(c) PROVE Less(q)
  <2>1. /\ UNCHANGED procs
        /\ \/ server' = server
           \/ \E p \in Pid : server[p] \in Server /\ server' = [server EXCEPT ![p] = [server[p] EXCEPT !.orphan = TRUE]]
    BY <1>21, JobHas DEF Crash, Placed, Attended, TypeOK, leaseVars
  <2>2. CASE server' = server
    BY <2>1, <2>2, <1>r
  <2>3. CASE server' # server
    <3>1. PICK p \in Pid : server[p] \in Server /\ server' = [server EXCEPT ![p] = [server[p] EXCEPT !.orphan = TRUE]]
      BY <2>1, <2>3
    <3>2. server'[p].orphan /\ server'[p].held = server[p].held /\ server'[p].model = server[p].model
      BY <3>1 DEF TypeOK, Server
    <3>. QED  BY <2>1, <3>1, <3>2, ServerChanged DEF Less, Running, ProcessAlive, Reads, TypeOK
  <2>. QED  BY <2>2, <2>3
<1>22. ASSUME NEW p \in Pid, ServerUp(p) PROVE Less(q)
  <2>1. server[p] \in Server /\ server' = [server EXCEPT ![p].up = TRUE] /\ UNCHANGED procs
    BY <1>22 DEF ServerUp, Running, leaseVars, TypeOK
  <2>2. LET n == server'[p] IN
          n.orphan = server[p].orphan /\ n.held = server[p].held /\ n.model = server[p].model
            /\ n.adapters = server[p].adapters /\ n.lost = server[p].lost
    BY <2>1 DEF TypeOK, Server
  <2>. QED  BY <2>1, <2>2, ServerChanged DEF Less, Running, ProcessAlive, Reads, TypeOK
<1>23. ASSUME NEW p \in Pid, ProcessExits(p) PROVE Less(q)
  BY <1>23, <1>r DEF ProcessExits, Exited, TypeOK, LeaseTypeOK
<1>24. ASSUME NEW p \in Pid, ProcessReaped(p) PROVE Less(q)
  BY <1>24 DEF ProcessReaped, WaitedFor, Gone, Less, Running, ProcessAlive, Reads, TypeOK,
     LeaseTypeOK
<1>25. ASSUME NEW p \in Pid, StrangerStarts(p) PROVE Less(q)
  BY <1>25 DEF StrangerStarts, Spawned, Times, Less, Running, ProcessAlive, Reads, TypeOK,
     LeaseTypeOK
<1>26. CASE LeasesReaped
  BY <1>26, <1>r DEF LeasesReaped, leaseVars, Reap
<1>27. CASE TimePasses
  BY <1>27, <1>r DEF TimePasses, leaseVars, Reap
<1>28. CASE Reboot
  BY <1>28 DEF Reboot, Less, Running
<1>29. CASE UNCHANGED vars
  BY <1>29, <1>r DEF vars, leaseVars
<1>. QED
  BY <1>1, <1>2, <1>3, <1>4, <1>5, <1>6, <1>7, <1>8, <1>9, <1>10, <1>11, <1>12, <1>13, <1>14, <1>15,
     <1>16, <1>17, <1>18, <1>19, <1>20, <1>21, <1>22, <1>23, <1>24, <1>25, <1>26, <1>27, <1>28,
     <1>29 DEF Next, Step, Environment

\* No step gives back, or loses sight of, the lease behind what a server reads.
LEMMA LastsStep ==
  ASSUME TypeOK, \A c \in Client : Placed(c) /\ Attended(c), Times, NamesServers, NEW a \in Client,
         \A c \in Client \ {a} : Ops[c] \subseteq Idler, \A c \in Client \ {a} : Other(c),
         \A c \in Client : Dead(c), NEW l \in leases, NEW q \in Pid, Backs(l, q, a), [Next]_vars
  PROVE  Lasts(l, a)
<1>n. NoJob.lease = NoLease /\ l.id \in LeaseId /\ l.id # NoLease
  BY SessionAssumption DEF NoJob, TypeOK, LeaseTypeOK, LeaseRecord, SessionAssumption
<1>u. ASSUME l \in leases', job'[a] = job[a], pc'[a] = pc[a] PROVE Lasts(l, a)
  BY <1>u DEF Backs, Lasts
<1>v. ASSUME l \in leases', job'[a].lease = job[a].lease \/ l.id # job'[a].lease, pc[a] # "record" PROVE Lasts(l, a)
  BY <1>v DEF Backs, Lasts
<1>w. ASSUME l \in leases', job'[a].lease = NoLease PROVE Lasts(l, a)
  BY <1>w, <1>n DEF Lasts
<1>1. ASSUME NEW c \in Client, NEW o \in AllOps, NEW k \in Key \cup {NoPid}, Begin(c, o, k)
      PROVE  Lasts(l, a)
  <2>1. CASE c # a
    BY <1>1, <2>1, <1>u DEF Begin, Proceed, Finish, Goto, TypeOK, Other, leaseVars
  <2>2. CASE c = a
    BY <1>1, <2>2, <1>w DEF Begin, TypeOK, leaseVars, NoJob
  <2>. QED  BY <2>1, <2>2
<1>2. ASSUME NEW c \in Client, Look(c) PROVE Lasts(l, a)
  <2>1. PICK next, s : Goes(c, next, s) /\ pc[c] = "look" /\ UNCHANGED leases
    BY <1>2, Looked
  <2>2. l \in leases'
    BY <2>1
  <2>3. CASE c # a
    BY <2>1, <2>2, <2>3, <1>u DEF Goes, TypeOK
  <2>4. CASE c = a
    BY <2>1, <2>2, <2>4, <1>n, <1>v DEF Goes, TypeOK, Job
  <2>. QED  BY <2>3, <2>4
<1>3. ASSUME NEW c \in Client, Bury(c) PROVE Lasts(l, a)
  <2>1. PICK next : Goes(c, next, NoSession) /\ pc[c] \in {"bury", "stopped"} /\ leases' = Released(job[c].sess.leases)
    BY <1>3, Buried
  <2>2. l \in leases'
    <3>1. job[c].sess \in Remembered /\ ~Alive(job[c].sess)
      BY <2>1, KnownNames DEF Placed, Dead
    <3>. QED  BY <2>1, <3>1 DEF Backs, Released
  <2>3. CASE c # a
    BY <2>1, <2>2, <2>3, <1>u DEF Goes, TypeOK
  <2>4. CASE c = a
    BY <2>1, <2>2, <2>4, <1>n, <1>v DEF Goes, TypeOK, Job
  <2>. QED  BY <2>3, <2>4
<1>4. ASSUME NEW c \in Client, Stop(c) PROVE Lasts(l, a)
  <2>1. PICK s : Goes(c, "stopped", s) /\ pc[c] = "stop" /\ UNCHANGED leases
    BY <1>4, Stopped
  <2>2. l \in leases'
    BY <2>1
  <2>3. CASE c # a
    BY <2>1, <2>2, <2>3, <1>u DEF Goes, TypeOK
  <2>4. CASE c = a
    BY <2>1, <2>2, <2>4, <1>n, <1>v DEF Goes, TypeOK, Job
  <2>. QED  BY <2>3, <2>4
<1>5. ASSUME NEW c \in Client, NothingToStop(c) PROVE Lasts(l, a)
  <2>1. CASE c # a
    BY <1>5, <2>1, <1>u DEF NothingToStop, Proceed, Finish, Goto, TypeOK, Other, leaseVars,
       AfterStop
  <2>2. CASE c = a
    BY <1>5, <2>2, <1>n, <1>v DEF NothingToStop, Proceed, Finish, Goto, TypeOK, Job, leaseVars,
       AfterStop
  <2>. QED  BY <2>1, <2>2
<1>6. ASSUME NEW c \in Client, CannotLaunch(c) PROVE Lasts(l, a)
  <2>1. CASE c # a
    BY <1>6, <2>1, <1>u DEF CannotLaunch, Proceed, Finish, Goto, TypeOK, Other, leaseVars
  <2>2. CASE c = a
    BY <1>6, <2>2, <1>n, <1>w DEF CannotLaunch, Finish, TypeOK, leaseVars
  <2>. QED  BY <2>1, <2>2
<1>7. ASSUME NEW c \in Client, NEW p \in Pid, Launch(c, p) PROVE Lasts(l, a)
  <2>1. CASE c # a
    BY <1>7, <2>1, <1>u DEF Launch, Proceed, Finish, Goto, TypeOK, Other, leaseVars
  <2>2. CASE c = a
    BY <1>7, <2>2, <1>n, <1>v DEF Launch, Proceed, Finish, Goto, TypeOK, Job, leaseVars
  <2>. QED  BY <2>1, <2>2
<1>8. ASSUME NEW c \in Client, NEW i \in LeaseId, LeaseWeights(c, i) PROVE Lasts(l, a)
  <2>1. PICK s : Goes(c, "save", s) /\ pc[c] = "lease" /\ leases' = leases \cup {NewLease(i, job[c].key, job[c].pid)}
    BY <1>8, Weighed
  <2>2. l \in leases'
    BY <2>1
  <2>3. CASE c # a
    BY <2>1, <2>2, <2>3, <1>u DEF Goes, TypeOK
  <2>4. CASE c = a
    BY <2>1, <2>2, <2>4, <1>n, <1>v DEF Goes, TypeOK, Job
  <2>. QED  BY <2>3, <2>4
<1>9. ASSUME NEW c \in Client, NEW i \in LeaseId, LeaseAdapter(c, i) PROVE Lasts(l, a)
  <2>1. CASE c # a
    BY <1>9, <2>1, <1>u DEF LeaseAdapter, Proceed, Finish, Goto, TypeOK, Other, leaseVars
  <2>2. CASE c = a
    <3>1. l.id # i /\ l \in leases' /\ job'[a].lease = i /\ pc[a] # "record"
      BY <1>9, <2>2 DEF LeaseAdapter, FreshId, Proceed, Goto, TypeOK, Job
    <3>. QED  BY <3>1, <1>v
  <2>. QED  BY <2>1, <2>2
<1>10. ASSUME NEW c \in Client, SaveStarting(c) PROVE Lasts(l, a)
  <2>1. CASE c # a
    BY <1>10, <2>1, <1>u DEF SaveStarting, Proceed, Finish, Goto, TypeOK, Other, leaseVars
  <2>2. CASE c = a
    BY <1>10, <2>2, <1>n, <1>v DEF SaveStarting, Proceed, Finish, Goto, TypeOK, Job, leaseVars
  <2>. QED  BY <2>1, <2>2
<1>11. ASSUME NEW c \in Client, StartFailed(c) PROVE Lasts(l, a)
  <2>1. CASE c # a
    BY <1>11, <2>1, <1>u DEF StartFailed, Proceed, Finish, Goto, TypeOK, Other, leaseVars
  <2>2. CASE c = a
    BY <1>11, <2>2, <1>n, <1>v DEF StartFailed, Proceed, Finish, Goto, TypeOK, Job, leaseVars
  <2>. QED  BY <2>1, <2>2
<1>12. ASSUME NEW c \in Client, ReleaseFailed(c) PROVE Lasts(l, a)
  <2>1. c = a /\ pc[c] = "failed" /\ leases' = Released(job[c].sess.leases)
    BY <1>12 DEF ReleaseFailed, Other
  <2>2. l \in leases'
    <3>1. job[c].sess \in Remembered /\ ~Alive(job[c].sess)
      BY <2>1, KnownNames DEF Placed, Dead
    <3>. QED  BY <2>1, <3>1 DEF Backs, Released
  <2>. QED  BY <1>12, <2>1, <2>2, <1>n, <1>w DEF ReleaseFailed, Finish, TypeOK
<1>13. ASSUME NEW c \in Client, StartReady(c) PROVE Lasts(l, a)
  <2>1. CASE c # a
    BY <1>13, <2>1, <1>u DEF StartReady, Proceed, Finish, Goto, TypeOK, Other, leaseVars
  <2>2. CASE c = a
    BY <1>13, <2>2, <1>n, <1>w DEF StartReady, Finish, TypeOK, leaseVars
  <2>. QED  BY <2>1, <2>2
<1>14. ASSUME NEW c \in Client, StartTimedOut(c) PROVE Lasts(l, a)
  <2>1. CASE c # a
    BY <1>14, <2>1, <1>u DEF StartTimedOut, Proceed, Finish, Goto, TypeOK, Other, leaseVars
  <2>2. CASE c = a
    BY <1>14, <2>2, <1>n, <1>v DEF StartTimedOut, Proceed, Finish, Goto, TypeOK, Job, leaseVars
  <2>. QED  BY <2>1, <2>2
<1>15. ASSUME NEW c \in Client, Touch(c) PROVE Lasts(l, a)
  <2>1. CASE c # a
    BY <1>15, <2>1, <1>u DEF Touch, Proceed, Finish, Goto, TypeOK, Other, leaseVars
  <2>2. CASE c = a
    BY <1>15, <2>2, <1>n, <1>w DEF Touch, Finish, TypeOK, leaseVars
  <2>. QED  BY <2>1, <2>2
<1>16. ASSUME NEW c \in Client, NEW p \in Pid, Posted(c, p) PROVE Lasts(l, a)
  <2>1. CASE c # a
    BY <1>16, <2>1, <1>u DEF Posted, Proceed, Finish, Goto, TypeOK, Other, leaseVars
  <2>2. CASE c = a
    BY <1>16, <2>2, <1>n, <1>v DEF Posted, Proceed, Finish, Goto, TypeOK, Job, leaseVars
  <2>. QED  BY <2>1, <2>2
<1>17. ASSUME NEW c \in Client, NEW p \in Pid, AnswerLost(c, p) PROVE Lasts(l, a)
  <2>1. CASE c # a
    BY <1>17, <2>1, <1>u DEF AnswerLost, Proceed, Finish, Goto, TypeOK, Other, leaseVars
  <2>2. CASE c = a
    BY <1>17, <2>2, <1>n, <1>v DEF AnswerLost, Proceed, Finish, Goto, TypeOK, Job, leaseVars
  <2>. QED  BY <2>1, <2>2
<1>18. ASSUME NEW c \in Client, Refused(c) PROVE Lasts(l, a)
  <2>1. CASE c # a
    BY <1>18, <2>1, <1>u DEF Refused, Proceed, Finish, Goto, TypeOK, Other, leaseVars
  <2>2. CASE c = a
    BY <1>18, <2>2, <1>n, <1>v DEF Refused, Proceed, Finish, Goto, TypeOK, Job, leaseVars
  <2>. QED  BY <2>1, <2>2
<1>19. ASSUME NEW c \in Client, GiveBack(c) PROVE Lasts(l, a)
  <2>1. c = a /\ pc[c] = "giveback" /\ leases' = Released({job[a].lease})
    BY <1>19 DEF GiveBack, Other
  <2>2. l \in leases'
    BY <2>1 DEF Backs, Released
  <2>. QED  BY <1>19, <2>1, <2>2, <1>n, <1>w DEF GiveBack, Finish, TypeOK
<1>20. ASSUME NEW c \in Client, Record(c) PROVE Lasts(l, a)
  <2>1. CASE c # a
    BY <1>20, <2>1, <1>u DEF Record, Proceed, Finish, Goto, TypeOK, Other, leaseVars
  <2>2. CASE c = a
    BY <1>20, <2>2, <1>n, <1>w DEF Record, Finish, TypeOK, leaseVars
  <2>. QED  BY <2>1, <2>2
<1>21. ASSUME NEW c \in Client, Crash(c) PROVE Lasts(l, a)
  <2>1. CASE c # a
    BY <1>21, <2>1, <1>u DEF Crash, Proceed, Finish, Goto, TypeOK, Other, leaseVars
  <2>2. CASE c = a
    BY <1>21, <2>2, <1>n, <1>w DEF Crash, Finish, TypeOK, leaseVars
  <2>. QED  BY <2>1, <2>2
<1>22. ASSUME NEW p \in Pid, ServerUp(p) PROVE Lasts(l, a)
  BY <1>22, <1>u DEF ServerUp, leaseVars
<1>23. ASSUME NEW p \in Pid, ProcessExits(p) PROVE Lasts(l, a)
  BY <1>23, <1>u DEF ProcessExits, leaseVars
<1>24. ASSUME NEW p \in Pid, ProcessReaped(p) PROVE Lasts(l, a)
  BY <1>24, <1>u DEF ProcessReaped, leaseVars
<1>25. ASSUME NEW p \in Pid, StrangerStarts(p) PROVE Lasts(l, a)
  BY <1>25, <1>u DEF StrangerStarts, leaseVars
<1>26. CASE LeasesReaped
  BY <1>26, <1>u DEF LeasesReaped, Reap, Backs
<1>27. CASE TimePasses
  BY <1>27, <1>u DEF TimePasses, leaseVars
<1>28. CASE Reboot
  BY <1>28, <1>n, <1>w DEF Reboot
<1>29. CASE UNCHANGED vars
  BY <1>29, <1>u DEF vars, leaseVars
<1>. QED
  BY <1>1, <1>2, <1>3, <1>4, <1>5, <1>6, <1>7, <1>8, <1>9, <1>10, <1>11, <1>12, <1>13, <1>14, <1>15,
     <1>16, <1>17, <1>18, <1>19, <1>20, <1>21, <1>22, <1>23, <1>24, <1>25, <1>26, <1>27, <1>28,
     <1>29 DEF Next, Step, Environment

\* It goes on being the lease behind it.
LEMMA BacksStep ==
  ASSUME TypeOK, \A c \in Client : Placed(c) /\ Attended(c), Times, NamesServers, [Next]_vars,
         NEW a \in Client, \A c \in Client \ {a} : Ops[c] \subseteq Idler, \A c \in Client \ {a} : Other(c),
         \A c \in Client : Dead(c), NEW l \in leases, NEW p \in Pid, Backs(l, p, a), ProcessAlive(p)'
  PROVE  l \in leases' /\ Backs(l, p, a)'
<1>1. Lasts(l, a)
  BY LastsStep
<1>2. Alive(l)'
  BY AliveKept DEF Backs
<1>3. ASSUME NEW t \in Remembered, t.pid = p, Alive(t) PROVE Alive(t)'
  BY <1>3, AliveKept
<1>4. ASSUME l.id = job'[a].lease
      PROVE  pc'[a] = "record" /\ job'[a].sess.pid = p /\ Alive(job[a].sess)'
  <2>1. pc'[a] = "record" /\ job'[a].sess = job[a].sess /\ l.id = job[a].lease
    BY <1>1, <1>4 DEF Lasts
  <2>2. PICK t : t = job[a].sess
    OBVIOUS
  <2>3. t.pid = p /\ Alive(t) /\ t \in Remembered
    BY <2>1, <2>2, KnownNames DEF Backs, Placed
  <2>4. Alive(t)'
    BY <1>3, <2>3
  <2>. QED  BY <2>1, <2>2, <2>3, <2>4 DEF Alive, ProcessAlive, StartTime
<1>5. ASSUME NEW s \in Remembered', NEW t \in Remembered, Like(s, t), l.id \in t.leases
      PROVE  s.pid = p /\ Alive(s)'
  <2>1. t.pid = p /\ Alive(t)
    BY <1>5 DEF Backs
  <2>2. Alive(t)'
    BY <1>3, <2>1
  <2>. QED  BY <1>5, <2>1, <2>2 DEF Like, Alive
<1>6. ASSUME NEW s \in Remembered', l.id \in s.leases PROVE s.pid = p /\ Alive(s)'
  <2>1. CASE \E t \in Remembered : Twin(s, t)
    BY <1>5, <1>6, <2>1 DEF Twin
  <2>2. ASSUME NEW c \in Client, NEW i \in LeaseId, LeaseWeights(c, i) PROVE \E t \in Remembered : Twin(s, t)
    <3>1. PICK n : Goes(c, "save", n) /\ n.leases = {i} /\ UNCHANGED row /\ FreshId(i, Mentioned)
      BY <2>2, Weighed
    <3>2. l.id # i
      BY <3>1 DEF FreshId
    <3>3. s # n
      BY <1>6, <3>1, <3>2
    <3>4. s \in Remembered
      BY <3>1, <3>3 DEF Goes, Remembered, TypeOK, Job
    <3>. QED  BY <3>4 DEF Twin, Like
  <2>3. ASSUME NEW c \in Client, Record(c), job[c].op = "load" PROVE s.pid = p /\ Alive(s)'
    <3>1. c = a /\ pc[a] = "record"
      BY <2>3 DEF Record, Other
    <3>2. PICK t : t = job[a].sess
      OBVIOUS
    <3>3. t \in Remembered /\ Like(row', t) /\ row'.leases = t.leases \cup {job[a].lease}
      BY <2>3, <3>1, <3>2, Wrote, KnownNames DEF Placed
    <3>4. NoJob.sess = NoSession
      BY DEF NoJob
    <3>5. s = row' \/ s \in Remembered
      BY <2>3, <3>4 DEF Record, Finish, Remembered, TypeOK
    <3>6. CASE s \in Remembered
      BY <1>5, <1>6, <3>6 DEF Like
    <3>7. CASE s = row'
      <4>1. CASE l.id \in t.leases
        BY <1>5, <3>3, <3>7, <4>1
      <4>2. CASE l.id = job[a].lease
        <5>1. t.pid = p /\ Alive(t)
          BY <3>2, <4>2 DEF Backs
        <5>2. Alive(t)'
          BY <1>3, <3>3, <5>1
        <5>. QED  BY <3>3, <3>7, <5>1, <5>2 DEF Like, Alive
      <4>. QED  BY <1>6, <3>3, <3>7, <4>1, <4>2
    <3>. QED  BY <3>5, <3>6, <3>7
  <2>. QED  BY <2>1, <2>2, <2>3, TwinsStep DEF Twins, Weighs
<1>. QED  BY <1>1, <1>2, <1>4, <1>6 DEF Lasts, Backs

\* A server has no adapters before its weights are leased.
LEMMA BareStep ==
  ASSUME TypeOK, \A c \in Client : Placed(c) /\ Attended(c), Times, NamesServers, NEW a \in Client,
         \A c \in Client \ {a} : Ops[c] \subseteq Idler, \A c \in Client \ {a} : Other(c), Bare(a),
         [Next]_vars
  PROVE  Bare(a)'
<1>u. ASSUME pc'[a] # "lease" PROVE Bare(a)'
  BY <1>u DEF Bare
<1>v. ASSUME UNCHANGED server, job'[a] = job[a], pc'[a] = pc[a] PROVE Bare(a)'
  BY <1>v DEF Bare
<1>1. ASSUME NEW c \in Client, NEW o \in AllOps, NEW k \in Key \cup {NoPid}, Begin(c, o, k)
      PROVE  Bare(a)'
  <2>1. CASE c # a
    BY <1>1, <2>1, <1>v DEF Begin, Proceed, Finish, Goto, TypeOK, Other
  <2>2. CASE c = a
    BY <1>1, <2>2, <1>u DEF Begin, Proceed, Finish, Goto, TypeOK
  <2>. QED  BY <2>1, <2>2
<1>2. ASSUME NEW c \in Client, Look(c) PROVE Bare(a)'
  <2>1. PICK next, s :
          /\ Goes(c, next, s) /\ next \in {"idle", "bury", "launch", "touch", "stop", "acquire", "post"} /\ UNCHANGED server
    BY <1>2, Looked
  <2>2. CASE c # a
    BY <2>1, <2>2, <1>v DEF Goes, TypeOK
  <2>3. CASE c = a
    BY <2>1, <2>3, <1>u DEF Goes, TypeOK
  <2>. QED  BY <2>2, <2>3
<1>3. ASSUME NEW c \in Client, Bury(c) PROVE Bare(a)'
  <2>1. PICK next : Goes(c, next, NoSession) /\ next \in {"idle", "launch"} /\ UNCHANGED server
    BY <1>3, Buried
  <2>2. CASE c # a
    BY <2>1, <2>2, <1>v DEF Goes, TypeOK
  <2>3. CASE c = a
    BY <2>1, <2>3, <1>u DEF Goes, TypeOK
  <2>. QED  BY <2>2, <2>3
<1>4. ASSUME NEW c \in Client, Stop(c) PROVE Bare(a)'
  <2>1. PICK s : Goes(c, "stopped", s) /\ UNCHANGED server
    BY <1>4, Stopped
  <2>2. CASE c # a
    BY <2>1, <2>2, <1>v DEF Goes, TypeOK
  <2>3. CASE c = a
    BY <2>1, <2>3, <1>u DEF Goes, TypeOK
  <2>. QED  BY <2>2, <2>3
<1>5. ASSUME NEW c \in Client, NothingToStop(c) PROVE Bare(a)'
  <2>1. CASE c # a
    BY <1>5, <2>1, <1>v DEF NothingToStop, Proceed, Finish, Goto, TypeOK, Other, AfterStop
  <2>2. CASE c = a
    BY <1>5, <2>2, <1>u DEF NothingToStop, Proceed, Finish, Goto, TypeOK, AfterStop
  <2>. QED  BY <2>1, <2>2
<1>6. ASSUME NEW c \in Client, CannotLaunch(c) PROVE Bare(a)'
  <2>1. CASE c # a
    BY <1>6, <2>1, <1>v DEF CannotLaunch, Proceed, Finish, Goto, TypeOK, Other
  <2>2. CASE c = a
    BY <1>6, <2>2, <1>u DEF CannotLaunch, Proceed, Finish, Goto, TypeOK
  <2>. QED  BY <2>1, <2>2
<1>7. ASSUME NEW c \in Client, NEW p \in Pid, Launch(c, p) PROVE Bare(a)'
  <2>1. c = a
    BY <1>7 DEF Launch, Other
  <2>2. job'[a].pid = p /\ server'[p].adapters = {}
    BY <1>7, <2>1 DEF Launch, Proceed, Goto, TypeOK, Job
  <2>. QED  BY <2>2 DEF Bare
<1>8. ASSUME NEW c \in Client, NEW i \in LeaseId, LeaseWeights(c, i) PROVE Bare(a)'
  <2>1. PICK s : Goes(c, "save", s) /\ pc[c] = "lease"
    BY <1>8, Weighed
  <2>2. c = a
    BY <2>1 DEF Other
  <2>. QED  BY <2>1, <2>2, <1>u DEF Goes, TypeOK
<1>9. ASSUME NEW c \in Client, NEW i \in LeaseId, LeaseAdapter(c, i) PROVE Bare(a)'
  <2>1. CASE c # a
    BY <1>9, <2>1, <1>v DEF LeaseAdapter, Proceed, Finish, Goto, TypeOK, Other
  <2>2. CASE c = a
    BY <1>9, <2>2, <1>u DEF LeaseAdapter, Proceed, Finish, Goto, TypeOK
  <2>. QED  BY <2>1, <2>2
<1>10. ASSUME NEW c \in Client, SaveStarting(c) PROVE Bare(a)'
  <2>1. CASE c # a
    BY <1>10, <2>1, <1>v DEF SaveStarting, Proceed, Finish, Goto, TypeOK, Other
  <2>2. CASE c = a
    BY <1>10, <2>2, <1>u DEF SaveStarting, Proceed, Finish, Goto, TypeOK
  <2>. QED  BY <2>1, <2>2
<1>11. ASSUME NEW c \in Client, StartFailed(c) PROVE Bare(a)'
  <2>1. CASE c # a
    BY <1>11, <2>1, <1>v DEF StartFailed, Proceed, Finish, Goto, TypeOK, Other
  <2>2. CASE c = a
    BY <1>11, <2>2, <1>u DEF StartFailed, Proceed, Finish, Goto, TypeOK
  <2>. QED  BY <2>1, <2>2
<1>12. ASSUME NEW c \in Client, ReleaseFailed(c) PROVE Bare(a)'
  <2>1. CASE c # a
    BY <1>12, <2>1, <1>v DEF ReleaseFailed, Proceed, Finish, Goto, TypeOK, Other
  <2>2. CASE c = a
    BY <1>12, <2>2, <1>u DEF ReleaseFailed, Proceed, Finish, Goto, TypeOK
  <2>. QED  BY <2>1, <2>2
<1>13. ASSUME NEW c \in Client, StartReady(c) PROVE Bare(a)'
  <2>1. CASE c # a
    BY <1>13, <2>1, <1>v DEF StartReady, Proceed, Finish, Goto, TypeOK, Other
  <2>2. CASE c = a
    BY <1>13, <2>2, <1>u DEF StartReady, Proceed, Finish, Goto, TypeOK
  <2>. QED  BY <2>1, <2>2
<1>14. ASSUME NEW c \in Client, StartTimedOut(c) PROVE Bare(a)'
  <2>1. CASE c # a
    BY <1>14, <2>1, <1>v DEF StartTimedOut, Proceed, Finish, Goto, TypeOK, Other
  <2>2. CASE c = a
    BY <1>14, <2>2, <1>u DEF StartTimedOut, Proceed, Finish, Goto, TypeOK
  <2>. QED  BY <2>1, <2>2
<1>15. ASSUME NEW c \in Client, Touch(c) PROVE Bare(a)'
  <2>1. CASE c # a
    BY <1>15, <2>1, <1>v DEF Touch, Proceed, Finish, Goto, TypeOK, Other
  <2>2. CASE c = a
    BY <1>15, <2>2, <1>u DEF Touch, Proceed, Finish, Goto, TypeOK
  <2>. QED  BY <2>1, <2>2
<1>16. ASSUME NEW c \in Client, NEW p \in Pid, Posted(c, p) PROVE Bare(a)'
  <2>1. CASE c # a
    BY <1>16, <2>1, <1>v DEF Posted, Proceed, Finish, Goto, TypeOK, Other
  <2>2. CASE c = a
    BY <1>16, <2>2, <1>u DEF Posted, Proceed, Finish, Goto, TypeOK
  <2>. QED  BY <2>1, <2>2
<1>17. ASSUME NEW c \in Client, NEW p \in Pid, AnswerLost(c, p) PROVE Bare(a)'
  <2>1. CASE c # a
    BY <1>17, <2>1, <1>v DEF AnswerLost, Proceed, Finish, Goto, TypeOK, Other
  <2>2. CASE c = a
    BY <1>17, <2>2, <1>u DEF AnswerLost, Proceed, Finish, Goto, TypeOK
  <2>. QED  BY <2>1, <2>2
<1>18. ASSUME NEW c \in Client, Refused(c) PROVE Bare(a)'
  <2>1. CASE c # a
    BY <1>18, <2>1, <1>v DEF Refused, Proceed, Finish, Goto, TypeOK, Other
  <2>2. CASE c = a
    BY <1>18, <2>2, <1>u DEF Refused, Proceed, Finish, Goto, TypeOK
  <2>. QED  BY <2>1, <2>2
<1>19. ASSUME NEW c \in Client, GiveBack(c) PROVE Bare(a)'
  <2>1. CASE c # a
    BY <1>19, <2>1, <1>v DEF GiveBack, Proceed, Finish, Goto, TypeOK, Other
  <2>2. CASE c = a
    BY <1>19, <2>2, <1>u DEF GiveBack, Proceed, Finish, Goto, TypeOK
  <2>. QED  BY <2>1, <2>2
<1>20. ASSUME NEW c \in Client, Record(c) PROVE Bare(a)'
  <2>1. CASE c # a
    BY <1>20, <2>1, <1>v DEF Record, Proceed, Finish, Goto, TypeOK, Other
  <2>2. CASE c = a
    BY <1>20, <2>2, <1>u DEF Record, Proceed, Finish, Goto, TypeOK
  <2>. QED  BY <2>1, <2>2
<1>21. ASSUME NEW c \in Client, Crash(c) PROVE Bare(a)'
  <2>1. CASE c # a
    BY <1>21, <2>1, <1>v DEF Crash, Proceed, Finish, Goto, TypeOK, Other
  <2>2. CASE c = a
    BY <1>21, <2>2, <1>u DEF Crash, Proceed, Finish, Goto, TypeOK
  <2>. QED  BY <2>1, <2>2
<1>22. ASSUME NEW p \in Pid, ServerUp(p) PROVE Bare(a)'
  <2>1. server[p] \in Server /\ server' = [server EXCEPT ![p].up = TRUE] /\ UNCHANGED <<pc, job>>
    BY <1>22 DEF ServerUp, Running, TypeOK
  <2>2. server'[p].adapters = server[p].adapters /\ \A q \in Pid \ {p} : server'[q] = server[q]
    BY <2>1 DEF TypeOK, Server
  <2>3. pc[a] = "lease" => job[a].pid \in Pid
    BY JobHas DEF Placed, TypeOK
  <2>. QED  BY <2>1, <2>2, <2>3 DEF Bare
<1>23. ASSUME NEW p \in Pid, ProcessExits(p) PROVE Bare(a)'
  BY <1>23, <1>v DEF ProcessExits
<1>24. ASSUME NEW p \in Pid, ProcessReaped(p) PROVE Bare(a)'
  <2>1. /\ UNCHANGED <<pc, job>> /\ job[a].pid # p
        /\ \A q \in Pid \ {p} : server'[q] = server[q]
    BY <1>24 DEF ProcessReaped, TypeOK
  <2>2. pc[a] = "lease" => job[a].pid \in Pid
    BY JobHas DEF Placed, TypeOK
  <2>. QED  BY <2>1, <2>2 DEF Bare
<1>25. ASSUME NEW p \in Pid, StrangerStarts(p) PROVE Bare(a)'
  BY <1>25, <1>v DEF StrangerStarts
<1>26. CASE LeasesReaped
  BY <1>26, <1>v DEF LeasesReaped
<1>27. CASE TimePasses
  BY <1>27, <1>v DEF TimePasses
<1>28. CASE Reboot
  BY <1>28, <1>u DEF Reboot
<1>29. CASE UNCHANGED vars
  BY <1>29, <1>v DEF vars
<1>. QED
  BY <1>1, <1>2, <1>3, <1>4, <1>5, <1>6, <1>7, <1>8, <1>9, <1>10, <1>11, <1>12, <1>13, <1>14, <1>15,
     <1>16, <1>17, <1>18, <1>19, <1>20, <1>21, <1>22, <1>23, <1>24, <1>25, <1>26, <1>27, <1>28,
     <1>29 DEF Next, Step, Environment

\* Nobody learns of the lease of an adapter that is not loaded yet.
LEMMA UnsharedStep ==
  ASSUME TypeOK, \A c \in Client : Placed(c) /\ Attended(c), Times, NamesServers, NEW a \in Client,
         \A c \in Client \ {a} : Ops[c] \subseteq Idler, \A c \in Client \ {a} : Other(c), Unshared(a),
         [Next]_vars
  PROVE  Unshared(a)'
<1>u. ASSUME pc'[a] \notin {"post", "giveback"} \/ job'[a].op # "load" PROVE Unshared(a)'
  BY <1>u DEF Unshared
<1>t. ASSUME \A c \in Client, i \in LeaseId : ~LeaseWeights(c, i), \A c \in Client : ~Record(c),
             pc'[a] = pc[a] \/ pc[a] = "post", job'[a].op = job[a].op, job'[a].lease = job[a].lease PROVE Unshared(a)'
  <2>1. \A s \in Remembered' : \E t \in Remembered : Twin(s, t)
    BY <1>t, TwinsStep DEF Twins, Weighs
  <2>2. CASE pc[a] \in {"post", "giveback"} /\ job[a].op = "load"
    BY <1>t, <2>1, <2>2 DEF Unshared, Twin
  <2>3. CASE ~(pc[a] \in {"post", "giveback"} /\ job[a].op = "load")
    BY <1>t, <2>3 DEF Unshared
  <2>. QED  BY <2>2, <2>3
<1>v. ASSUME pc'[a] = pc[a] \/ pc[a] = "post", job'[a].op = job[a].op, job'[a].lease = job[a].lease PROVE Unshared(a)'
  <2>1. CASE pc[a] \in {"post", "giveback"}
    <3>1. /\ \A c \in Client, i \in LeaseId : ~LeaseWeights(c, i)
          /\ \A c \in Client : ~Record(c)
      BY <2>1 DEF LeaseWeights, Record, Other
    <3>. QED  BY <1>v, <3>1, <1>t
  <2>2. CASE pc[a] \notin {"post", "giveback"}
    BY <1>v, <2>2, <1>u
  <2>. QED  BY <2>1, <2>2
<1>1. ASSUME NEW c \in Client, NEW o \in AllOps, NEW k \in Key \cup {NoPid}, Begin(c, o, k)
      PROVE  Unshared(a)'
  <2>1. CASE c # a
    BY <1>1, <2>1, <1>v DEF Begin, Proceed, Finish, Goto, TypeOK, Other
  <2>2. CASE c = a
    BY <1>1, <2>2, <1>u DEF Begin, Proceed, Finish, Goto, TypeOK
  <2>. QED  BY <2>1, <2>2
<1>2. ASSUME NEW c \in Client, Look(c) PROVE Unshared(a)'
  <2>1. PICK next, s :
          /\ Goes(c, next, s) /\ next \in {"idle", "bury", "launch", "touch", "stop", "acquire", "post"}
          /\ next = "post" => job[c].op = "unload" 
    BY <1>2, Looked
  <2>2. CASE c # a
    BY <2>1, <2>2, <1>v DEF Goes, TypeOK
  <2>3. CASE c = a
    BY <2>1, <2>3, <1>u DEF Goes, TypeOK, Job
  <2>. QED  BY <2>2, <2>3
<1>3. ASSUME NEW c \in Client, Bury(c) PROVE Unshared(a)'
  <2>1. PICK next : Goes(c, next, NoSession) /\ next \in {"idle", "launch"}
    BY <1>3, Buried
  <2>2. CASE c # a
    BY <2>1, <2>2, <1>v DEF Goes, TypeOK
  <2>3. CASE c = a
    BY <2>1, <2>3, <1>u DEF Goes, TypeOK
  <2>. QED  BY <2>2, <2>3
<1>4. ASSUME NEW c \in Client, Stop(c) PROVE Unshared(a)'
  <2>1. PICK s : Goes(c, "stopped", s)
    BY <1>4, Stopped
  <2>2. CASE c # a
    BY <2>1, <2>2, <1>v DEF Goes, TypeOK
  <2>3. CASE c = a
    BY <2>1, <2>3, <1>u DEF Goes, TypeOK
  <2>. QED  BY <2>2, <2>3
<1>5. ASSUME NEW c \in Client, NothingToStop(c) PROVE Unshared(a)'
  <2>1. CASE c # a
    BY <1>5, <2>1, <1>v DEF NothingToStop, Proceed, Finish, Goto, TypeOK, Other, AfterStop
  <2>2. CASE c = a
    BY <1>5, <2>2, <1>u DEF NothingToStop, Proceed, Finish, Goto, TypeOK, AfterStop
  <2>. QED  BY <2>1, <2>2
<1>6. ASSUME NEW c \in Client, CannotLaunch(c) PROVE Unshared(a)'
  <2>1. CASE c # a
    BY <1>6, <2>1, <1>v DEF CannotLaunch, Proceed, Finish, Goto, TypeOK, Other
  <2>2. CASE c = a
    BY <1>6, <2>2, <1>u DEF CannotLaunch, Proceed, Finish, Goto, TypeOK
  <2>. QED  BY <2>1, <2>2
<1>7. ASSUME NEW c \in Client, NEW p \in Pid, Launch(c, p) PROVE Unshared(a)'
  <2>1. CASE c # a
    BY <1>7, <2>1, <1>v DEF Launch, Proceed, Finish, Goto, TypeOK, Other
  <2>2. CASE c = a
    BY <1>7, <2>2, <1>u DEF Launch, Proceed, Finish, Goto, TypeOK
  <2>. QED  BY <2>1, <2>2
<1>8. ASSUME NEW c \in Client, NEW i \in LeaseId, LeaseWeights(c, i) PROVE Unshared(a)'
  <2>1. PICK s : Goes(c, "save", s)
    BY <1>8, Weighed
  <2>2. CASE c # a
    BY <2>1, <2>2, <1>v DEF Goes, TypeOK
  <2>3. CASE c = a
    BY <2>1, <2>3, <1>u DEF Goes, TypeOK
  <2>. QED  BY <2>2, <2>3
<1>9. ASSUME NEW c \in Client, NEW i \in LeaseId, LeaseAdapter(c, i) PROVE Unshared(a)'
  <2>1. CASE c # a
    BY <1>9, <2>1, <1>v DEF LeaseAdapter, Proceed, Finish, Goto, TypeOK, Other
  <2>2. CASE c = a
    <3>1. /\ job'[a].lease = i /\ job'[a].sess = job[a].sess /\ UNCHANGED row /\ FreshId(i, Mentioned)
          /\ \A d \in Client \ {a} : job'[d] = job[d]
      BY <1>9, <2>2 DEF LeaseAdapter, Proceed, Goto, TypeOK, Job
    <3>2. Remembered' = Remembered
      BY <3>1 DEF Remembered
    <3>3. \A s \in Remembered : i \notin s.leases
      BY <3>1 DEF FreshId, Mentioned, Remembered
    <3>. QED  BY <3>1, <3>2, <3>3 DEF Unshared
  <2>. QED  BY <2>1, <2>2
<1>10. ASSUME NEW c \in Client, SaveStarting(c) PROVE Unshared(a)'
  <2>1. CASE c # a
    BY <1>10, <2>1, <1>v DEF SaveStarting, Proceed, Finish, Goto, TypeOK, Other
  <2>2. CASE c = a
    BY <1>10, <2>2, <1>u DEF SaveStarting, Proceed, Finish, Goto, TypeOK
  <2>. QED  BY <2>1, <2>2
<1>11. ASSUME NEW c \in Client, StartFailed(c) PROVE Unshared(a)'
  <2>1. CASE c # a
    BY <1>11, <2>1, <1>v DEF StartFailed, Proceed, Finish, Goto, TypeOK, Other
  <2>2. CASE c = a
    BY <1>11, <2>2, <1>u DEF StartFailed, Proceed, Finish, Goto, TypeOK
  <2>. QED  BY <2>1, <2>2
<1>12. ASSUME NEW c \in Client, ReleaseFailed(c) PROVE Unshared(a)'
  <2>1. CASE c # a
    BY <1>12, <2>1, <1>v DEF ReleaseFailed, Proceed, Finish, Goto, TypeOK, Other
  <2>2. CASE c = a
    BY <1>12, <2>2, <1>u DEF ReleaseFailed, Proceed, Finish, Goto, TypeOK
  <2>. QED  BY <2>1, <2>2
<1>13. ASSUME NEW c \in Client, StartReady(c) PROVE Unshared(a)'
  <2>1. CASE c # a
    BY <1>13, <2>1, <1>v DEF StartReady, Proceed, Finish, Goto, TypeOK, Other
  <2>2. CASE c = a
    BY <1>13, <2>2, <1>u DEF StartReady, Proceed, Finish, Goto, TypeOK
  <2>. QED  BY <2>1, <2>2
<1>14. ASSUME NEW c \in Client, StartTimedOut(c) PROVE Unshared(a)'
  <2>1. CASE c # a
    BY <1>14, <2>1, <1>v DEF StartTimedOut, Proceed, Finish, Goto, TypeOK, Other
  <2>2. CASE c = a
    BY <1>14, <2>2, <1>u DEF StartTimedOut, Proceed, Finish, Goto, TypeOK
  <2>. QED  BY <2>1, <2>2
<1>15. ASSUME NEW c \in Client, Touch(c) PROVE Unshared(a)'
  <2>1. CASE c # a
    BY <1>15, <2>1, <1>v DEF Touch, Proceed, Finish, Goto, TypeOK, Other
  <2>2. CASE c = a
    BY <1>15, <2>2, <1>u DEF Touch, Proceed, Finish, Goto, TypeOK
  <2>. QED  BY <2>1, <2>2
<1>16. ASSUME NEW c \in Client, NEW p \in Pid, Posted(c, p) PROVE Unshared(a)'
  <2>1. CASE c # a
    BY <1>16, <2>1, <1>v DEF Posted, Proceed, Finish, Goto, TypeOK, Other
  <2>2. CASE c = a
    BY <1>16, <2>2, <1>u DEF Posted, Proceed, Finish, Goto, TypeOK
  <2>. QED  BY <2>1, <2>2
<1>17. ASSUME NEW c \in Client, NEW p \in Pid, AnswerLost(c, p) PROVE Unshared(a)'
  <2>1. CASE c # a
    BY <1>17, <2>1, <1>v DEF AnswerLost, Proceed, Finish, Goto, TypeOK, Other
  <2>2. CASE c = a
    BY <1>17, <2>2, <1>v DEF AnswerLost, Proceed, Finish, Goto, TypeOK
  <2>. QED  BY <2>1, <2>2
<1>18. ASSUME NEW c \in Client, Refused(c) PROVE Unshared(a)'
  <2>1. CASE c # a
    BY <1>18, <2>1, <1>v DEF Refused, Proceed, Finish, Goto, TypeOK, Other
  <2>2. CASE c = a
    BY <1>18, <2>2, <1>u, <1>v DEF Refused, Proceed, Finish, Goto, TypeOK
  <2>. QED  BY <2>1, <2>2
<1>19. ASSUME NEW c \in Client, GiveBack(c) PROVE Unshared(a)'
  <2>1. CASE c # a
    BY <1>19, <2>1, <1>v DEF GiveBack, Proceed, Finish, Goto, TypeOK, Other
  <2>2. CASE c = a
    BY <1>19, <2>2, <1>u DEF GiveBack, Proceed, Finish, Goto, TypeOK
  <2>. QED  BY <2>1, <2>2
<1>20. ASSUME NEW c \in Client, Record(c) PROVE Unshared(a)'
  <2>1. CASE c # a
    BY <1>20, <2>1, <1>v DEF Record, Proceed, Finish, Goto, TypeOK, Other
  <2>2. CASE c = a
    BY <1>20, <2>2, <1>u DEF Record, Proceed, Finish, Goto, TypeOK
  <2>. QED  BY <2>1, <2>2
<1>21. ASSUME NEW c \in Client, Crash(c) PROVE Unshared(a)'
  <2>1. CASE c # a
    BY <1>21, <2>1, <1>v DEF Crash, Proceed, Finish, Goto, TypeOK, Other
  <2>2. CASE c = a
    BY <1>21, <2>2, <1>u DEF Crash, Proceed, Finish, Goto, TypeOK
  <2>. QED  BY <2>1, <2>2
<1>22. ASSUME NEW p \in Pid, ServerUp(p) PROVE Unshared(a)'
  BY <1>22, <1>v DEF ServerUp
<1>23. ASSUME NEW p \in Pid, ProcessExits(p) PROVE Unshared(a)'
  BY <1>23, <1>v DEF ProcessExits
<1>24. ASSUME NEW p \in Pid, ProcessReaped(p) PROVE Unshared(a)'
  BY <1>24, <1>v DEF ProcessReaped
<1>25. ASSUME NEW p \in Pid, StrangerStarts(p) PROVE Unshared(a)'
  BY <1>25, <1>v DEF StrangerStarts
<1>26. CASE LeasesReaped
  BY <1>26, <1>v DEF LeasesReaped
<1>27. CASE TimePasses
  BY <1>27, <1>v DEF TimePasses
<1>28. CASE Reboot
  BY <1>28, <1>u DEF Reboot
<1>29. CASE UNCHANGED vars
  BY <1>29, <1>v DEF vars
<1>. QED
  BY <1>1, <1>2, <1>3, <1>4, <1>5, <1>6, <1>7, <1>8, <1>9, <1>10, <1>11, <1>12, <1>13, <1>14, <1>15,
     <1>16, <1>17, <1>18, <1>19, <1>20, <1>21, <1>22, <1>23, <1>24, <1>25, <1>26, <1>27, <1>28,
     <1>29 DEF Next, Step, Environment

\* The lease of an adapter that is being loaded is there.
LEMMA TakenStep ==
  ASSUME TypeOK, \A c \in Client : Placed(c) /\ Attended(c), Times, NamesServers, NEW a \in Client,
         \A c \in Client \ {a} : Ops[c] \subseteq Idler, \A c \in Client \ {a} : Other(c), Unshared(a),
         Taken(a), [Next]_vars
  PROVE  Taken(a)'
<1>u. ASSUME pc'[a] # "post" \/ job'[a].op # "load" PROVE Taken(a)'
  BY <1>u DEF Taken
<1>v. ASSUME pc'[a] = pc[a], job'[a] = job[a],
             \A l \in leases : pc[a] = "post" /\ job[a].op = "load" /\ l.id = job[a].lease /\ Alive(l)' => l \in leases'
      PROVE  Taken(a)'
  <2>. SUFFICES ASSUME pc[a] = "post", job[a].op = "load", Alive(job[a].sess)'
                PROVE  \E l \in leases' : l.id = job[a].lease /\ l.key = job[a].key /\ l.pid = job[a].sess.pid /\ Alive(l)'
    BY <1>v DEF Taken
  <2>1. PICK t : t = job[a].sess
    OBVIOUS
  <2>2. t.pid \in Pid /\ t.boot \in Nat /\ Names(t, t.model)
    BY <2>1, KnownNames DEF Placed
  <2>3. Alive(t)'
    BY <1>v, <2>1 DEF Alive, ProcessAlive, StartTime
  <2>4. Alive(t)
    BY <2>2, <2>3, AliveMoves
  <2>5. PICK l \in leases : l.id = job[a].lease /\ l.key = job[a].key /\ l.pid = t.pid /\ Alive(l)
    BY <2>1, <2>4 DEF Taken
  <2>6. Alive(l)'
    BY <2>2, <2>3, <2>5, AliveKept DEF Alive
  <2>. QED  BY <1>v, <2>1, <2>5, <2>6
<1>1. ASSUME NEW c \in Client, NEW o \in AllOps, NEW k \in Key \cup {NoPid}, Begin(c, o, k)
      PROVE  Taken(a)'
  <2>1. CASE c # a
    BY <1>1, <2>1, <1>v DEF Begin, Proceed, Finish, Goto, TypeOK, Other, leaseVars
  <2>2. CASE c = a
    BY <1>1, <2>2, <1>u DEF Begin, Proceed, Finish, Goto, TypeOK
  <2>. QED  BY <2>1, <2>2
<1>2. ASSUME NEW c \in Client, Look(c) PROVE Taken(a)'
  <2>1. PICK next, s :
          /\ Goes(c, next, s) /\ next \in {"idle", "bury", "launch", "touch", "stop", "acquire", "post"}
          /\ next = "post" => job[c].op = "unload"
          /\ UNCHANGED leases
    BY <1>2, Looked
  <2>2. CASE c # a
    BY <2>1, <2>2, <1>v DEF Goes, TypeOK
  <2>3. CASE c = a
    BY <2>1, <2>3, <1>u DEF Goes, TypeOK, Job
  <2>. QED  BY <2>2, <2>3
<1>3. ASSUME NEW c \in Client, Bury(c) PROVE Taken(a)'
  <2>1. PICK next :
          /\ Goes(c, next, NoSession) /\ next \in {"idle", "launch"} /\ pc[c] \in {"bury", "stopped"}
          /\ leases' = Released(job[c].sess.leases)
    BY <1>3, Buried
  <2>2. CASE c # a
    <3>1. job[c].sess \in Remembered
      BY <2>1, KnownNames DEF Placed
    <3>. QED  BY <2>1, <2>2, <3>1, <1>v DEF Goes, TypeOK, Unshared, Released
  <2>3. CASE c = a
    BY <2>1, <2>3, <1>u DEF Goes, TypeOK
  <2>. QED  BY <2>2, <2>3
<1>4. ASSUME NEW c \in Client, Stop(c) PROVE Taken(a)'
  <2>1. PICK s : Goes(c, "stopped", s) /\ UNCHANGED leases
    BY <1>4, Stopped
  <2>2. CASE c # a
    BY <2>1, <2>2, <1>v DEF Goes, TypeOK
  <2>3. CASE c = a
    BY <2>1, <2>3, <1>u DEF Goes, TypeOK
  <2>. QED  BY <2>2, <2>3
<1>5. ASSUME NEW c \in Client, NothingToStop(c) PROVE Taken(a)'
  <2>1. CASE c # a
    BY <1>5, <2>1, <1>v DEF NothingToStop, Proceed, Finish, Goto, TypeOK, Other, leaseVars,
       AfterStop
  <2>2. CASE c = a
    BY <1>5, <2>2, <1>u DEF NothingToStop, Proceed, Finish, Goto, TypeOK, AfterStop
  <2>. QED  BY <2>1, <2>2
<1>6. ASSUME NEW c \in Client, CannotLaunch(c) PROVE Taken(a)'
  <2>1. CASE c # a
    BY <1>6, <2>1, <1>v DEF CannotLaunch, Proceed, Finish, Goto, TypeOK, Other, leaseVars
  <2>2. CASE c = a
    BY <1>6, <2>2, <1>u DEF CannotLaunch, Proceed, Finish, Goto, TypeOK
  <2>. QED  BY <2>1, <2>2
<1>7. ASSUME NEW c \in Client, NEW p \in Pid, Launch(c, p) PROVE Taken(a)'
  <2>1. CASE c # a
    BY <1>7, <2>1, <1>v DEF Launch, Proceed, Finish, Goto, TypeOK, Other, leaseVars
  <2>2. CASE c = a
    BY <1>7, <2>2, <1>u DEF Launch, Proceed, Finish, Goto, TypeOK
  <2>. QED  BY <2>1, <2>2
<1>8. ASSUME NEW c \in Client, NEW i \in LeaseId, LeaseWeights(c, i) PROVE Taken(a)'
  <2>1. PICK s :
          Goes(c, "save", s) /\ leases' = leases \cup {NewLease(i, job[c].key, job[c].pid)}
    BY <1>8, Weighed
  <2>2. CASE c # a
    BY <2>1, <2>2, <1>v DEF Goes, TypeOK
  <2>3. CASE c = a
    BY <2>1, <2>3, <1>u DEF Goes, TypeOK
  <2>. QED  BY <2>2, <2>3
<1>9. ASSUME NEW c \in Client, NEW i \in LeaseId, LeaseAdapter(c, i) PROVE Taken(a)'
  <2>1. CASE c # a
    BY <1>9, <2>1, <1>v DEF LeaseAdapter, Proceed, Finish, Goto, TypeOK, Other, leaseVars
  <2>2. CASE c = a
    <3>1. /\ job'[a].lease = i /\ job'[a].sess = job[a].sess /\ job'[a].key = job[a].key
          /\ leases' = leases \cup {NewLease(i, job[a].key, job[a].sess.pid)} /\ UNCHANGED <<boot, procs>>
      BY <1>9, <2>2 DEF LeaseAdapter, Proceed, Goto, TypeOK, Job
    <3>2. PICK l : l = NewLease(i, job[a].key, job[a].sess.pid)
      OBVIOUS
    <3>3. l.id = i /\ l.key = job[a].key /\ l.pid = job[a].sess.pid /\ l.boot = boot /\ l.start = StartTime(l.pid)
      BY <3>2 DEF NewLease
    <3>4. Alive(job[a].sess)' => Alive(l)'
      BY <3>1, <3>3 DEF Alive, ProcessAlive, StartTime
    <3>5. l \in leases'
      BY <3>1, <3>2
    <3>. QED  BY <3>1, <3>3, <3>4, <3>5 DEF Taken, Alive, ProcessAlive, StartTime
  <2>. QED  BY <2>1, <2>2
<1>10. ASSUME NEW c \in Client, SaveStarting(c) PROVE Taken(a)'
  <2>1. CASE c # a
    BY <1>10, <2>1, <1>v DEF SaveStarting, Proceed, Finish, Goto, TypeOK, Other, leaseVars
  <2>2. CASE c = a
    BY <1>10, <2>2, <1>u DEF SaveStarting, Proceed, Finish, Goto, TypeOK
  <2>. QED  BY <2>1, <2>2
<1>11. ASSUME NEW c \in Client, StartFailed(c) PROVE Taken(a)'
  <2>1. CASE c # a
    BY <1>11, <2>1, <1>v DEF StartFailed, Proceed, Finish, Goto, TypeOK, Other, leaseVars
  <2>2. CASE c = a
    BY <1>11, <2>2, <1>u DEF StartFailed, Proceed, Finish, Goto, TypeOK
  <2>. QED  BY <2>1, <2>2
<1>12. ASSUME NEW c \in Client, ReleaseFailed(c) PROVE Taken(a)'
  <2>1. CASE c # a
    BY <1>12, <2>1, <1>v DEF ReleaseFailed, Proceed, Finish, Goto, TypeOK, Other, leaseVars
  <2>2. CASE c = a
    BY <1>12, <2>2, <1>u DEF ReleaseFailed, Proceed, Finish, Goto, TypeOK
  <2>. QED  BY <2>1, <2>2
<1>13. ASSUME NEW c \in Client, StartReady(c) PROVE Taken(a)'
  <2>1. CASE c # a
    BY <1>13, <2>1, <1>v DEF StartReady, Proceed, Finish, Goto, TypeOK, Other, leaseVars
  <2>2. CASE c = a
    BY <1>13, <2>2, <1>u DEF StartReady, Proceed, Finish, Goto, TypeOK
  <2>. QED  BY <2>1, <2>2
<1>14. ASSUME NEW c \in Client, StartTimedOut(c) PROVE Taken(a)'
  <2>1. CASE c # a
    BY <1>14, <2>1, <1>v DEF StartTimedOut, Proceed, Finish, Goto, TypeOK, Other, leaseVars
  <2>2. CASE c = a
    BY <1>14, <2>2, <1>u DEF StartTimedOut, Proceed, Finish, Goto, TypeOK
  <2>. QED  BY <2>1, <2>2
<1>15. ASSUME NEW c \in Client, Touch(c) PROVE Taken(a)'
  <2>1. CASE c # a
    BY <1>15, <2>1, <1>v DEF Touch, Proceed, Finish, Goto, TypeOK, Other, leaseVars
  <2>2. CASE c = a
    BY <1>15, <2>2, <1>u DEF Touch, Proceed, Finish, Goto, TypeOK
  <2>. QED  BY <2>1, <2>2
<1>16. ASSUME NEW c \in Client, NEW p \in Pid, Posted(c, p) PROVE Taken(a)'
  <2>1. CASE c # a
    BY <1>16, <2>1, <1>v DEF Posted, Proceed, Finish, Goto, TypeOK, Other, leaseVars
  <2>2. CASE c = a
    BY <1>16, <2>2, <1>u DEF Posted, Proceed, Finish, Goto, TypeOK
  <2>. QED  BY <2>1, <2>2
<1>17. ASSUME NEW c \in Client, NEW p \in Pid, AnswerLost(c, p) PROVE Taken(a)'
  <2>1. CASE c # a
    BY <1>17, <2>1, <1>v DEF AnswerLost, Proceed, Finish, Goto, TypeOK, Other, leaseVars
  <2>2. CASE c = a
    BY <1>17, <2>2, <1>u DEF AnswerLost, Proceed, Finish, Goto, TypeOK
  <2>. QED  BY <2>1, <2>2
<1>18. ASSUME NEW c \in Client, Refused(c) PROVE Taken(a)'
  <2>1. CASE c # a
    BY <1>18, <2>1, <1>v DEF Refused, Proceed, Finish, Goto, TypeOK, Other, leaseVars
  <2>2. CASE c = a
    BY <1>18, <2>2, <1>u DEF Refused, Proceed, Finish, Goto, TypeOK
  <2>. QED  BY <2>1, <2>2
<1>19. ASSUME NEW c \in Client, GiveBack(c) PROVE Taken(a)'
  <2>1. CASE c # a
    BY <1>19, <2>1, <1>v DEF GiveBack, Proceed, Finish, Goto, TypeOK, Other, leaseVars
  <2>2. CASE c = a
    BY <1>19, <2>2, <1>u DEF GiveBack, Proceed, Finish, Goto, TypeOK
  <2>. QED  BY <2>1, <2>2
<1>20. ASSUME NEW c \in Client, Record(c) PROVE Taken(a)'
  <2>1. CASE c # a
    BY <1>20, <2>1, <1>v DEF Record, Proceed, Finish, Goto, TypeOK, Other, leaseVars
  <2>2. CASE c = a
    BY <1>20, <2>2, <1>u DEF Record, Proceed, Finish, Goto, TypeOK
  <2>. QED  BY <2>1, <2>2
<1>21. ASSUME NEW c \in Client, Crash(c) PROVE Taken(a)'
  <2>1. CASE c # a
    BY <1>21, <2>1, <1>v DEF Crash, Proceed, Finish, Goto, TypeOK, Other, leaseVars
  <2>2. CASE c = a
    BY <1>21, <2>2, <1>u DEF Crash, Proceed, Finish, Goto, TypeOK
  <2>. QED  BY <2>1, <2>2
<1>22. ASSUME NEW p \in Pid, ServerUp(p) PROVE Taken(a)'
  BY <1>22, <1>v DEF ServerUp, leaseVars
<1>23. ASSUME NEW p \in Pid, ProcessExits(p) PROVE Taken(a)'
  BY <1>23, <1>v DEF ProcessExits, leaseVars
<1>24. ASSUME NEW p \in Pid, ProcessReaped(p) PROVE Taken(a)'
  BY <1>24, <1>v DEF ProcessReaped, leaseVars
<1>25. ASSUME NEW p \in Pid, StrangerStarts(p) PROVE Taken(a)'
  BY <1>25, <1>v DEF StrangerStarts, leaseVars
<1>26. CASE LeasesReaped
  BY <1>26, <1>v DEF LeasesReaped, Reap, Alive, ProcessAlive, StartTime
<1>27. CASE TimePasses
  BY <1>27, <1>v DEF TimePasses, leaseVars
<1>28. CASE Reboot
  BY <1>28, <1>u DEF Reboot
<1>29. CASE UNCHANGED vars
  BY <1>29, <1>v DEF vars, leaseVars
<1>. QED
  BY <1>1, <1>2, <1>3, <1>4, <1>5, <1>6, <1>7, <1>8, <1>9, <1>10, <1>11, <1>12, <1>13, <1>14, <1>15,
     <1>16, <1>17, <1>18, <1>19, <1>20, <1>21, <1>22, <1>23, <1>24, <1>25, <1>26, <1>27, <1>28,
     <1>29 DEF Next, Step, Environment

\* What a server reads is leased, and the lease given back by nobody before it stops.
LEMMA BackedStep ==
  ASSUME TypeOK, \A c \in Client : Placed(c) /\ Attended(c), Times, NamesServers, [Next]_vars,
         NEW a \in Client, \A c \in Client \ {a} : Ops[c] \subseteq Idler, \A c \in Client \ {a} : Other(c),
         \A c \in Client : Dead(c), Mine(a), Alone(a), Bare(a), Unshared(a), Taken(a), Backed(a)
  PROVE  Backed(a)'
<1>. SUFFICES ASSUME NEW p \in Pid, Running(p)', server'[p].held, NEW k \in Reads(p)'
              PROVE  \E l \in leases' : l.key = k /\ Backs(l, p, a)'
  BY DEF Backed
<1>1. ASSUME Running(p), server[p].held, k \in Reads(p)
      PROVE  \E l \in leases' : l.key = k /\ Backs(l, p, a)'
  <2>1. PICK l \in leases : l.key = k /\ Backs(l, p, a)
    BY <1>1 DEF Backed
  <2>2. l \in leases' /\ Backs(l, p, a)'
    BY <2>1, BacksStep DEF Running
  <2>. QED  BY <2>1, <2>2
<1>2. ASSUME NEW c \in Client, NEW i \in LeaseId, LeaseWeights(c, i), job[c].pid = p
      PROVE  \E l \in leases' : l.key = k /\ Backs(l, p, a)'
  <2>1. PICK n \in SessionRow :
          /\ pc[c] = "lease" /\ Goes(c, "save", n)
          /\ server[p] \in Server /\ server[p].model = job[c].key
          /\ n.pid = p /\ n.boot = boot /\ n.start = StartTime(p) /\ n.leases = {i}
          /\ FreshId(i, Mentioned)
          /\ leases' = leases \cup {NewLease(i, job[c].key, p)}
          /\ server' = [server EXCEPT ![p].held = TRUE]
          /\ UNCHANGED <<boot, tick, procs, row>>
    BY <1>2, Weighed
  <2>2. c = a
    BY <2>1 DEF Other
  <2>3. k = job[a].key
    <3>1. server'[p].model = server[p].model /\ server'[p].adapters = server[p].adapters
      BY <2>1 DEF TypeOK, Server
    <3>. QED  BY <1>2, <2>1, <2>2, <3>1 DEF Reads, Bare
  <2>4. PICK l : l = NewLease(i, job[c].key, p)
    OBVIOUS
  <2>5. l.id = i /\ l.key = k /\ l.pid = p /\ l.boot = boot /\ l.start = StartTime(p) /\ l \in leases'
    BY <2>1, <2>2, <2>3, <2>4 DEF NewLease
  <2>6. Alive(l)' /\ Alive(n)'
    BY <2>1, <2>5 DEF Alive, Running, ProcessAlive, StartTime
  <2>7. i # job[a].lease /\ \A s \in Remembered : i \notin s.leases
    BY <2>1 DEF FreshId, Mentioned, Remembered
  <2>8. job'[a].lease = job[a].lease /\ \A s \in Remembered' : s = n \/ s \in Remembered
    BY <2>1, <2>2 DEF Goes, Remembered, TypeOK, Job
  <2>. QED  BY <2>1, <2>5, <2>6, <2>7, <2>8 DEF Backs
<1>3. ASSUME NEW c \in Client, Posted(c, p), job[c].op = "load"
      PROVE  \E l \in leases' : l.key = k /\ Backs(l, p, a)'
  <2>1. c = a /\ pc[a] = "post" /\ Running(p)
    BY <1>3 DEF Posted, Other, Answering
  <2>2. /\ pc'[a] = "record" /\ job' = job /\ UNCHANGED <<boot, procs, leases, row>>
    BY <1>3, <2>1 DEF Posted, Proceed, Goto, TypeOK, leaseVars
  <2>3. /\ server'[p].held = server[p].held /\ server'[p].orphan = server[p].orphan /\ server'[p].model = server[p].model
        /\ server'[p].adapters = server[p].adapters \cup {job[a].key}
        /\ server'[p].lost = server[p].lost \ {job[a].key}
    <3>1. /\ server[p] \in Server
          /\ server' = [server EXCEPT ![p] = [server[p] EXCEPT !.adapters = server[p].adapters \cup {job[a].key},
                                                               !.lost = server[p].lost \ {job[a].key}]]
      BY <1>3, <2>1 DEF Posted, Answering, Running, TypeOK
    <3>. QED  BY <3>1 DEF TypeOK, Server
  <2>4. CASE k \in Reads(p)
    BY <1>1, <2>1, <2>3, <2>4
  <2>5. CASE k \notin Reads(p)
    <3>1. k = job[a].key /\ ~server[p].orphan
      BY <2>3, <2>5 DEF Reads
    <3>2. Recorded(p)
      BY <2>1, <3>1 DEF Alone, Minded
    <3>3. job[a].sess.pid = p /\ Alive(job[a].sess)
      BY <2>1, <3>2 DEF Mine, Recorded, Same, Alive
    <3>4. PICK l \in leases : l.id = job[a].lease /\ l.key = k /\ l.pid = p /\ Alive(l)
      BY <1>3, <2>1, <3>1, <3>3 DEF Taken
    <3>5. \A s \in Remembered : l.id \notin s.leases
      BY <1>3, <2>1, <3>4 DEF Unshared
    <3>6. Remembered' = Remembered
      BY <2>2 DEF Remembered
    <3>7. Alive(l)' /\ (Alive(job[a].sess) => Alive(job[a].sess)')
      BY <2>2, <3>4 DEF Alive, ProcessAlive, StartTime
    <3>. QED  BY <2>2, <3>3, <3>4, <3>5, <3>6, <3>7 DEF Backs
  <2>. QED  BY <2>4, <2>5
<1>. QED  BY <1>1, <1>2, <1>3, LessStep DEF Less

\* Nothing is leased, or served, to begin with.
LEMMA LeasedInit ==
  ASSUME NEW a \in Client, Init
  PROVE  Bare(a) /\ Unshared(a) /\ Taken(a) /\ Backed(a)
BY DEF Init, Bare, Unshared, Taken, Backed, Running

\* Nothing runs, and nobody knows of anything, to begin with.
LEMMA SingleInit ==
  ASSUME NEW a \in Client, Init
  PROVE  (\A c \in Client \ {a} : Other(c)) /\ (\A c \in Client : Dead(c)) /\ Mine(a) /\ Alone(a)
BY DEF Init, NoJob, Other, Dead, Mine, Alone, Minded, Running

\* One server runs at a time, where one client starts them, however the others
\* look, stop and bury and whoever dies at any moment.
THEOREM SingleServer ==
  ASSUME NEW a \in Client, \A c \in Client \ {a} : Ops[c] \subseteq Idler
  PROVE  Spec => []OneServer
<1>. DEFINE I == (\A c \in Client \ {a} : Other(c)) /\ (\A c \in Client : Dead(c)) /\ Mine(a) /\ Alone(a)
<1>1. Init => I
  BY SingleInit
<1>2. General /\ I /\ [Next]_vars => I'
  BY OthersStep, DeadStep, MineStep, AloneStep DEF General
<1>3. I => OneServer
  BY DEF Alone, Minded, Recorded, OneServer
<1>. HIDE DEF I
<1>. QED  BY <1>1, <1>2, <1>3, GeneralAlways, PTL DEF Spec

\* The leases are those of what runs, and nobody else's: where one client starts
\* servers and loads adapters, what a server reads is leased for as long as it runs,
\* though answers are lost, processes die and the host restarts.
THEOREM TruthfulLeases ==
  ASSUME NEW a \in Client, \A c \in Client \ {a} : Ops[c] \subseteq Idler
  PROVE  Spec => []LeasesTruthful
<1>. DEFINE I == /\ (\A c \in Client \ {a} : Other(c)) /\ (\A c \in Client : Dead(c)) /\ Mine(a) /\ Alone(a)
                 /\ Bare(a) /\ Unshared(a) /\ Taken(a) /\ Backed(a)
<1>1. Init => I
  BY SingleInit, LeasedInit
<1>2. General /\ I /\ [Next]_vars => I'
  BY OthersStep, DeadStep, MineStep, AloneStep, BareStep, UnsharedStep, TakenStep, BackedStep DEF
     General
<1>3. General /\ I => ServedIsLeased
  <2>. SUFFICES ASSUME TypeOK, Backed(a), NEW p \in Pid, Running(p), server[p].held, NEW k \in Reads(p)
                PROVE  \E l \in LeasesOf(p) : l.key = k
    BY DEF General, ServedIsLeased, Reads
  <2>. QED  BY DEF Backed, Backs, LeasesOf
<1>. HIDE DEF I
<1>. QED  BY <1>1, <1>2, <1>3, GeneralAlways, NothingInherited, PTL DEF Spec, LeasesTruthful
==============================================================================
