------------------------------- MODULE Session -------------------------------
(***************************************************************************)
(* The inference session (src/nawat/sessions.py) as the commands serve,    *)
(* session and adapter (cli.py) and the control plane (api.py) drive it:   *)
(* one row that says which server runs, servers that outlive whoever       *)
(* started them, and leases in their names.                                *)
(*                                                                         *)
(* An operation yields wherever the code reads or writes the row, the      *)
(* leases, a process or the server's port; Session.alive and the signals   *)
(* that follow it are one step.                                            *)
(***************************************************************************)
EXTENDS Lease

CONSTANTS
  Client,     \* threads of the control plane and commands in terminals
  Ops,        \* the operations each of them performs
  Mortal,     \* clients that may die
  Model,      \* keys that can be served ...
  Adapter,    \* ... and loaded onto them
  Faults,     \* "lost": an answer of the server is lost; "reboot"
  NoPid, NoSession, NoServer, NoLease

VARIABLES
  pc,      \* where each client is
  job,     \* its locals
  row,     \* the sessions table: _save leaves one row in it
  server   \* what each process serves, the strangers nothing

vars == <<leaseVars, pc, job, row, server>>

-----------------------------------------------------------------------------
(* Sessions and operations.                                                *)

AllOps == {"start", "stop", "current", "touch", "reap", "load", "unload"}

\* SessionState.live.
Live == {"starting", "ready"}

\* last_used against idle_timeout is a flag: used lately.  A session is named
\* by its server, which is never started twice.
SessionRow == [model : Model, pid : Pid, boot : 1..MaxBoot, start : Start,
            state : Live \cup {"failed"}, fresh : BOOLEAN,
            adapters : SUBSET Adapter, leases : SUBSET LeaseId]

Same(s, t) == s.pid = t.pid /\ s.boot = t.boot /\ s.start = t.start

Server == [model : Model, adapters : SUBSET Adapter,
           up     : BOOLEAN,     \* it answers on the port
           held   : BOOLEAN,     \* its lease has been taken
           lost   : SUBSET Adapter,   \* loaded, but its answer was lost
           orphan : BOOLEAN]     \* who started it died before it was recorded

Job == [op : AllOps \cup {"none"}, key : Key \cup {NoPid}, pid : Pid \cup {NoPid},
        sess : SessionRow \cup {NoSession}, lease : LeaseId \cup {NoLease}]

\* The none values are none of what they stand beside.
ASSUME SessionAssumption ==
  /\ Model \cap Adapter = {} /\ Key = Model \cup Adapter
  /\ Mortal \subseteq Client
  /\ NoPid \notin Pid /\ NoLease \notin LeaseId
  /\ NoSession \notin SessionRow /\ NoServer \notin Server

NoJob == [op |-> "none", key |-> NoPid, pid |-> NoPid, sess |-> NoSession, lease |-> NoLease]

PC == {"idle", "look", "bury", "stop", "stopped", "launch", "lease", "save",
       "wait", "failed", "touch", "acquire", "post", "record", "giveback"}

Running(p) == ProcessAlive(p) /\ server[p] # NoServer

\* Who answers on the one port of the configuration.
Answering == {p \in Pid : Running(p) /\ server[p].up}

\* The lease ids somebody remembers.
Mentioned ==
  {job[c].lease : c \in Client}
    \cup UNION {s.leases : s \in ({row} \cup {job[c].sess : c \in Client}) \ {NoSession}}

-----------------------------------------------------------------------------

Goto(c, at) == pc' = [pc EXCEPT ![c] = at]

Finish(c) ==
  /\ Goto(c, "idle")
  /\ job' = [job EXCEPT ![c] = NoJob]

\* A step of a client that ends at `at`, which may be the end of the operation.
Proceed(c, at, j) ==
  IF at = "idle" THEN Finish(c)
  ELSE Goto(c, at) /\ job' = [job EXCEPT ![c] = j]

\* _save: deletes every other row and writes all of this one.
Written(s) == s

\* Faulty: what was stopped is saved as such.
StoppedKept(s) == IF row # NoSession /\ Same(row, s) THEN [row EXCEPT !.state = "stopped"] ELSE row

\* _forget: by id.
Forgotten(s) == IF row # NoSession /\ Same(row, s) THEN NoSession ELSE row

\* Faulty: a server that never said it was ready is not looked after.
FoundReady(j, s) ==
  LET ready == s # NoSession /\ s.state = "ready"
  IN CASE j.op = "start" /\ ~ready -> "launch"
       [] j.op = "start" /\ ready -> IF s.model = j.key THEN "touch" ELSE "stop"
       [] j.op = "touch"  /\ s # NoSession -> "touch"
       [] j.op = "reap"   /\ ready -> IF s.fresh THEN "idle" ELSE "stop"
       [] j.op = "load"   /\ s # NoSession -> "acquire"
       [] j.op = "unload" /\ s # NoSession -> IF j.key \in s.adapters THEN "post" ELSE "idle"
       [] OTHER -> "idle"

\* Where an operation goes on once current() has answered s.
Found(j, s) ==
  CASE j.op = "start" /\ s = NoSession -> "launch"
    [] j.op = "start" /\ s # NoSession ->
         IF s.model = j.key /\ s.state = "ready" THEN "touch" ELSE "stop"
    [] j.op = "touch"  /\ s # NoSession -> "touch"
    [] j.op = "reap"   /\ s # NoSession -> IF s.fresh THEN "idle" ELSE "stop"
    [] j.op = "load"   /\ s # NoSession -> "acquire"
    [] j.op = "unload" /\ s # NoSession -> IF j.key \in s.adapters THEN "post" ELSE "idle"
    [] OTHER -> "idle"

\* start goes on after stop(), unless it stops the server it has started itself.
AfterStop(j) == IF j.op = "start" /\ j.pid = NoPid THEN "launch" ELSE "idle"

-----------------------------------------------------------------------------
(* Operations.                                                             *)

Begin(c, o, k) ==
  /\ pc[c] = "idle" /\ o \in Ops[c]
  /\ k \in CASE o = "start" -> Model [] o \in {"load", "unload"} -> Adapter [] OTHER -> {NoPid}
  /\ Goto(c, IF o = "stop" THEN "stop" ELSE "look")
  /\ job' = [job EXCEPT ![c] = [NoJob EXCEPT !.op = o, !.key = k]]
  /\ UNCHANGED <<leaseVars, row, server>>

\* What an operation keeps of the row it has read: nothing where it reads again,
\* and nowhere last_used, which whoever writes the row sets anew.
Kept(s, next) ==
  IF s = NoSession \/ next \in {"stop", "launch"} THEN NoSession ELSE [s EXCEPT !.fresh = FALSE]

\* Faulty: what is not ready yet does not count as alive.
LookReady(c) ==
  LET s == IF row # NoSession /\ row.state \in Live THEN row ELSE NoSession
      next == IF s # NoSession /\ (s.state = "starting" \/ ~Alive(s)) THEN "bury" ELSE Found(job[c], s)
  IN /\ pc[c] = "look"
     /\ Proceed(c, next, [job[c] EXCEPT !.sess = Kept(s, next)])
     /\ UNCHANGED <<leaseVars, row, server>>

\* current: one SELECT; a session whose server died is buried first.
Look(c) ==
  LET s == IF row # NoSession /\ row.state \in Live THEN row ELSE NoSession
      next == IF s # NoSession /\ ~Alive(s) THEN "bury" ELSE Found(job[c], s)
  IN /\ pc[c] = "look"
     /\ Proceed(c, next, [job[c] EXCEPT !.sess = Kept(s, next)])
     /\ UNCHANGED <<leaseVars, row, server>>

\* _release and _forget of a session that is over, in current() and in stop():
\* two transactions on rows that only a live session would be asked for.
Bury(c) ==
  LET next == IF pc[c] = "bury" THEN Found(job[c], NoSession) ELSE AfterStop(job[c])
  IN /\ pc[c] \in {"bury", "stopped"}
     /\ leases' = Released(job[c].sess.leases)
     /\ row' = Forgotten(job[c].sess)
     /\ Proceed(c, next, [job[c] EXCEPT !.sess = NoSession])
     /\ UNCHANGED <<boot, tick, procs, server>>

\* stop: reads the row anew and takes the server's process group down.
Stop(c) ==
  /\ pc[c] = "stop" /\ row # NoSession
  /\ procs' = IF Alive(row) THEN [procs EXCEPT ![row.pid].state = "zombie"] ELSE procs
  /\ Proceed(c, "stopped", [job[c] EXCEPT !.sess = Kept(row, "stopped")])
  /\ UNCHANGED <<boot, tick, leases, row, server>>

NothingToStop(c) ==
  /\ pc[c] = "stop" /\ row = NoSession
  /\ Proceed(c, AfterStop(job[c]), [job[c] EXCEPT !.sess = NoSession])
  /\ UNCHANGED <<leaseVars, row, server>>

-----------------------------------------------------------------------------
(* start.                                                                  *)

\* The weights cannot be resolved, or the backend is not installed.
CannotLaunch(c) ==
  /\ pc[c] \in {"launch", "acquire"}
  /\ Finish(c)
  /\ UNCHANGED <<leaseVars, row, server>>

Launch(c, p) ==
  /\ pc[c] = "launch"
  /\ Spawned(p)
  /\ server' = [server EXCEPT ![p] = [model |-> job[c].key, adapters |-> {}, up |-> FALSE,
                                      held |-> FALSE, lost |-> {}, orphan |-> FALSE]]
  /\ Proceed(c, "lease", [job[c] EXCEPT !.pid = p])
  /\ UNCHANGED <<boot, leases, row>>

\* The lease on the weights, in the name of the server.
LeaseWeights(c, i) ==
  LET p == job[c].pid
  IN /\ pc[c] = "lease" /\ FreshId(i, Mentioned)
     /\ leases' = leases \cup {NewLease(i, job[c].key, p)}
     /\ server' = [server EXCEPT ![p].held = TRUE]
     /\ Proceed(c, "save", [job[c] EXCEPT !.sess =
          [model |-> job[c].key, pid |-> p, boot |-> boot, start |-> StartTime(p),
           state |-> "starting", fresh |-> FALSE, adapters |-> {}, leases |-> {i}]])
     /\ UNCHANGED <<boot, tick, procs, row>>

\* _save; wait=False, of `serve --no-wait`, ends here.
SaveStarting(c) ==
  /\ pc[c] = "save"
  /\ row' = Written([job[c].sess EXCEPT !.fresh = TRUE])
  /\ \E next \in {"wait", "idle"} : Proceed(c, next, job[c])
  /\ UNCHANGED <<leaseVars, server>>

\* wait_ready finds the process gone, ...
StartFailed(c) ==
  /\ pc[c] = "wait" /\ ~Alive(job[c].sess)
  /\ row' = Written([job[c].sess EXCEPT !.state = "failed"])
  /\ Proceed(c, "failed", job[c])
  /\ UNCHANGED <<leaseVars, server>>

ReleaseFailed(c) ==
  /\ pc[c] = "failed"
  /\ leases' = Released(job[c].sess.leases)
  /\ Finish(c)
  /\ UNCHANGED <<boot, tick, procs, row, server>>

\* ... gets an answer on the port, ...
StartReady(c) ==
  /\ pc[c] = "wait" /\ Alive(job[c].sess) /\ Answering # {}
  /\ row' = Written([job[c].sess EXCEPT !.state = "ready", !.fresh = TRUE])
  /\ Finish(c)
  /\ UNCHANGED <<leaseVars, server>>

\* ... or has waited long enough.
StartTimedOut(c) ==
  /\ pc[c] = "wait"
  /\ Proceed(c, "stop", [job[c] EXCEPT !.sess = NoSession])
  /\ UNCHANGED <<leaseVars, row, server>>

-----------------------------------------------------------------------------
(* touch and adapters.                                                     *)

\* touch: the session as it was read, written back whole.
Touch(c) ==
  /\ pc[c] = "touch"
  /\ row' = Written([job[c].sess EXCEPT !.fresh = TRUE])
  /\ Finish(c)
  /\ UNCHANGED <<leaseVars, server>>

\* The adapter's lease is in the name of a server that may be gone by now.
LeaseAdapter(c, i) ==
  /\ pc[c] = "acquire" /\ FreshId(i, Mentioned)
  /\ leases' = leases \cup {NewLease(i, job[c].key, job[c].sess.pid)}
  /\ Proceed(c, "post", [job[c] EXCEPT !.lease = i])
  /\ UNCHANGED <<boot, tick, procs, row, server>>

\* The server does what it is asked to and says so.
Posted(c, p) ==
  LET k == job[c].key
      loading == job[c].op = "load"
  IN /\ pc[c] = "post" /\ p \in Answering
     /\ loading # (k \in server[p].adapters)
     /\ server' = [server EXCEPT ![p].adapters = IF loading THEN @ \cup {k} ELSE @ \ {k},
                                 ![p].lost = @ \ {k}]
     /\ Proceed(c, "record", job[c])
     /\ UNCHANGED <<leaseVars, row>>

\* It refuses, or does not answer: an adapter's lease is given back.
Refused(c) ==
  /\ pc[c] = "post"
  /\ Proceed(c, IF job[c].op = "load" THEN "giveback" ELSE "idle", job[c])
  /\ UNCHANGED <<leaseVars, row, server>>

\* It does what it is asked to, and its answer does not come in time (a bound:
\* in the last boot only).
AnswerLost(c, p) ==
  /\ "lost" \in Faults /\ boot = MaxBoot
  /\ pc[c] = "post" /\ p \in Answering /\ job[c].op = "load"
  /\ server' = [server EXCEPT ![p].adapters = @ \cup {job[c].key}, ![p].lost = @ \cup {job[c].key}]
  /\ Proceed(c, "giveback", job[c])
  /\ UNCHANGED <<leaseVars, row>>

GiveBack(c) ==
  /\ pc[c] = "giveback"
  /\ leases' = Released({job[c].lease})
  /\ Finish(c)
  /\ UNCHANGED <<boot, tick, procs, row, server>>

\* The session as it was read, with the adapter in or out of it.
Record(c) ==
  LET s == job[c].sess
  IN /\ pc[c] = "record"
     /\ row' = Written(IF job[c].op = "load"
                       THEN [s EXCEPT !.adapters = @ \cup {job[c].key}, !.fresh = TRUE,
                                      !.leases = @ \cup {job[c].lease}]
                       ELSE [s EXCEPT !.adapters = @ \ {job[c].key}, !.fresh = TRUE])
     /\ Finish(c)
     /\ UNCHANGED <<leaseVars, server>>

-----------------------------------------------------------------------------
(* Servers, strangers and time.                                            *)

\* A server has loaded its weights and binds the port, if nobody else has it.
ServerUp(p) ==
  /\ Running(p) /\ ~server[p].up /\ Answering = {}
  /\ server' = [server EXCEPT ![p].up = TRUE]
  /\ UNCHANGED <<leaseVars, pc, job, row>>

\* Any process may exit; one that cannot bind the port does.
ProcessExits(p) ==
  /\ Exited(p)
  /\ UNCHANGED <<boot, tick, leases, pc, job, row, server>>

\* The parent of a server waits for it when it takes it down, or is itself gone:
\* not while it is starting it.
ProcessReaped(p) ==
  /\ WaitedFor(p)
  /\ \A c \in Client : job[c].pid # p
  /\ server' = [server EXCEPT ![p] = NoServer]
  /\ UNCHANGED <<boot, tick, leases, pc, job, row>>

\* Some other process gets the pid.
StrangerStarts(p) ==
  /\ Spawned(p)
  /\ UNCHANGED <<boot, leases, pc, job, row, server>>

\* Whoever looks at the cache clears the leases of the dead.
LeasesReaped ==
  /\ Reap
  /\ UNCHANGED <<pc, job, row, server>>

\* The idle timeout has passed since the row was last touched.
TimePasses ==
  /\ row # NoSession /\ row.fresh
  /\ row' = [row EXCEPT !.fresh = FALSE]
  /\ UNCHANGED <<leaseVars, pc, job, server>>

Crash(c) ==
  /\ c \in Mortal /\ pc[c] # "idle"
  /\ server' = IF pc[c] \in {"lease", "save"} THEN [server EXCEPT ![job[c].pid].orphan = TRUE]
                                              ELSE server
  /\ Finish(c)
  /\ UNCHANGED <<leaseVars, row>>

Reboot ==
  /\ "reboot" \in Faults
  /\ Rebooted
  /\ pc' = [c \in Client |-> "idle"] /\ job' = [c \in Client |-> NoJob]
  /\ server' = [p \in Pid |-> NoServer]
  /\ UNCHANGED <<leases, row>>

-----------------------------------------------------------------------------

Init ==
  /\ LeaseInit
  /\ pc = [c \in Client |-> "idle"] /\ job = [c \in Client |-> NoJob]
  /\ row = NoSession /\ server = [p \in Pid |-> NoServer]

\* What a client does of itself once it has begun.
Step(c) ==
  \/ Look(c) \/ Bury(c) \/ Stop(c) \/ NothingToStop(c)
  \/ CannotLaunch(c) \/ \E p \in Pid : Launch(c, p)
  \/ \E i \in LeaseId : LeaseWeights(c, i) \/ LeaseAdapter(c, i)
  \/ SaveStarting(c) \/ StartFailed(c) \/ ReleaseFailed(c) \/ StartReady(c) \/ StartTimedOut(c) \/ Touch(c)
  \/ \E p \in Pid : Posted(c, p) \/ AnswerLost(c, p)
  \/ Refused(c) \/ GiveBack(c) \/ Record(c)

Environment ==
  \/ \E p \in Pid : ServerUp(p) \/ ProcessExits(p) \/ ProcessReaped(p) \/ StrangerStarts(p)
  \/ LeasesReaped \/ TimePasses \/ Reboot

Next ==
  \/ \E c \in Client : Step(c) \/ Crash(c) \/ \E o \in AllOps, k \in Key \cup {NoPid} : Begin(c, o, k)
  \/ Environment

Spec == Init /\ [][Next]_vars

\* The sweeper of the control plane (api.py) begins again and again and goes on
\* with what it has begun; anybody else may stop anywhere.
Sweeper == {c \in Client : "reap" \in Ops[c]}

FairSpec ==
  /\ Spec
  /\ \A c \in Sweeper : WF_vars(Step(c)) /\ WF_vars(Begin(c, "reap", NoPid))

-----------------------------------------------------------------------------
(* Properties.                                                             *)

TypeOK ==
  /\ LeaseTypeOK
  /\ pc \in [Client -> PC] /\ job \in [Client -> Job]
  /\ row \in SessionRow \cup {NoSession}
  /\ server \in [Pid -> Server \cup {NoServer}]

\* One server runs at a time (sessions.py:3): whoever starts one has seen every
\* other one stop, but for those whose starter died before it could record them.
OneServer ==
  \A p, q \in Pid : p # q /\ Running(p) /\ Running(q) => server[p].orphan \/ server[q].orphan

\* What a server reads is in use for as long as it runs, whoever else loads,
\* unloads, is refused, restarts or dies (sessions.py:343).  A server that nobody
\* has recorded may be sent adapters meant for the one that could not bind the port.
ServedIsLeased ==
  \A p \in Pid : Running(p) /\ server[p].held =>
    \A k \in {server[p].model} \cup (IF server[p].orphan THEN {} ELSE server[p].adapters \ server[p].lost) :
      \E l \in LeasesOf(p) : l.key = k

\* The weights are leased to nobody but the server that serves them: not to a
\* process on its pid later, in this boot or another one (leases.py:8).  Adapters
\* are leased to whatever has the pid when the lease is taken.
NoLeaseInherited ==
  \A l \in leases : l.key \in Model /\ Alive(l) =>
    server[l.pid] # NoServer /\ server[l.pid].model = l.key

\* The leases are those of what runs, and nobody else's.
LeasesTruthful == ServedIsLeased /\ NoLeaseInherited

\* A stranger on the pid of a dead server is never signalled (sessions.py:115).
OnlyServersKilled ==
  [][\A c \in Client : pc[c] = "stop" /\ pc'[c] = "stopped" =>
       \A p \in Pid : procs'[p] # procs[p] => server[p] # NoServer]_vars

\* The GPU does not stay with a session nobody uses (api.py:543): it is used
\* again, replaced or stopped.
IdleReleased ==
  LET Recorded(p) == row # NoSession /\ row.pid = p /\ row.state \in Live /\ Alive(row)
  IN \A p \in Pid : (Recorded(p) /\ ~row.fresh) ~> (~Recorded(p) \/ row.fresh)
=============================================================================
