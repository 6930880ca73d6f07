------------------------------ MODULE RunQueue ------------------------------
(***************************************************************************)
(* Taking turns on the GPU (src/nawat/executor.py, runs.py, gpulock.py,    *)
(* cli.py, lab/cli.py, api.py).                                            *)
(*                                                                         *)
(* Runs are submitted by terminals, which run them in the foreground or    *)
(* hand them to the queue; the queue is served by the control plane or by  *)
(* a background worker.  Three flocks keep order: the GPU lock, the owner  *)
(* lock of a foreground run, the worker lock.  The kernel drops a lock     *)
(* when its holder dies; the trainer the holder started lives on.          *)
(*                                                                         *)
(* One action is one stretch between two points at which another process   *)
(* can act: a query or an update of the runs table, a sentinel file, a     *)
(* lock, a process started or signalled.                                   *)
(***************************************************************************)
EXTENDS Naturals, FiniteSets

CONSTANTS
  Terminal,      \* shells: `nawat exp run`, or an API request that submits
  Worker,        \* processes `nawat exp queue --work` that may be alive at a time
  Server,        \* queue threads of control planes
  Canceller,     \* who cancels: Ctrl-C, `nawat exp cancel`, an API request
  Mortal,        \* the processes that may die
  Run,           \* run ids
  ExperimentOf,  \* the experiment each run is an attempt of
  Modes,         \* how runs are submitted: "here", "queue" (--queue) or "api"
  Faults,        \* "script": training scripts fail; "store": staging and uploads do
  NoOne, NoRun

Proc == Terminal \cup Worker \cup Server \cup Canceller

ASSUME RunQueueAssumption ==
  /\ IsFiniteSet(Run) /\ NoRun \notin Run
  /\ NoOne \notin Proc
  /\ Mortal \subseteq Proc
  /\ Terminal \cap (Worker \cup Server) = {}   \* a process has one role
  /\ Canceller \cap (Terminal \cup Worker \cup Server) = {}
  /\ Modes \subseteq {"here", "queue", "api"}

VARIABLES
  pc, job,      \* where each process is, and its locals
  state,        \* runs.state
  stamp,        \* runs.submitted_at
  clock,        \* the time
  pids,         \* runs whose pid is recorded
  attempts,     \* runs listed in their experiment's experiment.json
  owner,        \* the terminal that claimed the run, if one did
  sentinel,     \* runs whose cancel file exists
  gpu, serving, \* who holds the GPU lock, and the worker lock
  trainer,      \* the training process of each run
  launches,     \* how often it was started (history)
  older,        \* the runs already waiting when a run entered the table (history)
  orphaned      \* runs whose executor died on the GPU (history)

tableVars == <<state, stamp, pids, attempts, owner, sentinel>>
lockVars  == <<gpu, serving>>
history   == <<launches, older, orphaned>>
vars == <<pc, job, tableVars, clock, lockVars, trainer, history>>

-----------------------------------------------------------------------------
Active == {"staging", "running", "publishing"}
Final  == {"succeeded", "failed", "cancelled"}
State  == {"none", "queued"} \cup Active \cup Final

Submitting == {"stamp", "insert", "list", "probe", "spawn"}
Turning    == {"look", "drop", "ahead", "nudge", "nudged", "take"}
OnGpu      == {"begin", "stage", "popen", "record", "wait", "publish", "settle"}
Serving    == {"reconcile", "serve", "next", "pick", "leave"}
Cancelling == {"mark", "act"}
PC == {"idle"} \cup Submitting \cup Turning \cup OnGpu \cup Serving \cup Cancelling

Job == [run    : Run \cup {NoRun},
        mode   : Modes \cup {"none"},
        queued : BOOLEAN,              \* the record it read was QUEUED
        todo   : SUBSET Run,           \* active runs reconcile has not looked at
        known  : SUBSET Run]           \* runs whose pid it read

NoJob == [run |-> NoRun, mode |-> "none", queued |-> FALSE, todo |-> {}, known |-> {}]

-----------------------------------------------------------------------------
\* The owner lock is held while the terminal that claimed the run lives.
Held(r) == owner[r] \in Terminal /\ job[owner[r]].run = r

\* owner_state: waiting for its terminal, handed to the queue, or gone.
OwnerState(r) == IF owner[r] = NoOne THEN "queue" ELSE IF Held(r) THEN "waiting" ELSE "gone"

Queued == {r \in Run : state[r] = "queued"}

\* queued_before: the queue in the order of submission.
QueuedBefore(r) == {o \in Queued : stamp[o] < stamp[r]}

\* Faulty: whoever is claimed counts as abandoned.
AbandonedClaimed == {r \in Queued : OwnerState(r) # "queue"}

\* Faulty: nothing is.
AbandonedNever == {}

Abandoned == {r \in Queued : OwnerState(r) = "gone"}

\* Faulty: a run that a terminal waits to run is served too.
ServableWaiting == {r \in Queued : OwnerState(r) # "gone"}

\* What next_run chooses from: the runs handed to the queue.
Servable == {r \in Queued : OwnerState(r) = "queue"}

\* pending_attempt: an attempt of the experiment that has not ended.
Pending(e) == \E o \in attempts : ExperimentOf[o] = e /\ state[o] \notin Final

Goto(p, at) == pc' = [pc EXCEPT ![p] = at]

\* runs.update(run, state=s).  It reads the row and writes it whole: the read
\* and the write are taken as one step.
SetState(r, s) == state' = [state EXCEPT ![r] = s]

\* Faulty: the call goes on with no run.
DoneForgotten(p) ==
  /\ UNCHANGED pc
  /\ job' = [job EXCEPT ![p] = NoJob]

\* The call ends: a terminal exits (its owner lock with it), whoever serves
\* the queue looks for the next run.
Done(p) ==
  /\ Goto(p, IF p \in Worker \cup Server THEN "next" ELSE "idle")
  /\ job' = [job EXCEPT ![p] = NoJob]

-----------------------------------------------------------------------------
(* Submitting a run.                                                       *)

\* run_experiment: no pending attempt; a foreground run is claimed before its
\* row exists.  Run ids are fresh: one that has been stamped is used up.
Submit(t, r, m) ==
  /\ pc[t] = "idle"
  /\ stamp[r] = 0 /\ \A p \in Proc : job[p].run # r
  /\ ~Pending(ExperimentOf[r])
  /\ job' = [job EXCEPT ![t] = [NoJob EXCEPT !.run = r, !.mode = m]]
  /\ owner' = [owner EXCEPT ![r] = IF m = "here" THEN t ELSE NoOne]
  /\ Goto(t, "stamp")
  /\ UNCHANGED <<state, stamp, pids, attempts, sentinel, clock, lockVars, trainer, history>>

\* RunStore.create takes the time ...
Stamp(t) ==
  /\ pc[t] = "stamp"
  /\ clock' = clock + 1
  /\ stamp' = [stamp EXCEPT ![job[t].run] = clock + 1]
  /\ Goto(t, "insert")
  /\ UNCHANGED <<job, state, pids, attempts, owner, sentinel, lockVars, trainer, history>>

\* ... and then inserts the row.
Insert(t) ==
  LET r == job[t].run
  IN /\ pc[t] = "insert"
     /\ SetState(r, "queued")
     /\ older' = [older EXCEPT ![r] = QueuedBefore(r)]
     /\ Goto(t, "list")
     /\ UNCHANGED <<job, stamp, pids, attempts, owner, sentinel, clock, lockVars, trainer, launches, orphaned>>

\* add_attempt; then the run is executed here, or a worker is looked for, or
\* the control plane's own queue thread will find it.
AddAttempt(t) ==
  /\ pc[t] = "list"
  /\ attempts' = attempts \cup {job[t].run}
  /\ CASE job[t].mode = "here" -> Goto(t, "look") /\ UNCHANGED job
       [] job[t].mode = "queue" -> Goto(t, "probe") /\ UNCHANGED job
       [] OTHER -> Done(t)
  /\ UNCHANGED <<state, stamp, pids, owner, sentinel, clock, lockVars, trainer, history>>

\* is_held(worker lock) takes the lock for a moment, if it can.
Probe(p) ==
  /\ pc[p] \in {"probe", "nudge"}
  /\ IF serving = NoOne
       THEN /\ serving' = p
            /\ Goto(p, IF pc[p] = "probe" THEN "spawn" ELSE "nudged")
            /\ UNCHANGED job
       ELSE /\ IF pc[p] = "probe" THEN Done(p) ELSE Goto(p, "look") /\ UNCHANGED job
            /\ UNCHANGED serving
  /\ UNCHANGED <<tableVars, clock, gpu, trainer, history>>

\* Nobody serves the queue: let go of the lock and start a worker.
StartWorker(p) ==
  /\ pc[p] \in {"spawn", "nudged"}
  /\ serving' = NoOne
  /\ \E w \in Worker :
       /\ pc[w] = "idle"
       /\ pc' = [pc EXCEPT ![w] = "serve", ![p] = IF pc[p] = "spawn" THEN "idle" ELSE "look"]
  /\ job' = IF pc[p] = "spawn" THEN [job EXCEPT ![p] = NoJob] ELSE job
  /\ UNCHANGED <<tableVars, clock, gpu, trainer, history>>

-----------------------------------------------------------------------------
(* Serving the queue.                                                      *)

\* The control plane starts, and first asks which runs were active.
StartServer(s) ==
  /\ pc[s] = "idle"
  /\ LET listed == {r \in Run : state[r] \in Active}
     IN job' = [job EXCEPT ![s] = [NoJob EXCEPT !.todo = listed, !.known = listed \cap pids]]
  /\ Goto(s, "reconcile")
  /\ UNCHANGED <<tableVars, clock, lockVars, trainer, history>>

\* RunStore.reconcile: an active run whose recorded process lives is left
\* alone; the others are marked failed.
ReconcileRun(s) ==
  /\ pc[s] = "reconcile"
  /\ \E r \in job[s].todo :
       /\ IF r \in job[s].known /\ trainer[r] = "alive" THEN UNCHANGED state ELSE SetState(r, "failed")
       /\ job' = [job EXCEPT ![s].todo = @ \ {r}]
  /\ UNCHANGED <<pc, stamp, pids, attempts, owner, sentinel, clock, lockVars, trainer, history>>

\* Every active run was looked at: the queue thread starts.
Reconciled(s) ==
  /\ pc[s] = "reconcile" /\ job[s].todo = {}
  /\ job' = [job EXCEPT ![s] = NoJob]
  /\ Goto(s, "serve")
  /\ UNCHANGED <<tableVars, clock, lockVars, trainer, history>>

\* _serve: the worker lock, or (for a worker) the end.
TryServe(p) ==
  /\ pc[p] = "serve"
  /\ \/ serving = NoOne /\ serving' = p /\ Goto(p, "next")
     \/ serving # NoOne /\ p \in Worker /\ Goto(p, "idle") /\ UNCHANGED serving
  /\ UNCHANGED <<job, tableVars, clock, gpu, trainer, history>>

\* drop_abandoned: queued runs whose terminal is gone are cancelled.
Drop(p) ==
  /\ pc[p] \in {"next", "drop"}
  /\ state' = [r \in Run |-> IF r \in Abandoned THEN "cancelled" ELSE state[r]]
  /\ sentinel' = sentinel \cup Abandoned
  /\ Goto(p, IF pc[p] = "next" THEN "pick" ELSE "ahead")
  /\ UNCHANGED <<job, stamp, pids, attempts, owner, clock, lockVars, trainer, history>>

\* next_run: the oldest of them.
PickRun(p) ==
  /\ pc[p] = "pick"
  /\ \/ \E r \in Servable :
          /\ \A o \in Servable : stamp[r] <= stamp[o]
          /\ job' = [job EXCEPT ![p].run = r]
          /\ Goto(p, "look")
     \/ /\ Servable = {}
        /\ Goto(p, IF p \in Worker THEN "leave" ELSE "next")
        /\ UNCHANGED job
  /\ UNCHANGED <<tableVars, clock, lockVars, trainer, history>>

\* The worker found nothing: it lets go of the worker lock and exits.
LeaveQueue(p) ==
  /\ pc[p] = "leave"
  /\ serving' = NoOne
  /\ Goto(p, "idle")
  /\ UNCHANGED <<job, tableVars, clock, gpu, trainer, history>>

-----------------------------------------------------------------------------
(* wait_for_turn.                                                          *)

\* The head of the loop: a run that has finished or was cancelled is left.
Look(p) ==
  LET r == job[p].run
  IN /\ pc[p] = "look"
     /\ IF state[r] \in Final THEN Done(p) /\ UNCHANGED state
        ELSE IF r \in sentinel THEN Done(p) /\ SetState(r, "cancelled")
        ELSE /\ job' = [job EXCEPT ![p].queued = state[r] = "queued"]
             /\ Goto(p, "drop")
             /\ UNCHANGED state
     /\ UNCHANGED <<stamp, pids, attempts, owner, sentinel, clock, lockVars, trainer, history>>

\* Faulty: whoever is ahead, take the GPU.
CheckAheadNever(p) ==
  /\ pc[p] = "ahead" /\ Goto(p, "take")
  /\ UNCHANGED <<job, tableVars, clock, lockVars, trainer, history>>

\* Somebody is ahead: wait, and have the queue served if nobody serves it
\* (on_stalled is set in terminals and workers, and fires only now and then).
CheckAhead(p) ==
  LET ahead == IF job[p].queued THEN QueuedBefore(job[p].run) ELSE {}
  IN /\ pc[p] = "ahead"
     /\ \/ ahead = {} /\ Goto(p, "take")
        \/ ahead # {} /\ Goto(p, "look")
        \/ /\ p \notin Server /\ \E o \in ahead : OwnerState(o) = "queue"
           /\ Goto(p, "nudge")
     /\ UNCHANGED <<job, tableVars, clock, lockVars, trainer, history>>

\* Faulty: the lock is not asked.
TakeGpuUnlocked(p) ==
  /\ pc[p] = "take" /\ gpu' = p /\ Goto(p, "begin")
  /\ UNCHANGED <<job, tableVars, clock, serving, trainer, history>>

\* take_gpu: the lock, or another round.
TakeGpu(p) ==
  /\ pc[p] = "take"
  /\ IF gpu = NoOne THEN gpu' = p /\ Goto(p, "begin") ELSE Goto(p, "look") /\ UNCHANGED gpu
  /\ UNCHANGED <<job, tableVars, clock, serving, trainer, history>>

-----------------------------------------------------------------------------
(* _execute and _run_process, with the GPU held.                           *)

\* The record says STAGING, whatever it said.
BeginRun(p) ==
  /\ pc[p] = "begin"
  /\ SetState(job[p].run, "staging")
  /\ Goto(p, "stage")
  /\ UNCHANGED <<job, stamp, pids, attempts, owner, sentinel, clock, lockVars, trainer, history>>

\* The inputs are staged: the last look at the cancel file before the trainer
\* starts.
CheckCancel(p) ==
  LET r == job[p].run
  IN /\ pc[p] = "stage"
     /\ IF r \in sentinel THEN SetState(r, "cancelled") /\ Goto(p, "settle")
        ELSE Goto(p, "popen") /\ UNCHANGED state
     /\ UNCHANGED <<job, stamp, pids, attempts, owner, sentinel, clock, lockVars, trainer, history>>

\* The trainer starts, in a session of its own ...
Popen(p) ==
  LET r == job[p].run
  IN /\ pc[p] = "popen"
     /\ trainer' = [trainer EXCEPT ![r] = "alive"]
     /\ launches' = [launches EXCEPT ![r] = @ + 1]
     /\ Goto(p, "record")
     /\ UNCHANGED <<job, tableVars, clock, lockVars, older, orphaned>>

\* ... and then its pid is recorded.
RecordPid(p) ==
  LET r == job[p].run
  IN /\ pc[p] = "record"
     /\ SetState(r, "running")
     /\ pids' = pids \cup {r}
     /\ Goto(p, "wait")
     /\ UNCHANGED <<job, stamp, attempts, owner, sentinel, clock, lockVars, trainer, history>>

\* Faulty: the GPU is given up before the outputs are published.
ExitedReleasing(p) ==
  /\ pc[p] = "wait" /\ trainer[job[p].run] = "exited"
  /\ SetState(job[p].run, "publishing") /\ Goto(p, "publish")
  /\ gpu' = NoOne
  /\ UNCHANGED <<job, stamp, pids, attempts, owner, sentinel, clock, serving, trainer, history>>

\* The trainer has exited.  A run cancelled while it trained publishes no
\* outputs; a record that says CANCELLED is left so.
Exited(p) ==
  LET r == job[p].run
  IN /\ pc[p] = "wait" /\ trainer[r] = "exited"
     /\ IF r \in sentinel \/ state[r] = "cancelled"
          THEN SetState(r, "cancelled") /\ Goto(p, "settle")
          ELSE SetState(r, "publishing") /\ Goto(p, "publish")
     /\ UNCHANGED <<job, stamp, pids, attempts, owner, sentinel, clock, lockVars, trainer, history>>

\* The outputs, or what a failed script left of them, are in the store.
Publish(p) ==
  /\ pc[p] = "publish"
  /\ \/ SetState(job[p].run, "succeeded")
     \/ "script" \in Faults /\ SetState(job[p].run, "failed")
  /\ Goto(p, "settle")
  /\ UNCHANGED <<job, stamp, pids, attempts, owner, sentinel, clock, lockVars, trainer, history>>

\* _fail: staging or publishing raised.
Fail(p) ==
  /\ "store" \in Faults /\ pc[p] \in {"begin", "stage", "publish"}
  /\ IF state[job[p].run] = "cancelled" THEN UNCHANGED state ELSE SetState(job[p].run, "failed")
  /\ Goto(p, "settle")
  /\ UNCHANGED <<job, stamp, pids, attempts, owner, sentinel, clock, lockVars, trainer, history>>

\* Checkpoints settled, record published: the GPU goes to the next run.
Settle(p) ==
  /\ pc[p] = "settle"
  /\ gpu' = NoOne
  /\ Done(p)
  /\ UNCHANGED <<tableVars, clock, serving, trainer, history>>

-----------------------------------------------------------------------------
(* cancel.                                                                 *)

\* A run that has finished cannot be cancelled.
CancelRead(c, r) ==
  /\ pc[c] = "idle"
  /\ state[r] \in {"queued"} \cup Active
  /\ job' = [job EXCEPT ![c] = [NoJob EXCEPT !.run = r, !.queued = state[r] = "queued",
                                             !.known = pids \cap {r}]]
  /\ Goto(c, "mark")
  /\ UNCHANGED <<tableVars, clock, lockVars, trainer, history>>

\* The cancel file is written first.
CancelMark(c) ==
  /\ pc[c] = "mark"
  /\ sentinel' = sentinel \cup {job[c].run}
  /\ Goto(c, "act")
  /\ UNCHANGED <<job, state, stamp, pids, attempts, owner, clock, lockVars, trainer, history>>

\* A queued run is marked; a process with a recorded pid is terminated.
CancelAct(c) ==
  LET r == job[c].run
  IN /\ pc[c] = "act"
     /\ IF job[c].queued THEN SetState(r, "cancelled") /\ UNCHANGED trainer
        ELSE /\ trainer' = IF r \in job[c].known THEN [trainer EXCEPT ![r] = "exited"] ELSE trainer
             /\ UNCHANGED state
     /\ Done(c)
     /\ UNCHANGED <<stamp, pids, attempts, owner, sentinel, clock, lockVars, launches, older, orphaned>>

-----------------------------------------------------------------------------
(* The world.                                                              *)

TrainerExits(r) ==
  /\ trainer[r] = "alive"
  /\ trainer' = [trainer EXCEPT ![r] = "exited"]
  /\ UNCHANGED <<pc, job, tableVars, clock, lockVars, history>>

\* A process dies: the kernel drops its locks.  Its trainer has a session of
\* its own and goes on.
Crash(p) ==
  /\ p \in Mortal /\ pc[p] # "idle"
  /\ Goto(p, "idle")
  /\ job' = [job EXCEPT ![p] = NoJob]
  /\ gpu' = IF gpu = p THEN NoOne ELSE gpu
  /\ serving' = IF serving = p THEN NoOne ELSE serving
  /\ orphaned' = IF pc[p] \in OnGpu THEN orphaned \cup {job[p].run} ELSE orphaned
  /\ UNCHANGED <<tableVars, clock, trainer, launches, older>>

-----------------------------------------------------------------------------
Init ==
  /\ pc = [p \in Proc |-> "idle"] /\ job = [p \in Proc |-> NoJob]
  /\ state = [r \in Run |-> "none"] /\ stamp = [r \in Run |-> 0] /\ clock = 0
  /\ pids = {} /\ attempts = {} /\ sentinel = {}
  /\ owner = [r \in Run |-> NoOne]
  /\ gpu = NoOne /\ serving = NoOne
  /\ trainer = [r \in Run |-> "none"]
  /\ launches = [r \in Run |-> 0] /\ older = [r \in Run |-> {}] /\ orphaned = {}

\* What a process does once it has begun.
Step(p) ==
  \/ Stamp(p) \/ Insert(p) \/ AddAttempt(p) \/ Probe(p) \/ StartWorker(p)
  \/ ReconcileRun(p) \/ Reconciled(p) \/ TryServe(p) \/ Drop(p) \/ PickRun(p) \/ LeaveQueue(p)
  \/ Look(p) \/ CheckAhead(p) \/ TakeGpu(p)
  \/ BeginRun(p) \/ CheckCancel(p) \/ Popen(p) \/ RecordPid(p) \/ Exited(p) \/ Publish(p) \/ Fail(p) \/ Settle(p)
  \/ CancelMark(p) \/ CancelAct(p)

Begin ==
  \/ \E t \in Terminal, r \in Run, m \in Modes : Submit(t, r, m)
  \/ \E s \in Server : StartServer(s)
  \/ \E c \in Canceller, r \in Run : CancelRead(c, r)

Next ==
  \/ Begin
  \/ \E p \in Proc : Step(p) \/ Crash(p)
  \/ \E r \in Run : TrainerExits(r)

Spec == Init /\ [][Next]_vars

\* Processes that are running go on running, training scripts end, and the
\* control plane is up.  Who polls for the GPU gets it in the end, and so does
\* who polls for the worker lock (it is probed for an instant every 30 s).
FairSpec ==
  /\ Spec
  /\ \A p \in Proc : WF_vars(Step(p)) /\ SF_vars(TakeGpu(p) /\ gpu = NoOne)
                      /\ SF_vars(TryServe(p) /\ serving = NoOne)
  /\ \A s \in Server : WF_vars(StartServer(s))
  /\ \A r \in Run : WF_vars(TrainerExits(r))

-----------------------------------------------------------------------------
(* What must hold.                                                         *)

\* The types, and that a process past a point has what that point needs: a
\* run to submit, execute or cancel.
TypeOK ==
  /\ pc \in [Proc -> PC] /\ job \in [Proc -> Job]
  /\ state \in [Run -> State] /\ stamp \in [Run -> Nat] /\ clock \in Nat
  /\ pids \subseteq Run /\ attempts \subseteq Run /\ sentinel \subseteq Run
  /\ owner \in [Run -> Terminal \cup {NoOne}]
  /\ gpu \in Proc \cup {NoOne} /\ serving \in Proc \cup {NoOne}
  /\ trainer \in [Run -> {"none", "alive", "exited"}]
  /\ launches \in [Run -> Nat] /\ older \in [Run -> SUBSET Run]
  /\ orphaned \subseteq Run
  /\ \A p \in Proc : pc[p] \notin {"idle"} \cup Serving => job[p].run \in Run

\* executor.py:374-377: no two runs share the GPU; except that the trainer of
\* an executor that died trains on while the next run takes its turn.
TrainersTakeTurns ==
  \A r, s \in Run \ orphaned : trainer[r] = "alive" /\ trainer[s] = "alive" => r = s

\* A run's trainer is started at most once, whoever serves the queue, dies or
\* is restarted: neither two servers nor a server and a terminal run it.
RunsOnce == \A r \in Run : launches[r] <= 1

\* executor.py:425-430: a run whose terminal went away is not started behind
\* its user's back.
AbandonedNotStarted ==
  [][\A r \in Run : launches'[r] > launches[r] => OwnerState(r) # "gone"]_vars

\* drop_abandoned cancels no run whose terminal is still waiting, nor one
\* handed to the queue; only a cancel does.
DropsOnlyAbandoned ==
  [][\A r \in Run : state[r] = "queued" /\ state'[r] = "cancelled" =>
       r \in sentinel \/ OwnerState(r) = "gone"]_vars

\* A run does not start while one that was waiting before it entered the table
\* still waits.
NoOvertaking ==
  [][\A r \in Run : launches'[r] > launches[r] => \A o \in older[r] : state[o] # "queued"]_vars

\* docs/lab.md:293-294: a run holds the GPU from staging to its last upload,
\* whatever cancel and reconcile write into its record; unless its executor
\* died with the GPU.
HoldsGpuWhileActive ==
  \A r \in Run \ orphaned : state[r] \in Active => \E p \in Proc : gpu = p /\ job[p].run = r

\* The queue moves: a run that waits is started, or cancelled.
QueueServed == \A r \in Run : state[r] = "queued" ~> state[r] # "queued"

\* The run whose executor holds the GPU lock.
Holder == IF gpu = NoOne THEN NoRun ELSE job[gpu].run

\* What Turns calls the phases of a run.
Phase ==
  [r \in Run |-> CASE trainer[r] = "none" -> "waiting"
                   [] trainer[r] = "alive" -> "training"
                   [] trainer[r] = "exited" -> "trained"]

T == INSTANCE Turns WITH holder <- Holder, phase <- Phase, lost <- orphaned

\* docs/lab.md:293-294 with executor.py:374-377: runs take turns with the GPU,
\* nobody's trainer is running when its turn ends, and none starts twice,
\* whoever serves the queue, cancels, reconciles or dies.
OneByOne == T!Spec
=============================================================================
