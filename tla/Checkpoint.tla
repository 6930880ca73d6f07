------------------------------ MODULE Checkpoint ------------------------------
(***************************************************************************)
(* One lineage of checkpoints (src/nawat/checkpoints.py): the runs that    *)
(* train into it one after another (executor.py; RunQueue says why they    *)
(* take turns), the training process of each, which resumes, saves and     *)
(* rotates (notebook.py, lab/support.py), and a user at a terminal who     *)
(* frees disk with `checkpoints --prune` or `--rm` (cli.py).               *)
(***************************************************************************)
EXTENDS Naturals, FiniteSets

CONSTANTS
  MaxStep,   \* saves in a whole training: checkpoint-n is named by n
  Limit,     \* save_total_limit
  MaxRuns,   \* bound on the runs that are submitted with other than the default policy
  Unluck     \* what goes wrong: "reboot", "store", "user"

VARIABLES
  dir,       \* the lineage's directory: what each checkpoint-n is
  run,       \* the run whose turn it is
  trainer,   \* its training process
  outputs,   \* what has become of the artifacts of the run
  user,      \* the command at the terminal
  best,      \* history: the last step saved, 0 once its removal has been ordered
  spoilt,    \* history: an ordered removal was interrupted by a reboot or met a new run
  odd        \* runs submitted with another policy so far

vars == <<dir, run, trainer, outputs, user, best, spoilt, odd>>

-----------------------------------------------------------------------------
(* What is on disk.                                                        *)

Steps == 1..MaxStep

\* Without its state file, with it, and with nothing else any more.
Content == {"none", "torso", "whole", "hollow"}

\* Checkpoint.complete looks at the state file.
Complete == {n \in Steps : dir[n] \in {"whole", "hollow"}}

Found == {n \in Steps : dir[n] # "none"}

Greatest(S) == CHOOSE n \in S : \A m \in S : m <= n

\* Faulty: whatever looks like a checkpoint.
LatestFound == IF Found = {} THEN 0 ELSE Greatest(Found)

\* latest; 0: none.
Latest == IF Complete = {} THEN 0 ELSE Greatest(Complete)

Policy == [resume : BOOLEAN, keep : BOOLEAN]

Usual == [resume |-> TRUE, keep |-> FALSE]

Phase == {"idle", "fresh", "plan", "training", "publish", "settle", "sweep", "discard", "record"}

Outcome == {"none", "succeeded", "failed"}

Run == [phase : Phase, policy : Policy, outcome : Outcome, checkpoint : 0..MaxStep, doomed : SUBSET Steps]

\* at: the last step trained; saving: the one being saved.
Trainer == [state : {"none", "running", "rotating", "ok", "bad"}, from : 0..MaxStep, at : 0..MaxStep, saving : 0..MaxStep]

NoTrainer == [state |-> "none", from |-> 0, at |-> 0, saving |-> 0]

User == [at : {"idle", "prune", "rm", "removing"}, doomed : SUBSET Steps]

Idle == [at |-> "idle", doomed |-> {}]

\* Its record is active, which it is no longer while its checkpoints are settled.
Busy == run.phase \in {"fresh", "plan", "training"}

\* rmtree of a checkpoint, in any order of its files.
Removed(n) ==
  /\ dir' \in {[dir EXCEPT ![n] = c] : c \in {"none", "hollow", "torso"}}
  /\ dir[n] # "whole" => dir'[n] = "none"

-----------------------------------------------------------------------------
(* A run begins.                                                           *)

\* A user who is about to remove has looked whether a run is active before this one was.
Submit(policy) ==
  /\ run.phase = "idle"
  /\ IF policy = Usual THEN UNCHANGED odd ELSE odd < MaxRuns /\ odd' = odd + 1
  /\ run' = [phase |-> IF policy.resume THEN "plan" ELSE "fresh", policy |-> policy,
             outcome |-> "none", checkpoint |-> 0, doomed |-> {}]
  /\ outputs' = "none"
  /\ spoilt' = (spoilt \/ user.at # "idle")
  /\ UNCHANGED <<dir, trainer, user, best>>

\* prepare_checkpoints of --fresh: discard, ...
Fresh ==
  /\ run.phase = "fresh"
  /\ \/ \E n \in Found : Removed(n) /\ UNCHANGED run
     \/ Found = {} /\ run' = [run EXCEPT !.phase = "plan"] /\ UNCHANGED dir
  /\ best' = 0
  /\ UNCHANGED <<trainer, outputs, user, spoilt, odd>>

\* ... and what to resume from, which the training process is told.
Plan ==
  /\ run.phase = "plan"
  /\ run' = [run EXCEPT !.phase = "training"]
  /\ trainer' = [NoTrainer EXCEPT !.state = "running", !.from = IF run.policy.resume THEN Latest ELSE 0]
  /\ UNCHANGED <<dir, outputs, user, best, spoilt, odd>>

-----------------------------------------------------------------------------
(* The training process.                                                   *)

Training == trainer.state = "running" /\ trainer.saving = 0

\* resume_from_checkpoint: it loads, or cannot.
Resume ==
  /\ Training /\ trainer.at = 0 /\ trainer.from # 0
  /\ trainer' = IF dir[trainer.from] = "whole" THEN [trainer EXCEPT !.at = trainer.from]
                                               ELSE [trainer EXCEPT !.state = "bad"]
  /\ UNCHANGED <<dir, run, outputs, user, best, spoilt, odd>>

\* Faulty: training goes on past its last step.
SaveOn ==
  /\ Training /\ (trainer.from = 0 \/ trainer.at # 0)
  /\ trainer' = [trainer EXCEPT !.at = @ + 1, !.saving = trainer.at + 1]
  /\ dir' = [dir EXCEPT ![trainer.at + 1] = "torso"]
  /\ UNCHANGED <<run, outputs, user, best, spoilt, odd>>

\* save_steps have been trained: the directory is made and filled ...
Save ==
  /\ Training /\ trainer.at < MaxStep /\ (trainer.from = 0 \/ trainer.at # 0)
  /\ trainer' = [trainer EXCEPT !.at = @ + 1, !.saving = trainer.at + 1]
  /\ dir' = [dir EXCEPT ![trainer.at + 1] = "torso"]
  /\ UNCHANGED <<run, outputs, user, best, spoilt, odd>>

\* ... and the state file written last, unless somebody has removed it meanwhile.
Saved ==
  LET n == trainer.saving
  IN /\ trainer.state = "running" /\ n # 0
     /\ IF dir[n] = "torso"
        THEN /\ dir' = [dir EXCEPT ![n] = "whole"]
             /\ best' = n
             /\ trainer' = [trainer EXCEPT !.state = "rotating"]
        ELSE /\ trainer' = [trainer EXCEPT !.saving = 0, !.state = "bad"]
             /\ UNCHANGED <<dir, best>>
     /\ UNCHANGED <<run, outputs, user, spoilt, odd>>

\* save_total_limit: the oldest go, never the one just saved.
Rotate ==
  /\ trainer.state = "rotating"
  /\ \/ /\ Cardinality(Found) > Limit
        /\ \E n \in Found \ {trainer.saving} : (\A m \in Found \ {trainer.saving} : n <= m) /\ Removed(n)
        /\ UNCHANGED trainer
     \/ /\ Found \subseteq {trainer.saving} \/ Cardinality(Found) <= Limit
        /\ trainer' = [trainer EXCEPT !.state = "running", !.saving = 0]
        /\ UNCHANGED dir
  /\ UNCHANGED <<run, outputs, user, best, spoilt, odd>>

\* All is trained: the evaluations, of which one may fail, and the exports.
Finish ==
  /\ Training /\ trainer.at = MaxStep
  /\ trainer' = [trainer EXCEPT !.state = "ok"]
  /\ outputs' = "local"
  /\ UNCHANGED <<dir, run, user, best, spoilt, odd>>

\* It is killed, cancelled or out of memory; what it wrote stays.
Die ==
  /\ trainer.state \in {"running", "rotating"}
  /\ trainer' = [trainer EXCEPT !.state = "bad"]
  /\ outputs' \in {outputs, "local"}
  /\ UNCHANGED <<dir, run, user, best, spoilt, odd>>

-----------------------------------------------------------------------------
(* The run ends: _execute and _settle_checkpoints.                         *)

\* Faulty: the outcome is that of the script.
PublishAnyway ==
  /\ run.phase = "training" /\ trainer.state \in {"ok", "bad"}
  /\ \/ outputs' = IF outputs = "local" THEN "published" ELSE outputs
     \/ "store" \in Unluck /\ UNCHANGED outputs
  /\ run' = [run EXCEPT !.phase = "settle", !.outcome = IF trainer.state = "ok" THEN "succeeded" ELSE "failed"]
  /\ trainer' = NoTrainer
  /\ UNCHANGED <<dir, user, best, spoilt, odd>>

\* Publishing may fail, and then so has the run.
Publish ==
  /\ run.phase = "training" /\ trainer.state \in {"ok", "bad"}
  /\ \/ outputs' = IF outputs = "local" THEN "published" ELSE outputs
     \/ "store" \in Unluck /\ UNCHANGED outputs
  /\ run' = [run EXCEPT !.phase = "settle", !.outcome =
               IF trainer.state = "ok" /\ outputs' = "published" THEN "succeeded" ELSE "failed"]
  /\ trainer' = NoTrainer
  /\ UNCHANGED <<dir, user, best, spoilt, odd>>

\* What was reached is copied to the store first, or is not; then what sweep_partial
\* will remove is looked up: nothing, unless something complete survives it.
Settle ==
  /\ run.phase = "settle"
  /\ run' = [run EXCEPT !.phase = "sweep", !.doomed = IF Complete = {} THEN {} ELSE Found \ Complete]
  /\ UNCHANGED <<dir, trainer, outputs, user, best, spoilt, odd>>

Sweep ==
  /\ run.phase = "sweep"
  /\ \/ \E n \in run.doomed : Removed(n) /\ run' = [run EXCEPT !.doomed = {m \in @ : dir'[m] # "none"}]
     \/ /\ run.doomed = {} /\ UNCHANGED dir
        /\ run' = [run EXCEPT !.phase = IF run.outcome = "succeeded" /\ ~run.policy.keep
                                        THEN "discard" ELSE "record"]
  /\ UNCHANGED <<trainer, outputs, user, best, spoilt, odd>>

\* The one case in which checkpoints go: their run has succeeded.
Discard ==
  /\ run.phase = "discard"
  /\ \/ \E n \in Found : Removed(n) /\ UNCHANGED run
     \/ Found = {} /\ run' = [run EXCEPT !.phase = "record"] /\ UNCHANGED dir
  /\ best' = 0
  /\ UNCHANGED <<trainer, outputs, user, spoilt, odd>>

\* The record says what the next run continues from.
Record ==
  /\ run.phase = "record"
  /\ run' = [run EXCEPT !.phase = "idle", !.checkpoint = Latest]
  /\ UNCHANGED <<dir, trainer, outputs, user, best, spoilt, odd>>

-----------------------------------------------------------------------------
(* nawat checkpoints --prune, --rm.                                        *)

\* Lineages of active runs are passed over: by one look, before all removals.
UserLooks ==
  /\ "user" \in Unluck /\ user.at = "idle" /\ ~Busy /\ Found # {}
  /\ \E op \in {"prune", "rm"} : user' = [Idle EXCEPT !.at = op]
  /\ UNCHANGED <<dir, run, trainer, outputs, best, spoilt, odd>>

\* Faulty: the other end of the list.
SpareNewest == IF Complete = {} THEN {} ELSE Found \ {CHOOSE n \in Complete : \A m \in Complete : n <= m}

\* prune keeps the newest, if there is anything to resume from.
Spare == IF Complete = {} THEN {} ELSE Found \ {Latest}

UserPrunes ==
  /\ user.at = "prune"
  /\ user' = [at |-> "removing", doomed |-> Spare]
  /\ UNCHANGED <<dir, run, trainer, outputs, best, spoilt, odd>>

UserRemoves ==
  /\ user.at = "removing"
  /\ \/ \E n \in user.doomed : Removed(n) /\ user' = [user EXCEPT !.doomed = {m \in @ : dir'[m] # "none"}]
     \/ user.doomed = {} /\ user' = Idle /\ UNCHANGED dir
  /\ UNCHANGED <<run, trainer, outputs, best, spoilt, odd>>

UserDiscards ==
  /\ user.at = "rm"
  /\ \/ \E n \in Found : Removed(n) /\ UNCHANGED user
     \/ Found = {} /\ user' = Idle /\ UNCHANGED dir
  /\ best' = 0
  /\ UNCHANGED <<run, trainer, outputs, spoilt, odd>>

-----------------------------------------------------------------------------

\* The host goes down; the platform's next start records what the run had reached.
Reboot ==
  /\ "reboot" \in Unluck /\ run.phase # "idle"
  /\ run' = [run EXCEPT !.phase = "idle", !.doomed = {},
               !.outcome = IF @ = "none" THEN "failed" ELSE @, !.checkpoint = IF Busy THEN Latest ELSE @]
  /\ trainer' = NoTrainer /\ user' = Idle
  /\ spoilt' = (spoilt \/ run.phase \in {"fresh", "discard"} \/ user.at = "rm")
  /\ UNCHANGED <<dir, outputs, best, odd>>

Init ==
  /\ dir = [n \in Steps |-> "none"]
  /\ run = [phase |-> "idle", policy |-> Usual, outcome |-> "none", checkpoint |-> 0, doomed |-> {}]
  /\ trainer = NoTrainer
  /\ outputs = "none" /\ user = Idle
  /\ best = 0 /\ spoilt = FALSE /\ odd = 0

Executor == Fresh \/ Plan \/ Publish \/ Settle \/ Sweep \/ Discard \/ Record

Script == Resume \/ Save \/ Saved \/ Rotate \/ Finish

Next ==
  \/ (\E policy \in Policy : Submit(policy)) \/ Executor \/ Script \/ Die
  \/ UserLooks \/ UserPrunes \/ UserRemoves \/ UserDiscards \/ Reboot

Spec == Init /\ [][Next]_vars

-----------------------------------------------------------------------------
(* Properties.                                                             *)

TypeOK ==
  /\ dir \in [Steps -> Content] /\ run \in Run /\ trainer \in Trainer
  /\ outputs \in {"none", "local", "published"} /\ user \in User
  /\ best \in 0..MaxStep /\ spoilt \in BOOLEAN /\ odd \in 0..MaxRuns

Whole == {n \in Steps : dir[n] = "whole"}

\* Nothing up to the last save is lost (checkpoints.py:14): through deaths of the
\* script, reboots, failed uploads, sweeps, rotations and prunings the last step
\* that was saved stays resumable, until a success, --fresh or --rm removes it.
ProgressKept == ~spoilt /\ best # 0 => best \in Whole

\* Checkpoints of a success go only when its outputs are in the store
\* (checkpoints.py:413).
DiscardedWhenPublished == run.phase = "discard" => outputs = "published"

\* What a run is told to continue from is the last step saved, and can be loaded
\* (checkpoints.py:27), while nobody empties the lineage.
ResumesLast ==
  trainer.state = "running" /\ trainer.at = 0 /\ run.policy.resume /\ best # 0 /\ ~spoilt => trainer.from = best

\* The record of a run that ends in failure names it (executor.py:571), and so does
\* that of a run nobody watched fail (runs.py:445).
NamesLast ==
  (Record \/ (Reboot /\ Busy)) /\ run'.phase = "idle" /\ run'.outcome = "failed" /\ best # 0 /\ ~spoilt
    => run'.checkpoint = best
RecordNamesLast == [][NamesLast]_vars
=============================================================================
