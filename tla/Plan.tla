--------------------------------- MODULE Plan ---------------------------------
(***************************************************************************)
(* From a block of the workspace library to a trainer that loads it: how   *)
(* an experiment is planned and frozen (lab/experiment.py), how a block is *)
(* locked at its first use, edited, forked and saved as another            *)
(* (lab/blocks.py), how a person approves one plan or a sweep of them      *)
(* (lab/sweep.py, lab/cli.py), and the gate that every run passes three    *)
(* times (lab/cli.py, executor.py, lab/runner.py).  Meanwhile people and   *)
(* agents edit the workspace.                                              *)
(***************************************************************************)
EXTENDS Naturals, FiniteSets

CONSTANTS
  Block,     \* names of workspace blocks of one kind
  First,     \* the names that have a file at the start
  Exp,       \* experiments, each planned by a process of its own
  Content,   \* what a block file may hold; a hash stands for what it is of
  Setting,   \* parameters and inputs of a plan
  Preset,    \* those of the preset
  Unused,    \* no content, no file
  MaxEdits   \* bound on the edits by hand

VARIABLES
  file,      \* lab/blocks: what each block file holds
  locks,     \* .locks.json: content at first use
  originals, \* .originals: what the copy named by a content holds
  planner,   \* the process that plans each experiment
  plan,      \* the experiment folder: experiment.json and code/
  sweep,     \* sweep.json: the plans hashed together, {}: there is none
  approval,  \* approval.json
  desk,      \* the person who approves
  saver,     \* nawat block save-as
  run,       \* an attempt of an experiment, up to the loading of its code
  typed,     \* history: plans whose approval code a person has typed
  edits,     \* edits by hand so far
  crossed,   \* history: planners overlapped (one that was killed works for ever)
  touched    \* history: a block was edited while one was being planned with, or saved

vars == <<file, locks, originals, planner, plan, sweep, approval, desk, saver, run, typed, edits, crossed, touched>>

gate == <<approval, desk, run, typed, sweep, edits>>
rest == <<file, locks, originals, saver, planner, crossed, touched>>

-----------------------------------------------------------------------------

File == Content \cup {Unused}

\* What decides what an experiment does, and nothing else: plan_hash.
Hash == [sha : Content, setting : Setting]

HashOf(p) == [sha |-> p.sha, setting |-> p.setting]

\* written: experiment.json is there, with the hash it was given.
Plan == [written : BOOLEAN, code : File, sha : File, setting : Setting, hash : Hash]

NoPlan == [written |-> FALSE, code |-> Unused, sha |-> Unused, setting |-> Preset, hash |-> [sha |-> CHOOSE c \in Content : TRUE, setting |-> Preset]]

NoLocks == [b \in Block |-> Unused]

Planner == [at : {"idle", "chosen", "copied", "written", "locking", "done"},
            block : Block, sha : File, seen : [Block -> File]]

NoPlanner == [at |-> "idle", block |-> CHOOSE b \in Block : TRUE, sha |-> Unused, seen |-> NoLocks]

Working(e) == planner[e].at \notin {"idle", "done"}

Approval == [hash : Hash, signed : BOOLEAN] \cup {Unused}

Desk == [at : {"idle"}] \cup [at : {"reading"}, exp : Exp, plan : Plan] \cup [at : {"signing"}, left : [Exp -> Plan \cup {Unused}]]

Saver == [at : {"idle"}] \cup [at : {"copied"}, block : Block, original : Content]

Run == [at : {"idle", "asked", "executing", "gated", "loaded"}, exp : Exp \cup {Unused}, host : BOOLEAN, told : Hash, plan : Plan]

ASSUME PlanAssumption ==
  /\ Block # {} /\ First \subseteq Block /\ Content # {} /\ Preset \in Setting /\ MaxEdits \in Nat
  /\ Unused \notin Content \cup Plan \cup [hash : Hash, signed : BOOLEAN]

NoRun == [at |-> "idle", exp |-> Unused, host |-> TRUE, told |-> NoPlan.hash, plan |-> NoPlan]

-----------------------------------------------------------------------------
(* nawat exp plan.                                                         *)

\* Faulty: the lock is not looked at.
ChooseAny(e, b) ==
  /\ planner[e].at = "idle" /\ file[b] # Unused
  /\ planner' = [planner EXCEPT ![e] = [at |-> "chosen", block |-> b, sha |-> file[b], seen |-> NoLocks]]
  /\ crossed' = (crossed \/ \E other \in Exp \ {e} : Working(other))
  /\ UNCHANGED <<file, locks, originals, saver, plan, gate, touched>>

\* Library.get reads the file, check_unchanged compares it with the lock.
Choose(e, b) ==
  /\ planner[e].at = "idle" /\ file[b] # Unused
  /\ locks[b] \in {Unused, file[b]}
  /\ planner' = [planner EXCEPT ![e] = [at |-> "chosen", block |-> b, sha |-> file[b], seen |-> NoLocks]]
  /\ crossed' = (crossed \/ \E other \in Exp \ {e} : Working(other))
  /\ UNCHANGED <<file, locks, originals, saver, plan, gate, touched>>

\* The folder is made, and the file copied as it is by now.
Snapshot(e) ==
  /\ planner[e].at = "chosen"
  /\ planner' = [planner EXCEPT ![e].at = "copied"]
  /\ plan' = [plan EXCEPT ![e].code = file[planner[e].block]]
  /\ UNCHANGED <<file, locks, originals, saver, gate, crossed, touched>>

\* The record has the hash of the file as it was inspected.
Write(e) ==
  /\ planner[e].at = "copied"
  /\ planner' = [planner EXCEPT ![e].at = "written"]
  /\ plan' = [plan EXCEPT ![e] = [@ EXCEPT !.written = TRUE, !.sha = planner[e].sha,
                                            !.hash = [sha |-> planner[e].sha, setting |-> Preset]]]
  /\ UNCHANGED <<file, locks, originals, saver, gate, crossed, touched>>

\* Whatever goes wrong before that takes the folder away again.
PlanFails(e) ==
  /\ planner[e].at = "copied"
  /\ planner' = [planner EXCEPT ![e] = NoPlanner]
  /\ plan' = [plan EXCEPT ![e] = NoPlan]
  /\ UNCHANGED <<file, locks, originals, saver, gate, crossed, touched>>

\* Faulty: the hash is all that is kept.
LockHash(e) ==
  LET b == planner[e].block
  IN /\ planner[e].at = "written"
     /\ planner' = IF locks[b] # Unused THEN [planner EXCEPT ![e].at = "done"]
                   ELSE [planner EXCEPT ![e].at = "locking", ![e].seen = locks]
     /\ UNCHANGED <<file, locks, originals, saver, plan, gate, crossed, touched>>

\* Library.lock: the locks are read, the file copied aside, ...
Lock(e) ==
  LET b == planner[e].block
  IN /\ planner[e].at = "written"
     /\ IF locks[b] # Unused
        THEN planner' = [planner EXCEPT ![e].at = "done"] /\ UNCHANGED originals
        ELSE /\ planner' = [planner EXCEPT ![e].at = "locking", ![e].seen = locks]
             /\ originals' = [originals EXCEPT ![planner[e].sha] = file[b]]
     /\ UNCHANGED <<file, locks, saver, plan, gate, crossed, touched>>

\* ... and all of them written back.
Locked(e) ==
  /\ planner[e].at = "locking"
  /\ planner' = [planner EXCEPT ![e].at = "done", ![e].seen = NoLocks]
  /\ locks' = [planner[e].seen EXCEPT ![planner[e].block] = planner[e].sha]
  /\ UNCHANGED <<file, originals, saver, plan, gate, crossed, touched>>

-----------------------------------------------------------------------------
(* nawat block: fork, save-as.                                             *)

Original(b) == IF locks[b] = Unused THEN Unused ELSE originals[locks[b]]

\* A locked block is forked as it was.
Fork(b, new) ==
  /\ file[b] # Unused /\ file[new] = Unused
  /\ file' = [file EXCEPT ![new] = IF Original(b) # Unused THEN Original(b) ELSE file[b]]
  /\ UNCHANGED <<locks, originals, saver, planner, plan, gate, crossed, touched>>

\* Faulty: the original is put back first.
RestoreFirst(b, new) ==
  /\ saver.at = "idle"
  /\ Original(b) \notin {Unused, file[b]} /\ file[new] = Unused
  /\ file' = [file EXCEPT ![b] = Original(b)]
  /\ saver' = [at |-> "copied", block |-> new, original |-> file[b]]
  /\ UNCHANGED <<locks, originals, planner, plan, gate, crossed, touched>>

\* Faulty: a block that was never used is saved, too.
SaveAnyAs(b, new) ==
  /\ saver.at = "idle"
  /\ Original(b) # file[b] /\ file[new] = Unused
  /\ file' = [file EXCEPT ![new] = file[b]]
  /\ saver' = [at |-> "copied", block |-> b, original |-> Original(b)]
  /\ UNCHANGED <<locks, originals, planner, plan, gate, crossed, touched>>

\* The edit becomes a block of its own, ...
SaveAs(b, new) ==
  /\ saver.at = "idle"
  /\ Original(b) \notin {Unused, file[b]} /\ file[new] = Unused
  /\ file' = [file EXCEPT ![new] = file[b]]
  /\ saver' = [at |-> "copied", block |-> b, original |-> Original(b)]
  /\ UNCHANGED <<locks, originals, planner, plan, gate, crossed, touched>>

\* ... and the original is put back.
Restore ==
  /\ saver.at = "copied"
  /\ file' = [file EXCEPT ![saver.block] = saver.original]
  /\ saver' = [at |-> "idle"]
  /\ touched' = (touched \/ \E e \in Exp : Working(e))
  /\ UNCHANGED <<locks, originals, planner, plan, gate, crossed>>

-----------------------------------------------------------------------------
(* nawat exp approve.                                                      *)

\* recompute_hash, of a record in memory and the code on disk, agrees.
Intact(e, p) == plan[e].code = p.sha

\* The table is printed, with the code of the hash in the record.
Read(e) ==
  /\ desk.at = "idle" /\ plan[e].written
  /\ desk' = [at |-> "reading", exp |-> e, plan |-> plan[e]]
  /\ UNCHANGED <<rest, plan, edits, approval, run, typed, sweep>>

\* What is typed is what is shown; it has to be the code of what is approved.
Approve ==
  /\ desk.at = "reading"
  /\ desk' = [at |-> "idle"]
  /\ LET e == desk.exp
         current == HashOf(desk.plan)
     IN IF Intact(e, desk.plan) /\ desk.plan.hash = current
        THEN /\ approval' = [approval EXCEPT ![e] = [hash |-> current, signed |-> TRUE]]
             /\ typed' = typed \cup {<<e, current>>}
        ELSE UNCHANGED <<approval, typed>>
  /\ UNCHANGED <<rest, plan, edits, run, sweep>>

\* nawat sweep plan: the experiments have been planned; their hashes are hashed.
PlanSweep ==
  /\ sweep = {}
  /\ \A e \in Exp : planner[e].at = "done" /\ plan[e].written /\ Intact(e, plan[e])
  /\ sweep' = {<<e, HashOf(plan[e])>> : e \in Exp}
  /\ UNCHANGED <<rest, plan, edits, approval, desk, run, typed>>

\* The sweep's code is typed: every plan has to be the one that was hashed.
ReadSweep ==
  /\ desk.at = "idle" /\ sweep # {}
  /\ \A e \in Exp : plan[e].written /\ Intact(e, plan[e]) /\ <<e, HashOf(plan[e])>> \in sweep
  /\ desk' = [at |-> "signing", left |-> plan]
  /\ typed' = typed \cup sweep
  /\ UNCHANGED <<rest, plan, edits, approval, run, sweep>>

\* One approval after another, each hashed again: the rest is given up at the first that fails.
ApproveNext(e) ==
  /\ desk.at = "signing" /\ desk.left[e] # Unused
  /\ IF Intact(e, desk.left[e])
     THEN /\ approval' = [approval EXCEPT ![e] = [hash |-> HashOf(desk.left[e]), signed |-> TRUE]]
          /\ desk' = IF \A other \in Exp \ {e} : desk.left[other] = Unused
                     THEN [at |-> "idle"] ELSE [desk EXCEPT !.left[e] = Unused]
     ELSE desk' = [at |-> "idle"] /\ UNCHANGED approval
  /\ UNCHANGED <<rest, plan, edits, run, typed, sweep>>

-----------------------------------------------------------------------------
(* The gate.                                                               *)

\* Faulty: the hash in the record is taken for the hash of the record.
ApprovedRecord(e, host, told) ==
  /\ plan[e].written /\ Intact(e, plan[e])
  /\ approval[e] # Unused /\ approval[e].hash = plan[e].hash
  /\ IF host THEN approval[e].signed ELSE told = plan[e].hash

\* require_approved.  On the host the signature is looked at; the sandbox has no key
\* and goes by the hash the host told it.
Approved(e, host, told) ==
  /\ plan[e].written /\ Intact(e, plan[e]) /\ plan[e].hash = HashOf(plan[e])
  /\ approval[e] # Unused /\ approval[e].hash = plan[e].hash
  /\ IF host THEN approval[e].signed ELSE told = plan[e].hash

\* nawat exp run, always from the host: it runs here, or tells the sandbox what it verified.
Ask(e, host) ==
  /\ run.at \in {"idle", "loaded"} /\ Approved(e, TRUE, plan[e].hash)
  /\ run' = [NoRun EXCEPT !.at = "asked", !.exp = e, !.host = host, !.told = IF host THEN @ ELSE plan[e].hash]
  /\ UNCHANGED <<rest, plan, edits, approval, desk, typed, sweep>>

\* The executor validates when the run is submitted and again when its turn comes.
Execute ==
  /\ run.at = "asked"
  /\ run' = IF Approved(run.exp, run.host, run.told) THEN [run EXCEPT !.at = "executing"] ELSE NoRun
  /\ UNCHANGED <<rest, plan, edits, approval, desk, typed, sweep>>

\* The trainer's process looks a last time; the parameters it has read are those it runs with.
Main ==
  /\ run.at = "executing"
  /\ run' = IF Approved(run.exp, run.host, run.told) THEN [NoRun EXCEPT !.at = "gated", !.exp = run.exp, !.plan = plan[run.exp]] ELSE NoRun
  /\ UNCHANGED <<rest, plan, edits, approval, desk, typed, sweep>>

\* Context loads what code/ holds by then, whatever main has looked at.
Load ==
  /\ run.at = "gated"
  /\ run' = [run EXCEPT !.at = "loaded", !.plan.code = plan[run.exp].code]
  /\ UNCHANGED <<rest, plan, edits, approval, desk, typed, sweep>>

-----------------------------------------------------------------------------
(* People and agents at the files.                                         *)

Edit == edits < MaxEdits /\ edits' = edits + 1

EditBlock(b, c) ==
  /\ Edit /\ file[b] \notin {Unused, c}
  /\ file' = [file EXCEPT ![b] = c]
  /\ touched' = (touched \/ saver.at = "copied" \/ \E e \in Exp : Working(e))
  /\ UNCHANGED <<locks, originals, saver, planner, plan, approval, desk, run, typed, sweep, crossed>>

EditCode(e, c) ==
  /\ Edit /\ plan[e].written /\ plan[e].code # c
  /\ plan' = [plan EXCEPT ![e].code = c]
  /\ UNCHANGED <<rest, approval, desk, run, typed, sweep>>

\* With the hash that then belongs there, or not.
EditPlan(e, setting) ==
  /\ Edit /\ plan[e].written /\ plan[e].setting # setting
  /\ \E h \in {plan[e].hash, [HashOf(plan[e]) EXCEPT !.setting = setting]} :
       plan' = [plan EXCEPT ![e].setting = setting, ![e].hash = h]
  /\ UNCHANGED <<rest, approval, desk, run, typed, sweep>>

ApproveByHand(e) ==
  /\ Edit /\ plan[e].written
  /\ approval' = [approval EXCEPT ![e] = [hash |-> plan[e].hash, signed |-> FALSE]]
  /\ UNCHANGED <<rest, plan, desk, run, typed, sweep>>

-----------------------------------------------------------------------------

Init ==
  /\ file \in [Block -> File] /\ \A b \in Block : file[b] = IF b \in First THEN CHOOSE c \in Content : TRUE ELSE Unused
  /\ locks = NoLocks /\ originals = [c \in Content |-> Unused]
  /\ planner = [e \in Exp |-> NoPlanner]
  /\ plan = [e \in Exp |-> NoPlan] /\ approval = [e \in Exp |-> Unused] /\ run = NoRun /\ edits = 0
  /\ sweep = {} /\ desk = [at |-> "idle"] /\ saver = [at |-> "idle"]
  /\ typed = {} /\ crossed = FALSE /\ touched = FALSE

Planning(e) ==
  \/ \E b \in Block : Choose(e, b)
  \/ Snapshot(e) \/ Write(e) \/ PlanFails(e) \/ Lock(e) \/ Locked(e)

Approving(e) == Read(e) \/ ApproveNext(e)

Running(e) == \E host \in BOOLEAN : Ask(e, host)

Editing(e) ==
  \/ \E c \in Content : EditCode(e, c)
  \/ \E s \in Setting : EditPlan(e, s)
  \/ ApproveByHand(e)

Next ==
  \/ \E e \in Exp : Planning(e) \/ Approving(e) \/ Running(e) \/ Editing(e)
  \/ Execute \/ Main \/ Load
  \/ Approve \/ PlanSweep \/ ReadSweep \/ Restore
  \/ \E b, new \in Block : Fork(b, new) \/ SaveAs(b, new)
  \/ \E b \in Block, c \in Content : EditBlock(b, c)

Spec == Init /\ [][Next]_vars

-----------------------------------------------------------------------------
(* Properties.                                                             *)

\* Every variable stays in its type, and .locks.json never names a block without a file.
TypeOK ==
  /\ file \in [Block -> File] /\ locks \in [Block -> File] /\ originals \in [Content -> File]
  /\ planner \in [Exp -> Planner] /\ plan \in [Exp -> Plan] /\ approval \in [Exp -> Approval]
  /\ desk \in Desk /\ saver \in Saver /\ run \in Run /\ edits \in 0..MaxEdits
  /\ sweep \subseteq Exp \X Hash /\ typed \subseteq Exp \X Hash
  /\ crossed \in BOOLEAN /\ touched \in BOOLEAN
  /\ \A b \in Block : locks[b] # Unused => file[b] # Unused

\* No trainer runs anything but a plan whose code a person has typed, whoever edits
\* plans, code and approvals in between, on the host and in the sandbox
\* (lab/experiment.py:22), unless code/ is edited after its last look.
RunsWhatWasTyped == run.at = "loaded" /\ run.plan.code = run.plan.sha => <<run.exp, HashOf(run.plan)>> \in typed

\* Experiments planned one after another with a block use the same content of it
\* (lab/blocks.py:27), edited or not in between.
UsedAlike ==
  ~crossed => \A e, f \in Exp : planner[e].at = "done" /\ planner[f].at = "done" /\ planner[e].block = planner[f].block
                                  => planner[e].sha = planner[f].sha

\* What a used block was at its first use can be put back (lab/blocks.py:30),
\* unless it was edited while it was being planned with.
OriginalKept == ~touched => \A b \in Block : locks[b] # Unused => originals[locks[b]] = locks[b]

\* The library keeps what experiments were made of.
LibraryKept == UsedAlike /\ OriginalKept

\* No command removes an edit that is in no other block (lab/blocks.py:317); only its author does.
EditsSurvive ==
  [][~touched' /\ (\A b \in Block, c \in Content : ~EditBlock(b, c))
       => \A b \in Block : file'[b] # file[b] /\ file[b] # Unused => \E n \in Block : file'[n] = file[b]]_vars
=============================================================================
