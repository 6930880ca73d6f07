------------------------------ MODULE PlanProofs ------------------------------
(***************************************************************************)
(* Proofs about Plan, for any number of blocks, experiments, contents and  *)
(* settings and any number of edits: what a trainer runs was typed by a    *)
(* person, the library keeps what experiments were made of, and no command *)
(* takes an edit away.                                                     *)
(*                                                                         *)
(* A run is asked for in one process, executed in another one and gated    *)
(* three times, so what was typed is followed along the way: SignedTyped   *)
(* says it of the signature, of the approvals still to be given, of the    *)
(* hash the sandbox was told and of the plan that has passed the last      *)
(* gate.  OneAfterAnother and CopiesTrue follow a planner from the file it *)
(* has read to the lock and the copy, as long as it is alone and nobody    *)
(* edits its block; EditCopied follows an edit from the copy to the        *)
(* original that replaces it.                                              *)
(***************************************************************************)
EXTENDS Plan, TLAPS

-----------------------------------------------------------------------------
(* The invariants.                                                         *)

\* A file that was planned with, locked or saved is never taken away.
FilesStay ==
  /\ \A e \in Exp : planner[e].at # "idle" => planner[e].sha # Unused /\ file[planner[e].block] # Unused
  /\ \A e \in Exp, b \in Block : planner[e].seen[b] # Unused => file[b] # Unused
  /\ saver.at = "copied" => file[saver.block] # Unused

\* What is written, shown and signed has a hash.
Hashed ==
  /\ \A e \in Exp : plan[e].written => plan[e].sha # Unused
  /\ desk.at = "reading" => desk.plan.sha # Unused
  /\ desk.at = "signing" => \A e \in Exp : desk.left[e] # Unused => desk.left[e].sha # Unused

\* A run has an experiment.
RunOfOne == run.at # "idle" => run.exp \in Exp

\* What is signed was typed, what is about to be signed too, and so was what the
\* sandbox was told and what has passed the last gate.
SignedTyped ==
  /\ \A e \in Exp : approval[e] # Unused /\ approval[e].signed => <<e, approval[e].hash>> \in typed
  /\ desk.at = "signing" =>
       \A e \in Exp : desk.left[e] # Unused => <<e, HashOf(desk.left[e])>> \in typed
  /\ run.at \in {"asked", "executing"} /\ ~run.host => <<run.exp, run.told>> \in typed
  /\ run.at \in {"gated", "loaded"} => <<run.exp, HashOf(run.plan)>> \in typed

\* One planner at a time leaves the locks as it has found them, but for its own.
OneAfterAnother ==
  ~crossed =>
    /\ \A e, f \in Exp : Working(e) /\ Working(f) => e = f
    /\ \A e \in Exp : planner[e].at \in {"chosen", "copied", "written"} =>
         locks[planner[e].block] \in {Unused, planner[e].sha}
    /\ \A e \in Exp : planner[e].at = "locking" => planner[e].seen = locks /\ locks[planner[e].block] = Unused
    /\ \A e \in Exp : planner[e].at = "done" => locks[planner[e].block] = planner[e].sha

\* What a copy is named by is what it holds.
CopiesTrue ==
  ~touched =>
    /\ \A c \in Content : originals[c] \in {Unused, c}
    /\ \A b \in Block : locks[b] # Unused => originals[locks[b]] = locks[b]
    /\ \A e \in Exp, b \in Block : planner[e].seen[b] # Unused => originals[planner[e].seen[b]] = planner[e].seen[b]
    /\ \A e \in Exp : planner[e].at = "locking" => originals[planner[e].sha] = planner[e].sha
    /\ \A e \in Exp : planner[e].at \in {"chosen", "copied", "written"} => file[planner[e].block] = planner[e].sha

\* An edit that is being saved is already in another block.
EditCopied ==
  ~touched /\ saver.at = "copied" =>
    \E n \in Block : n # saver.block /\ file[n] = file[saver.block]

-----------------------------------------------------------------------------
(* The records.                                                            *)

\* There are hashes and files.
LEMMA HashExists == Preset \in Setting /\ \E h \in Hash : TRUE
<1>1. PICK c \in Content : TRUE
  BY PlanAssumption
<1>2. [sha |-> c, setting |-> Preset] \in Hash
  BY PlanAssumption DEF Hash
<1>. QED  BY <1>2, PlanAssumption

LEMMA FileExists == Unused \in File
  BY DEF File

\* A planner goes on.
LEMMA PlannerAt ==
  ASSUME NEW p \in Planner, NEW at \in {"idle", "chosen", "copied", "written", "locking", "done"}
  PROVE  [p EXCEPT !.at = at] \in Planner /\ [p EXCEPT !.at = at, !.seen = NoLocks] \in Planner
  BY DEF Planner, NoLocks, File

\* It has read the locks.
LEMMA PlannerSeen ==
  ASSUME NEW p \in Planner, NEW l \in [Block -> File]
  PROVE  [p EXCEPT !.at = "locking", !.seen = l] \in Planner
  BY DEF Planner

\* The code of a plan is a file, its parameters are settings.
LEMMA PlanChanged ==
  ASSUME NEW p \in Plan, NEW f \in File, NEW s \in Setting, NEW h \in Hash
  PROVE  /\ [p EXCEPT !.code = f] \in Plan
         /\ [p EXCEPT !.setting = s] \in Plan
         /\ [p EXCEPT !.hash = h] \in Plan
  BY DEF Plan

\* A plan is written with the hash of what was inspected.
LEMMA PlanWritten ==
  ASSUME NEW p \in Plan, NEW c \in Content
  PROVE  [p EXCEPT !.written = TRUE, !.sha = c, !.hash = [sha |-> c, setting |-> Preset]] \in Plan
  BY PlanAssumption DEF Plan, File, Hash

\* A plan of something has a hash.
LEMMA PlanHashed ==
  ASSUME NEW p \in Plan, p.sha # Unused
  PROVE  HashOf(p) \in Hash /\ \A s \in Setting : [HashOf(p) EXCEPT !.setting = s] \in Hash
  BY DEF Plan, File, Hash, HashOf

\* One approval after another is given.
LEMMA DeskSigned ==
  ASSUME NEW d \in [at : {"signing"}, left : [Exp -> Plan \cup {Unused}]], NEW e \in Exp
  PROVE  /\ [d EXCEPT !.left[e] = Unused] \in Desk
         /\ [d EXCEPT !.left[e] = Unused].at = "signing"
         /\ \A o \in Exp : [d EXCEPT !.left[e] = Unused].left[o] \in {d.left[o], Unused}
<1>1. [d EXCEPT !.left[e] = Unused] = [at |-> "signing", left |-> [d.left EXCEPT ![e] = Unused]]
  OBVIOUS
<1>. QED  BY <1>1 DEF Desk

\* Every step keeps every variable in its type.
LEMMA TypeStep ==
  ASSUME TypeOK, FilesStay, Hashed, RunOfOne, [Next]_vars
  PROVE  TypeOK'
<1>. USE PlanAssumption DEF FilesStay, Hashed, RunOfOne, TypeOK, File, Hash, HashOf, Plan, NoPlan,
         NoLocks, Planner, NoPlanner, Working, Approval, Desk, Saver, Run, NoRun, Original, Intact,
         Approved, gate, rest
<1>1. ASSUME NEW e \in Exp, NEW b \in Block, Choose(e, b) PROVE TypeOK'
  BY <1>1 DEF Choose
<1>2. ASSUME NEW e \in Exp, Snapshot(e) PROVE TypeOK'
  <2>. HIDE DEF Planner, Plan, NoLocks, NoPlan, Hash, HashOf
  <2>1. planner[e] \in Planner /\ planner[e].block \in Block /\ planner[e].sha \in File
    BY DEF Planner
  <2>2. [planner[e] EXCEPT !.at = "copied"] \in Planner /\ file[planner[e].block] \in File
    BY PlannerAt, <2>1
  <2>3. [plan[e] EXCEPT !.code = file[planner[e].block]] \in Plan
    BY PlanChanged, <2>2, HashExists
  <2>4. planner' \in [Exp -> Planner] /\ plan' \in [Exp -> Plan]
    BY <2>2, <2>3, <1>2 DEF Snapshot
  <2>5. UNCHANGED <<file, locks, originals, saver, gate, crossed, touched>>
    BY <1>2 DEF Snapshot
  <2>. QED  BY <2>4, <2>5
<1>3. ASSUME NEW e \in Exp, Write(e) PROVE TypeOK'
  <2>. HIDE DEF Planner, Plan, NoLocks, NoPlan, Hash, HashOf
  <2>1. planner[e] \in Planner /\ planner[e].block \in Block /\ planner[e].sha \in File
    BY DEF Planner
  <2>2. [planner[e] EXCEPT !.at = "written"] \in Planner /\ planner[e].sha \in Content
    BY PlannerAt, <2>1, <1>3 DEF Write
  <2>3. [plan[e] EXCEPT !.written = TRUE, !.sha = planner[e].sha,
                      !.hash = [sha |-> planner[e].sha, setting |-> Preset]] \in Plan
    BY PlanWritten, <2>2
  <2>4. planner' \in [Exp -> Planner] /\ plan' \in [Exp -> Plan]
    BY <2>2, <2>3, <1>3 DEF Write
  <2>5. UNCHANGED <<file, locks, originals, saver, gate, crossed, touched>>
    BY <1>3 DEF Write
  <2>. QED  BY <2>4, <2>5
<1>4. ASSUME NEW e \in Exp, PlanFails(e) PROVE TypeOK'
  BY <1>4 DEF PlanFails
<1>5. ASSUME NEW e \in Exp, Lock(e) PROVE TypeOK'
  <2>. HIDE DEF Planner, Plan, NoLocks, NoPlan, Hash, HashOf
  <2>1. planner[e] \in Planner /\ planner[e].block \in Block /\ planner[e].sha \in File
    BY DEF Planner
  <2>2. /\ [planner[e] EXCEPT !.at = "done"] \in Planner
        /\ [planner[e] EXCEPT !.at = "locking", !.seen = locks] \in Planner
    BY PlannerAt, PlannerSeen, <2>1
  <2>3. planner[e].sha \in Content /\ file[planner[e].block] \in File
    BY <2>1, <1>5 DEF Lock
  <2>4. planner' \in [Exp -> Planner]
    BY <2>2, <1>5 DEF Lock
  <2>5. originals' \in [Content -> File]
    BY <2>3, <1>5 DEF Lock
  <2>6. UNCHANGED <<file, locks, saver, plan, gate, crossed, touched>>
    BY <1>5 DEF Lock
  <2>. QED  BY <2>4, <2>5, <2>6
<1>6. ASSUME NEW e \in Exp, Locked(e) PROVE TypeOK'
  <2>. HIDE DEF Planner, Plan, NoLocks, NoPlan, Hash, HashOf
  <2>1. planner[e] \in Planner /\ planner[e].block \in Block /\ planner[e].sha \in File
    BY DEF Planner
  <2>2. [planner[e] EXCEPT !.at = "done", !.seen = NoLocks] \in Planner /\ planner[e].seen \in [Block -> File]
    BY PlannerAt, <2>1 DEF Planner
  <2>3. planner' \in [Exp -> Planner]
    BY <2>2, <1>6 DEF Locked
  <2>4. locks' \in [Block -> File]
    BY <2>1, <2>2, <1>6 DEF Locked
  <2>5. \A b \in Block : locks'[b] # Unused => file[b] # Unused
    BY <2>1, <2>2, <1>6 DEF Locked
  <2>6. UNCHANGED <<file, originals, saver, plan, gate, crossed, touched>>
    BY <1>6 DEF Locked
  <2>. QED  BY <2>3, <2>4, <2>5, <2>6
<1>7. ASSUME NEW b \in Block, NEW new \in Block, Fork(b, new) PROVE TypeOK'
  BY <1>7 DEF Fork
<1>8. ASSUME NEW b \in Block, NEW new \in Block, SaveAs(b, new) PROVE TypeOK'
  BY <1>8 DEF SaveAs
<1>9. CASE Restore
  BY <1>9 DEF Restore
<1>10. ASSUME NEW e \in Exp, Read(e) PROVE TypeOK'
  BY <1>10 DEF Read
<1>11. CASE Approve
  <2>. HIDE DEF Plan, HashOf, Hash, Approval
  <2>1. desk.exp \in Exp /\ desk.plan \in Plan /\ desk.plan.sha # Unused /\ desk' \in Desk
    BY <1>11 DEF Approve
  <2>2. HashOf(desk.plan) \in Hash
    BY PlanHashed, <2>1 DEF Approve
  <2>3. [hash |-> HashOf(desk.plan), signed |-> TRUE] \in Approval
    BY <2>2 DEF Approval
  <2>4. approval' \in [Exp -> Approval]
    BY <2>1, <2>3, <1>11 DEF Approve
  <2>5. typed' \subseteq Exp \X Hash
    BY <2>1, <2>2, <1>11 DEF Approve
  <2>6. UNCHANGED <<rest, plan, edits, run, sweep>>
    BY <1>11 DEF Approve
  <2>. QED  BY <2>1, <2>2, <2>3, <2>4, <2>5, <2>6
<1>12. CASE PlanSweep
  <2>1. \A e \in Exp : HashOf(plan[e]) \in Hash
    BY PlanHashed, <1>12 DEF PlanSweep
  <2>2. sweep' \subseteq Exp \X Hash
    BY <2>1, <1>12 DEF PlanSweep
  <2>3. UNCHANGED <<rest, plan, edits, approval, desk, run, typed>>
    BY <1>12 DEF PlanSweep
  <2>. QED  BY <2>1, <2>2, <2>3
<1>13. CASE ReadSweep
  BY <1>13 DEF ReadSweep
<1>14. ASSUME NEW e \in Exp, ApproveNext(e) PROVE TypeOK'
  <2>. HIDE DEF Plan, HashOf, Hash, Approval, Desk
  <2>1. desk \in [at : {"signing"}, left : [Exp -> Plan \cup {Unused}]]
    BY <1>14 DEF ApproveNext, Desk
  <2>2. HashOf(desk.left[e]) \in Hash
    BY PlanHashed, <2>1, <1>14 DEF ApproveNext
  <2>3. [hash |-> HashOf(desk.left[e]), signed |-> TRUE] \in Approval
    BY <2>2 DEF Approval
  <2>4. approval' \in [Exp -> Approval]
    BY <2>3, <1>14 DEF ApproveNext
  <2>5. [desk EXCEPT !.left[e] = Unused] \in Desk /\ [at |-> "idle"] \in Desk
    BY <2>1, DeskSigned DEF Desk
  <2>6. desk' \in Desk
    BY <2>5, <1>14 DEF ApproveNext
  <2>7. UNCHANGED <<rest, plan, edits, run, typed, sweep>>
    BY <1>14 DEF ApproveNext
  <2>. QED  BY <2>4, <2>6, <2>7
<1>15. ASSUME NEW e \in Exp, NEW host \in BOOLEAN, Ask(e, host) PROVE TypeOK'
  <2>. HIDE DEF Run, NoRun, Plan, NoPlan, Hash, HashOf, Approved
  <2>1. NoRun \in Run
    BY HashExists DEF NoRun, NoPlan, Run, Plan, Hash, File
  <2>2. plan[e].hash \in Hash
    BY DEF Plan
  <2>3. [NoRun EXCEPT !.at = "asked", !.exp = e, !.host = host, !.told = IF host THEN NoRun.told ELSE plan[e].hash] \in Run
    BY <2>1, <2>2 DEF Run
  <2>4. run' \in Run
    BY <2>3, <1>15 DEF Ask
  <2>5. UNCHANGED <<rest, plan, edits, approval, desk, typed, sweep>>
    BY <1>15 DEF Ask
  <2>. QED  BY <2>4, <2>5
<1>16. CASE Execute
  BY <1>16 DEF Execute
<1>17. CASE Main
  BY <1>17 DEF Main
<1>18. CASE Load
  BY <1>18 DEF Load
<1>19. ASSUME NEW b \in Block, NEW c \in Content, EditBlock(b, c) PROVE TypeOK'
  BY <1>19 DEF EditBlock, Edit
<1>20. ASSUME NEW e \in Exp, NEW c \in Content, EditCode(e, c) PROVE TypeOK'
  <2>. HIDE DEF Planner, Plan, NoLocks, NoPlan, Hash, HashOf
  <2>1. [plan[e] EXCEPT !.code = c] \in Plan
    BY PlanChanged, HashExists DEF EditCode, Edit
  <2>2. plan' \in [Exp -> Plan] /\ edits' \in 0..MaxEdits
    BY <2>1, <1>20 DEF EditCode, Edit
  <2>3. UNCHANGED <<rest, approval, desk, run, typed, sweep>>
    BY <1>20 DEF EditCode, Edit
  <2>. QED  BY <2>1, <2>2, <2>3
<1>21. ASSUME NEW e \in Exp, NEW s \in Setting, EditPlan(e, s) PROVE TypeOK'
  <2>. HIDE DEF Planner, Plan, NoLocks, NoPlan, Hash, HashOf
  <2>1. HashOf(plan[e]) \in Hash /\ [HashOf(plan[e]) EXCEPT !.setting = s] \in Hash
    BY PlanHashed, <1>21 DEF EditPlan, Edit
  <2>2. plan[e].hash \in Hash
    BY DEF Plan
  <2>3. PICK h \in Hash : plan' = [plan EXCEPT ![e].setting = s, ![e].hash = h]
    BY <2>1, <2>2, <1>21 DEF EditPlan, Edit
  <2>4. [plan EXCEPT ![e].setting = s] \in [Exp -> Plan]
    BY PlanChanged, HashExists, FileExists
  <2>5. plan' \in [Exp -> Plan]
    BY <2>3, <2>4, PlanChanged, HashExists, FileExists
  <2>6. edits' \in 0..MaxEdits
    BY <1>21 DEF EditPlan, Edit
  <2>7. UNCHANGED <<rest, approval, desk, run, typed, sweep>>
    BY <1>21 DEF EditPlan, Edit
  <2>. QED  BY <2>5, <2>6, <2>7
<1>22. ASSUME NEW e \in Exp, ApproveByHand(e) PROVE TypeOK'
  BY <1>22 DEF ApproveByHand, Edit
<1>23. CASE UNCHANGED vars
  BY <1>23 DEF vars
<1>. HIDE DEF FilesStay, Hashed, RunOfOne, TypeOK, File, Hash, HashOf, Plan, NoPlan, NoLocks,
          Planner, NoPlanner, Working, Approval, Desk, Saver, Run, NoRun, Original, Intact,
          Approved, gate, rest
<1>. QED
  BY <1>1, <1>2, <1>3, <1>4, <1>5, <1>6, <1>7, <1>8, <1>9, <1>10, <1>11, <1>12, <1>13, <1>14, <1>15,
     <1>16, <1>17, <1>18, <1>19, <1>20, <1>21, <1>22, <1>23 DEF Next, Planning, Approving, Running,
     Editing

\* No step takes away a file that somebody counts on.
LEMMA FilesStayStep ==
  ASSUME TypeOK, FilesStay, [Next]_vars
  PROVE  FilesStay'
<1>. USE PlanAssumption DEF FilesStay, TypeOK, File, Hash, HashOf, Plan, NoPlan, NoLocks, Planner,
         NoPlanner, Working, Approval, Desk, Saver, Run, NoRun, Original, Intact, Approved, gate,
         rest
<1>1. ASSUME NEW e \in Exp, NEW b \in Block, Choose(e, b) PROVE FilesStay'
  BY <1>1 DEF Choose
<1>2. ASSUME NEW e \in Exp, Snapshot(e) PROVE FilesStay'
  BY <1>2 DEF Snapshot
<1>3. ASSUME NEW e \in Exp, Write(e) PROVE FilesStay'
  BY <1>3 DEF Write
<1>4. ASSUME NEW e \in Exp, PlanFails(e) PROVE FilesStay'
  BY <1>4 DEF PlanFails
<1>5. ASSUME NEW e \in Exp, Lock(e) PROVE FilesStay'
  <2>1. /\ UNCHANGED <<locks, file, saver>> /\ planner[e].at = "written"
        /\ \A o \in Exp \ {e} : planner'[o] = planner[o]
        /\ planner'[e].block = planner[e].block /\ planner'[e].sha = planner[e].sha
    BY <1>5 DEF Lock
  <2>2. planner'[e].seen \in {planner[e].seen, locks}
    <3>1. planner[e] \in Planner
      OBVIOUS
    <3>. QED  BY <3>1, <1>5 DEF Lock
  <2>3. \A b \in Block : locks[b] # Unused => file[b] # Unused
    OBVIOUS
  <2>. HIDE DEF TypeOK
  <2>. QED  BY <2>1, <2>2, <2>3
<1>6. ASSUME NEW e \in Exp, Locked(e) PROVE FilesStay'
  BY <1>6 DEF Locked
<1>7. ASSUME NEW b \in Block, NEW new \in Block, Fork(b, new) PROVE FilesStay'
  BY <1>7 DEF Fork
<1>8. ASSUME NEW b \in Block, NEW new \in Block, SaveAs(b, new) PROVE FilesStay'
  BY <1>8 DEF SaveAs
<1>9. CASE Restore
  BY <1>9 DEF Restore
<1>10. ASSUME NEW e \in Exp, Read(e) PROVE FilesStay'
  BY <1>10 DEF Read
<1>11. CASE Approve
  BY <1>11 DEF Approve
<1>12. CASE PlanSweep
  BY <1>12 DEF PlanSweep
<1>13. CASE ReadSweep
  BY <1>13 DEF ReadSweep
<1>14. ASSUME NEW e \in Exp, ApproveNext(e) PROVE FilesStay'
  BY <1>14 DEF ApproveNext
<1>15. ASSUME NEW e \in Exp, NEW host \in BOOLEAN, Ask(e, host) PROVE FilesStay'
  BY <1>15 DEF Ask
<1>16. CASE Execute
  BY <1>16 DEF Execute
<1>17. CASE Main
  BY <1>17 DEF Main
<1>18. CASE Load
  BY <1>18 DEF Load
<1>19. ASSUME NEW b \in Block, NEW c \in Content, EditBlock(b, c) PROVE FilesStay'
  BY <1>19 DEF EditBlock, Edit
<1>20. ASSUME NEW e \in Exp, NEW c \in Content, EditCode(e, c) PROVE FilesStay'
  BY <1>20 DEF EditCode, Edit
<1>21. ASSUME NEW e \in Exp, NEW s \in Setting, EditPlan(e, s) PROVE FilesStay'
  BY <1>21 DEF EditPlan, Edit
<1>22. ASSUME NEW e \in Exp, ApproveByHand(e) PROVE FilesStay'
  BY <1>22 DEF ApproveByHand, Edit
<1>23. CASE UNCHANGED vars
  BY <1>23 DEF vars
<1>. HIDE DEF FilesStay, TypeOK, File, Hash, HashOf, Plan, NoPlan, NoLocks, Planner, NoPlanner,
          Working, Approval, Desk, Saver, Run, NoRun, Original, Intact, Approved, gate, rest
<1>. QED
  BY <1>1, <1>2, <1>3, <1>4, <1>5, <1>6, <1>7, <1>8, <1>9, <1>10, <1>11, <1>12, <1>13, <1>14, <1>15,
     <1>16, <1>17, <1>18, <1>19, <1>20, <1>21, <1>22, <1>23 DEF Next, Planning, Approving, Running,
     Editing

\* A plan is written by a planner that has read something.
LEMMA HashedStep ==
  ASSUME TypeOK, FilesStay, Hashed, [Next]_vars
  PROVE  Hashed'
<1>. USE PlanAssumption DEF Hashed, FilesStay, TypeOK, File, Hash, HashOf, Plan, NoPlan, NoLocks,
         Planner, NoPlanner, Working, Approval, Desk, Saver, Run, NoRun, Original, Intact, Approved,
         gate, rest
<1>1. ASSUME NEW e \in Exp, NEW b \in Block, Choose(e, b) PROVE Hashed'
  BY <1>1 DEF Choose
<1>2. ASSUME NEW e \in Exp, Snapshot(e) PROVE Hashed'
  BY <1>2 DEF Snapshot
<1>3. ASSUME NEW e \in Exp, Write(e) PROVE Hashed'
  BY <1>3 DEF Write
<1>4. ASSUME NEW e \in Exp, PlanFails(e) PROVE Hashed'
  BY <1>4 DEF PlanFails
<1>5. ASSUME NEW e \in Exp, Lock(e) PROVE Hashed'
  BY <1>5 DEF Lock
<1>6. ASSUME NEW e \in Exp, Locked(e) PROVE Hashed'
  BY <1>6 DEF Locked
<1>7. ASSUME NEW b \in Block, NEW new \in Block, Fork(b, new) PROVE Hashed'
  BY <1>7 DEF Fork
<1>8. ASSUME NEW b \in Block, NEW new \in Block, SaveAs(b, new) PROVE Hashed'
  BY <1>8 DEF SaveAs
<1>9. CASE Restore
  BY <1>9 DEF Restore
<1>10. ASSUME NEW e \in Exp, Read(e) PROVE Hashed'
  BY <1>10 DEF Read
<1>11. CASE Approve
  BY <1>11 DEF Approve
<1>12. CASE PlanSweep
  BY <1>12 DEF PlanSweep
<1>13. CASE ReadSweep
  BY <1>13 DEF ReadSweep
<1>14. ASSUME NEW e \in Exp, ApproveNext(e) PROVE Hashed'
  <2>1. desk \in [at : {"signing"}, left : [Exp -> Plan \cup {Unused}]] /\ UNCHANGED plan
    BY <1>14 DEF ApproveNext
  <2>2. desk' = [at |-> "idle"] \/ desk' = [desk EXCEPT !.left[e] = Unused]
    BY <1>14 DEF ApproveNext
  <2>3. desk'.at = "idle" \/ (desk'.at = "signing" /\ \A o \in Exp : desk'.left[o] \in {desk.left[o], Unused})
    BY <2>1, <2>2, DeskSigned
  <2>. HIDE DEF TypeOK, FilesStay, Desk
  <2>. QED  BY <2>1, <2>3
<1>15. ASSUME NEW e \in Exp, NEW host \in BOOLEAN, Ask(e, host) PROVE Hashed'
  BY <1>15 DEF Ask
<1>16. CASE Execute
  BY <1>16 DEF Execute
<1>17. CASE Main
  BY <1>17 DEF Main
<1>18. CASE Load
  BY <1>18 DEF Load
<1>19. ASSUME NEW b \in Block, NEW c \in Content, EditBlock(b, c) PROVE Hashed'
  BY <1>19 DEF EditBlock, Edit
<1>20. ASSUME NEW e \in Exp, NEW c \in Content, EditCode(e, c) PROVE Hashed'
  BY <1>20 DEF EditCode, Edit
<1>21. ASSUME NEW e \in Exp, NEW s \in Setting, EditPlan(e, s) PROVE Hashed'
  BY <1>21 DEF EditPlan, Edit
<1>22. ASSUME NEW e \in Exp, ApproveByHand(e) PROVE Hashed'
  BY <1>22 DEF ApproveByHand, Edit
<1>23. CASE UNCHANGED vars
  BY <1>23 DEF vars
<1>. HIDE DEF Hashed, FilesStay, TypeOK, File, Hash, HashOf, Plan, NoPlan, NoLocks, Planner,
          NoPlanner, Working, Approval, Desk, Saver, Run, NoRun, Original, Intact, Approved, gate,
          rest
<1>. QED
  BY <1>1, <1>2, <1>3, <1>4, <1>5, <1>6, <1>7, <1>8, <1>9, <1>10, <1>11, <1>12, <1>13, <1>14, <1>15,
     <1>16, <1>17, <1>18, <1>19, <1>20, <1>21, <1>22, <1>23 DEF Next, Planning, Approving, Running,
     Editing

\* Only an experiment is asked for.
LEMMA RunOfOneStep ==
  ASSUME TypeOK, RunOfOne, [Next]_vars
  PROVE  RunOfOne'
<1>. USE PlanAssumption DEF RunOfOne, TypeOK, File, Hash, HashOf, Plan, NoPlan, NoLocks, Planner,
         NoPlanner, Working, Approval, Desk, Saver, Run, NoRun, Original, Intact, Approved, gate,
         rest
<1>1. ASSUME NEW e \in Exp, NEW b \in Block, Choose(e, b) PROVE RunOfOne'
  BY <1>1 DEF Choose
<1>2. ASSUME NEW e \in Exp, Snapshot(e) PROVE RunOfOne'
  BY <1>2 DEF Snapshot
<1>3. ASSUME NEW e \in Exp, Write(e) PROVE RunOfOne'
  BY <1>3 DEF Write
<1>4. ASSUME NEW e \in Exp, PlanFails(e) PROVE RunOfOne'
  BY <1>4 DEF PlanFails
<1>5. ASSUME NEW e \in Exp, Lock(e) PROVE RunOfOne'
  BY <1>5 DEF Lock
<1>6. ASSUME NEW e \in Exp, Locked(e) PROVE RunOfOne'
  BY <1>6 DEF Locked
<1>7. ASSUME NEW b \in Block, NEW new \in Block, Fork(b, new) PROVE RunOfOne'
  BY <1>7 DEF Fork
<1>8. ASSUME NEW b \in Block, NEW new \in Block, SaveAs(b, new) PROVE RunOfOne'
  BY <1>8 DEF SaveAs
<1>9. CASE Restore
  BY <1>9 DEF Restore
<1>10. ASSUME NEW e \in Exp, Read(e) PROVE RunOfOne'
  BY <1>10 DEF Read
<1>11. CASE Approve
  BY <1>11 DEF Approve
<1>12. CASE PlanSweep
  BY <1>12 DEF PlanSweep
<1>13. CASE ReadSweep
  BY <1>13 DEF ReadSweep
<1>14. ASSUME NEW e \in Exp, ApproveNext(e) PROVE RunOfOne'
  BY <1>14 DEF ApproveNext
<1>15. ASSUME NEW e \in Exp, NEW host \in BOOLEAN, Ask(e, host) PROVE RunOfOne'
  BY <1>15 DEF Ask
<1>16. CASE Execute
  BY <1>16 DEF Execute
<1>17. CASE Main
  BY <1>17 DEF Main
<1>18. CASE Load
  BY <1>18 DEF Load
<1>19. ASSUME NEW b \in Block, NEW c \in Content, EditBlock(b, c) PROVE RunOfOne'
  BY <1>19 DEF EditBlock, Edit
<1>20. ASSUME NEW e \in Exp, NEW c \in Content, EditCode(e, c) PROVE RunOfOne'
  BY <1>20 DEF EditCode, Edit
<1>21. ASSUME NEW e \in Exp, NEW s \in Setting, EditPlan(e, s) PROVE RunOfOne'
  BY <1>21 DEF EditPlan, Edit
<1>22. ASSUME NEW e \in Exp, ApproveByHand(e) PROVE RunOfOne'
  BY <1>22 DEF ApproveByHand, Edit
<1>23. CASE UNCHANGED vars
  BY <1>23 DEF vars
<1>. HIDE DEF RunOfOne, TypeOK, File, Hash, HashOf, Plan, NoPlan, NoLocks, Planner, NoPlanner,
          Working, Approval, Desk, Saver, Run, NoRun, Original, Intact, Approved, gate, rest
<1>. QED
  BY <1>1, <1>2, <1>3, <1>4, <1>5, <1>6, <1>7, <1>8, <1>9, <1>10, <1>11, <1>12, <1>13, <1>14, <1>15,
     <1>16, <1>17, <1>18, <1>19, <1>20, <1>21, <1>22, <1>23 DEF Next, Planning, Approving, Running,
     Editing

\* Nothing is signed that was not typed, and nothing passes the gates unsigned.
LEMMA SignedTypedStep ==
  ASSUME TypeOK, RunOfOne, SignedTyped, [Next]_vars
  PROVE  SignedTyped'
<1>. USE PlanAssumption DEF SignedTyped, RunOfOne, TypeOK, File, Hash, HashOf, Plan, NoPlan,
         NoLocks, Planner, NoPlanner, Working, Approval, Desk, Saver, Run, NoRun, Original, Intact,
         Approved, gate, rest
<1>1. ASSUME NEW e \in Exp, NEW b \in Block, Choose(e, b) PROVE SignedTyped'
  BY <1>1 DEF Choose
<1>2. ASSUME NEW e \in Exp, Snapshot(e) PROVE SignedTyped'
  BY <1>2 DEF Snapshot
<1>3. ASSUME NEW e \in Exp, Write(e) PROVE SignedTyped'
  BY <1>3 DEF Write
<1>4. ASSUME NEW e \in Exp, PlanFails(e) PROVE SignedTyped'
  BY <1>4 DEF PlanFails
<1>5. ASSUME NEW e \in Exp, Lock(e) PROVE SignedTyped'
  BY <1>5 DEF Lock
<1>6. ASSUME NEW e \in Exp, Locked(e) PROVE SignedTyped'
  BY <1>6 DEF Locked
<1>7. ASSUME NEW b \in Block, NEW new \in Block, Fork(b, new) PROVE SignedTyped'
  BY <1>7 DEF Fork
<1>8. ASSUME NEW b \in Block, NEW new \in Block, SaveAs(b, new) PROVE SignedTyped'
  BY <1>8 DEF SaveAs
<1>9. CASE Restore
  BY <1>9 DEF Restore
<1>10. ASSUME NEW e \in Exp, Read(e) PROVE SignedTyped'
  BY <1>10 DEF Read
<1>11. CASE Approve
  <2>1. CASE Intact(desk.exp, desk.plan) /\ desk.plan.hash = HashOf(desk.plan)
    BY <2>1, <1>11 DEF Approve
  <2>2. CASE ~(Intact(desk.exp, desk.plan) /\ desk.plan.hash = HashOf(desk.plan))
    BY <2>2, <1>11 DEF Approve
  <2>. QED  BY <2>1, <2>2
<1>12. CASE PlanSweep
  BY <1>12 DEF PlanSweep
<1>13. CASE ReadSweep
  BY <1>13 DEF ReadSweep
<1>14. ASSUME NEW e \in Exp, ApproveNext(e) PROVE SignedTyped'
  <2>1. desk \in [at : {"signing"}, left : [Exp -> Plan \cup {Unused}]] /\ desk.left[e] # Unused
    BY <1>14 DEF ApproveNext
  <2>2. desk' = [at |-> "idle"] \/ desk' = [desk EXCEPT !.left[e] = Unused]
    BY <1>14 DEF ApproveNext
  <2>3. desk'.at = "idle" \/ (desk'.at = "signing" /\ \A o \in Exp : desk'.left[o] \in {desk.left[o], Unused})
    BY <2>1, <2>2, DeskSigned
  <2>4. approval' \in {approval, [approval EXCEPT ![e] = [hash |-> HashOf(desk.left[e]), signed |-> TRUE]]}
    BY <1>14 DEF ApproveNext
  <2>5. approval \in [Exp -> Approval] /\ UNCHANGED <<run, typed>>
    BY <1>14 DEF ApproveNext
  <2>. HIDE DEF TypeOK, RunOfOne, Desk, Approval, HashOf
  <2>. QED  BY <2>1, <2>3, <2>4, <2>5
<1>15. ASSUME NEW e \in Exp, NEW host \in BOOLEAN, Ask(e, host) PROVE SignedTyped'
  BY <1>15 DEF Ask
<1>16. CASE Execute
  BY <1>16 DEF Execute
<1>17. CASE Main
  <2>1. CASE Approved(run.exp, run.host, run.told)
    <3>1. <<run.exp, HashOf(plan[run.exp])>> \in typed
      BY <2>1, <1>17 DEF Main
    <3>. QED  BY <2>1, <3>1, <1>17 DEF Main
  <2>2. CASE ~Approved(run.exp, run.host, run.told)
    BY <2>2, <1>17 DEF Main
  <2>. QED  BY <2>1, <2>2
<1>18. CASE Load
  BY <1>18 DEF Load
<1>19. ASSUME NEW b \in Block, NEW c \in Content, EditBlock(b, c) PROVE SignedTyped'
  BY <1>19 DEF EditBlock, Edit
<1>20. ASSUME NEW e \in Exp, NEW c \in Content, EditCode(e, c) PROVE SignedTyped'
  BY <1>20 DEF EditCode, Edit
<1>21. ASSUME NEW e \in Exp, NEW s \in Setting, EditPlan(e, s) PROVE SignedTyped'
  BY <1>21 DEF EditPlan, Edit
<1>22. ASSUME NEW e \in Exp, ApproveByHand(e) PROVE SignedTyped'
  BY <1>22 DEF ApproveByHand, Edit
<1>23. CASE UNCHANGED vars
  BY <1>23 DEF vars
<1>. HIDE DEF SignedTyped, RunOfOne, TypeOK, File, Hash, HashOf, Plan, NoPlan, NoLocks, Planner,
          NoPlanner, Working, Approval, Desk, Saver, Run, NoRun, Original, Intact, Approved, gate,
          rest
<1>. QED
  BY <1>1, <1>2, <1>3, <1>4, <1>5, <1>6, <1>7, <1>8, <1>9, <1>10, <1>11, <1>12, <1>13, <1>14, <1>15,
     <1>16, <1>17, <1>18, <1>19, <1>20, <1>21, <1>22, <1>23 DEF Next, Planning, Approving, Running,
     Editing

\* A planner that is alone finds its block unlocked or as it has read it.
LEMMA OneAfterAnotherStep ==
  ASSUME TypeOK, FilesStay, OneAfterAnother, [Next]_vars
  PROVE  OneAfterAnother'
<1>. USE PlanAssumption DEF OneAfterAnother, FilesStay, TypeOK, File, Hash, HashOf, Plan, NoPlan,
         NoLocks, Planner, NoPlanner, Working, Approval, Desk, Saver, Run, NoRun, Original, Intact,
         Approved, gate, rest
<1>1. ASSUME NEW e \in Exp, NEW b \in Block, Choose(e, b) PROVE OneAfterAnother'
  <2>1. SUFFICES ASSUME ~crossed' PROVE OneAfterAnother'
    OBVIOUS
  <2>2. ~crossed /\ \A o \in Exp \ {e} : ~Working(o)
    BY <2>1, <1>1 DEF Choose
  <2>3. /\ planner'[e].at = "chosen" /\ planner'[e].block = b /\ planner'[e].sha = file[b]
        /\ \A o \in Exp \ {e} : planner'[o] = planner[o]
        /\ locks[b] \in {Unused, file[b]} /\ UNCHANGED locks
    BY <1>1 DEF Choose
  <2>. HIDE DEF TypeOK, FilesStay
  <2>. QED  BY <2>2, <2>3
<1>2. ASSUME NEW e \in Exp, Snapshot(e) PROVE OneAfterAnother'
  BY <1>2 DEF Snapshot
<1>3. ASSUME NEW e \in Exp, Write(e) PROVE OneAfterAnother'
  BY <1>3 DEF Write
<1>4. ASSUME NEW e \in Exp, PlanFails(e) PROVE OneAfterAnother'
  BY <1>4 DEF PlanFails
<1>5. ASSUME NEW e \in Exp, Lock(e) PROVE OneAfterAnother'
  <2>. DEFINE b == planner[e].block
  <2>1. /\ UNCHANGED <<locks, crossed>> /\ planner[e].at = "written"
        /\ \A o \in Exp \ {e} : planner'[o] = planner[o]
        /\ planner'[e].block = b /\ planner'[e].sha = planner[e].sha
    BY <1>5 DEF Lock
  <2>2. \/ planner'[e].at = "done" /\ planner'[e].seen = planner[e].seen /\ locks[b] # Unused
        \/ planner'[e].at = "locking" /\ planner'[e].seen = locks /\ locks[b] = Unused
    <3>1. planner[e] \in Planner
      OBVIOUS
    <3>. QED  BY <3>1, <1>5 DEF Lock
  <2>. HIDE DEF TypeOK, FilesStay
  <2>. QED  BY <2>1, <2>2
<1>6. ASSUME NEW e \in Exp, Locked(e) PROVE OneAfterAnother'
  BY <1>6 DEF Locked
<1>7. ASSUME NEW b \in Block, NEW new \in Block, Fork(b, new) PROVE OneAfterAnother'
  BY <1>7 DEF Fork
<1>8. ASSUME NEW b \in Block, NEW new \in Block, SaveAs(b, new) PROVE OneAfterAnother'
  BY <1>8 DEF SaveAs
<1>9. CASE Restore
  BY <1>9 DEF Restore
<1>10. ASSUME NEW e \in Exp, Read(e) PROVE OneAfterAnother'
  BY <1>10 DEF Read
<1>11. CASE Approve
  BY <1>11 DEF Approve
<1>12. CASE PlanSweep
  BY <1>12 DEF PlanSweep
<1>13. CASE ReadSweep
  BY <1>13 DEF ReadSweep
<1>14. ASSUME NEW e \in Exp, ApproveNext(e) PROVE OneAfterAnother'
  BY <1>14 DEF ApproveNext
<1>15. ASSUME NEW e \in Exp, NEW host \in BOOLEAN, Ask(e, host) PROVE OneAfterAnother'
  BY <1>15 DEF Ask
<1>16. CASE Execute
  BY <1>16 DEF Execute
<1>17. CASE Main
  BY <1>17 DEF Main
<1>18. CASE Load
  BY <1>18 DEF Load
<1>19. ASSUME NEW b \in Block, NEW c \in Content, EditBlock(b, c) PROVE OneAfterAnother'
  BY <1>19 DEF EditBlock, Edit
<1>20. ASSUME NEW e \in Exp, NEW c \in Content, EditCode(e, c) PROVE OneAfterAnother'
  BY <1>20 DEF EditCode, Edit
<1>21. ASSUME NEW e \in Exp, NEW s \in Setting, EditPlan(e, s) PROVE OneAfterAnother'
  BY <1>21 DEF EditPlan, Edit
<1>22. ASSUME NEW e \in Exp, ApproveByHand(e) PROVE OneAfterAnother'
  BY <1>22 DEF ApproveByHand, Edit
<1>23. CASE UNCHANGED vars
  BY <1>23 DEF vars
<1>. HIDE DEF OneAfterAnother, FilesStay, TypeOK, File, Hash, HashOf, Plan, NoPlan, NoLocks,
          Planner, NoPlanner, Working, Approval, Desk, Saver, Run, NoRun, Original, Intact,
          Approved, gate, rest
<1>. QED
  BY <1>1, <1>2, <1>3, <1>4, <1>5, <1>6, <1>7, <1>8, <1>9, <1>10, <1>11, <1>12, <1>13, <1>14, <1>15,
     <1>16, <1>17, <1>18, <1>19, <1>20, <1>21, <1>22, <1>23 DEF Next, Planning, Approving, Running,
     Editing

\* A block that nobody edits meanwhile is copied as it was read.
LEMMA CopiesTrueStep ==
  ASSUME TypeOK, FilesStay, CopiesTrue, [Next]_vars
  PROVE  CopiesTrue'
<1>. USE PlanAssumption DEF CopiesTrue, FilesStay, TypeOK, File, Hash, HashOf, Plan, NoPlan,
         NoLocks, Planner, NoPlanner, Working, Approval, Desk, Saver, Run, NoRun, Original, Intact,
         Approved, gate, rest
<1>1. ASSUME NEW e \in Exp, NEW b \in Block, Choose(e, b) PROVE CopiesTrue'
  BY <1>1 DEF Choose
<1>2. ASSUME NEW e \in Exp, Snapshot(e) PROVE CopiesTrue'
  BY <1>2 DEF Snapshot
<1>3. ASSUME NEW e \in Exp, Write(e) PROVE CopiesTrue'
  BY <1>3 DEF Write
<1>4. ASSUME NEW e \in Exp, PlanFails(e) PROVE CopiesTrue'
  BY <1>4 DEF PlanFails
<1>5. ASSUME NEW e \in Exp, Lock(e) PROVE CopiesTrue'
  <2>. DEFINE b == planner[e].block
             sha == planner[e].sha
  <2>1. SUFFICES ASSUME ~touched PROVE CopiesTrue'
    BY <1>5 DEF Lock
  <2>2. /\ UNCHANGED <<locks, file>> /\ planner[e].at = "written" /\ file[b] = sha /\ sha \in Content /\ b \in Block
        /\ \A o \in Exp \ {e} : planner'[o] = planner[o]
        /\ planner'[e].block = b /\ planner'[e].sha = sha
    BY <2>1, <1>5 DEF Lock
  <2>3. CASE locks[b] # Unused
    <3>1. planner'[e].at = "done" /\ planner'[e].seen = planner[e].seen /\ UNCHANGED originals
      BY <2>3, <1>5 DEF Lock
    <3>. HIDE DEF TypeOK, FilesStay, b, sha
    <3>. QED  BY <2>1, <2>2, <3>1
  <2>4. CASE locks[b] = Unused
    <3>1. planner'[e].at = "locking" /\ planner'[e].seen = locks
      <4>1. planner[e] \in Planner
        OBVIOUS
      <4>. QED  BY <4>1, <2>4, <1>5 DEF Lock
    <3>2. originals' = [originals EXCEPT ![sha] = sha] /\ originals \in [Content -> File]
      BY <2>2, <2>4, <1>5 DEF Lock
    <3>3. \A c \in Content : originals'[c] \in {originals[c], c}
      BY <3>2
    <3>4. originals'[sha] = sha
      BY <2>2, <3>2
    <3>5. \A c \in Content : originals[c] = c => originals'[c] = c
      BY <3>3
    <3>6. \A o \in Exp, x \in Block : planner[o].seen[x] \in Content \cup {Unused} /\ locks[x] \in Content \cup {Unused}
      OBVIOUS
    <3>7. \A o \in Exp : planner[o].at = "locking" => planner[o].sha \in Content
      BY DEF FilesStay
    <3>. HIDE DEF TypeOK, FilesStay, b, sha
    <3>. QED  BY <2>1, <2>2, <3>1, <3>3, <3>4, <3>5, <3>6, <3>7
  <2>. QED  BY <2>3, <2>4
<1>6. ASSUME NEW e \in Exp, Locked(e) PROVE CopiesTrue'
  BY <1>6 DEF Locked
<1>7. ASSUME NEW b \in Block, NEW new \in Block, Fork(b, new) PROVE CopiesTrue'
  BY <1>7 DEF Fork
<1>8. ASSUME NEW b \in Block, NEW new \in Block, SaveAs(b, new) PROVE CopiesTrue'
  BY <1>8 DEF SaveAs
<1>9. CASE Restore
  <2>1. SUFFICES ASSUME ~touched' PROVE CopiesTrue'
    OBVIOUS
  <2>2. ~touched /\ \A o \in Exp : planner[o].at \in {"idle", "done"}
    BY <2>1, <1>9 DEF Restore
  <2>3. UNCHANGED <<locks, originals, planner>>
    BY <1>9 DEF Restore
  <2>. HIDE DEF TypeOK, FilesStay
  <2>. QED  BY <2>2, <2>3
<1>10. ASSUME NEW e \in Exp, Read(e) PROVE CopiesTrue'
  BY <1>10 DEF Read
<1>11. CASE Approve
  BY <1>11 DEF Approve
<1>12. CASE PlanSweep
  BY <1>12 DEF PlanSweep
<1>13. CASE ReadSweep
  BY <1>13 DEF ReadSweep
<1>14. ASSUME NEW e \in Exp, ApproveNext(e) PROVE CopiesTrue'
  BY <1>14 DEF ApproveNext
<1>15. ASSUME NEW e \in Exp, NEW host \in BOOLEAN, Ask(e, host) PROVE CopiesTrue'
  BY <1>15 DEF Ask
<1>16. CASE Execute
  BY <1>16 DEF Execute
<1>17. CASE Main
  BY <1>17 DEF Main
<1>18. CASE Load
  BY <1>18 DEF Load
<1>19. ASSUME NEW b \in Block, NEW c \in Content, EditBlock(b, c) PROVE CopiesTrue'
  <2>1. SUFFICES ASSUME ~touched' PROVE CopiesTrue'
    OBVIOUS
  <2>2. ~touched /\ \A o \in Exp : planner[o].at \in {"idle", "done"}
    BY <2>1, <1>19 DEF EditBlock
  <2>3. UNCHANGED <<locks, originals, planner>>
    BY <1>19 DEF EditBlock
  <2>. HIDE DEF TypeOK, FilesStay
  <2>. QED  BY <2>2, <2>3
<1>20. ASSUME NEW e \in Exp, NEW c \in Content, EditCode(e, c) PROVE CopiesTrue'
  BY <1>20 DEF EditCode, Edit
<1>21. ASSUME NEW e \in Exp, NEW s \in Setting, EditPlan(e, s) PROVE CopiesTrue'
  BY <1>21 DEF EditPlan, Edit
<1>22. ASSUME NEW e \in Exp, ApproveByHand(e) PROVE CopiesTrue'
  BY <1>22 DEF ApproveByHand, Edit
<1>23. CASE UNCHANGED vars
  BY <1>23 DEF vars
<1>. HIDE DEF CopiesTrue, FilesStay, TypeOK, File, Hash, HashOf, Plan, NoPlan, NoLocks, Planner,
          NoPlanner, Working, Approval, Desk, Saver, Run, NoRun, Original, Intact, Approved, gate,
          rest
<1>. QED
  BY <1>1, <1>2, <1>3, <1>4, <1>5, <1>6, <1>7, <1>8, <1>9, <1>10, <1>11, <1>12, <1>13, <1>14, <1>15,
     <1>16, <1>17, <1>18, <1>19, <1>20, <1>21, <1>22, <1>23 DEF Next, Planning, Approving, Running,
     Editing

\* The copy of an edit is still there when the original is put back.
LEMMA EditCopiedStep ==
  ASSUME TypeOK, FilesStay, EditCopied, [Next]_vars
  PROVE  EditCopied'
<1>. USE PlanAssumption DEF EditCopied, FilesStay, TypeOK, File, Saver, gate, rest
<1>1. ASSUME NEW e \in Exp, NEW b \in Block, Choose(e, b) PROVE EditCopied'
  BY <1>1 DEF Choose
<1>2. ASSUME NEW e \in Exp, Snapshot(e) PROVE EditCopied'
  BY <1>2 DEF Snapshot
<1>3. ASSUME NEW e \in Exp, Write(e) PROVE EditCopied'
  BY <1>3 DEF Write
<1>4. ASSUME NEW e \in Exp, PlanFails(e) PROVE EditCopied'
  BY <1>4 DEF PlanFails
<1>5. ASSUME NEW e \in Exp, Lock(e) PROVE EditCopied'
  BY <1>5 DEF Lock
<1>6. ASSUME NEW e \in Exp, Locked(e) PROVE EditCopied'
  BY <1>6 DEF Locked
<1>7. ASSUME NEW b \in Block, NEW new \in Block, Fork(b, new) PROVE EditCopied'
  <2>1. file' = [file EXCEPT ![new] = file'[new]] /\ file[new] = Unused /\ UNCHANGED <<saver, touched>>
    BY <1>7 DEF Fork
  <2>2. saver.at = "copied" => file[saver.block] # Unused /\ saver.block \in Block
    OBVIOUS
  <2>. QED  BY <2>1, <2>2
<1>8. ASSUME NEW b \in Block, NEW new \in Block, SaveAs(b, new) PROVE EditCopied'
  <2>1. file[b] # Unused /\ new # b
    BY <1>8 DEF SaveAs, Original
  <2>2. file' = [file EXCEPT ![new] = file[b]] /\ saver'.block = b
    BY <1>8 DEF SaveAs
  <2>3. new # b /\ file'[new] = file'[b]
    BY <2>1, <2>2
  <2>. QED  BY <2>2, <2>3
<1>9. CASE Restore
  BY <1>9 DEF Restore
<1>10. ASSUME NEW e \in Exp, Read(e) PROVE EditCopied'
  BY <1>10 DEF Read
<1>11. CASE Approve
  BY <1>11 DEF Approve
<1>12. CASE PlanSweep
  BY <1>12 DEF PlanSweep
<1>13. CASE ReadSweep
  BY <1>13 DEF ReadSweep
<1>14. ASSUME NEW e \in Exp, ApproveNext(e) PROVE EditCopied'
  BY <1>14 DEF ApproveNext
<1>15. ASSUME NEW e \in Exp, NEW host \in BOOLEAN, Ask(e, host) PROVE EditCopied'
  BY <1>15 DEF Ask
<1>16. CASE Execute
  BY <1>16 DEF Execute
<1>17. CASE Main
  BY <1>17 DEF Main
<1>18. CASE Load
  BY <1>18 DEF Load
<1>19. ASSUME NEW b \in Block, NEW c \in Content, EditBlock(b, c) PROVE EditCopied'
  BY <1>19 DEF EditBlock, Edit
<1>20. ASSUME NEW e \in Exp, NEW c \in Content, EditCode(e, c) PROVE EditCopied'
  BY <1>20 DEF EditCode, Edit
<1>21. ASSUME NEW e \in Exp, NEW s \in Setting, EditPlan(e, s) PROVE EditCopied'
  BY <1>21 DEF EditPlan, Edit
<1>22. ASSUME NEW e \in Exp, ApproveByHand(e) PROVE EditCopied'
  BY <1>22 DEF ApproveByHand, Edit
<1>23. CASE UNCHANGED vars
  BY <1>23 DEF vars
<1>. HIDE DEF EditCopied, FilesStay, TypeOK, File, Saver, gate, rest
<1>. QED
  BY <1>1, <1>2, <1>3, <1>4, <1>5, <1>6, <1>7, <1>8, <1>9, <1>10, <1>11, <1>12, <1>13, <1>14, <1>15,
     <1>16, <1>17, <1>18, <1>19, <1>20, <1>21, <1>22, <1>23 DEF Next, Planning, Approving, Running,
     Editing

-----------------------------------------------------------------------------
(* The invariant, and what follows from it.                                *)

Inv == TypeOK /\ FilesStay /\ Hashed /\ RunOfOne /\ SignedTyped /\ OneAfterAnother /\ CopiesTrue /\ EditCopied

\* Nothing is planned yet.
LEMMA Initially == Init => Inv
<1>. SUFFICES ASSUME Init PROVE Inv
  OBVIOUS
<1>1. NoPlanner \in Planner /\ NoPlan \in Plan
  <2>1. (CHOOSE b \in Block : TRUE) \in Block /\ (CHOOSE c \in Content : TRUE) \in Content
    BY PlanAssumption
  <2>2. NoLocks \in [Block -> File]
    BY DEF NoLocks, File
  <2>. QED  BY <2>1, <2>2, PlanAssumption DEF NoPlanner, NoPlan, Planner, Plan, Hash, File
<1>2. NoRun \in Run
  BY <1>1 DEF NoRun, Run, Plan
<1>3. TypeOK
  <2>. USE DEF Init
  <2>1. planner \in [Exp -> Planner] /\ plan \in [Exp -> Plan] /\ run \in Run
    BY <1>1, <1>2
  <2>2. approval \in [Exp -> Approval] /\ desk \in Desk /\ saver \in Saver /\ edits \in 0..MaxEdits
    BY PlanAssumption DEF Approval, Desk, Saver
  <2>3. locks \in [Block -> File] /\ originals \in [Content -> File] /\ \A b \in Block : locks[b] = Unused
    BY DEF NoLocks, File
  <2>. QED  BY <2>1, <2>2, <2>3 DEF TypeOK
<1>4. FilesStay /\ Hashed /\ RunOfOne /\ SignedTyped
  BY DEF Init, FilesStay, Hashed, RunOfOne, SignedTyped, NoPlanner, NoPlan, NoLocks, NoRun
<1>5. OneAfterAnother /\ CopiesTrue /\ EditCopied
  BY DEF Init, OneAfterAnother, CopiesTrue, EditCopied, NoPlanner, NoLocks, Working
<1>. QED  BY <1>3, <1>4, <1>5 DEF Inv

\* The invariant is inductive.
LEMMA InvStep == Inv /\ [Next]_vars => Inv'
  BY TypeStep, FilesStayStep, HashedStep, RunOfOneStep, SignedTypedStep, OneAfterAnotherStep,
     CopiesTrueStep, EditCopiedStep DEF Inv

\* It holds in every reachable state.
LEMMA Always == Spec => []Inv
  BY Initially, InvStep, PTL DEF Spec

\* Everything on disk and in memory stays well formed, and no lock names a block
\* without a file.
THEOREM PlanTypes == Spec => []TypeOK
<1>1. Inv => TypeOK
  BY DEF Inv
<1>. QED  BY <1>1, Always, PTL

\* Whoever edits plans, code and approvals at whatever moment: what a trainer runs
\* is a plan whose code a person has typed, on the host and in the sandbox.
THEOREM OnlyTypedRuns == Spec => []RunsWhatWasTyped
<1>1. Inv => RunsWhatWasTyped
  BY DEF Inv, SignedTyped, RunsWhatWasTyped
<1>. QED  BY <1>1, Always, PTL

\* Experiments planned one after another use one content of a block, and what a
\* block was at its first use is in the copy that is kept of it.
THEOREM LibraryStays == Spec => []LibraryKept
<1>1. Inv => UsedAlike
  BY DEF Inv, OneAfterAnother, UsedAlike
<1>2. Inv => OriginalKept
  BY DEF Inv, CopiesTrue, OriginalKept
<1>. QED  BY <1>1, <1>2, Always, PTL DEF LibraryKept

\* No command takes away an edit that is in no other block: what save-as puts back
\* over an edit has been copied, and nobody but an author has touched the copy.
THEOREM EditsKept == Spec => EditsSurvive
<1>. DEFINE Kept == ~touched' /\ (\A b \in Block, c \in Content : ~EditBlock(b, c))
                      => \A b \in Block : file'[b] # file[b] /\ file[b] # Unused
                                            => \E n \in Block : file'[n] = file[b]
<1>1. Inv /\ [Next]_vars => [Kept]_vars
  <2>. SUFFICES ASSUME Inv, Next, ~touched', \A b \in Block, c \in Content : ~EditBlock(b, c),
                       NEW b \in Block, file'[b] # file[b], file[b] # Unused
                PROVE  \E n \in Block : file'[n] = file[b]
    OBVIOUS
  <2>. USE DEF gate, rest
  <2>1. file \in [Block -> File]
    BY DEF Inv, TypeOK
  <2>2. ASSUME NEW e \in Exp, Planning(e) \/ Approving(e) \/ Running(e) \/ Editing(e) PROVE FALSE
    BY <2>2 DEF Planning, Approving, Running, Editing, Choose, Snapshot, Write, PlanFails, Lock,
       Locked,
                Read, ApproveNext, Ask, EditCode, EditPlan, ApproveByHand
  <2>3. ~(Execute \/ Main \/ Load \/ Approve \/ PlanSweep \/ ReadSweep)
    BY DEF Execute, Main, Load, Approve, PlanSweep, ReadSweep
  <2>4. ASSUME NEW o \in Block, NEW new \in Block, Fork(o, new) \/ SaveAs(o, new) PROVE FALSE
    BY <2>1, <2>4 DEF Fork, SaveAs
  <2>5. CASE Restore
    <3>1. ~touched /\ saver.at = "copied" /\ file' = [file EXCEPT ![saver.block] = saver.original]
      BY <2>5 DEF Restore
    <3>2. PICK n \in Block : n # saver.block /\ file[n] = file[saver.block]
      BY <3>1 DEF Inv, EditCopied
    <3>. QED  BY <2>1, <3>1, <3>2
  <2>. QED  BY <2>2, <2>3, <2>4, <2>5 DEF Next
<1>. QED  BY <1>1, Always, PTL DEF Spec, EditsSurvive
==============================================================================
