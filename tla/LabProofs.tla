------------------------------ MODULE LabProofs ------------------------------
(***************************************************************************)
(* What the checkpoints promise, of the composition that is checked: the   *)
(* instance of Checkpoint in MCLab takes the steps of the module that      *)
(* CheckpointProofs is about (SameSteps), so that its invariant, carried   *)
(* over while the part is "checkpoint" and idle otherwise, is one of the   *)
(* whole specification.                                                    *)
(***************************************************************************)
EXTENDS MCLab, TLAPS

-----------------------------------------------------------------------------
(* The instance and the module the proofs are about.                       *)

KP == INSTANCE CheckpointProofs

labVars == <<part, checkpointVars, telemetryVars, shardsVars, composeVars, compareVars, scoresVars>>

\* Both begin with nothing saved and nothing running.
LEMMA SameInit == K!Init <=> KP!Init
BY DEF K!Init, KP!Init, K!NoTrainer, KP!NoTrainer, K!Idle, KP!Idle, K!Usual, KP!Usual, K!Steps, KP!Steps

\* A step of the one is a step of the other, action by action.
LEMMA SameSteps == K!Next <=> KP!Next
<1>1. ASSUME NEW policy PROVE K!Submit(policy) <=> KP!Submit(policy)
  BY DEF K!Submit, KP!Submit, K!Usual, KP!Usual
<1>2. K!Fresh <=> KP!Fresh
  BY DEF K!Fresh, KP!Fresh, K!Found, KP!Found, K!Steps, KP!Steps, K!Removed, KP!Removed
<1>3. K!Plan <=> KP!Plan
  BY DEF K!Plan, KP!Plan, K!Latest, KP!Latest, K!Complete, KP!Complete, K!Steps, KP!Steps, K!Greatest, KP!Greatest, K!NoTrainer, KP!NoTrainer
<1>4. K!Publish <=> KP!Publish
  BY DEF K!Publish, KP!Publish, K!NoTrainer, KP!NoTrainer
<1>5. K!Settle <=> KP!Settle
  BY DEF K!Settle, KP!Settle, K!Complete, KP!Complete, K!Steps, KP!Steps, K!Found, KP!Found
<1>6. K!Sweep <=> KP!Sweep
  BY DEF K!Sweep, KP!Sweep, K!Removed, KP!Removed
<1>7. K!Discard <=> KP!Discard
  BY DEF K!Discard, KP!Discard, K!Found, KP!Found, K!Steps, KP!Steps, K!Removed, KP!Removed
<1>8. K!Record <=> KP!Record
  BY DEF K!Record, KP!Record, K!Latest, KP!Latest, K!Complete, KP!Complete, K!Steps, KP!Steps, K!Greatest, KP!Greatest
<1>9. K!Resume <=> KP!Resume
  BY DEF K!Resume, KP!Resume, K!Training, KP!Training
<1>10. K!Save <=> KP!Save
  BY DEF K!Save, KP!Save, K!Training, KP!Training
<1>11. K!Saved <=> KP!Saved
  BY DEF K!Saved, KP!Saved
<1>12. K!Rotate <=> KP!Rotate
  BY DEF K!Rotate, KP!Rotate, K!Found, KP!Found, K!Steps, KP!Steps, K!Removed, KP!Removed, K!Cardinality, KP!Cardinality
<1>13. K!Finish <=> KP!Finish
  BY DEF K!Finish, KP!Finish, K!Training, KP!Training
<1>14. K!Die <=> KP!Die
  BY DEF K!Die, KP!Die
<1>15. K!UserLooks <=> KP!UserLooks
  BY DEF K!UserLooks, KP!UserLooks, K!Found, KP!Found, K!Steps, KP!Steps, K!Idle, KP!Idle, K!Busy, KP!Busy
<1>16. K!UserPrunes <=> KP!UserPrunes
  BY DEF K!UserPrunes, KP!UserPrunes, K!Spare, KP!Spare, K!Complete, KP!Complete, K!Steps, KP!Steps, K!Found, KP!Found, K!Latest, KP!Latest, K!Greatest, KP!Greatest
<1>17. K!UserRemoves <=> KP!UserRemoves
  BY DEF K!UserRemoves, KP!UserRemoves, K!Idle, KP!Idle, K!Removed, KP!Removed
<1>18. K!UserDiscards <=> KP!UserDiscards
  BY DEF K!UserDiscards, KP!UserDiscards, K!Found, KP!Found, K!Steps, KP!Steps, K!Idle, KP!Idle, K!Removed, KP!Removed
<1>19. K!Reboot <=> KP!Reboot
  BY DEF K!Reboot, KP!Reboot, K!Latest, KP!Latest, K!Complete, KP!Complete, K!Steps, KP!Steps, K!Greatest, KP!Greatest, K!NoTrainer, KP!NoTrainer, K!Idle, KP!Idle, K!Busy, KP!Busy
<1>20. K!Policy = KP!Policy
  BY DEF K!Policy, KP!Policy
<1>. QED  BY <1>1, <1>2, <1>3, <1>4, <1>5, <1>6, <1>7, <1>8, <1>9, <1>10, <1>11, <1>12, <1>13, <1>14, <1>15, <1>16, <1>17, <1>18, <1>19, <1>20 DEF K!Next, KP!Next, K!Executor, KP!Executor, K!Script, KP!Script

-----------------------------------------------------------------------------
(* The composition.                                                        *)

\* As long as the part that is looked at is "checkpoint", its invariant holds; it
\* is the same part in every state of a behaviour.
LEMMA CheckpointPart ==
  ASSUME MaxStep \in Nat, MaxRuns \in Nat
  PROVE  Spec => [](part = "checkpoint" => KP!Inv)
<1>1. Init => (part = "checkpoint" => KP!Inv)
  <2>1. KP!Init => KP!Inv
    BY KP!InvInit
  <2>. QED  BY <2>1, SameInit DEF Init
<1>2. (part = "checkpoint" => KP!Inv) /\ [Next]_labVars => (part = "checkpoint" => KP!Inv)'
  <2>. SUFFICES ASSUME part = "checkpoint" => KP!Inv, 
                [Next]_labVars, part' = "checkpoint"
       PROVE KP!Inv'
    OBVIOUS
  <2>1. part = "checkpoint" /\ (K!Next \/ UNCHANGED KP!vars)
    BY DEF Next, KP!vars, checkpointVars, labVars
  <2>2. [KP!Next]_(KP!vars)
    BY <2>1, SameSteps
  <2>. QED  BY <2>1, <2>2, KP!InvNext
<1>. QED  BY <1>1, <1>2, PTL DEF Spec, labVars

\* checkpoints.py:14, 27, 413: through deaths of the script, reboots, failed uploads,
\* sweeps, rotations and prunings the last step saved stays resumable until a success,
\* --fresh or --rm removes it; checkpoints of a success go only when its outputs are in
\* the store; and what a run is told to continue from is the last step saved. So it is
\* for any number of steps and runs and any limit.
THEOREM CheckpointsSafe == Spec => []CheckpointsKept
<1>1. MaxStep \in Nat /\ MaxRuns \in Nat
  BY LabAssumption DEF LabAssumption
<1>2. KP!Inv => K!TypeOK /\ K!ProgressKept /\ K!DiscardedWhenPublished /\ K!ResumesLast
  <2>. SUFFICES ASSUME KP!Inv PROVE K!TypeOK /\ K!ProgressKept /\ K!DiscardedWhenPublished /\ K!ResumesLast
    OBVIOUS
  <2>1. K!TypeOK
    BY DEF KP!Inv, KP!TypeOK, K!TypeOK, KP!Steps, K!Steps, KP!Content, K!Content, KP!Run, K!Run,
       KP!Policy, K!Policy, KP!Phase, K!Phase, KP!Outcome, K!Outcome, KP!Trainer, K!Trainer, KP!User, K!User
  <2>2. K!ProgressKept
    BY DEF KP!Inv, KP!Ahead, K!ProgressKept, KP!Whole, K!Whole, KP!Steps, K!Steps
  <2>3. K!DiscardedWhenPublished
    BY DEF KP!Inv, KP!Counted, K!DiscardedWhenPublished
  <2>4. K!ResumesLast
    BY DEF KP!Inv, KP!Ahead, KP!ResumesLast, K!ResumesLast
  <2>. QED  BY <2>1, <2>2, <2>3, <2>4
<1>3. (part = "checkpoint" => KP!Inv) => CheckpointsKept
  BY <1>2 DEF CheckpointsKept
<1>. QED  BY <1>1, <1>3, CheckpointPart, PTL

\* executor.py:571, runs.py:445: the record of a run that ends in failure names the last
\* checkpoint, and so does that of a run nobody watched fail.
THEOREM FailuresNameLast == Spec => RecordNamesLast
<1>1. MaxStep \in Nat /\ MaxRuns \in Nat
  BY LabAssumption DEF LabAssumption
<1>2. ASSUME part = "checkpoint", KP!Inv, [Next]_labVars PROVE K!NamesLast
  <2>1. KP!NamesLast
    BY <1>1, <1>2, KP!InvNames
  <2>2. K!Record <=> KP!Record
    BY DEF K!Record, KP!Record, K!Latest, KP!Latest, K!Complete, KP!Complete, K!Steps, KP!Steps, K!Greatest, KP!Greatest
  <2>3. K!Reboot /\ K!Busy <=> KP!Reboot /\ KP!Busy
    BY DEF K!Reboot, KP!Reboot, K!Latest, KP!Latest, K!Complete, KP!Complete, K!Steps, KP!Steps, K!Greatest,
       KP!Greatest, K!NoTrainer, KP!NoTrainer, K!Idle, KP!Idle, K!Busy, KP!Busy
  <2>. QED  BY <2>1, <2>2, <2>3 DEF K!NamesLast, KP!NamesLast
<1>3. (part = "checkpoint" => KP!Inv) /\ [Next]_labVars => [part = "checkpoint" => K!NamesLast]_checkpointVars
  BY <1>2
<1>. QED  BY <1>1, <1>3, CheckpointPart, PTL DEF Spec, RecordNamesLast, labVars
=============================================================================
