--------------------------- MODULE CheckpointProofs ---------------------------
(***************************************************************************)
(* What Checkpoint promises, for a training of any number of steps, any    *)
(* limit on what is kept and any number of runs.  The argument is about    *)
(* the last step saved, best: it is the greatest of all that look          *)
(* complete, so that whoever looks for the latest finds it (LatestIs), and *)
(* each of the five places that remove checkpoints either spares it or was *)
(* ordered to remove all, after which best is 0.  That a script saves only *)
(* beyond what is complete needs what it resumed from, which again is the  *)
(* last step saved: the parts of Ahead hold only together.                 *)
(***************************************************************************)
EXTENDS Checkpoint, TLAPS, WellFoundedInduction

-----------------------------------------------------------------------------
(* The invariants.                                                         *)

\* The script runs in one phase of its run, and saves the step it is at; what is
\* doomed is known while it is being removed.
Ordered ==
  /\ trainer.state # "none" <=> run.phase = "training"
  /\ trainer.saving \in {0, trainer.at}
  /\ trainer.state = "rotating" => trainer.saving # 0
  /\ run.phase # "sweep" => run.doomed = {}
  /\ user.at # "removing" => user.doomed = {}

\* The last step saved is the greatest that looks complete and nobody is about to
\* remove it; where none has been saved there is nothing complete, but what is just
\* being removed; and a script only saves beyond what is there.
Ahead ==
  ~spoilt =>
    /\ Busy => user.at = "idle"
    /\ best = 0 /\ Complete # {} => run.phase \in {"fresh", "discard"} \/ user.at = "rm"
    /\ run.phase = "plan" /\ ~run.policy.resume => best = 0
    /\ best # 0 => best \in Whole /\ best \notin run.doomed \cup user.doomed /\ \A n \in Complete : n <= best
    /\ trainer.state \in {"running", "rotating"} =>
         \A n \in Complete : n <= IF trainer.at # 0 THEN trainer.at ELSE trainer.from
    /\ trainer.state = "rotating" => best = trainer.saving
    /\ ResumesLast

\* A run that counts as a success has its outputs in the store.
Counted ==
  run.phase = "discard" \/ (run.phase \in {"settle", "sweep"} /\ run.outcome = "succeeded") => outputs = "published"

-----------------------------------------------------------------------------
(* The greatest step, and removals.                                        *)

\* A set of natural numbers has a least element.
LEMMA Least ==
  ASSUME NEW T, T \subseteq Nat, T # {}
  PROVE  \E n \in T : \A m \in T : n <= m
<1>. DEFINE R == OpToRel(<, Nat)
<1>1. IsWellFoundedOn(R, Nat)
  BY NatLessThanWellFounded
<1>. HIDE DEF R
<1>2. PICK n \in T : \A m \in T : <<m, n>> \notin R
  BY <1>1, WFMin
<1>3. \A a, b \in Nat : a < b => <<a, b>> \in R
  BY DEF R, OpToRel
<1>4. n \in Nat /\ \A m \in T : m \in Nat /\ ~(m < n)
  BY <1>2, <1>3
<1>. QED  BY <1>2, <1>4

\* A set of steps has a greatest one.
LEMMA GreatestIn ==
  ASSUME MaxStep \in Nat, NEW S, S \subseteq Steps, S # {}
  PROVE  Greatest(S) \in S /\ \A m \in S : m <= Greatest(S)
<1>. DEFINE T == {MaxStep - n : n \in S}
<1>1. \A n \in S : n \in Nat /\ MaxStep - n \in Nat
  BY DEF Steps
<1>2. T \subseteq Nat /\ T # {}
  BY <1>1
<1>3. PICK k \in T : \A j \in T : k <= j
  BY <1>2, Least
<1>4. PICK n \in S : k = MaxStep - n
  BY <1>3
<1>5. \A m \in S : MaxStep - n <= MaxStep - m
  BY <1>3, <1>4
<1>6. \A m \in S : m <= n
  BY <1>1, <1>4, <1>5
<1>. QED  BY <1>4, <1>6 DEF Greatest

\* What to resume from is a step, or none.
LEMMA LatestIn ==
  ASSUME MaxStep \in Nat
  PROVE  Latest \in 0..MaxStep /\ (Complete # {} => Latest \in Complete)
<1>1. CASE Complete = {}
  BY <1>1 DEF Latest
<1>2. CASE Complete # {}
  <2>1. Greatest(Complete) \in Complete
    BY <1>2, GreatestIn DEF Complete
  <2>. QED  BY <1>2, <2>1 DEF Latest, Complete, Steps
<1>. QED  BY <1>1, <1>2

\* A complete checkpoint that none is beyond is the one to resume from.
LEMMA LatestIs ==
  ASSUME MaxStep \in Nat, NEW n \in Complete, \A m \in Complete : m <= n
  PROVE  Latest = n
<1>1. Latest = Greatest(Complete) /\ Greatest(Complete) \in Complete /\ n <= Greatest(Complete)
  BY GreatestIn DEF Latest, Complete
<1>. QED  BY <1>1 DEF Complete, Steps

\* A removal leaves all others alone and makes nothing look complete.
LEMMA RemovedOne ==
  ASSUME dir \in [Steps -> Content], NEW n \in Steps, Removed(n)
  PROVE  /\ dir' \in [Steps -> Content]
         /\ Complete' \subseteq Complete
         /\ \A m \in Whole \ {n} : m \in Whole'
<1>1. PICK c \in {"none", "hollow", "torso"} :
        dir' = [dir EXCEPT ![n] = c] /\ (dir[n] # "whole" => dir'[n] = "none")
  BY DEF Removed
<1>. QED  BY <1>1 DEF Content, Complete, Whole

\* What is changed of a script is of its type.
LEMMA TrainerChanged ==
  ASSUME NEW t \in Trainer, NEW s \in {"none", "running", "rotating", "ok", "bad"},
         NEW m \in 0..MaxStep, NEW n \in 0..MaxStep
  PROVE  /\ [t EXCEPT !.state = s] \in Trainer
         /\ [t EXCEPT !.state = s, !.from = m] \in Trainer
         /\ [t EXCEPT !.state = s, !.saving = m] \in Trainer
         /\ [t EXCEPT !.saving = m, !.state = s] \in Trainer
         /\ [t EXCEPT !.at = m] \in Trainer
         /\ [t EXCEPT !.at = m, !.saving = n] \in Trainer
  BY DEF Trainer

\* Every step keeps every variable in its type.
LEMMA TypeStep ==
  ASSUME MaxStep \in Nat, MaxRuns \in Nat, TypeOK, [Next]_vars
  PROVE  TypeOK'
<1>. USE DEF TypeOK, Run, Trainer, User, Idle, NoTrainer, Policy, Usual, Phase, Outcome, Steps,
         Busy, Training, Content
<1>1. ASSUME NEW policy \in Policy, Submit(policy) PROVE TypeOK'
  BY <1>1 DEF Submit
<1>2. CASE Fresh
  <2>1. dir' \in [Steps -> Content]
    BY <1>2, RemovedOne DEF Fresh, Found
  <2>2. run' \in Run
    BY <1>2 DEF Fresh
  <2>3. best' \in 0..MaxStep
    BY <1>2 DEF Fresh
  <2>4. UNCHANGED <<trainer, outputs, user, spoilt, odd>>
    BY <1>2 DEF Fresh
  <2>. QED  BY <2>1, <2>2, <2>3, <2>4
<1>3. CASE Plan
  <2>1. run' \in Run
    BY <1>3 DEF Plan
  <2>2. NoTrainer \in Trainer /\ Latest \in 0..MaxStep /\ 0 \in 0..MaxStep
    BY LatestIn
  <2>3. [NoTrainer EXCEPT !.state = "running", !.from = IF run.policy.resume THEN Latest ELSE 0] \in Trainer
    BY <2>2, TrainerChanged
  <2>4. trainer' \in Trainer
    BY <2>3, <1>3 DEF Plan
  <2>5. UNCHANGED <<dir, outputs, user, best, spoilt, odd>>
    BY <1>3 DEF Plan
  <2>. QED  BY <2>1, <2>4, <2>5
<1>4. CASE Publish
  <2>1. run' \in Run
    BY <1>4 DEF Publish
  <2>2. trainer' \in Trainer
    BY <1>4 DEF Publish
  <2>3. outputs' \in {"none", "local", "published"}
    BY <1>4 DEF Publish
  <2>4. UNCHANGED <<dir, user, best, spoilt, odd>>
    BY <1>4 DEF Publish
  <2>. QED  BY <2>1, <2>2, <2>3, <2>4
<1>5. CASE Settle
  <2>1. run' \in Run
    BY <1>5 DEF Settle, Found
  <2>2. UNCHANGED <<dir, trainer, outputs, user, best, spoilt, odd>>
    BY <1>5 DEF Settle
  <2>. QED  BY <2>1, <2>2
<1>6. CASE Sweep
  <2>1. dir' \in [Steps -> Content]
    BY <1>6, RemovedOne DEF Sweep, Found
  <2>2. run' \in Run
    BY <1>6 DEF Sweep
  <2>3. UNCHANGED <<trainer, outputs, user, best, spoilt, odd>>
    BY <1>6 DEF Sweep
  <2>. QED  BY <2>1, <2>2, <2>3
<1>7. CASE Discard
  <2>1. dir' \in [Steps -> Content]
    BY <1>7, RemovedOne DEF Discard, Found
  <2>2. run' \in Run
    BY <1>7 DEF Discard
  <2>3. best' \in 0..MaxStep
    BY <1>7 DEF Discard
  <2>4. UNCHANGED <<trainer, outputs, user, spoilt, odd>>
    BY <1>7 DEF Discard
  <2>. QED  BY <2>1, <2>2, <2>3, <2>4
<1>8. CASE Record
  <2>1. run' \in Run
    BY <1>8, LatestIn DEF Record
  <2>2. UNCHANGED <<dir, trainer, outputs, user, best, spoilt, odd>>
    BY <1>8 DEF Record
  <2>. QED  BY <2>1, <2>2
<1>9. CASE Resume
  BY <1>9 DEF Resume
<1>10. CASE Save
  <2>. HIDE DEF Trainer
  <2>1. dir' \in [Steps -> Content]
    BY <1>10 DEF Save
  <2>2. trainer.at + 1 \in 0..MaxStep
    BY <1>10 DEF Save, Trainer
  <2>3. [trainer EXCEPT !.at = trainer.at + 1, !.saving = trainer.at + 1] \in Trainer
    BY <2>2, TrainerChanged
  <2>4. trainer' \in Trainer
    BY <2>3, <1>10 DEF Save
  <2>5. UNCHANGED <<run, outputs, user, best, spoilt, odd>>
    BY <1>10 DEF Save
  <2>. QED  BY <2>1, <2>4, <2>5
<1>11. CASE Saved
  <2>. HIDE DEF Trainer
  <2>1. dir' \in [Steps -> Content]
    BY <1>11 DEF Saved
  <2>2. [trainer EXCEPT !.state = "rotating"] \in Trainer /\ [trainer EXCEPT !.saving = 0, !.state = "bad"] \in Trainer
    BY 0 \in 0..MaxStep, TrainerChanged
  <2>3. trainer' \in Trainer
    BY <2>2, <1>11 DEF Saved
  <2>4. best' \in 0..MaxStep
    BY <1>11 DEF Saved, Trainer
  <2>5. UNCHANGED <<run, outputs, user, spoilt, odd>>
    BY <1>11 DEF Saved
  <2>. QED  BY <2>1, <2>3, <2>4, <2>5
<1>12. CASE Rotate
  <2>. HIDE DEF Trainer
  <2>1. dir' \in [Steps -> Content]
    BY <1>12, RemovedOne DEF Rotate, Found
  <2>2. [trainer EXCEPT !.state = "running", !.saving = 0] \in Trainer
    BY 0 \in 0..MaxStep, TrainerChanged
  <2>3. trainer' \in Trainer
    BY <2>2, <1>12 DEF Rotate
  <2>4. UNCHANGED <<run, outputs, user, best, spoilt, odd>>
    BY <1>12 DEF Rotate
  <2>. QED  BY <2>1, <2>3, <2>4
<1>13. CASE Finish
  BY <1>13 DEF Finish
<1>14. CASE Die
  <2>1. trainer' \in Trainer
    BY <1>14 DEF Die
  <2>2. outputs' \in {"none", "local", "published"}
    BY <1>14 DEF Die
  <2>3. UNCHANGED <<dir, run, user, best, spoilt, odd>>
    BY <1>14 DEF Die
  <2>. QED  BY <2>1, <2>2, <2>3
<1>15. CASE UserLooks
  BY <1>15 DEF UserLooks
<1>16. CASE UserPrunes
  <2>1. user' \in User
    BY <1>16, LatestIn DEF UserPrunes, Spare, Found
  <2>2. UNCHANGED <<dir, run, trainer, outputs, best, spoilt, odd>>
    BY <1>16 DEF UserPrunes
  <2>. QED  BY <2>1, <2>2
<1>17. CASE UserRemoves
  <2>1. dir' \in [Steps -> Content]
    BY <1>17, RemovedOne DEF UserRemoves, Found
  <2>2. user' \in User
    BY <1>17 DEF UserRemoves
  <2>3. UNCHANGED <<run, trainer, outputs, best, spoilt, odd>>
    BY <1>17 DEF UserRemoves
  <2>. QED  BY <2>1, <2>2, <2>3
<1>18. CASE UserDiscards
  <2>1. dir' \in [Steps -> Content]
    BY <1>18, RemovedOne DEF UserDiscards, Found
  <2>2. user' \in User
    BY <1>18 DEF UserDiscards
  <2>3. best' \in 0..MaxStep
    BY <1>18 DEF UserDiscards
  <2>4. UNCHANGED <<run, trainer, outputs, spoilt, odd>>
    BY <1>18 DEF UserDiscards
  <2>. QED  BY <2>1, <2>2, <2>3, <2>4
<1>19. CASE Reboot
  <2>1. run' \in Run
    BY <1>19, LatestIn DEF Reboot
  <2>2. trainer' \in Trainer
    BY <1>19, LatestIn DEF Reboot
  <2>3. user' \in User
    BY <1>19, LatestIn DEF Reboot
  <2>4. spoilt' \in BOOLEAN
    BY <1>19 DEF Reboot
  <2>5. UNCHANGED <<dir, outputs, best, odd>>
    BY <1>19 DEF Reboot
  <2>. QED  BY <2>1, <2>2, <2>3, <2>4, <2>5
<1>20. CASE UNCHANGED vars
  BY <1>20 DEF vars
<1>. HIDE DEF TypeOK, Run, Trainer, User, Idle, NoTrainer, Policy, Usual, Phase, Outcome, Steps,
          Busy, Training, Content
<1>. QED
  BY <1>1, <1>2, <1>3, <1>4, <1>5, <1>6, <1>7, <1>8, <1>9, <1>10, <1>11, <1>12, <1>13, <1>14, <1>15,
     <1>16, <1>17, <1>18, <1>19, <1>20 DEF Next, Executor, Script

\* The script starts and ends with the phase of its run.
LEMMA OrderedStep ==
  ASSUME MaxStep \in Nat, MaxRuns \in Nat, TypeOK, Ordered, [Next]_vars
  PROVE  Ordered'
<1>. USE DEF Ordered, TypeOK, Run, Trainer, User, Idle, NoTrainer, Policy, Usual, Phase, Outcome,
         Steps, Busy, Training
<1>1. ASSUME NEW policy \in Policy, Submit(policy) PROVE Ordered'
  BY <1>1 DEF Submit
<1>2. CASE Fresh
  BY <1>2 DEF Fresh
<1>3. CASE Plan
  BY <1>3 DEF Plan
<1>4. CASE Publish
  BY <1>4 DEF Publish
<1>5. CASE Settle
  BY <1>5 DEF Settle
<1>6. CASE Sweep
  BY <1>6 DEF Sweep
<1>7. CASE Discard
  BY <1>7 DEF Discard
<1>8. CASE Record
  BY <1>8 DEF Record
<1>9. CASE Resume
  BY <1>9 DEF Resume
<1>10. CASE Save
  BY <1>10 DEF Save
<1>11. CASE Saved
  BY <1>11 DEF Saved
<1>12. CASE Rotate
  BY <1>12 DEF Rotate
<1>13. CASE Finish
  BY <1>13 DEF Finish
<1>14. CASE Die
  BY <1>14 DEF Die
<1>15. CASE UserLooks
  BY <1>15 DEF UserLooks
<1>16. CASE UserPrunes
  BY <1>16 DEF UserPrunes
<1>17. CASE UserRemoves
  BY <1>17 DEF UserRemoves
<1>18. CASE UserDiscards
  BY <1>18 DEF UserDiscards
<1>19. CASE Reboot
  BY <1>19 DEF Reboot
<1>20. CASE UNCHANGED vars
  BY <1>20 DEF vars
<1>. HIDE DEF Ordered, TypeOK, Run, Trainer, User, Idle, NoTrainer, Policy, Usual, Phase, Outcome,
          Steps, Busy, Training
<1>. QED
  BY <1>1, <1>2, <1>3, <1>4, <1>5, <1>6, <1>7, <1>8, <1>9, <1>10, <1>11, <1>12, <1>13, <1>14, <1>15,
     <1>16, <1>17, <1>18, <1>19, <1>20 DEF Next, Executor, Script

\* No step removes the last checkpoint or saves behind it.
LEMMA AheadStep ==
  ASSUME MaxStep \in Nat, MaxRuns \in Nat, TypeOK, Ordered, Ahead, [Next]_vars
  PROVE  Ahead'
<1>. USE DEF Ahead, Ordered, ResumesLast, TypeOK, Run, Trainer, User, Idle, NoTrainer, Policy,
         Usual, Phase, Outcome, Steps, Busy, Training
<1>a. Complete \subseteq Found /\ Found \subseteq Steps /\ Whole \subseteq Complete
  BY DEF Complete, Found, Whole
<1>b. UNCHANGED dir => Complete' = Complete /\ Whole' = Whole
  BY DEF Complete, Whole
<1>c. \A n \in Steps : Removed(n) => Complete' \subseteq Complete /\ \A m \in Whole \ {n} : m \in Whole'
  BY RemovedOne
<1>d. Latest \in 0..MaxStep /\ \A n \in Complete : n <= Latest
  BY LatestIn, GreatestIn, <1>a DEF Latest
<1>e. best # 0 /\ ~spoilt => Latest = best
  BY LatestIs, <1>a
<1>1. ASSUME NEW policy \in Policy, Submit(policy) PROVE Ahead'
  BY <1>1, <1>a, <1>b DEF Submit
<1>2. CASE Fresh
  BY <1>2, <1>a, <1>b, <1>c DEF Fresh
<1>3. CASE Plan
  BY <1>3, <1>a, <1>b, <1>d, <1>e DEF Plan
<1>4. CASE Publish
  BY <1>4, <1>a, <1>b DEF Publish
<1>5. CASE Settle
  BY <1>5, <1>a, <1>b DEF Settle
<1>6. CASE Sweep
  <2>1. UNCHANGED <<trainer, user, best, spoilt>>
    BY <1>6 DEF Sweep
  <2>2. ASSUME NEW n \in run.doomed, Removed(n), run' = [run EXCEPT !.doomed = {m \in run.doomed : dir'[m] # "none"}]
        PROVE  Ahead'
    <3>1. Complete' \subseteq Complete /\ \A m \in Whole \ {n} : m \in Whole'
      BY <2>2, <1>c
    <3>2. run'.doomed \subseteq run.doomed /\ run'.phase = run.phase /\ run'.policy = run.policy
      BY <2>2
    <3>. QED  BY <1>6, <1>a, <2>1, <2>2, <3>1, <3>2 DEF Sweep
  <2>3. CASE UNCHANGED dir /\ run.doomed = {} /\ run' = [run EXCEPT !.phase =
               IF run.outcome = "succeeded" /\ ~run.policy.keep THEN "discard" ELSE "record"]
    BY <1>6, <1>a, <1>b, <2>1, <2>3 DEF Sweep
  <2>. QED  BY <1>6, <2>2, <2>3 DEF Sweep
<1>7. CASE Discard
  BY <1>7, <1>a, <1>b, <1>c DEF Discard
<1>8. CASE Record
  BY <1>8, <1>a, <1>b DEF Record
<1>9. CASE Resume
  BY <1>9, <1>a, <1>b DEF Resume
<1>10. CASE Save
  <2>1. trainer' = [trainer EXCEPT !.at = trainer.at + 1, !.saving = trainer.at + 1]
    BY <1>10 DEF Save
  <2>2. Complete' \subseteq Complete /\ \A n \in Whole : n # trainer.at + 1 => n \in Whole'
    BY <1>10 DEF Save, Complete, Whole
  <2>. QED  BY <1>10, <1>a, <2>1, <2>2 DEF Save
<1>11. CASE Saved
  <2>1. CASE dir[trainer.saving] = "torso"
    <3>1. Complete' \subseteq Complete \cup {trainer.saving} /\ trainer.saving \in Whole'
      BY <1>11, <2>1 DEF Saved, Complete, Whole
    <3>. QED  BY <1>11, <1>a, <2>1, <3>1 DEF Saved
  <2>2. CASE dir[trainer.saving] # "torso"
    <3>1. UNCHANGED <<dir, run, user, best, spoilt>> /\ trainer'.state = "bad"
      BY <1>11, <2>2 DEF Saved
    <3>. QED  BY <1>b, <3>1
  <2>. QED  BY <2>1, <2>2
<1>12. CASE Rotate
  BY <1>12, <1>a, <1>b, <1>c DEF Rotate
<1>13. CASE Finish
  BY <1>13, <1>a, <1>b DEF Finish
<1>14. CASE Die
  BY <1>14, <1>a, <1>b DEF Die
<1>15. CASE UserLooks
  BY <1>15, <1>a, <1>b DEF UserLooks
<1>16. CASE UserPrunes
  BY <1>16, <1>a, <1>b, <1>d, <1>e DEF UserPrunes, Spare
<1>17. CASE UserRemoves
  BY <1>17, <1>a, <1>b, <1>c DEF UserRemoves
<1>18. CASE UserDiscards
  BY <1>18, <1>a, <1>b, <1>c DEF UserDiscards
<1>19. CASE Reboot
  BY <1>19, <1>a, <1>b DEF Reboot
<1>20. CASE UNCHANGED vars
  BY <1>20, <1>b DEF vars
<1>. HIDE DEF Ahead, Ordered, ResumesLast, TypeOK, Run, Trainer, User, Idle, NoTrainer, Policy,
          Usual, Phase, Outcome, Steps, Busy, Training
<1>. QED
  BY <1>1, <1>2, <1>3, <1>4, <1>5, <1>6, <1>7, <1>8, <1>9, <1>10, <1>11, <1>12, <1>13, <1>14, <1>15,
     <1>16, <1>17, <1>18, <1>19, <1>20 DEF Next, Executor, Script

\* Outputs that are in the store stay there until the next run.
LEMMA CountedStep ==
  ASSUME MaxStep \in Nat, MaxRuns \in Nat, TypeOK, Ordered, Counted, [Next]_vars
  PROVE  Counted'
<1>. USE DEF Counted, Ordered, TypeOK, Run, Trainer, User, Idle, NoTrainer, Policy, Usual, Phase,
         Outcome, Steps, Busy, Training
<1>1. ASSUME NEW policy \in Policy, Submit(policy) PROVE Counted'
  BY <1>1 DEF Submit
<1>2. CASE Fresh
  BY <1>2 DEF Fresh
<1>3. CASE Plan
  BY <1>3 DEF Plan
<1>4. CASE Publish
  BY <1>4 DEF Publish
<1>5. CASE Settle
  BY <1>5 DEF Settle
<1>6. CASE Sweep
  BY <1>6 DEF Sweep
<1>7. CASE Discard
  BY <1>7 DEF Discard
<1>8. CASE Record
  BY <1>8 DEF Record
<1>9. CASE Resume
  BY <1>9 DEF Resume
<1>10. CASE Save
  BY <1>10 DEF Save
<1>11. CASE Saved
  BY <1>11 DEF Saved
<1>12. CASE Rotate
  BY <1>12 DEF Rotate
<1>13. CASE Finish
  BY <1>13 DEF Finish
<1>14. CASE Die
  BY <1>14 DEF Die
<1>15. CASE UserLooks
  BY <1>15 DEF UserLooks
<1>16. CASE UserPrunes
  BY <1>16 DEF UserPrunes
<1>17. CASE UserRemoves
  BY <1>17 DEF UserRemoves
<1>18. CASE UserDiscards
  BY <1>18 DEF UserDiscards
<1>19. CASE Reboot
  BY <1>19 DEF Reboot
<1>20. CASE UNCHANGED vars
  BY <1>20 DEF vars
<1>. HIDE DEF Counted, Ordered, TypeOK, Run, Trainer, User, Idle, NoTrainer, Policy, Usual, Phase,
          Outcome, Steps, Busy, Training
<1>. QED
  BY <1>1, <1>2, <1>3, <1>4, <1>5, <1>6, <1>7, <1>8, <1>9, <1>10, <1>11, <1>12, <1>13, <1>14, <1>15,
     <1>16, <1>17, <1>18, <1>19, <1>20 DEF Next, Executor, Script

-----------------------------------------------------------------------------
(* What holds of every lineage, however many steps, runs and removals.     *)

Inv == TypeOK /\ Ordered /\ Ahead /\ Counted

\* Nothing has been saved and nothing runs.
LEMMA InvInit ==
  ASSUME MaxStep \in Nat, MaxRuns \in Nat
  PROVE  Init => Inv
<1>. SUFFICES ASSUME Init PROVE Inv
  OBVIOUS
<1>. USE DEF Init, NoTrainer, Idle
<1>1. TypeOK
  <2>1. dir \in [Steps -> Content] /\ run \in Run
    BY DEF Run, Policy, Usual, Phase, Outcome, Content
  <2>2. trainer \in Trainer
    BY DEF Trainer
  <2>3. user \in User /\ best \in 0..MaxStep /\ odd \in 0..MaxRuns
    BY DEF User
  <2>. QED  BY <2>1, <2>2, <2>3 DEF TypeOK
<1>2. Ordered /\ Counted
  BY DEF Ordered, Counted
<1>3. Complete = {}
  BY DEF Complete
<1>4. Ahead
  BY <1>3 DEF Ahead, ResumesLast, Busy
<1>. QED  BY <1>1, <1>2, <1>4 DEF Inv

\* Every step keeps all of it.
LEMMA InvNext ==
  ASSUME MaxStep \in Nat, MaxRuns \in Nat
  PROVE  Inv /\ [Next]_vars => Inv'
BY TypeStep, OrderedStep, AheadStep, CountedStep DEF Inv

\* It holds in every state of every behaviour.
LEMMA InvAlways ==
  ASSUME MaxStep \in Nat, MaxRuns \in Nat
  PROVE  Spec => []Inv
BY InvInit, InvNext, PTL DEF Spec

\* What is on disk, what the run, its script and the terminal are at stay in the
\* types Checkpoint.tla declares for them.
THEOREM CheckpointTypes ==
  ASSUME MaxStep \in Nat, MaxRuns \in Nat
  PROVE  Spec => []TypeOK
<1>1. Inv => TypeOK
  BY DEF Inv
<1>. QED  BY <1>1, InvAlways, PTL

\* Through deaths of the script, reboots, failed uploads, sweeps, rotations and
\* prunings the last step that was saved stays resumable.
THEOREM LastKept ==
  ASSUME MaxStep \in Nat, MaxRuns \in Nat
  PROVE  Spec => []ProgressKept
<1>1. Inv => ProgressKept
  BY DEF Inv, Ahead, ProgressKept
<1>. QED  BY <1>1, InvAlways, PTL

\* Checkpoints are discarded as those of a success only when the outputs of that
\* run are in the store.
THEOREM SuccessFirst ==
  ASSUME MaxStep \in Nat, MaxRuns \in Nat
  PROVE  Spec => []DiscardedWhenPublished
<1>1. Inv => DiscardedWhenPublished
  BY DEF Inv, Counted, DiscardedWhenPublished
<1>. QED  BY <1>1, InvAlways, PTL

\* What a script is told to continue from is the last step saved.
THEOREM ResumesAtLast ==
  ASSUME MaxStep \in Nat, MaxRuns \in Nat
  PROVE  Spec => []ResumesLast
<1>1. Inv => ResumesLast
  BY DEF Inv, Ahead, ResumesLast
<1>. QED  BY <1>1, InvAlways, PTL

\* A step that closes the record of a failed run finds that step, and writes it.
LEMMA InvNames ==
  ASSUME MaxStep \in Nat, MaxRuns \in Nat, Inv
  PROVE  NamesLast
<1>. SUFFICES ASSUME Record \/ (Reboot /\ Busy), best # 0, ~spoilt
              PROVE  run'.checkpoint = best
  BY DEF NamesLast
<1>1. best \in Complete /\ \A n \in Complete : n <= best
  BY DEF Inv, Ahead, Whole, Complete
<1>2. Latest = best
  BY <1>1, LatestIs
<1>3. run \in Run
  BY DEF Inv, TypeOK
<1>. QED  BY <1>2, <1>3 DEF Record, Reboot, Run

\* The record of a run that failed, or that nobody watched fail, names that step.
THEOREM LastNamed ==
  ASSUME MaxStep \in Nat, MaxRuns \in Nat
  PROVE  Spec => RecordNamesLast
<1>1. Inv /\ [Next]_vars => [NamesLast]_vars
  BY InvNames
<1>. QED  BY <1>1, InvAlways, PTL DEF Spec, RecordNamesLast
==============================================================================
