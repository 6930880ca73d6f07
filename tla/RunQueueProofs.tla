--------------------------- MODULE RunQueueProofs ---------------------------
(***************************************************************************)
(* What holds of RunQueue for every value of its constants.                *)
(*                                                                         *)
(* First its types, that one run at a time uses the GPU, that an active    *)
(* run holds it, and that only abandoned runs are dropped.  Then that      *)
(* RunQueue implements Turns: runs take turns with the GPU, and no run     *)
(* trains twice; and that they start in the order in which they were       *)
(* queued, none of them behind its user's back.                            *)
(***************************************************************************)
EXTENDS RunQueue, TLAPS

-----------------------------------------------------------------------------
(* Type correctness.                                                       *)

\* The locals of a process that does nothing.
LEMMA NoJobType == NoJob \in Job
BY DEF NoJob, Job

\* Every process starts idle.
LEMMA TypeInit == Init => TypeOK
BY NoJobType DEF Init, TypeOK, PC, State, Serving

\* Every step keeps the types, and every process what its place needs.
LEMMA TypeNext == TypeOK /\ [Next]_vars => TypeOK'
<1>. SUFFICES ASSUME TypeOK, [Next]_vars PROVE TypeOK'
  OBVIOUS
<1>. USE RunQueueAssumption DEF TypeOK, RunQueueAssumption, Proc, tableVars, lockVars, history
<1>1. ASSUME NEW p \in Terminal, NEW r \in Run, NEW m \in Modes, Submit(p, r, m) PROVE TypeOK'
  <2>1. job' \in [Proc -> Job]
    BY <1>1, NoJobType DEF Submit, NoJob, Goto, Job
  <2>. QED
    BY <1>1, <2>1 DEF Submit, NoJob, Goto, PC, Submitting, Turning, OnGpu, Serving, Cancelling,
       State, Active, Final
<1>2. ASSUME NEW p \in Proc, Stamp(p) PROVE TypeOK'
  BY <1>2 DEF Stamp, Goto, PC, Submitting, Turning, OnGpu, Serving, Cancelling, State, Active, Final
<1>3. ASSUME NEW p \in Proc, Insert(p) PROVE TypeOK'
  BY <1>3 DEF Insert, SetState, QueuedBefore, Queued, Goto, PC, Submitting, Turning, OnGpu, Serving,
     Cancelling, State, Active, Final
<1>4. ASSUME NEW p \in Proc, AddAttempt(p) PROVE TypeOK'
  <2>1. job' \in [Proc -> Job]
    BY <1>4, NoJobType DEF AddAttempt, Done, Goto, Job
  <2>. QED
    BY <1>4, <2>1 DEF AddAttempt, Done, NoJob, Goto, PC, Submitting, Turning, OnGpu, Serving,
       Cancelling, State, Active, Final
<1>5. ASSUME NEW p \in Proc, Probe(p) PROVE TypeOK'
  <2>1. job' \in [Proc -> Job]
    BY <1>5, NoJobType DEF Probe, Done, Goto, Job
  <2>. QED
    BY <1>5, <2>1 DEF Probe, Done, NoJob, Goto, PC, Submitting, Turning, OnGpu, Serving, Cancelling,
       State, Active, Final
<1>6. ASSUME NEW p \in Proc, StartWorker(p) PROVE TypeOK'
  <2>1. job' \in [Proc -> Job]
    BY <1>6, NoJobType DEF StartWorker, Goto, Job
  <2>. QED
    BY <1>6, <2>1 DEF StartWorker, NoJob, Goto, PC, Submitting, Turning, OnGpu, Serving, Cancelling,
       State, Active, Final
<1>7. ASSUME NEW p \in Server, StartServer(p) PROVE TypeOK'
  <2>1. job' \in [Proc -> Job]
    BY <1>7, NoJobType DEF StartServer, NoJob, Goto, Job
  <2>. QED
    BY <1>7, <2>1 DEF StartServer, NoJob, Goto, PC, Submitting, Turning, OnGpu, Serving, Cancelling,
       State, Active, Final
<1>8. ASSUME NEW p \in Proc, ReconcileRun(p) PROVE TypeOK'
  <2>1. job' \in [Proc -> Job]
    BY <1>8, NoJobType DEF ReconcileRun, SetState, Goto, Job
  <2>. QED
    BY <1>8, <2>1 DEF ReconcileRun, SetState, NoJob, Goto, PC, Submitting, Turning, OnGpu, Serving,
       Cancelling, State, Active, Final
<1>9. ASSUME NEW p \in Proc, Reconciled(p) PROVE TypeOK'
  <2>1. job' \in [Proc -> Job]
    BY <1>9, NoJobType DEF Reconciled, Goto, Job
  <2>. QED
    BY <1>9, <2>1 DEF Reconciled, NoJob, Goto, PC, Submitting, Turning, OnGpu, Serving, Cancelling,
       State, Active, Final
<1>10. ASSUME NEW p \in Proc, TryServe(p) PROVE TypeOK'
  BY <1>10 DEF TryServe, Goto, PC, Submitting, Turning, OnGpu, Serving, Cancelling, State, Active,
     Final
<1>11. ASSUME NEW p \in Proc, Drop(p) PROVE TypeOK'
  BY <1>11 DEF Drop, Abandoned, Queued, Goto, PC, Submitting, Turning, OnGpu, Serving, Cancelling,
     State, Active, Final
<1>12. ASSUME NEW p \in Proc, PickRun(p) PROVE TypeOK'
  <2>1. CASE \E r \in Servable : job' = [job EXCEPT ![p].run = r] /\ Goto(p, "look")
    <3>1. PICK r \in Run : job' = [job EXCEPT ![p].run = r] /\ Goto(p, "look")
      BY <2>1 DEF Servable, Queued
    <3>2. job[p] \in Job /\ [job[p] EXCEPT !.run = r] \in Job
      BY <1>12 DEF Job
    <3>3. job' \in [Proc -> Job] /\ pc' \in [Proc -> PC] /\ job'[p].run = r
      BY <3>1, <3>2 DEF Goto, PC, Turning, Job
    <3>. QED
      BY <1>12, <3>1, <3>3 DEF PickRun, Goto
  <2>2. CASE UNCHANGED job /\ Goto(p, IF p \in Worker THEN "leave" ELSE "next")
    BY <1>12, <2>2 DEF PickRun, Goto, PC, Serving
  <2>. QED  BY <1>12, <2>1, <2>2 DEF PickRun
<1>13. ASSUME NEW p \in Proc, LeaveQueue(p) PROVE TypeOK'
  BY <1>13 DEF LeaveQueue, Goto, PC, Submitting, Turning, OnGpu, Serving, Cancelling, State, Active,
     Final
<1>14. ASSUME NEW p \in Proc, Look(p) PROVE TypeOK'
  <2>1. CASE Done(p)
    <3>1. job' \in [Proc -> Job] /\ pc' \in [Proc -> PC]
      BY <2>1, NoJobType DEF Done, Goto, PC, Serving
    <3>2. state' \in [Run -> State]
      BY <1>14 DEF Look, SetState, State, Final
    <3>. QED  BY <1>14, <2>1, <3>1, <3>2 DEF Look, Done, Goto, Serving
  <2>2. CASE job' = [job EXCEPT ![p].queued = state[job[p].run] = "queued"] /\ Goto(p, "drop") /\ UNCHANGED state
    <3>1. job[p] \in Job /\ (state[job[p].run] = "queued") \in BOOLEAN
      BY <1>14 DEF Look
    <3>2. job' \in [Proc -> Job] /\ pc' \in [Proc -> PC] /\ \A q \in Proc : job'[q].run = job[q].run
      BY <2>2, <3>1 DEF Goto, PC, Turning, Job
    <3>. QED  BY <1>14, <2>2, <3>2 DEF Look, Goto, Serving
  <2>. QED  BY <1>14, <2>1, <2>2 DEF Look
<1>15. ASSUME NEW p \in Proc, CheckAhead(p) PROVE TypeOK'
  BY <1>15 DEF CheckAhead, Goto, PC, Submitting, Turning, OnGpu, Serving, Cancelling, State, Active,
     Final
<1>16. ASSUME NEW p \in Proc, TakeGpu(p) PROVE TypeOK'
  BY <1>16 DEF TakeGpu, Goto, PC, Submitting, Turning, OnGpu, Serving, Cancelling, State, Active,
     Final
<1>17. ASSUME NEW p \in Proc, BeginRun(p) PROVE TypeOK'
  BY <1>17 DEF BeginRun, SetState, Goto, PC, Submitting, Turning, OnGpu, Serving, Cancelling, State,
     Active, Final
<1>18. ASSUME NEW p \in Proc, CheckCancel(p) PROVE TypeOK'
  BY <1>18 DEF CheckCancel, SetState, Goto, PC, Submitting, Turning, OnGpu, Serving, Cancelling,
     State, Active, Final
<1>19. ASSUME NEW p \in Proc, Popen(p) PROVE TypeOK'
  BY <1>19 DEF Popen, Goto, PC, Submitting, Turning, OnGpu, Serving, Cancelling, State, Active,
     Final
<1>20. ASSUME NEW p \in Proc, RecordPid(p) PROVE TypeOK'
  BY <1>20 DEF RecordPid, SetState, Goto, PC, Submitting, Turning, OnGpu, Serving, Cancelling,
     State, Active, Final
<1>21. ASSUME NEW p \in Proc, Exited(p) PROVE TypeOK'
  BY <1>21 DEF Exited, SetState, Goto, PC, Submitting, Turning, OnGpu, Serving, Cancelling, State,
     Active, Final
<1>22. ASSUME NEW p \in Proc, Publish(p) PROVE TypeOK'
  BY <1>22 DEF Publish, SetState, Goto, PC, Submitting, Turning, OnGpu, Serving, Cancelling, State,
     Active, Final
<1>23. ASSUME NEW p \in Proc, Fail(p) PROVE TypeOK'
  BY <1>23 DEF Fail, SetState, Goto, PC, Submitting, Turning, OnGpu, Serving, Cancelling, State,
     Active, Final
<1>24. ASSUME NEW p \in Proc, Settle(p) PROVE TypeOK'
  <2>1. job' \in [Proc -> Job]
    BY <1>24, NoJobType DEF Settle, Done, Goto, Job
  <2>. QED
    BY <1>24, <2>1 DEF Settle, Done, NoJob, Goto, PC, Submitting, Turning, OnGpu, Serving,
       Cancelling, State, Active, Final
<1>25. ASSUME NEW p \in Canceller, NEW r \in Run, CancelRead(p, r) PROVE TypeOK'
  <2>1. job' \in [Proc -> Job]
    BY <1>25, NoJobType DEF CancelRead, NoJob, Goto, Job
  <2>. QED
    BY <1>25, <2>1 DEF CancelRead, NoJob, Goto, PC, Submitting, Turning, OnGpu, Serving, Cancelling,
       State, Active, Final
<1>26. ASSUME NEW p \in Proc, CancelMark(p) PROVE TypeOK'
  BY <1>26 DEF CancelMark, Goto, PC, Submitting, Turning, OnGpu, Serving, Cancelling, State, Active,
     Final
<1>27. ASSUME NEW p \in Proc, CancelAct(p) PROVE TypeOK'
  <2>1. job' \in [Proc -> Job]
    BY <1>27, NoJobType DEF CancelAct, Done, SetState, Goto, Job
  <2>. QED
    BY <1>27, <2>1 DEF CancelAct, Done, SetState, NoJob, Goto, PC, Submitting, Turning, OnGpu,
       Serving, Cancelling, State, Active, Final
<1>28. ASSUME NEW r \in Run, TrainerExits(r) PROVE TypeOK'
  BY <1>28 DEF TrainerExits, Goto, PC, Submitting, Turning, OnGpu, Serving, Cancelling, State,
     Active, Final
<1>29. ASSUME NEW p \in Proc, Crash(p) PROVE TypeOK'
  <2>1. job' \in [Proc -> Job]
    BY <1>29, NoJobType DEF Crash, Goto, Job
  <2>. QED
    BY <1>29, <2>1 DEF Crash, NoJob, Goto, PC, Submitting, Turning, OnGpu, Serving, Cancelling,
       State, Active, Final
<1>30. CASE UNCHANGED vars
  BY <1>30 DEF vars
<1>. QED
  BY [Next]_vars, <1>1, <1>2, <1>3, <1>4, <1>5, <1>6, <1>7, <1>8, <1>9, <1>10, <1>11, <1>12, <1>13,
     <1>14, <1>15, <1>16, <1>17, <1>18, <1>19, <1>20, <1>21, <1>22, <1>23, <1>24, <1>25, <1>26,
     <1>27, <1>28, <1>29, <1>30 DEF Next, Begin, Step

\* The types hold in every reachable state.
THEOREM QueueTypes == Spec => []TypeOK
BY TypeInit, TypeNext, PTL DEF Spec

-----------------------------------------------------------------------------
(* One run at a time.                                                      *)

\* Whoever is between take_gpu and the last upload holds the GPU lock.
Exclusive == \A p \in Proc : pc[p] \in OnGpu => gpu = p

\* Nobody is on the GPU at the start.
LEMMA ExclusiveInit == Init => Exclusive
BY DEF Init, Exclusive, OnGpu

\* No step lets another process past the lock while its holder lives.
LEMMA ExclusiveNext == TypeOK /\ Exclusive /\ [Next]_vars => Exclusive'
<1>. SUFFICES ASSUME TypeOK, Exclusive, [Next]_vars PROVE Exclusive'
  OBVIOUS
<1>. USE RunQueueAssumption
     DEF TypeOK, Exclusive, OnGpu, RunQueueAssumption, Proc, tableVars, lockVars, history
<1>1. ASSUME NEW p \in Terminal, NEW r \in Run, NEW m \in Modes, Submit(p, r, m) PROVE Exclusive'
  BY <1>1 DEF Submit, Goto
<1>2. ASSUME NEW p \in Proc, Stamp(p) PROVE Exclusive'
  BY <1>2 DEF Stamp, Goto
<1>3. ASSUME NEW p \in Proc, Insert(p) PROVE Exclusive'
  BY <1>3 DEF Insert, Goto
<1>4. ASSUME NEW p \in Proc, AddAttempt(p) PROVE Exclusive'
  BY <1>4 DEF AddAttempt, Done, Goto
<1>5. ASSUME NEW p \in Proc, Probe(p) PROVE Exclusive'
  BY <1>5 DEF Probe, Done, Goto
<1>6. ASSUME NEW p \in Proc, StartWorker(p) PROVE Exclusive'
  BY <1>6 DEF StartWorker, Goto
<1>7. ASSUME NEW p \in Server, StartServer(p) PROVE Exclusive'
  BY <1>7 DEF StartServer, Goto
<1>8. ASSUME NEW p \in Proc, ReconcileRun(p) PROVE Exclusive'
  BY <1>8 DEF ReconcileRun, Goto
<1>9. ASSUME NEW p \in Proc, Reconciled(p) PROVE Exclusive'
  BY <1>9 DEF Reconciled, Goto
<1>10. ASSUME NEW p \in Proc, TryServe(p) PROVE Exclusive'
  BY <1>10 DEF TryServe, Goto
<1>11. ASSUME NEW p \in Proc, Drop(p) PROVE Exclusive'
  BY <1>11 DEF Drop, Goto
<1>12. ASSUME NEW p \in Proc, PickRun(p) PROVE Exclusive'
  BY <1>12 DEF PickRun, Goto
<1>13. ASSUME NEW p \in Proc, LeaveQueue(p) PROVE Exclusive'
  BY <1>13 DEF LeaveQueue, Goto
<1>14. ASSUME NEW p \in Proc, Look(p) PROVE Exclusive'
  BY <1>14 DEF Look, Done, Goto
<1>15. ASSUME NEW p \in Proc, CheckAhead(p) PROVE Exclusive'
  BY <1>15 DEF CheckAhead, Goto
<1>16. ASSUME NEW p \in Proc, TakeGpu(p) PROVE Exclusive'
  BY <1>16 DEF TakeGpu, Goto
<1>17. ASSUME NEW p \in Proc, BeginRun(p) PROVE Exclusive'
  BY <1>17 DEF BeginRun, Goto
<1>18. ASSUME NEW p \in Proc, CheckCancel(p) PROVE Exclusive'
  BY <1>18 DEF CheckCancel, Goto
<1>19. ASSUME NEW p \in Proc, Popen(p) PROVE Exclusive'
  BY <1>19 DEF Popen, Goto
<1>20. ASSUME NEW p \in Proc, RecordPid(p) PROVE Exclusive'
  BY <1>20 DEF RecordPid, Goto
<1>21. ASSUME NEW p \in Proc, Exited(p) PROVE Exclusive'
  BY <1>21 DEF Exited, Goto
<1>22. ASSUME NEW p \in Proc, Publish(p) PROVE Exclusive'
  BY <1>22 DEF Publish, Goto
<1>23. ASSUME NEW p \in Proc, Fail(p) PROVE Exclusive'
  BY <1>23 DEF Fail, Goto
<1>24. ASSUME NEW p \in Proc, Settle(p) PROVE Exclusive'
  BY <1>24 DEF Settle, Done, Goto
<1>25. ASSUME NEW p \in Canceller, NEW r \in Run, CancelRead(p, r) PROVE Exclusive'
  BY <1>25 DEF CancelRead, Goto
<1>26. ASSUME NEW p \in Proc, CancelMark(p) PROVE Exclusive'
  BY <1>26 DEF CancelMark, Goto
<1>27. ASSUME NEW p \in Proc, CancelAct(p) PROVE Exclusive'
  BY <1>27 DEF CancelAct, Done, Goto
<1>28. ASSUME NEW r \in Run, TrainerExits(r) PROVE Exclusive'
  BY <1>28 DEF TrainerExits, Goto
<1>29. ASSUME NEW p \in Proc, Crash(p) PROVE Exclusive'
  BY <1>29 DEF Crash, Goto
<1>30. CASE UNCHANGED vars
  BY <1>30 DEF vars
<1>. QED
  BY [Next]_vars, <1>1, <1>2, <1>3, <1>4, <1>5, <1>6, <1>7, <1>8, <1>9, <1>10, <1>11, <1>12, <1>13,
     <1>14, <1>15, <1>16, <1>17, <1>18, <1>19, <1>20, <1>21, <1>22, <1>23, <1>24, <1>25, <1>26,
     <1>27, <1>28, <1>29, <1>30 DEF Next, Begin, Step

\* Every run that starts holds the GPU until its last upload.
THEOREM OneRunOnTheGpu == Spec => []Exclusive
BY TypeInit, TypeNext, ExclusiveInit, ExclusiveNext, PTL DEF Spec

-----------------------------------------------------------------------------
(* Trainers take turns.                                                    *)

\* The executor that started r's trainer and still waits for it.
Waits(p, r) == pc[p] \in {"record", "wait"} /\ job[p].run = r

\* A trainer whose executor lives is waited for.
Trained ==
  \A r \in Run \ orphaned : trainer[r] = "alive" => \E p \in Proc : Waits(p, r)

\* No trainer runs at the start.
LEMMA TrainedInit == Init => Trained
BY DEF Init, Trained

\* An executor waits for the trainer it started until the trainer has exited.
LEMMA TrainedNext ==
  ASSUME TypeOK, Exclusive, Trained, [Next]_vars
  PROVE  Trained'
<1>. USE RunQueueAssumption
     DEF TypeOK, Exclusive, Trained, Waits, RunQueueAssumption, Proc, OnGpu, tableVars, lockVars, history
<1>1. ASSUME NEW p \in Terminal, NEW r \in Run, NEW m \in Modes, Submit(p, r, m) PROVE Trained'
  BY <1>1 DEF Submit, NoJob, Goto
<1>2. ASSUME NEW p \in Proc, Stamp(p) PROVE Trained'
  BY <1>2 DEF Stamp, Goto
<1>3. ASSUME NEW p \in Proc, Insert(p) PROVE Trained'
  BY <1>3 DEF Insert, SetState, Queued, Goto
<1>4. ASSUME NEW p \in Proc, AddAttempt(p) PROVE Trained'
  BY <1>4 DEF AddAttempt, Done, Goto
<1>5. ASSUME NEW p \in Proc, Probe(p) PROVE Trained'
  BY <1>5 DEF Probe, Done, Goto
<1>6. ASSUME NEW p \in Proc, StartWorker(p) PROVE Trained'
  BY <1>6 DEF StartWorker, Goto
<1>7. ASSUME NEW p \in Server, StartServer(p) PROVE Trained'
  BY <1>7 DEF StartServer, NoJob, Goto
<1>8. ASSUME NEW p \in Proc, ReconcileRun(p) PROVE Trained'
  BY <1>8 DEF ReconcileRun, SetState, Goto
<1>9. ASSUME NEW p \in Proc, Reconciled(p) PROVE Trained'
  BY <1>9 DEF Reconciled, Goto
<1>10. ASSUME NEW p \in Proc, TryServe(p) PROVE Trained'
  BY <1>10 DEF TryServe, Goto
<1>11. ASSUME NEW p \in Proc, Drop(p) PROVE Trained'
  BY <1>11 DEF Drop, Abandoned, Queued, Goto
<1>12. ASSUME NEW p \in Proc, PickRun(p) PROVE Trained'
  BY <1>12 DEF PickRun, Queued, Goto
<1>13. ASSUME NEW p \in Proc, LeaveQueue(p) PROVE Trained'
  BY <1>13 DEF LeaveQueue, Goto
<1>14. ASSUME NEW p \in Proc, Look(p) PROVE Trained'
  BY <1>14 DEF Look, Done, SetState, Goto
<1>15. ASSUME NEW p \in Proc, CheckAhead(p) PROVE Trained'
  BY <1>15 DEF CheckAhead, Goto
<1>16. ASSUME NEW p \in Proc, TakeGpu(p) PROVE Trained'
  BY <1>16 DEF TakeGpu, Goto
<1>17. ASSUME NEW p \in Proc, BeginRun(p) PROVE Trained'
  BY <1>17 DEF BeginRun, SetState, Goto
<1>18. ASSUME NEW p \in Proc, CheckCancel(p) PROVE Trained'
  BY <1>18 DEF CheckCancel, SetState, Goto
<1>19. ASSUME NEW p \in Proc, Popen(p) PROVE Trained'
  BY <1>19 DEF Popen, Goto
<1>20. ASSUME NEW p \in Proc, RecordPid(p) PROVE Trained'
  BY <1>20 DEF RecordPid, SetState, Goto
<1>21. ASSUME NEW p \in Proc, Exited(p) PROVE Trained'
  BY <1>21 DEF Exited, SetState, Goto
<1>22. ASSUME NEW p \in Proc, Publish(p) PROVE Trained'
  BY <1>22 DEF Publish, SetState, Goto
<1>23. ASSUME NEW p \in Proc, Fail(p) PROVE Trained'
  BY <1>23 DEF Fail, SetState, Goto
<1>24. ASSUME NEW p \in Proc, Settle(p) PROVE Trained'
  BY <1>24 DEF Settle, Done, Goto
<1>25. ASSUME NEW p \in Canceller, NEW r \in Run, CancelRead(p, r) PROVE Trained'
  BY <1>25 DEF CancelRead, NoJob, Goto
<1>26. ASSUME NEW p \in Proc, CancelMark(p) PROVE Trained'
  BY <1>26 DEF CancelMark, Goto
<1>27. ASSUME NEW p \in Proc, CancelAct(p) PROVE Trained'
  BY <1>27 DEF CancelAct, Done, SetState, Goto
<1>28. ASSUME NEW r \in Run, TrainerExits(r) PROVE Trained'
  BY <1>28 DEF TrainerExits, Goto
<1>29. ASSUME NEW p \in Proc, Crash(p) PROVE Trained'
  BY <1>29 DEF Crash, Goto
<1>30. CASE UNCHANGED vars
  BY <1>30 DEF vars
<1>. QED
  BY [Next]_vars, <1>1, <1>2, <1>3, <1>4, <1>5, <1>6, <1>7, <1>8, <1>9, <1>10, <1>11, <1>12, <1>13,
     <1>14, <1>15, <1>16, <1>17, <1>18, <1>19, <1>20, <1>21, <1>22, <1>23, <1>24, <1>25, <1>26,
     <1>27, <1>28, <1>29, <1>30 DEF Next, Begin, Step

\* Two trainers are never alive at the same time unless the executor of one of
\* them died, however many terminals, workers and servers there are.
THEOREM TurnsTaken == Spec => []TrainersTakeTurns
<1>1. TypeOK /\ Exclusive /\ Trained /\ [Next]_vars => Trained'
  BY TrainedNext
<1>2. Exclusive /\ Trained => TrainersTakeTurns
  BY DEF Exclusive, Trained, TrainersTakeTurns, Waits, OnGpu
<1>. QED
  BY <1>1, <1>2, TypeInit, TypeNext, ExclusiveInit, ExclusiveNext, TrainedInit, PTL DEF Spec

-----------------------------------------------------------------------------
(* An active run has the GPU, unless its executor died.                    *)

\* An active run whose executor lives has it on the GPU, not finished with it.
Executed ==
  \A r \in Run \ orphaned :
    state[r] \in Active => \E p \in Proc : pc[p] \in OnGpu \ {"settle"} /\ job[p].run = r

\* No run is active at the start.
LEMMA ExecutedInit == Init => Executed
BY DEF Init, Executed, Active

\* Only the executor ends what makes the run active.
LEMMA ExecutedNext ==
  ASSUME TypeOK, Exclusive, Executed, [Next]_vars
  PROVE  Executed'
<1>. USE RunQueueAssumption
     DEF TypeOK, Exclusive, Executed, RunQueueAssumption, Proc, OnGpu, tableVars, lockVars, history
<1>1. ASSUME NEW p \in Terminal, NEW r \in Run, NEW m \in Modes, Submit(p, r, m) PROVE Executed'
  BY <1>1 DEF Submit, NoJob, Goto, Active
<1>2. ASSUME NEW p \in Proc, Stamp(p) PROVE Executed'
  BY <1>2 DEF Stamp, Goto, Active
<1>3. ASSUME NEW p \in Proc, Insert(p) PROVE Executed'
  BY <1>3 DEF Insert, SetState, Queued, Goto, Active
<1>4. ASSUME NEW p \in Proc, AddAttempt(p) PROVE Executed'
  BY <1>4 DEF AddAttempt, Done, Goto, Active
<1>5. ASSUME NEW p \in Proc, Probe(p) PROVE Executed'
  BY <1>5 DEF Probe, Done, Goto, Active
<1>6. ASSUME NEW p \in Proc, StartWorker(p) PROVE Executed'
  BY <1>6 DEF StartWorker, Goto, Active
<1>7. ASSUME NEW p \in Server, StartServer(p) PROVE Executed'
  BY <1>7 DEF StartServer, NoJob, Goto, Active
<1>8. ASSUME NEW p \in Proc, ReconcileRun(p) PROVE Executed'
  BY <1>8 DEF ReconcileRun, SetState, Goto, Active
<1>9. ASSUME NEW p \in Proc, Reconciled(p) PROVE Executed'
  BY <1>9 DEF Reconciled, Goto, Active
<1>10. ASSUME NEW p \in Proc, TryServe(p) PROVE Executed'
  BY <1>10 DEF TryServe, Goto, Active
<1>11. ASSUME NEW p \in Proc, Drop(p) PROVE Executed'
  BY <1>11 DEF Drop, Abandoned, Queued, Goto, Active
<1>12. ASSUME NEW p \in Proc, PickRun(p) PROVE Executed'
  BY <1>12 DEF PickRun, Queued, Goto, Active
<1>13. ASSUME NEW p \in Proc, LeaveQueue(p) PROVE Executed'
  BY <1>13 DEF LeaveQueue, Goto, Active
<1>14. ASSUME NEW p \in Proc, Look(p) PROVE Executed'
  BY <1>14 DEF Look, Done, SetState, Goto, Active
<1>15. ASSUME NEW p \in Proc, CheckAhead(p) PROVE Executed'
  BY <1>15 DEF CheckAhead, Goto, Active
<1>16. ASSUME NEW p \in Proc, TakeGpu(p) PROVE Executed'
  BY <1>16 DEF TakeGpu, Goto, Active
<1>17. ASSUME NEW p \in Proc, BeginRun(p) PROVE Executed'
  BY <1>17 DEF BeginRun, SetState, Goto, Active
<1>18. ASSUME NEW p \in Proc, CheckCancel(p) PROVE Executed'
  BY <1>18 DEF CheckCancel, SetState, Goto, Active
<1>19. ASSUME NEW p \in Proc, Popen(p) PROVE Executed'
  BY <1>19 DEF Popen, Goto, Active
<1>20. ASSUME NEW p \in Proc, RecordPid(p) PROVE Executed'
  BY <1>20 DEF RecordPid, SetState, Goto, Active
<1>21. ASSUME NEW p \in Proc, Exited(p) PROVE Executed'
  BY <1>21 DEF Exited, SetState, Goto, Active
<1>22. ASSUME NEW p \in Proc, Publish(p) PROVE Executed'
  BY <1>22 DEF Publish, SetState, Goto, Active
<1>23. ASSUME NEW p \in Proc, Fail(p) PROVE Executed'
  BY <1>23 DEF Fail, SetState, Goto, Active
<1>24. ASSUME NEW p \in Proc, Settle(p) PROVE Executed'
  BY <1>24 DEF Settle, Done, Goto, Active
<1>25. ASSUME NEW p \in Canceller, NEW r \in Run, CancelRead(p, r) PROVE Executed'
  BY <1>25 DEF CancelRead, NoJob, Goto, Active
<1>26. ASSUME NEW p \in Proc, CancelMark(p) PROVE Executed'
  BY <1>26 DEF CancelMark, Goto, Active
<1>27. ASSUME NEW p \in Proc, CancelAct(p) PROVE Executed'
  BY <1>27 DEF CancelAct, Done, SetState, Goto, Active
<1>28. ASSUME NEW r \in Run, TrainerExits(r) PROVE Executed'
  BY <1>28 DEF TrainerExits, Goto, Active
<1>29. ASSUME NEW p \in Proc, Crash(p) PROVE Executed'
  BY <1>29 DEF Crash, Goto, Active
<1>30. CASE UNCHANGED vars
  BY <1>30 DEF vars
<1>. QED
  BY [Next]_vars, <1>1, <1>2, <1>3, <1>4, <1>5, <1>6, <1>7, <1>8, <1>9, <1>10, <1>11, <1>12, <1>13,
     <1>14, <1>15, <1>16, <1>17, <1>18, <1>19, <1>20, <1>21, <1>22, <1>23, <1>24, <1>25, <1>26,
     <1>27, <1>28, <1>29, <1>30 DEF Next, Begin, Step

\* From staging to the last upload a run has the GPU lock, whatever reconcile
\* or a cancel do to its record meanwhile and whichever processes die.
THEOREM ActiveRunsHoldTheGpu == Spec => []HoldsGpuWhileActive
<1>1. TypeOK /\ Exclusive /\ Executed /\ [Next]_vars => Executed'
  BY ExecutedNext
<1>2. Exclusive /\ Executed => HoldsGpuWhileActive
  BY DEF Exclusive, Executed, HoldsGpuWhileActive
<1>. QED
  BY <1>1, <1>2, TypeInit, TypeNext, ExclusiveInit, ExclusiveNext, ExecutedInit, PTL DEF Spec

-----------------------------------------------------------------------------
(* Only abandoned or cancelled runs leave the queue unstarted.             *)

\* cancel has written its file before it touches the record.
Marked == \A c \in Proc : pc[c] = "act" => job[c].run \in sentinel

\* At the start nobody cancels.
LEMMA MarkedInit == Init => Marked
BY DEF Init, Marked

\* A cancel file is never removed.
LEMMA MarkedNext == TypeOK /\ Marked /\ [Next]_vars => Marked'
<1>. SUFFICES ASSUME TypeOK, Marked, [Next]_vars PROVE Marked'
  OBVIOUS
<1>. USE RunQueueAssumption
     DEF TypeOK, Marked, RunQueueAssumption, Proc, tableVars, lockVars, history
<1>1. ASSUME NEW p \in Terminal, NEW r \in Run, NEW m \in Modes, Submit(p, r, m) PROVE Marked'
  BY <1>1 DEF Submit, Goto
<1>2. ASSUME NEW p \in Proc, Stamp(p) PROVE Marked'
  BY <1>2 DEF Stamp, Goto
<1>3. ASSUME NEW p \in Proc, Insert(p) PROVE Marked'
  BY <1>3 DEF Insert, Goto
<1>4. ASSUME NEW p \in Proc, AddAttempt(p) PROVE Marked'
  BY <1>4 DEF AddAttempt, Done, Goto
<1>5. ASSUME NEW p \in Proc, Probe(p) PROVE Marked'
  BY <1>5 DEF Probe, Done, Goto
<1>6. ASSUME NEW p \in Proc, StartWorker(p) PROVE Marked'
  BY <1>6 DEF StartWorker, Goto
<1>7. ASSUME NEW p \in Server, StartServer(p) PROVE Marked'
  BY <1>7 DEF StartServer, Goto
<1>8. ASSUME NEW p \in Proc, ReconcileRun(p) PROVE Marked'
  BY <1>8 DEF ReconcileRun, Goto
<1>9. ASSUME NEW p \in Proc, Reconciled(p) PROVE Marked'
  BY <1>9 DEF Reconciled, Goto
<1>10. ASSUME NEW p \in Proc, TryServe(p) PROVE Marked'
  BY <1>10 DEF TryServe, Goto
<1>11. ASSUME NEW p \in Proc, Drop(p) PROVE Marked'
  BY <1>11 DEF Drop, Goto
<1>12. ASSUME NEW p \in Proc, PickRun(p) PROVE Marked'
  BY <1>12 DEF PickRun, Goto
<1>13. ASSUME NEW p \in Proc, LeaveQueue(p) PROVE Marked'
  BY <1>13 DEF LeaveQueue, Goto
<1>14. ASSUME NEW p \in Proc, Look(p) PROVE Marked'
  BY <1>14 DEF Look, Done, Goto
<1>15. ASSUME NEW p \in Proc, CheckAhead(p) PROVE Marked'
  BY <1>15 DEF CheckAhead, Goto
<1>16. ASSUME NEW p \in Proc, TakeGpu(p) PROVE Marked'
  BY <1>16 DEF TakeGpu, Goto
<1>17. ASSUME NEW p \in Proc, BeginRun(p) PROVE Marked'
  BY <1>17 DEF BeginRun, Goto
<1>18. ASSUME NEW p \in Proc, CheckCancel(p) PROVE Marked'
  BY <1>18 DEF CheckCancel, Goto
<1>19. ASSUME NEW p \in Proc, Popen(p) PROVE Marked'
  BY <1>19 DEF Popen, Goto
<1>20. ASSUME NEW p \in Proc, RecordPid(p) PROVE Marked'
  BY <1>20 DEF RecordPid, Goto
<1>21. ASSUME NEW p \in Proc, Exited(p) PROVE Marked'
  BY <1>21 DEF Exited, Goto
<1>22. ASSUME NEW p \in Proc, Publish(p) PROVE Marked'
  BY <1>22 DEF Publish, Goto
<1>23. ASSUME NEW p \in Proc, Fail(p) PROVE Marked'
  BY <1>23 DEF Fail, Goto
<1>24. ASSUME NEW p \in Proc, Settle(p) PROVE Marked'
  BY <1>24 DEF Settle, Done, Goto
<1>25. ASSUME NEW p \in Canceller, NEW r \in Run, CancelRead(p, r) PROVE Marked'
  BY <1>25 DEF CancelRead, Goto
<1>26. ASSUME NEW p \in Proc, CancelMark(p) PROVE Marked'
  BY <1>26 DEF CancelMark, Goto
<1>27. ASSUME NEW p \in Proc, CancelAct(p) PROVE Marked'
  BY <1>27 DEF CancelAct, Done, Goto
<1>28. ASSUME NEW r \in Run, TrainerExits(r) PROVE Marked'
  BY <1>28 DEF TrainerExits, Goto
<1>29. ASSUME NEW p \in Proc, Crash(p) PROVE Marked'
  BY <1>29 DEF Crash, Goto
<1>30. CASE UNCHANGED vars
  BY <1>30 DEF vars
<1>. QED
  BY [Next]_vars, <1>1, <1>2, <1>3, <1>4, <1>5, <1>6, <1>7, <1>8, <1>9, <1>10, <1>11, <1>12, <1>13,
     <1>14, <1>15, <1>16, <1>17, <1>18, <1>19, <1>20, <1>21, <1>22, <1>23, <1>24, <1>25, <1>26,
     <1>27, <1>28, <1>29, <1>30 DEF Next, Begin, Step

\* A step that cancels a queued run finds its cancel file, or its terminal gone.
LEMMA DropStep ==
  ASSUME TypeOK, Marked, [Next]_vars, NEW s \in Run, state[s] = "queued", state'[s] = "cancelled"
  PROVE  s \in sentinel \/ OwnerState(s) = "gone"
<1>. USE RunQueueAssumption
     DEF TypeOK, Marked, RunQueueAssumption, Proc, tableVars, lockVars, history
<1>1. ASSUME NEW p \in Terminal, NEW r \in Run, NEW m \in Modes, Submit(p, r, m) PROVE s \in sentinel \/ OwnerState(s) = "gone"
  BY <1>1 DEF Submit
<1>2. ASSUME NEW p \in Proc, Stamp(p) PROVE s \in sentinel \/ OwnerState(s) = "gone"
  BY <1>2 DEF Stamp
<1>3. ASSUME NEW p \in Proc, Insert(p) PROVE s \in sentinel \/ OwnerState(s) = "gone"
  BY <1>3 DEF Insert, SetState
<1>4. ASSUME NEW p \in Proc, AddAttempt(p) PROVE s \in sentinel \/ OwnerState(s) = "gone"
  BY <1>4 DEF AddAttempt
<1>5. ASSUME NEW p \in Proc, Probe(p) PROVE s \in sentinel \/ OwnerState(s) = "gone"
  BY <1>5 DEF Probe
<1>6. ASSUME NEW p \in Proc, StartWorker(p) PROVE s \in sentinel \/ OwnerState(s) = "gone"
  BY <1>6 DEF StartWorker
<1>7. ASSUME NEW p \in Server, StartServer(p) PROVE s \in sentinel \/ OwnerState(s) = "gone"
  BY <1>7 DEF StartServer
<1>8. ASSUME NEW p \in Proc, ReconcileRun(p) PROVE s \in sentinel \/ OwnerState(s) = "gone"
  BY <1>8 DEF ReconcileRun, SetState
<1>9. ASSUME NEW p \in Proc, Reconciled(p) PROVE s \in sentinel \/ OwnerState(s) = "gone"
  BY <1>9 DEF Reconciled
<1>10. ASSUME NEW p \in Proc, TryServe(p) PROVE s \in sentinel \/ OwnerState(s) = "gone"
  BY <1>10 DEF TryServe
<1>11. ASSUME NEW p \in Proc, Drop(p) PROVE s \in sentinel \/ OwnerState(s) = "gone"
  BY <1>11 DEF Drop, Abandoned, Queued
<1>12. ASSUME NEW p \in Proc, PickRun(p) PROVE s \in sentinel \/ OwnerState(s) = "gone"
  BY <1>12 DEF PickRun
<1>13. ASSUME NEW p \in Proc, LeaveQueue(p) PROVE s \in sentinel \/ OwnerState(s) = "gone"
  BY <1>13 DEF LeaveQueue
<1>14. ASSUME NEW p \in Proc, Look(p) PROVE s \in sentinel \/ OwnerState(s) = "gone"
  BY <1>14 DEF Look, SetState
<1>15. ASSUME NEW p \in Proc, CheckAhead(p) PROVE s \in sentinel \/ OwnerState(s) = "gone"
  BY <1>15 DEF CheckAhead
<1>16. ASSUME NEW p \in Proc, TakeGpu(p) PROVE s \in sentinel \/ OwnerState(s) = "gone"
  BY <1>16 DEF TakeGpu
<1>17. ASSUME NEW p \in Proc, BeginRun(p) PROVE s \in sentinel \/ OwnerState(s) = "gone"
  BY <1>17 DEF BeginRun, SetState
<1>18. ASSUME NEW p \in Proc, CheckCancel(p) PROVE s \in sentinel \/ OwnerState(s) = "gone"
  BY <1>18 DEF CheckCancel, SetState
<1>19. ASSUME NEW p \in Proc, Popen(p) PROVE s \in sentinel \/ OwnerState(s) = "gone"
  BY <1>19 DEF Popen
<1>20. ASSUME NEW p \in Proc, RecordPid(p) PROVE s \in sentinel \/ OwnerState(s) = "gone"
  BY <1>20 DEF RecordPid, SetState
<1>21. ASSUME NEW p \in Proc, Exited(p) PROVE s \in sentinel \/ OwnerState(s) = "gone"
  BY <1>21 DEF Exited, SetState
<1>22. ASSUME NEW p \in Proc, Publish(p) PROVE s \in sentinel \/ OwnerState(s) = "gone"
  BY <1>22 DEF Publish, SetState
<1>23. ASSUME NEW p \in Proc, Fail(p) PROVE s \in sentinel \/ OwnerState(s) = "gone"
  BY <1>23 DEF Fail, SetState
<1>24. ASSUME NEW p \in Proc, Settle(p) PROVE s \in sentinel \/ OwnerState(s) = "gone"
  BY <1>24 DEF Settle
<1>25. ASSUME NEW p \in Canceller, NEW r \in Run, CancelRead(p, r) PROVE s \in sentinel \/ OwnerState(s) = "gone"
  BY <1>25 DEF CancelRead
<1>26. ASSUME NEW p \in Proc, CancelMark(p) PROVE s \in sentinel \/ OwnerState(s) = "gone"
  BY <1>26 DEF CancelMark
<1>27. ASSUME NEW p \in Proc, CancelAct(p) PROVE s \in sentinel \/ OwnerState(s) = "gone"
  BY <1>27 DEF CancelAct, SetState
<1>28. ASSUME NEW r \in Run, TrainerExits(r) PROVE s \in sentinel \/ OwnerState(s) = "gone"
  BY <1>28 DEF TrainerExits
<1>29. ASSUME NEW p \in Proc, Crash(p) PROVE s \in sentinel \/ OwnerState(s) = "gone"
  BY <1>29 DEF Crash
<1>30. CASE UNCHANGED vars
  BY <1>30 DEF vars
<1>. QED
  BY [Next]_vars, <1>1, <1>2, <1>3, <1>4, <1>5, <1>6, <1>7, <1>8, <1>9, <1>10, <1>11, <1>12, <1>13,
     <1>14, <1>15, <1>16, <1>17, <1>18, <1>19, <1>20, <1>21, <1>22, <1>23, <1>24, <1>25, <1>26,
     <1>27, <1>28, <1>29, <1>30 DEF Next, Begin, Step

\* drop_abandoned and the other loops cancel no run that a live terminal
\* waits to run, and none handed to the queue, unless somebody cancelled it.
THEOREM DropsAreDue == Spec => DropsOnlyAbandoned
<1>1. TypeOK /\ Marked /\ [Next]_vars =>
        [\A r \in Run : state[r] = "queued" /\ state'[r] = "cancelled" =>
           r \in sentinel \/ OwnerState(r) = "gone"]_vars
  BY DropStep
<1>. QED
  BY <1>1, TypeInit, TypeNext, MarkedInit, MarkedNext, PTL DEF Spec, DropsOnlyAbandoned

-----------------------------------------------------------------------------
(* The strengthening: who may be where, who holds what, and how far the    *)
(* trainer of a run can be then.                                           *)

\* Each role has its part of the program, and who serves the queue does not
\* start another worker.
Roles ==
  \A p \in Proc :
    /\ p \in Canceller => pc[p] \in {"idle"} \cup Cancelling
    /\ p \in Terminal => pc[p] \in {"idle"} \cup Submitting \cup Turning \cup OnGpu
    /\ p \in Worker \cup Server => pc[p] \in ({"idle"} \cup Serving \cup Turning \cup OnGpu) \ {"nudged"}

\* One process serves the queue, and nobody else while the lock is probed.
ServesAlone ==
  /\ \A p \in Worker \cup Server : pc[p] \notin {"idle", "reconcile", "serve"} => serving = p
  /\ \A p \in Proc : pc[p] \in {"spawn", "nudged"} => serving = p

\* The GPU lock is held by a process that executes a run.
GpuInUse == gpu # NoOne => gpu \in Proc /\ pc[gpu] \in OnGpu

Locks == Roles /\ ServesAlone /\ GpuInUse

\* A run has its time before it has its row, and a row is never unwritten.
Timed ==
  /\ \A r \in Run : stamp[r] = 0 => state[r] = "none"
  /\ \A p \in Proc : pc[p] \notin {"idle", "stamp"} \cup Serving => stamp[job[p].run] # 0
  /\ \A p \in Proc : \A r \in job[p].todo : state[r] # "none"

\* Until its row exists only its terminal knows of a run.
Fresh ==
  \A p \in Proc : pc[p] \in {"stamp", "insert"} =>
    state[job[p].run] = "none" /\ \A q \in Proc \ {p} : job[q].run # job[p].run

\* p executes its run, or will as soon as it is submitted.
Own(p) ==
  \/ pc[p] \in Turning \cup OnGpu
  \/ pc[p] \in {"stamp", "insert", "list"} /\ job[p].mode = "here"

\* A terminal executes what it claimed, and a server what nobody did.
Claims == \A p \in Proc : Own(p) => owner[job[p].run] = IF p \in Terminal THEN p ELSE NoOne

\* The trainer has not started while the record waits, or its executor does.
Unstarted ==
  /\ \A r \in Run : state[r] \in {"none", "queued"} => trainer[r] = "none"
  /\ \A p \in Proc : Own(p) /\ pc[p] \notin {"record", "wait", "publish", "settle"} =>
       trainer[job[p].run] = "none"
  /\ \A p \in Proc : pc[p] \in OnGpu \ {"begin"} => state[job[p].run] \notin {"none", "queued"}

\* It has once its pid is known, and has ended when its executor goes on.
Started ==
  /\ \A r \in pids : trainer[r] # "none"
  /\ \A p \in Proc : \A r \in job[p].known : trainer[r] # "none"
  /\ \A p \in Proc : pc[p] \in {"record", "wait"} => trainer[job[p].run] # "none"
  /\ \A p \in Proc : pc[p] \in {"publish", "settle"} => trainer[job[p].run] # "alive"

\* It was started as often as it shows.
Counted == \A r \in Run : launches[r] = IF trainer[r] = "none" THEN 0 ELSE 1

Inv == TypeOK /\ Exclusive /\ Locks /\ Timed /\ Fresh /\ Claims /\ Unstarted /\ Started /\ Counted

-----------------------------------------------------------------------------
(* No step breaks it.                                                      *)

\* Whoever serves the queue takes a run that was handed to it, or nothing.
LEMMA Picked ==
  ASSUME TypeOK, NEW p \in Proc, PickRun(p)
  PROVE  /\ \A q \in Proc \ {p} : pc'[q] = pc[q] /\ job'[q] = job[q]
         /\ job'[p].mode = job[p].mode /\ job'[p].known = job[p].known
         /\ \/ pc'[p] = "look" /\ job'[p].run \in Queued
            \/ pc'[p] \in {"next", "leave"} /\ job'[p] = job[p]
<1>. USE DEF TypeOK, Goto, Job
<1>1. CASE \E r \in Servable : job' = [job EXCEPT ![p].run = r] /\ Goto(p, "look")
  <2>1. PICK r \in Queued : job' = [job EXCEPT ![p].run = r] /\ Goto(p, "look")
    BY <1>1 DEF Servable
  <2>. QED  BY <2>1 DEF Queued
<1>2. CASE UNCHANGED job /\ Goto(p, IF p \in Worker THEN "leave" ELSE "next")
  BY <1>2
<1>. QED  BY <1>1, <1>2 DEF PickRun

\* Whoever looks at its run leaves it, or goes on with it.
LEMMA Looked ==
  ASSUME TypeOK, NEW p \in Proc, Look(p)
  PROVE  /\ \A q \in Proc \ {p} : pc'[q] = pc[q] /\ job'[q] = job[q]
         /\ \/ pc'[p] \in {"next", "idle"} /\ job'[p] = NoJob
            \/ pc'[p] = "drop" /\ job'[p].run = job[p].run /\ job'[p].mode = job[p].mode
         /\ \A r \in Run : state'[r] = state[r] \/ state'[r] = "cancelled"
BY DEF Look, TypeOK, Goto, Done, SetState, Job

\* Who goes on has read a record that is not over, and knows whether it is queued.
LEMMA LookedOn ==
  ASSUME TypeOK, NEW p \in Proc, Look(p), pc'[p] = "drop",
         state[job[p].run] \in {"queued"} \cup Final
  PROVE  UNCHANGED state /\ state[job[p].run] = "queued" /\ job'[p].queued
<1>1. state[job[p].run] \notin Final
  BY DEF Look, TypeOK, Goto, Done
<1>2. job' = [job EXCEPT ![p].queued = state[job[p].run] = "queued"] /\ UNCHANGED state
  BY <1>1 DEF Look, TypeOK, Goto, Done
<1>3. job'[p] = [job[p] EXCEPT !.queued = TRUE]
  BY <1>1, <1>2 DEF TypeOK
<1>4. job'[p].queued
  BY <1>3 DEF TypeOK, Job
<1>. QED  BY <1>1, <1>2, <1>4

\* Processes stay within their roles.
LEMMA RolesNext ==
  ASSUME TypeOK, Roles, ServesAlone, [Next]_vars
  PROVE  Roles'
<1>. USE RunQueueAssumption DEF TypeOK, Roles, ServesAlone, Submitting, Turning, OnGpu, Serving,
     Cancelling, RunQueueAssumption, Proc, tableVars, lockVars, history
<1>1. ASSUME NEW t \in Terminal, NEW r \in Run, NEW m \in Modes, Submit(t, r, m) PROVE Roles'
    BY <1>1 DEF Submit, NoJob, Goto
<1>2. ASSUME NEW s \in Server, StartServer(s) PROVE Roles'
    BY <1>2 DEF StartServer, NoJob, Goto
<1>3. ASSUME NEW c \in Canceller, NEW r \in Run, CancelRead(c, r) PROVE Roles'
    BY <1>3 DEF CancelRead, NoJob, Goto
<1>4. ASSUME NEW r \in Run, TrainerExits(r) PROVE Roles'
    BY <1>4 DEF TrainerExits
<1>5. ASSUME NEW p \in Proc, BeginRun(p) \/ CheckCancel(p) \/ Popen(p) \/ RecordPid(p) \/
     Exited(p) \/ Publish(p) \/ Fail(p)
     PROVE Roles'
    BY <1>5 DEF BeginRun, CheckCancel, Popen, RecordPid, Exited, Publish, Fail, SetState, Goto
<1>6. ASSUME NEW p \in Proc, Drop(p) \/ PickRun(p) \/ LeaveQueue(p) \/ TryServe(p) PROVE Roles'
  <2>1. CASE Drop(p)
    BY <2>1 DEF Drop, Goto
  <2>2. CASE PickRun(p)
    <3>1. pc'[p] \in {"look", "next", "leave"} /\ \A q \in Proc \ {p} : pc'[q] = pc[q]
      BY <2>2, Picked
    <3>. QED  BY <2>2, <3>1 DEF PickRun
  <2>3. CASE LeaveQueue(p)
    BY <2>3 DEF LeaveQueue, Goto
  <2>4. CASE TryServe(p)
    BY <2>4 DEF TryServe, Goto
  <2>. QED  BY <1>6, <2>1, <2>2, <2>3, <2>4
<1>7. ASSUME NEW p \in Proc, CancelMark(p) \/ CancelAct(p) PROVE Roles'
    BY <1>7 DEF CancelMark, CancelAct, Goto, Done, NoJob, SetState
<1>8. ASSUME NEW p \in Proc, Stamp(p) PROVE Roles'
    BY <1>8 DEF Stamp, Goto
<1>9. ASSUME NEW p \in Proc, Insert(p) PROVE Roles'
    BY <1>9 DEF Insert, SetState, Goto
<1>10. ASSUME NEW p \in Proc, AddAttempt(p) PROVE Roles'
    BY <1>10 DEF AddAttempt, Done, NoJob, Goto
<1>11. ASSUME NEW p \in Proc, Probe(p) PROVE Roles'
    BY <1>11 DEF Probe, Done, NoJob, Goto
<1>12. ASSUME NEW p \in Proc, StartWorker(p) PROVE Roles'
    BY <1>12 DEF StartWorker, NoJob, Goto
<1>13. ASSUME NEW p \in Proc, ReconcileRun(p) PROVE Roles'
    BY <1>13 DEF ReconcileRun, SetState
<1>14. ASSUME NEW p \in Proc, Reconciled(p) PROVE Roles'
    BY <1>14 DEF Reconciled, NoJob, Goto
<1>15. ASSUME NEW p \in Proc, Look(p) PROVE Roles'
    BY <1>15 DEF Look, Done, NoJob, SetState, Goto, Job
<1>16. ASSUME NEW p \in Proc, CheckAhead(p) PROVE Roles'
    BY <1>16 DEF CheckAhead, Goto
<1>17. ASSUME NEW p \in Proc, TakeGpu(p) PROVE Roles'
    BY <1>17 DEF TakeGpu, Goto
<1>18. ASSUME NEW p \in Proc, Settle(p) PROVE Roles'
    BY <1>18 DEF Settle, Done, NoJob, Goto
<1>19. ASSUME NEW p \in Proc, Crash(p) PROVE Roles'
    BY <1>19 DEF Crash, NoJob, Goto
<1>20. CASE UNCHANGED vars
  BY <1>20 DEF vars
<1>. QED
    BY [Next]_vars, <1>1, <1>2, <1>3, <1>4, <1>5, <1>6, <1>7, <1>8, <1>9, <1>10, <1>11, <1>12,
     <1>13, <1>14, <1>15, <1>16, <1>17, <1>18, <1>19, <1>20 DEF Next, Begin, Step


\* Who serves the queue or probes its lock holds it until it leaves.
LEMMA ServesNext ==
  ASSUME TypeOK, Roles, ServesAlone, [Next]_vars
  PROVE  ServesAlone'
<1>. USE RunQueueAssumption DEF TypeOK, Roles, ServesAlone, Submitting, Turning, OnGpu, Serving,
     Cancelling, RunQueueAssumption, Proc, tableVars, lockVars, history
<1>1. ASSUME NEW t \in Terminal, NEW r \in Run, NEW m \in Modes, Submit(t, r, m) PROVE ServesAlone'
    BY <1>1 DEF Submit, NoJob, Goto
<1>2. ASSUME NEW s \in Server, StartServer(s) PROVE ServesAlone'
    BY <1>2 DEF StartServer, NoJob, Goto
<1>3. ASSUME NEW c \in Canceller, NEW r \in Run, CancelRead(c, r) PROVE ServesAlone'
    BY <1>3 DEF CancelRead, NoJob, Goto
<1>4. ASSUME NEW r \in Run, TrainerExits(r) PROVE ServesAlone'
    BY <1>4 DEF TrainerExits
<1>5. ASSUME NEW p \in Proc, BeginRun(p) \/ CheckCancel(p) \/ Popen(p) \/ RecordPid(p) \/
     Exited(p) \/ Publish(p) \/ Fail(p)
     PROVE ServesAlone'
    BY <1>5 DEF BeginRun, CheckCancel, Popen, RecordPid, Exited, Publish, Fail, SetState, Goto
<1>6. ASSUME NEW p \in Proc, Stamp(p) PROVE ServesAlone'
    BY <1>6 DEF Stamp, Goto
<1>7. ASSUME NEW p \in Proc, Insert(p) PROVE ServesAlone'
    BY <1>7 DEF Insert, SetState, Goto
<1>8. ASSUME NEW p \in Proc, AddAttempt(p) PROVE ServesAlone'
    BY <1>8 DEF AddAttempt, Done, NoJob, Goto
<1>9. ASSUME NEW p \in Proc, Probe(p) PROVE ServesAlone'
    BY <1>9 DEF Probe, Done, NoJob, Goto
<1>10. ASSUME NEW p \in Proc, StartWorker(p) PROVE ServesAlone'
    BY <1>10 DEF StartWorker, NoJob, Goto
<1>11. ASSUME NEW p \in Proc, ReconcileRun(p) PROVE ServesAlone'
    BY <1>11 DEF ReconcileRun, SetState
<1>12. ASSUME NEW p \in Proc, Reconciled(p) PROVE ServesAlone'
    BY <1>12 DEF Reconciled, NoJob, Goto
<1>13. ASSUME NEW p \in Proc, TryServe(p) PROVE ServesAlone'
    BY <1>13 DEF TryServe, Goto
<1>14. ASSUME NEW p \in Proc, Drop(p) PROVE ServesAlone'
    BY <1>14 DEF Drop, Abandoned, Queued, Goto
<1>15. ASSUME NEW p \in Proc, PickRun(p) PROVE ServesAlone'
    BY <1>15 DEF PickRun, Servable, Queued, OwnerState, Goto, Job
<1>16. ASSUME NEW p \in Proc, LeaveQueue(p) PROVE ServesAlone'
    BY <1>16 DEF LeaveQueue, Goto
<1>17. ASSUME NEW p \in Proc, Look(p) PROVE ServesAlone'
    BY <1>17 DEF Look, Done, NoJob, SetState, Goto, Job
<1>18. ASSUME NEW p \in Proc, CheckAhead(p) PROVE ServesAlone'
    BY <1>18 DEF CheckAhead, Goto
<1>19. ASSUME NEW p \in Proc, TakeGpu(p) PROVE ServesAlone'
    BY <1>19 DEF TakeGpu, Goto
<1>20. ASSUME NEW p \in Proc, Settle(p) PROVE ServesAlone'
    BY <1>20 DEF Settle, Done, NoJob, Goto
<1>21. ASSUME NEW p \in Proc, CancelMark(p) PROVE ServesAlone'
    BY <1>21 DEF CancelMark, Goto
<1>22. ASSUME NEW p \in Proc, CancelAct(p) PROVE ServesAlone'
    BY <1>22 DEF CancelAct, Done, NoJob, SetState, Goto
<1>23. ASSUME NEW p \in Proc, Crash(p) PROVE ServesAlone'
    BY <1>23 DEF Crash, NoJob, Goto
<1>24. CASE UNCHANGED vars
  BY <1>24 DEF vars
<1>. QED
    BY [Next]_vars, <1>1, <1>2, <1>3, <1>4, <1>5, <1>6, <1>7, <1>8, <1>9, <1>10, <1>11, <1>12,
     <1>13, <1>14, <1>15, <1>16, <1>17, <1>18, <1>19, <1>20, <1>21, <1>22, <1>23, <1>24 DEF
     Next, Begin, Step


\* Only executing processes hold the GPU lock.
LEMMA GpuNext ==
  ASSUME TypeOK, GpuInUse, [Next]_vars
  PROVE  GpuInUse'
<1>. USE RunQueueAssumption DEF TypeOK, GpuInUse, Submitting, Turning, OnGpu, Serving, Cancelling,
     RunQueueAssumption, Proc, tableVars, lockVars, history
<1>1. ASSUME NEW t \in Terminal, NEW r \in Run, NEW m \in Modes, Submit(t, r, m) PROVE GpuInUse'
    BY <1>1 DEF Submit, NoJob, Goto
<1>2. ASSUME NEW s \in Server, StartServer(s) PROVE GpuInUse'
    BY <1>2 DEF StartServer, NoJob, Goto
<1>3. ASSUME NEW c \in Canceller, NEW r \in Run, CancelRead(c, r) PROVE GpuInUse'
    BY <1>3 DEF CancelRead, NoJob, Goto
<1>4. ASSUME NEW r \in Run, TrainerExits(r) PROVE GpuInUse'
    BY <1>4 DEF TrainerExits
<1>5. ASSUME NEW p \in Proc, BeginRun(p) \/ CheckCancel(p) \/ Popen(p) \/ RecordPid(p) \/
     Exited(p) \/ Publish(p) \/ Fail(p)
     PROVE GpuInUse'
    BY <1>5 DEF BeginRun, CheckCancel, Popen, RecordPid, Exited, Publish, Fail, SetState, Goto
<1>6. ASSUME NEW p \in Proc, Stamp(p) PROVE GpuInUse'
    BY <1>6 DEF Stamp, Goto
<1>7. ASSUME NEW p \in Proc, Insert(p) PROVE GpuInUse'
    BY <1>7 DEF Insert, SetState, Goto
<1>8. ASSUME NEW p \in Proc, AddAttempt(p) PROVE GpuInUse'
    BY <1>8 DEF AddAttempt, Done, NoJob, Goto
<1>9. ASSUME NEW p \in Proc, Probe(p) PROVE GpuInUse'
    BY <1>9 DEF Probe, Done, NoJob, Goto
<1>10. ASSUME NEW p \in Proc, StartWorker(p) PROVE GpuInUse'
    BY <1>10 DEF StartWorker, NoJob, Goto
<1>11. ASSUME NEW p \in Proc, ReconcileRun(p) PROVE GpuInUse'
    BY <1>11 DEF ReconcileRun, SetState
<1>12. ASSUME NEW p \in Proc, Reconciled(p) PROVE GpuInUse'
    BY <1>12 DEF Reconciled, NoJob, Goto
<1>13. ASSUME NEW p \in Proc, TryServe(p) PROVE GpuInUse'
    BY <1>13 DEF TryServe, Goto
<1>14. ASSUME NEW p \in Proc, Drop(p) PROVE GpuInUse'
    BY <1>14 DEF Drop, Abandoned, Queued, Goto
<1>15. ASSUME NEW p \in Proc, PickRun(p) PROVE GpuInUse'
    BY <1>15 DEF PickRun, Servable, Queued, OwnerState, Goto, Job
<1>16. ASSUME NEW p \in Proc, LeaveQueue(p) PROVE GpuInUse'
    BY <1>16 DEF LeaveQueue, Goto
<1>17. ASSUME NEW p \in Proc, Look(p) PROVE GpuInUse'
    BY <1>17 DEF Look, Done, NoJob, SetState, Goto, Job
<1>18. ASSUME NEW p \in Proc, CheckAhead(p) PROVE GpuInUse'
    BY <1>18 DEF CheckAhead, Goto
<1>19. ASSUME NEW p \in Proc, TakeGpu(p) PROVE GpuInUse'
    BY <1>19 DEF TakeGpu, Goto
<1>20. ASSUME NEW p \in Proc, Settle(p) PROVE GpuInUse'
    BY <1>20 DEF Settle, Done, NoJob, Goto
<1>21. ASSUME NEW p \in Proc, CancelMark(p) PROVE GpuInUse'
    BY <1>21 DEF CancelMark, Goto
<1>22. ASSUME NEW p \in Proc, CancelAct(p) PROVE GpuInUse'
    BY <1>22 DEF CancelAct, Done, NoJob, SetState, Goto
<1>23. ASSUME NEW p \in Proc, Crash(p) PROVE GpuInUse'
    BY <1>23 DEF Crash, NoJob, Goto
<1>24. CASE UNCHANGED vars
  BY <1>24 DEF vars
<1>. QED
    BY [Next]_vars, <1>1, <1>2, <1>3, <1>4, <1>5, <1>6, <1>7, <1>8, <1>9, <1>10, <1>11, <1>12,
     <1>13, <1>14, <1>15, <1>16, <1>17, <1>18, <1>19, <1>20, <1>21, <1>22, <1>23, <1>24 DEF
     Next, Begin, Step


\* A row is written once it has its time, and stays.
LEMMA TimedNext ==
  ASSUME TypeOK, Timed, Fresh, [Next]_vars
  PROVE  Timed'
<1>. USE RunQueueAssumption DEF TypeOK, Timed, Fresh, State, Active, Final, Submitting, Turning,
     OnGpu, Serving, Cancelling, RunQueueAssumption, Proc, tableVars, lockVars, history
<1>1. ASSUME NEW t \in Terminal, NEW r \in Run, NEW m \in Modes, Submit(t, r, m) PROVE Timed'
    BY <1>1 DEF Submit, NoJob, Goto
<1>2. ASSUME NEW s \in Server, StartServer(s) PROVE Timed'
  <2>1. (\A r \in Run : stamp[r] = 0 => state[r] = "none")'
    BY <1>2 DEF StartServer, NoJob, Goto
  <2>2. (\A q \in Proc : pc[q] \notin {"idle", "stamp"} \cup Serving => stamp[job[q].run] # 0)'
    BY <1>2 DEF StartServer, NoJob, Goto
  <2>3. (\A q \in Proc : \A r \in job[q].todo : state[r] # "none")'
    BY <1>2 DEF StartServer, NoJob, Goto, Job
  <2>. QED  BY <2>1, <2>2, <2>3
<1>3. ASSUME NEW c \in Canceller, NEW r \in Run, CancelRead(c, r) PROVE Timed'
    BY <1>3 DEF CancelRead, NoJob, Goto
<1>4. ASSUME NEW r \in Run, TrainerExits(r) PROVE Timed'
    BY <1>4 DEF TrainerExits
<1>5. ASSUME NEW p \in Proc, Stamp(p) PROVE Timed'
    BY <1>5 DEF Stamp, Goto
<1>6. ASSUME NEW p \in Proc, Insert(p) PROVE Timed'
    BY <1>6 DEF Insert, SetState, Goto
<1>7. ASSUME NEW p \in Proc, AddAttempt(p) PROVE Timed'
    BY <1>7 DEF AddAttempt, Done, NoJob, Goto
<1>8. ASSUME NEW p \in Proc, Probe(p) PROVE Timed'
    BY <1>8 DEF Probe, Done, NoJob, Goto
<1>9. ASSUME NEW p \in Proc, StartWorker(p) PROVE Timed'
    BY <1>9 DEF StartWorker, NoJob, Goto
<1>10. ASSUME NEW p \in Proc, ReconcileRun(p) PROVE Timed'
  <2>1. (\A r \in Run : stamp[r] = 0 => state[r] = "none")'
    BY <1>10 DEF ReconcileRun, SetState
  <2>2. (\A q \in Proc : pc[q] \notin {"idle", "stamp"} \cup Serving => stamp[job[q].run] # 0)'
    BY <1>10 DEF ReconcileRun, SetState
  <2>3. (\A q \in Proc : \A r \in job[q].todo : state[r] # "none")'
    BY <1>10 DEF ReconcileRun, SetState, Job
  <2>. QED  BY <2>1, <2>2, <2>3
<1>11. ASSUME NEW p \in Proc, Reconciled(p) PROVE Timed'
    BY <1>11 DEF Reconciled, NoJob, Goto
<1>12. ASSUME NEW p \in Proc, TryServe(p) PROVE Timed'
    BY <1>12 DEF TryServe, Goto
<1>13. ASSUME NEW p \in Proc, Drop(p) PROVE Timed'
  <2>1. (\A r \in Run : stamp[r] = 0 => state[r] = "none")'
    BY <1>13 DEF Drop, Abandoned, Queued, Goto
  <2>2. (\A q \in Proc : pc[q] \notin {"idle", "stamp"} \cup Serving => stamp[job[q].run] # 0)'
    BY <1>13 DEF Drop, Abandoned, Queued, Goto
  <2>3. (\A q \in Proc : \A r \in job[q].todo : state[r] # "none")'
    BY <1>13 DEF Drop, Abandoned, Queued, Goto, Job
  <2>. QED  BY <2>1, <2>2, <2>3
<1>14. ASSUME NEW p \in Proc, PickRun(p) PROVE Timed'
  <2>1. (\A r \in Run : stamp[r] = 0 => state[r] = "none")'
    BY <1>14 DEF PickRun, Servable, Queued, OwnerState, Goto, Job
  <2>2. (\A q \in Proc : pc[q] \notin {"idle", "stamp"} \cup Serving => stamp[job[q].run] # 0)'
    BY <1>14 DEF PickRun, Servable, Queued, OwnerState, Goto, Job
  <2>3. (\A q \in Proc : \A r \in job[q].todo : state[r] # "none")'
    BY <1>14 DEF PickRun, Servable, Queued, OwnerState, Goto, Job, Job
  <2>. QED  BY <2>1, <2>2, <2>3
<1>15. ASSUME NEW p \in Proc, LeaveQueue(p) PROVE Timed'
    BY <1>15 DEF LeaveQueue, Goto
<1>16. ASSUME NEW p \in Proc, Look(p) PROVE Timed'
  <2>1. (\A r \in Run : stamp[r] = 0 => state[r] = "none")'
    BY <1>16 DEF Look, Done, NoJob, SetState, Goto, Job
  <2>2. (\A q \in Proc : pc[q] \notin {"idle", "stamp"} \cup Serving => stamp[job[q].run] # 0)'
    BY <1>16 DEF Look, Done, NoJob, SetState, Goto, Job
  <2>3. (\A q \in Proc : \A r \in job[q].todo : state[r] # "none")'
    BY <1>16 DEF Look, Done, NoJob, SetState, Goto, Job, Job
  <2>. QED  BY <2>1, <2>2, <2>3
<1>17. ASSUME NEW p \in Proc, CheckAhead(p) PROVE Timed'
    BY <1>17 DEF CheckAhead, Goto
<1>18. ASSUME NEW p \in Proc, TakeGpu(p) PROVE Timed'
    BY <1>18 DEF TakeGpu, Goto
<1>19. ASSUME NEW p \in Proc, BeginRun(p) PROVE Timed'
    BY <1>19 DEF BeginRun, SetState, Goto
<1>20. ASSUME NEW p \in Proc, CheckCancel(p) PROVE Timed'
  <2>1. (\A r \in Run : stamp[r] = 0 => state[r] = "none")'
    BY <1>20 DEF CheckCancel, SetState, Goto
  <2>2. (\A q \in Proc : pc[q] \notin {"idle", "stamp"} \cup Serving => stamp[job[q].run] # 0)'
    BY <1>20 DEF CheckCancel, SetState, Goto
  <2>3. (\A q \in Proc : \A r \in job[q].todo : state[r] # "none")'
    BY <1>20 DEF CheckCancel, SetState, Goto, Job
  <2>. QED  BY <2>1, <2>2, <2>3
<1>21. ASSUME NEW p \in Proc, Popen(p) PROVE Timed'
    BY <1>21 DEF Popen, Goto
<1>22. ASSUME NEW p \in Proc, RecordPid(p) PROVE Timed'
    BY <1>22 DEF RecordPid, SetState, Goto
<1>23. ASSUME NEW p \in Proc, Exited(p) PROVE Timed'
  <2>1. (\A r \in Run : stamp[r] = 0 => state[r] = "none")'
    BY <1>23 DEF Exited, SetState, Goto
  <2>2. (\A q \in Proc : pc[q] \notin {"idle", "stamp"} \cup Serving => stamp[job[q].run] # 0)'
    BY <1>23 DEF Exited, SetState, Goto
  <2>3. (\A q \in Proc : \A r \in job[q].todo : state[r] # "none")'
    BY <1>23 DEF Exited, SetState, Goto, Job
  <2>. QED  BY <2>1, <2>2, <2>3
<1>24. ASSUME NEW p \in Proc, Publish(p) PROVE Timed'
  <2>1. (\A r \in Run : stamp[r] = 0 => state[r] = "none")'
    BY <1>24 DEF Publish, SetState, Goto
  <2>2. (\A q \in Proc : pc[q] \notin {"idle", "stamp"} \cup Serving => stamp[job[q].run] # 0)'
    BY <1>24 DEF Publish, SetState, Goto
  <2>3. (\A q \in Proc : \A r \in job[q].todo : state[r] # "none")'
    BY <1>24 DEF Publish, SetState, Goto, Job
  <2>. QED  BY <2>1, <2>2, <2>3
<1>25. ASSUME NEW p \in Proc, Fail(p) PROVE Timed'
  <2>1. (\A r \in Run : stamp[r] = 0 => state[r] = "none")'
    BY <1>25 DEF Fail, SetState, Goto
  <2>2. (\A q \in Proc : pc[q] \notin {"idle", "stamp"} \cup Serving => stamp[job[q].run] # 0)'
    BY <1>25 DEF Fail, SetState, Goto
  <2>3. (\A q \in Proc : \A r \in job[q].todo : state[r] # "none")'
    BY <1>25 DEF Fail, SetState, Goto, Job
  <2>. QED  BY <2>1, <2>2, <2>3
<1>26. ASSUME NEW p \in Proc, Settle(p) PROVE Timed'
    BY <1>26 DEF Settle, Done, NoJob, Goto
<1>27. ASSUME NEW p \in Proc, CancelMark(p) PROVE Timed'
    BY <1>27 DEF CancelMark, Goto
<1>28. ASSUME NEW p \in Proc, CancelAct(p) PROVE Timed'
  <2>1. (\A r \in Run : stamp[r] = 0 => state[r] = "none")'
    BY <1>28 DEF CancelAct, Done, NoJob, SetState, Goto
  <2>2. (\A q \in Proc : pc[q] \notin {"idle", "stamp"} \cup Serving => stamp[job[q].run] # 0)'
    BY <1>28 DEF CancelAct, Done, NoJob, SetState, Goto
  <2>3. (\A q \in Proc : \A r \in job[q].todo : state[r] # "none")'
    BY <1>28 DEF CancelAct, Done, NoJob, SetState, Goto, Job
  <2>. QED  BY <2>1, <2>2, <2>3
<1>29. ASSUME NEW p \in Proc, Crash(p) PROVE Timed'
    BY <1>29 DEF Crash, NoJob, Goto
<1>30. CASE UNCHANGED vars
  BY <1>30 DEF vars
<1>. QED
    BY [Next]_vars, <1>1, <1>2, <1>3, <1>4, <1>5, <1>6, <1>7, <1>8, <1>9, <1>10, <1>11, <1>12,
     <1>13, <1>14, <1>15, <1>16, <1>17, <1>18, <1>19, <1>20, <1>21, <1>22, <1>23, <1>24, <1>25,
     <1>26, <1>27, <1>28, <1>29, <1>30 DEF Next, Begin, Step


\* Nobody else hears of a run without a row.
LEMMA FreshNext ==
  ASSUME TypeOK, Timed, Fresh, [Next]_vars
  PROVE  Fresh'
<1>. USE RunQueueAssumption DEF TypeOK, Timed, Fresh, Active, Final, Submitting, Turning, OnGpu,
     Serving, Cancelling, RunQueueAssumption, Proc, tableVars, lockVars, history
<1>1. ASSUME NEW t \in Terminal, NEW r \in Run, NEW m \in Modes, Submit(t, r, m) PROVE Fresh'
    BY <1>1 DEF Submit, NoJob, Goto
<1>2. ASSUME NEW s \in Server, StartServer(s) PROVE Fresh'
    BY <1>2 DEF StartServer, NoJob, Goto
<1>3. ASSUME NEW c \in Canceller, NEW r \in Run, CancelRead(c, r) PROVE Fresh'
    BY <1>3 DEF CancelRead, NoJob, Goto
<1>4. ASSUME NEW r \in Run, TrainerExits(r) PROVE Fresh'
    BY <1>4 DEF TrainerExits
<1>5. ASSUME NEW p \in Proc, Stamp(p) PROVE Fresh'
  <2>1. (\A q \in Proc : pc[q] \in {"stamp", "insert"} => state[job[q].run] = "none")'
    BY <1>5 DEF Stamp, Goto
  <2>2. (\A q \in Proc : pc[q] \in {"stamp", "insert"} => \A o \in Proc \ {q} : job[o].run # job[q].run)'
    BY <1>5 DEF Stamp, Goto
  <2>. QED  BY <2>1, <2>2
<1>6. ASSUME NEW p \in Proc, Insert(p) PROVE Fresh'
  <2>1. (\A q \in Proc : pc[q] \in {"stamp", "insert"} => state[job[q].run] = "none")'
    BY <1>6 DEF Insert, SetState, Goto
  <2>2. (\A q \in Proc : pc[q] \in {"stamp", "insert"} => \A o \in Proc \ {q} : job[o].run # job[q].run)'
    BY <1>6 DEF Insert, SetState, Goto
  <2>. QED  BY <2>1, <2>2
<1>7. ASSUME NEW p \in Proc, AddAttempt(p) PROVE Fresh'
    BY <1>7 DEF AddAttempt, Done, NoJob, Goto
<1>8. ASSUME NEW p \in Proc, Probe(p) PROVE Fresh'
    BY <1>8 DEF Probe, Done, NoJob, Goto
<1>9. ASSUME NEW p \in Proc, StartWorker(p) PROVE Fresh'
    BY <1>9 DEF StartWorker, NoJob, Goto
<1>10. ASSUME NEW p \in Proc, ReconcileRun(p) PROVE Fresh'
    BY <1>10 DEF ReconcileRun, SetState
<1>11. ASSUME NEW p \in Proc, Reconciled(p) PROVE Fresh'
    BY <1>11 DEF Reconciled, NoJob, Goto
<1>12. ASSUME NEW p \in Proc, TryServe(p) PROVE Fresh'
  <2>1. (\A q \in Proc : pc[q] \in {"stamp", "insert"} => state[job[q].run] = "none")'
    BY <1>12 DEF TryServe, Goto
  <2>2. (\A q \in Proc : pc[q] \in {"stamp", "insert"} => \A o \in Proc \ {q} : job[o].run # job[q].run)'
    BY <1>12 DEF TryServe, Goto
  <2>. QED  BY <2>1, <2>2
<1>13. ASSUME NEW p \in Proc, Drop(p) PROVE Fresh'
    BY <1>13 DEF Drop, Abandoned, Queued, Goto
<1>14. ASSUME NEW p \in Proc, PickRun(p) PROVE Fresh'
  <2>1. UNCHANGED state /\ pc[p] = "pick" /\ pc'[p] \notin {"stamp", "insert"}
    BY <1>14, Picked DEF PickRun
  <2>2. \A q \in Proc \ {p} : pc'[q] = pc[q] /\ job'[q] = job[q]
    BY <1>14, Picked
  <2>3. job'[p] = job[p] \/ job'[p].run \in Queued
    BY <1>14, Picked
  <2>4. \A q \in Proc : pc[q] \in {"stamp", "insert"} => job[q].run \notin Queued
    BY DEF Queued
  <2>. QED  BY <2>1, <2>2, <2>3, <2>4
<1>15. ASSUME NEW p \in Proc, LeaveQueue(p) PROVE Fresh'
    BY <1>15 DEF LeaveQueue, Goto
<1>16. ASSUME NEW p \in Proc, Look(p) PROVE Fresh'
  <2>1. \A q \in Proc : job'[q].run = job[q].run \/ job'[q].run = NoRun
    BY <1>16 DEF Look, Done, NoJob, Job, Goto
  <2>2. \A q \in Proc : pc'[q] \in {"stamp", "insert"} => pc[q] = pc'[q] /\ q # p /\ job'[q].run = job[q].run
    BY <1>16 DEF Look, Done, Goto
  <2>3. \A r \in Run \ {job[p].run} : state'[r] = state[r]
    BY <1>16 DEF Look, SetState
  <2>. QED  BY <2>1, <2>2, <2>3
<1>17. ASSUME NEW p \in Proc, CheckAhead(p) PROVE Fresh'
    BY <1>17 DEF CheckAhead, Goto
<1>18. ASSUME NEW p \in Proc, TakeGpu(p) PROVE Fresh'
    BY <1>18 DEF TakeGpu, Goto
<1>19. ASSUME NEW p \in Proc, BeginRun(p) PROVE Fresh'
    BY <1>19 DEF BeginRun, SetState, Goto
<1>20. ASSUME NEW p \in Proc, CheckCancel(p) PROVE Fresh'
    BY <1>20 DEF CheckCancel, SetState, Goto
<1>21. ASSUME NEW p \in Proc, Popen(p) PROVE Fresh'
    BY <1>21 DEF Popen, Goto
<1>22. ASSUME NEW p \in Proc, RecordPid(p) PROVE Fresh'
    BY <1>22 DEF RecordPid, SetState, Goto
<1>23. ASSUME NEW p \in Proc, Exited(p) PROVE Fresh'
    BY <1>23 DEF Exited, SetState, Goto
<1>24. ASSUME NEW p \in Proc, Publish(p) PROVE Fresh'
    BY <1>24 DEF Publish, SetState, Goto
<1>25. ASSUME NEW p \in Proc, Fail(p) PROVE Fresh'
    BY <1>25 DEF Fail, SetState, Goto
<1>26. ASSUME NEW p \in Proc, Settle(p) PROVE Fresh'
    BY <1>26 DEF Settle, Done, NoJob, Goto
<1>27. ASSUME NEW p \in Proc, CancelMark(p) PROVE Fresh'
    BY <1>27 DEF CancelMark, Goto
<1>28. ASSUME NEW p \in Proc, CancelAct(p) PROVE Fresh'
    BY <1>28 DEF CancelAct, Done, NoJob, SetState, Goto
<1>29. ASSUME NEW p \in Proc, Crash(p) PROVE Fresh'
    BY <1>29 DEF Crash, NoJob, Goto
<1>30. CASE UNCHANGED vars
  BY <1>30 DEF vars
<1>. QED
    BY [Next]_vars, <1>1, <1>2, <1>3, <1>4, <1>5, <1>6, <1>7, <1>8, <1>9, <1>10, <1>11, <1>12,
     <1>13, <1>14, <1>15, <1>16, <1>17, <1>18, <1>19, <1>20, <1>21, <1>22, <1>23, <1>24, <1>25,
     <1>26, <1>27, <1>28, <1>29, <1>30 DEF Next, Begin, Step


\* Claims are made when a run is submitted, and never changed.
LEMMA ClaimsNext ==
  ASSUME TypeOK, Roles, Fresh, Claims, [Next]_vars
  PROVE  Claims'
<1>. USE RunQueueAssumption DEF TypeOK, Roles, Fresh, Claims, Own, Submitting, Turning, OnGpu,
     Serving, Cancelling, RunQueueAssumption, Proc, tableVars, lockVars, history
<1>1. ASSUME NEW t \in Terminal, NEW r \in Run, NEW m \in Modes, Submit(t, r, m) PROVE Claims'
    BY <1>1 DEF Submit, NoJob, Goto
<1>2. ASSUME NEW s \in Server, StartServer(s) PROVE Claims'
    BY <1>2 DEF StartServer, NoJob, Goto
<1>3. ASSUME NEW c \in Canceller, NEW r \in Run, CancelRead(c, r) PROVE Claims'
    BY <1>3 DEF CancelRead, NoJob, Goto
<1>4. ASSUME NEW r \in Run, TrainerExits(r) PROVE Claims'
    BY <1>4 DEF TrainerExits
<1>5. ASSUME NEW p \in Proc, Stamp(p) PROVE Claims'
    BY <1>5 DEF Stamp, Goto
<1>6. ASSUME NEW p \in Proc, Insert(p) PROVE Claims'
    BY <1>6 DEF Insert, SetState, Goto
<1>7. ASSUME NEW p \in Proc, AddAttempt(p) PROVE Claims'
    BY <1>7 DEF AddAttempt, Done, NoJob, Goto
<1>8. ASSUME NEW p \in Proc, Probe(p) PROVE Claims'
    BY <1>8 DEF Probe, Done, NoJob, Goto
<1>9. ASSUME NEW p \in Proc, StartWorker(p) PROVE Claims'
    BY <1>9 DEF StartWorker, NoJob, Goto
<1>10. ASSUME NEW p \in Proc, ReconcileRun(p) PROVE Claims'
    BY <1>10 DEF ReconcileRun, SetState
<1>11. ASSUME NEW p \in Proc, Reconciled(p) PROVE Claims'
    BY <1>11 DEF Reconciled, NoJob, Goto
<1>12. ASSUME NEW p \in Proc, TryServe(p) PROVE Claims'
    BY <1>12 DEF TryServe, Goto
<1>13. ASSUME NEW p \in Proc, Drop(p) PROVE Claims'
    BY <1>13 DEF Drop, Abandoned, Queued, Goto
<1>14. ASSUME NEW p \in Proc, PickRun(p) PROVE Claims'
    BY <1>14 DEF PickRun, Servable, Queued, OwnerState, Goto, Job
<1>15. ASSUME NEW p \in Proc, LeaveQueue(p) PROVE Claims'
    BY <1>15 DEF LeaveQueue, Goto
<1>16. ASSUME NEW p \in Proc, Look(p) PROVE Claims'
    BY <1>16 DEF Look, Done, NoJob, SetState, Goto, Job
<1>17. ASSUME NEW p \in Proc, CheckAhead(p) PROVE Claims'
    BY <1>17 DEF CheckAhead, Goto
<1>18. ASSUME NEW p \in Proc, TakeGpu(p) PROVE Claims'
    BY <1>18 DEF TakeGpu, Goto
<1>19. ASSUME NEW p \in Proc, BeginRun(p) PROVE Claims'
    BY <1>19 DEF BeginRun, SetState, Goto
<1>20. ASSUME NEW p \in Proc, CheckCancel(p) PROVE Claims'
    BY <1>20 DEF CheckCancel, SetState, Goto
<1>21. ASSUME NEW p \in Proc, Popen(p) PROVE Claims'
    BY <1>21 DEF Popen, Goto
<1>22. ASSUME NEW p \in Proc, RecordPid(p) PROVE Claims'
    BY <1>22 DEF RecordPid, SetState, Goto
<1>23. ASSUME NEW p \in Proc, Exited(p) PROVE Claims'
    BY <1>23 DEF Exited, SetState, Goto
<1>24. ASSUME NEW p \in Proc, Publish(p) PROVE Claims'
    BY <1>24 DEF Publish, SetState, Goto
<1>25. ASSUME NEW p \in Proc, Fail(p) PROVE Claims'
    BY <1>25 DEF Fail, SetState, Goto
<1>26. ASSUME NEW p \in Proc, Settle(p) PROVE Claims'
    BY <1>26 DEF Settle, Done, NoJob, Goto
<1>27. ASSUME NEW p \in Proc, CancelMark(p) PROVE Claims'
    BY <1>27 DEF CancelMark, Goto
<1>28. ASSUME NEW p \in Proc, CancelAct(p) PROVE Claims'
    BY <1>28 DEF CancelAct, Done, NoJob, SetState, Goto
<1>29. ASSUME NEW p \in Proc, Crash(p) PROVE Claims'
    BY <1>29 DEF Crash, NoJob, Goto
<1>30. CASE UNCHANGED vars
  BY <1>30 DEF vars
<1>. QED
    BY [Next]_vars, <1>1, <1>2, <1>3, <1>4, <1>5, <1>6, <1>7, <1>8, <1>9, <1>10, <1>11, <1>12,
     <1>13, <1>14, <1>15, <1>16, <1>17, <1>18, <1>19, <1>20, <1>21, <1>22, <1>23, <1>24, <1>25,
     <1>26, <1>27, <1>28, <1>29, <1>30 DEF Next, Begin, Step


\* A run has one executor.
LEMMA OneExecutor ==
  ASSUME TypeOK, Locks, Claims, NEW p \in Proc, NEW q \in Proc,
         Own(p), Own(q), job[p].run = job[q].run
  PROVE  p = q
BY RunQueueAssumption DEF RunQueueAssumption, TypeOK, Locks, Roles, ServesAlone, Claims, Own, Proc,
   Submitting, Turning, OnGpu, Serving, Cancelling

\* A trainer is started by the run's one executor, after the record left the queue.
LEMMA UnstartedNext ==
  ASSUME TypeOK, Locks, Timed, Fresh, Claims, Unstarted, Started, [Next]_vars
  PROVE  Unstarted'
<1>. USE RunQueueAssumption DEF TypeOK, Unstarted, Own, State, Active, Final, Submitting, Turning,
     OnGpu, Serving, Cancelling, RunQueueAssumption, Proc, tableVars, lockVars, history
<1>1. ASSUME NEW t \in Terminal, NEW r \in Run, NEW m \in Modes, Submit(t, r, m) PROVE Unstarted'
  <2>1. state[r] = "none" /\ trainer[r] = "none"
    BY <1>1 DEF Submit, Timed
  <2>. QED  BY <1>1, <2>1 DEF Submit, NoJob, Goto
<1>2. ASSUME NEW s \in Server, StartServer(s) PROVE Unstarted'
    BY <1>2 DEF StartServer, NoJob, Goto
<1>3. ASSUME NEW c \in Canceller, NEW r \in Run, CancelRead(c, r) PROVE Unstarted'
    BY <1>3 DEF CancelRead, NoJob, Goto
<1>4. ASSUME NEW r \in Run, TrainerExits(r) PROVE Unstarted'
    BY <1>4 DEF TrainerExits
<1>5. ASSUME NEW p \in Proc, Stamp(p) PROVE Unstarted'
    BY <1>5 DEF Stamp, Goto
<1>6. ASSUME NEW p \in Proc, Insert(p) PROVE Unstarted'
  <2>1. trainer[job[p].run] = "none" /\ \A q \in Proc \ {p} : job[q].run # job[p].run
    BY <1>6 DEF Insert, Fresh
  <2>. QED  BY <1>6, <2>1 DEF Insert, SetState, Goto
<1>7. ASSUME NEW p \in Proc, AddAttempt(p) PROVE Unstarted'
    BY <1>7 DEF AddAttempt, Done, NoJob, Goto
<1>8. ASSUME NEW p \in Proc, Probe(p) PROVE Unstarted'
    BY <1>8 DEF Probe, Done, NoJob, Goto
<1>9. ASSUME NEW p \in Proc, StartWorker(p) PROVE Unstarted'
    BY <1>9 DEF StartWorker, NoJob, Goto
<1>10. ASSUME NEW p \in Proc, ReconcileRun(p) PROVE Unstarted'
    BY <1>10 DEF ReconcileRun, SetState
<1>11. ASSUME NEW p \in Proc, Reconciled(p) PROVE Unstarted'
    BY <1>11 DEF Reconciled, NoJob, Goto
<1>12. ASSUME NEW p \in Proc, TryServe(p) PROVE Unstarted'
    BY <1>12 DEF TryServe, Goto
<1>13. ASSUME NEW p \in Proc, Drop(p) PROVE Unstarted'
    BY <1>13 DEF Drop, Abandoned, Queued, Goto
<1>14. ASSUME NEW p \in Proc, PickRun(p) PROVE Unstarted'
    BY <1>14 DEF PickRun, Servable, Queued, OwnerState, Goto, Job
<1>15. ASSUME NEW p \in Proc, LeaveQueue(p) PROVE Unstarted'
    BY <1>15 DEF LeaveQueue, Goto
<1>16. ASSUME NEW p \in Proc, Look(p) PROVE Unstarted'
  <2>1. UNCHANGED trainer /\ pc[p] = "look"
    BY <1>16 DEF Look
  <2>2. \A q \in Proc \ {p} : pc'[q] = pc[q] /\ job'[q] = job[q]
    BY <1>16, Looked
  <2>3. \/ pc'[p] \in {"next", "idle"}
        \/ pc'[p] = "drop" /\ job'[p].run = job[p].run
    BY <1>16, Looked
  <2>4. \A r \in Run : state'[r] = state[r] \/ state'[r] = "cancelled"
    BY <1>16, Looked
  <2>. QED  BY <2>1, <2>2, <2>3, <2>4
<1>17. ASSUME NEW p \in Proc, CheckAhead(p) PROVE Unstarted'
    BY <1>17 DEF CheckAhead, Goto
<1>18. ASSUME NEW p \in Proc, TakeGpu(p) PROVE Unstarted'
    BY <1>18 DEF TakeGpu, Goto
<1>19. ASSUME NEW p \in Proc, BeginRun(p) PROVE Unstarted'
    BY <1>19 DEF BeginRun, SetState, Goto
<1>20. ASSUME NEW p \in Proc, CheckCancel(p) PROVE Unstarted'
    BY <1>20 DEF CheckCancel, SetState, Goto
<1>21. ASSUME NEW p \in Proc, Popen(p) PROVE Unstarted'
  <2>1. \A q \in Proc \ {p} : Own(q) => job[q].run # job[p].run
    BY <1>21, OneExecutor DEF Popen
  <2>2. state[job[p].run] \notin {"none", "queued"}
    BY <1>21 DEF Popen
  <2>3. \A q \in Proc : Own(q)' => Own(q) /\ job'[q] = job[q] /\ (q # p => pc'[q] = pc[q])
    BY <1>21 DEF Popen, Goto
  <2>. QED  BY <1>21, <2>1, <2>2, <2>3 DEF Popen, Goto
<1>22. ASSUME NEW p \in Proc, RecordPid(p) PROVE Unstarted'
    BY <1>22 DEF RecordPid, SetState, Goto
<1>23. ASSUME NEW p \in Proc, Exited(p) PROVE Unstarted'
    BY <1>23 DEF Exited, SetState, Goto
<1>24. ASSUME NEW p \in Proc, Publish(p) PROVE Unstarted'
    BY <1>24 DEF Publish, SetState, Goto
<1>25. ASSUME NEW p \in Proc, Fail(p) PROVE Unstarted'
    BY <1>25 DEF Fail, SetState, Goto
<1>26. ASSUME NEW p \in Proc, Settle(p) PROVE Unstarted'
    BY <1>26 DEF Settle, Done, NoJob, Goto
<1>27. ASSUME NEW p \in Proc, CancelMark(p) PROVE Unstarted'
    BY <1>27 DEF CancelMark, Goto
<1>28. ASSUME NEW p \in Proc, CancelAct(p) PROVE Unstarted'
  <2>1. \A r \in Run : state'[r] = state[r] \/ state'[r] = "cancelled"
    BY <1>28 DEF CancelAct, SetState
  <2>2. \A r \in Run : trainer[r] = "none" => trainer'[r] = "none"
    BY <1>28 DEF CancelAct, Started
  <2>3. \A q \in Proc : (pc'[q] = pc[q] /\ job'[q] = job[q]) \/ pc'[q] \in {"idle", "next"}
    BY <1>28 DEF CancelAct, Done, Goto
  <2>. QED  BY <2>1, <2>2, <2>3
<1>29. ASSUME NEW p \in Proc, Crash(p) PROVE Unstarted'
    BY <1>29 DEF Crash, NoJob, Goto
<1>30. CASE UNCHANGED vars
  BY <1>30 DEF vars
<1>. QED
    BY [Next]_vars, <1>1, <1>2, <1>3, <1>4, <1>5, <1>6, <1>7, <1>8, <1>9, <1>10, <1>11, <1>12,
     <1>13, <1>14, <1>15, <1>16, <1>17, <1>18, <1>19, <1>20, <1>21, <1>22, <1>23, <1>24, <1>25,
     <1>26, <1>27, <1>28, <1>29, <1>30 DEF Next, Begin, Step


\* A trainer that has started stays so.
LEMMA StartedNext ==
  ASSUME TypeOK, Locks, Fresh, Claims, Unstarted, Started, [Next]_vars
  PROVE  Started'
<1>. USE RunQueueAssumption DEF TypeOK, Started, Submitting, Turning, OnGpu, Serving, Cancelling,
     RunQueueAssumption, Proc, tableVars, lockVars, history
<1>1. ASSUME NEW t \in Terminal, NEW r \in Run, NEW m \in Modes, Submit(t, r, m) PROVE Started'
    BY <1>1 DEF Submit, NoJob, Goto
<1>2. ASSUME NEW s \in Server, StartServer(s) PROVE Started'
    BY <1>2 DEF StartServer, NoJob, Goto
<1>3. ASSUME NEW c \in Canceller, NEW r \in Run, CancelRead(c, r) PROVE Started'
    BY <1>3 DEF CancelRead, NoJob, Goto
<1>4. ASSUME NEW r \in Run, TrainerExits(r) PROVE Started'
    BY <1>4 DEF TrainerExits
<1>5. ASSUME NEW p \in Proc, Stamp(p) PROVE Started'
    BY <1>5 DEF Stamp, Goto
<1>6. ASSUME NEW p \in Proc, Insert(p) PROVE Started'
    BY <1>6 DEF Insert, SetState, Goto
<1>7. ASSUME NEW p \in Proc, AddAttempt(p) PROVE Started'
    BY <1>7 DEF AddAttempt, Done, NoJob, Goto
<1>8. ASSUME NEW p \in Proc, Probe(p) PROVE Started'
    BY <1>8 DEF Probe, Done, NoJob, Goto
<1>9. ASSUME NEW p \in Proc, StartWorker(p) PROVE Started'
    BY <1>9 DEF StartWorker, NoJob, Goto
<1>10. ASSUME NEW p \in Proc, ReconcileRun(p) PROVE Started'
    BY <1>10 DEF ReconcileRun, SetState
<1>11. ASSUME NEW p \in Proc, Reconciled(p) PROVE Started'
    BY <1>11 DEF Reconciled, NoJob, Goto
<1>12. ASSUME NEW p \in Proc, TryServe(p) PROVE Started'
    BY <1>12 DEF TryServe, Goto
<1>13. ASSUME NEW p \in Proc, Drop(p) PROVE Started'
    BY <1>13 DEF Drop, Abandoned, Queued, Goto
<1>14. ASSUME NEW p \in Proc, PickRun(p) PROVE Started'
    BY <1>14 DEF PickRun, Servable, Queued, OwnerState, Goto, Job
<1>15. ASSUME NEW p \in Proc, LeaveQueue(p) PROVE Started'
    BY <1>15 DEF LeaveQueue, Goto
<1>16. ASSUME NEW p \in Proc, Look(p) PROVE Started'
  <2>1. \A q \in Proc : job'[q].known = job[q].known \/ job'[q].known = {}
    BY <1>16 DEF Look, Done, NoJob, Job, Goto
  <2>2. \A q \in Proc : (pc'[q] = pc[q] /\ job'[q] = job[q]) \/ pc'[q] \in {"idle", "next", "drop"}
    BY <1>16 DEF Look, Done, Goto
  <2>3. UNCHANGED <<trainer, pids>>
    BY <1>16 DEF Look
  <2>. QED  BY <2>1, <2>2, <2>3
<1>17. ASSUME NEW p \in Proc, CheckAhead(p) PROVE Started'
    BY <1>17 DEF CheckAhead, Goto
<1>18. ASSUME NEW p \in Proc, TakeGpu(p) PROVE Started'
    BY <1>18 DEF TakeGpu, Goto
<1>19. ASSUME NEW p \in Proc, BeginRun(p) PROVE Started'
    BY <1>19 DEF BeginRun, SetState, Goto
<1>20. ASSUME NEW p \in Proc, CheckCancel(p) PROVE Started'
  <2>1. trainer[job[p].run] = "none"
    BY <1>20 DEF CheckCancel, Unstarted, Own
  <2>. QED  BY <1>20, <2>1 DEF CheckCancel, Goto
<1>21. ASSUME NEW p \in Proc, Popen(p) PROVE Started'
  <2>1. \A q \in Proc \ {p} : Own(q) => job[q].run # job[p].run
    BY <1>21, OneExecutor DEF Popen, Own
  <2>2. \A q \in Proc : pc[q] \in OnGpu => Own(q)
    BY DEF Own
  <2>. QED  BY <1>21, <2>1, <2>2 DEF Popen, Goto
<1>22. ASSUME NEW p \in Proc, RecordPid(p) PROVE Started'
  BY <1>22 DEF RecordPid, SetState, Goto
<1>23. ASSUME NEW p \in Proc, Exited(p) PROVE Started'
    BY <1>23 DEF Exited, SetState, Goto
<1>24. ASSUME NEW p \in Proc, Publish(p) PROVE Started'
    BY <1>24 DEF Publish, SetState, Goto
<1>25. ASSUME NEW p \in Proc, Fail(p) PROVE Started'
  <2>1. trainer[job[p].run] # "alive"
    BY <1>25 DEF Fail, Unstarted, Own
  <2>. QED  BY <1>25, <2>1 DEF Fail, Goto
<1>26. ASSUME NEW p \in Proc, Settle(p) PROVE Started'
    BY <1>26 DEF Settle, Done, NoJob, Goto
<1>27. ASSUME NEW p \in Proc, CancelMark(p) PROVE Started'
    BY <1>27 DEF CancelMark, Goto
<1>28. ASSUME NEW p \in Proc, CancelAct(p) PROVE Started'
  <2>1. \A r \in Run : trainer'[r] = trainer[r] \/ (trainer[r] # "none" /\ trainer'[r] = "exited")
    <3>1. job[p].run \in Run /\ (job[p].run \in job[p].known => trainer[job[p].run] # "none")
      BY <1>28 DEF CancelAct
    <3>2. CASE job[p].queued
      BY <1>28, <3>2 DEF CancelAct
    <3>3. CASE ~job[p].queued
      <4>1. trainer' = IF job[p].run \in job[p].known THEN [trainer EXCEPT ![job[p].run] = "exited"] ELSE trainer
        BY <1>28, <3>3 DEF CancelAct
      <4>. QED  BY <3>1, <4>1
    <3>. QED  BY <3>2, <3>3
  <2>2. \A q \in Proc : (pc'[q] = pc[q] /\ job'[q] = job[q]) \/ pc'[q] \in {"idle", "next"}
    BY <1>28 DEF CancelAct, Done, NoJob, Goto
  <2>3. UNCHANGED pids /\ pids \subseteq Run
    BY <1>28 DEF CancelAct
  <2>4. \A q \in Proc : job[q].known \subseteq Run /\ (pc[q] \in OnGpu => job[q].run \in Run)
    BY DEF Job
  <2>5. \A q \in Proc : job'[q].known = job[q].known \/ job'[q].known = {}
    BY <1>28 DEF CancelAct, Done, NoJob, Job
  <2>. QED  BY <2>1, <2>2, <2>3, <2>4, <2>5
<1>29. ASSUME NEW p \in Proc, Crash(p) PROVE Started'
    BY <1>29 DEF Crash, NoJob, Goto
<1>30. CASE UNCHANGED vars
  BY <1>30 DEF vars
<1>. QED
    BY [Next]_vars, <1>1, <1>2, <1>3, <1>4, <1>5, <1>6, <1>7, <1>8, <1>9, <1>10, <1>11, <1>12,
     <1>13, <1>14, <1>15, <1>16, <1>17, <1>18, <1>19, <1>20, <1>21, <1>22, <1>23, <1>24, <1>25,
     <1>26, <1>27, <1>28, <1>29, <1>30 DEF Next, Begin, Step


\* A trainer is started once.
LEMMA CountedNext ==
  ASSUME TypeOK, Unstarted, Started, Counted, [Next]_vars
  PROVE  Counted'
<1>. USE RunQueueAssumption DEF TypeOK, Counted, Submitting, Turning, OnGpu, Serving, Cancelling,
     RunQueueAssumption, Proc, tableVars, lockVars, history
<1>1. ASSUME NEW t \in Terminal, NEW r \in Run, NEW m \in Modes, Submit(t, r, m) PROVE Counted'
    BY <1>1 DEF Submit, NoJob, Goto
<1>2. ASSUME NEW s \in Server, StartServer(s) PROVE Counted'
    BY <1>2 DEF StartServer, NoJob, Goto
<1>3. ASSUME NEW c \in Canceller, NEW r \in Run, CancelRead(c, r) PROVE Counted'
    BY <1>3 DEF CancelRead, NoJob, Goto
<1>4. ASSUME NEW r \in Run, TrainerExits(r) PROVE Counted'
    BY <1>4 DEF TrainerExits
<1>5. ASSUME NEW p \in Proc, Stamp(p) PROVE Counted'
    BY <1>5 DEF Stamp, Goto
<1>6. ASSUME NEW p \in Proc, Insert(p) PROVE Counted'
    BY <1>6 DEF Insert, SetState, Goto
<1>7. ASSUME NEW p \in Proc, AddAttempt(p) PROVE Counted'
    BY <1>7 DEF AddAttempt, Done, NoJob, Goto
<1>8. ASSUME NEW p \in Proc, Probe(p) PROVE Counted'
    BY <1>8 DEF Probe, Done, NoJob, Goto
<1>9. ASSUME NEW p \in Proc, StartWorker(p) PROVE Counted'
    BY <1>9 DEF StartWorker, NoJob, Goto
<1>10. ASSUME NEW p \in Proc, ReconcileRun(p) PROVE Counted'
    BY <1>10 DEF ReconcileRun, SetState
<1>11. ASSUME NEW p \in Proc, Reconciled(p) PROVE Counted'
    BY <1>11 DEF Reconciled, NoJob, Goto
<1>12. ASSUME NEW p \in Proc, TryServe(p) PROVE Counted'
    BY <1>12 DEF TryServe, Goto
<1>13. ASSUME NEW p \in Proc, Drop(p) PROVE Counted'
    BY <1>13 DEF Drop, Abandoned, Queued, Goto
<1>14. ASSUME NEW p \in Proc, PickRun(p) PROVE Counted'
    BY <1>14 DEF PickRun, Servable, Queued, OwnerState, Goto, Job
<1>15. ASSUME NEW p \in Proc, LeaveQueue(p) PROVE Counted'
    BY <1>15 DEF LeaveQueue, Goto
<1>16. ASSUME NEW p \in Proc, Look(p) PROVE Counted'
    BY <1>16 DEF Look, Done, NoJob, SetState, Goto, Job
<1>17. ASSUME NEW p \in Proc, CheckAhead(p) PROVE Counted'
    BY <1>17 DEF CheckAhead, Goto
<1>18. ASSUME NEW p \in Proc, TakeGpu(p) PROVE Counted'
    BY <1>18 DEF TakeGpu, Goto
<1>19. ASSUME NEW p \in Proc, BeginRun(p) PROVE Counted'
    BY <1>19 DEF BeginRun, SetState, Goto
<1>20. ASSUME NEW p \in Proc, CheckCancel(p) PROVE Counted'
    BY <1>20 DEF CheckCancel, SetState, Goto
<1>21. ASSUME NEW p \in Proc, Popen(p) PROVE Counted'
  <2>1. trainer[job[p].run] = "none"
    BY <1>21 DEF Popen, Unstarted, Own
  <2>. QED  BY <1>21, <2>1 DEF Popen
<1>22. ASSUME NEW p \in Proc, RecordPid(p) PROVE Counted'
    BY <1>22 DEF RecordPid, SetState, Goto
<1>23. ASSUME NEW p \in Proc, Exited(p) PROVE Counted'
    BY <1>23 DEF Exited, SetState, Goto
<1>24. ASSUME NEW p \in Proc, Publish(p) PROVE Counted'
    BY <1>24 DEF Publish, SetState, Goto
<1>25. ASSUME NEW p \in Proc, Fail(p) PROVE Counted'
    BY <1>25 DEF Fail, SetState, Goto
<1>26. ASSUME NEW p \in Proc, Settle(p) PROVE Counted'
    BY <1>26 DEF Settle, Done, NoJob, Goto
<1>27. ASSUME NEW p \in Proc, CancelMark(p) PROVE Counted'
    BY <1>27 DEF CancelMark, Goto
<1>28. ASSUME NEW p \in Proc, CancelAct(p) PROVE Counted'
  BY <1>28 DEF CancelAct, Started
<1>29. ASSUME NEW p \in Proc, Crash(p) PROVE Counted'
    BY <1>29 DEF Crash, NoJob, Goto
<1>30. CASE UNCHANGED vars
  BY <1>30 DEF vars
<1>. QED
    BY [Next]_vars, <1>1, <1>2, <1>3, <1>4, <1>5, <1>6, <1>7, <1>8, <1>9, <1>10, <1>11, <1>12,
     <1>13, <1>14, <1>15, <1>16, <1>17, <1>18, <1>19, <1>20, <1>21, <1>22, <1>23, <1>24, <1>25,
     <1>26, <1>27, <1>28, <1>29, <1>30 DEF Next, Begin, Step


\* Nothing has begun at the start.
LEMMA InvInit == Init => Inv
<1>. SUFFICES ASSUME Init PROVE Inv
  OBVIOUS
<1>1. TypeOK /\ Exclusive
  BY TypeInit, ExclusiveInit
<1>2. Locks
  BY DEF Init, Locks, Roles, ServesAlone, GpuInUse, Proc
<1>3. Timed /\ Fresh
  BY DEF Init, Timed, Fresh, NoJob
<1>4. Claims /\ Unstarted /\ Started /\ Counted
  BY DEF Init, Claims, Unstarted, Started, Counted, Own, Turning, OnGpu, NoJob
<1>. QED  BY <1>1, <1>2, <1>3, <1>4 DEF Inv

\* The invariant is inductive.
LEMMA InvNext == Inv /\ [Next]_vars => Inv'
BY TypeNext, ExclusiveNext, RolesNext, ServesNext, GpuNext, TimedNext, FreshNext, ClaimsNext,
   UnstartedNext, StartedNext, CountedNext DEF Inv, Locks

-----------------------------------------------------------------------------
(* What follows.                                                           *)

\* No run's trainer is started twice, by whichever process: a terminal, a
\* worker or a control plane, whoever of them dies, restarts or cancels.
THEOREM TrainsOnce == Spec => []RunsOnce
<1>1. Inv => RunsOnce
  BY DEF Inv, Counted, RunsOnce
<1>. QED  BY <1>1, InvInit, InvNext, PTL DEF Spec

\* A step that leaves locks and trainers alone, and its executor its run, is
\* none of Turns.
LEMMA StutterStep ==
  ASSUME Inv, UNCHANGED <<gpu, trainer, orphaned>>,
         NEW p \in Proc, pc[p] \notin OnGpu \/ job'[p].run = job[p].run,
         \A q \in Proc \ {p} : pc[q] \in OnGpu => job'[q].run = job[q].run
  PROVE  UNCHANGED T!vars
<1>1. Holder' = Holder
  <2>1. CASE gpu = NoOne
    BY <2>1 DEF Holder
  <2>2. CASE gpu # NoOne
    <3>1. gpu \in Proc /\ pc[gpu] \in OnGpu
      BY <2>2 DEF Inv, Locks, GpuInUse
    <3>. QED  BY <2>2, <3>1 DEF Holder
  <2>. QED  BY <2>1, <2>2
<1>2. Phase' = Phase
  BY DEF Phase
<1>. QED  BY <1>1, <1>2 DEF T!vars

\* Every step of RunQueue is a step of Turns or none.
LEMMA TurnsStep ==
  ASSUME Inv, [Next]_vars
  PROVE  [T!Next]_(T!vars)
<1>. USE RunQueueAssumption DEF RunQueueAssumption, Proc, tableVars, lockVars, history
<1>1. TypeOK
  BY DEF Inv
<1>2. ASSUME NEW t \in Terminal, NEW r \in Run, NEW m \in Modes, Submit(t, r, m) PROVE UNCHANGED T!vars
  BY <1>1, <1>2, StutterStep DEF Submit, TypeOK, OnGpu
<1>3. ASSUME NEW s \in Server, StartServer(s) PROVE UNCHANGED T!vars
  BY <1>1, <1>3, StutterStep DEF StartServer, TypeOK, OnGpu
<1>4. ASSUME NEW c \in Canceller, NEW r \in Run, CancelRead(c, r) PROVE UNCHANGED T!vars
  BY <1>1, <1>4, StutterStep DEF CancelRead, TypeOK, OnGpu
<1>5. ASSUME NEW p \in Proc, Stamp(p) PROVE UNCHANGED T!vars
  BY <1>1, <1>5, StutterStep DEF Stamp, TypeOK, OnGpu
<1>6. ASSUME NEW p \in Proc, Insert(p) PROVE UNCHANGED T!vars
  BY <1>1, <1>6, StutterStep DEF Insert, TypeOK, OnGpu
<1>7. ASSUME NEW p \in Proc, AddAttempt(p) PROVE UNCHANGED T!vars
  BY <1>1, <1>7, StutterStep DEF AddAttempt, Done, TypeOK, OnGpu
<1>8. ASSUME NEW p \in Proc, Probe(p) PROVE UNCHANGED T!vars
  BY <1>1, <1>8, StutterStep DEF Probe, Done, TypeOK, OnGpu
<1>9. ASSUME NEW p \in Proc, StartWorker(p) PROVE UNCHANGED T!vars
  BY <1>1, <1>9, StutterStep DEF StartWorker, TypeOK, OnGpu
<1>10. ASSUME NEW p \in Proc, ReconcileRun(p) PROVE UNCHANGED T!vars
  BY <1>1, <1>10, StutterStep DEF ReconcileRun, TypeOK, OnGpu
<1>11. ASSUME NEW p \in Proc, Reconciled(p) PROVE UNCHANGED T!vars
  BY <1>1, <1>11, StutterStep DEF Reconciled, TypeOK, OnGpu
<1>12. ASSUME NEW p \in Proc, TryServe(p) PROVE UNCHANGED T!vars
  BY <1>1, <1>12, StutterStep DEF TryServe, TypeOK, OnGpu
<1>13. ASSUME NEW p \in Proc, Drop(p) PROVE UNCHANGED T!vars
  BY <1>1, <1>13, StutterStep DEF Drop, TypeOK, OnGpu
<1>14. ASSUME NEW p \in Proc, PickRun(p) PROVE UNCHANGED T!vars
  BY <1>1, <1>14, StutterStep DEF PickRun, Job, TypeOK, OnGpu
<1>15. ASSUME NEW p \in Proc, LeaveQueue(p) PROVE UNCHANGED T!vars
  BY <1>1, <1>15, StutterStep DEF LeaveQueue, TypeOK, OnGpu
<1>16. ASSUME NEW p \in Proc, Look(p) PROVE UNCHANGED T!vars
  BY <1>1, <1>16, StutterStep DEF Look, Done, Job, TypeOK, OnGpu
<1>17. ASSUME NEW p \in Proc, CheckAhead(p) PROVE UNCHANGED T!vars
  BY <1>1, <1>17, StutterStep DEF CheckAhead, TypeOK, OnGpu
<1>18. ASSUME NEW p \in Proc, BeginRun(p) PROVE UNCHANGED T!vars
  BY <1>1, <1>18, StutterStep DEF BeginRun, TypeOK, OnGpu
<1>19. ASSUME NEW p \in Proc, CheckCancel(p) PROVE UNCHANGED T!vars
  BY <1>1, <1>19, StutterStep DEF CheckCancel, TypeOK, OnGpu
<1>20. ASSUME NEW p \in Proc, RecordPid(p) PROVE UNCHANGED T!vars
  BY <1>1, <1>20, StutterStep DEF RecordPid, TypeOK, OnGpu
<1>21. ASSUME NEW p \in Proc, Exited(p) PROVE UNCHANGED T!vars
  BY <1>1, <1>21, StutterStep DEF Exited, TypeOK, OnGpu
<1>22. ASSUME NEW p \in Proc, Publish(p) PROVE UNCHANGED T!vars
  BY <1>1, <1>22, StutterStep DEF Publish, TypeOK, OnGpu
<1>23. ASSUME NEW p \in Proc, Fail(p) PROVE UNCHANGED T!vars
  BY <1>1, <1>23, StutterStep DEF Fail, TypeOK, OnGpu
<1>24. ASSUME NEW p \in Proc, CancelMark(p) PROVE UNCHANGED T!vars
  BY <1>1, <1>24, StutterStep DEF CancelMark, TypeOK, OnGpu
<1>25. ASSUME NEW p \in Proc, TakeGpu(p) PROVE [T!Next]_(T!vars)
  <2>1. CASE gpu = NoOne
    <3>1. job[p].run \in Run /\ p # NoOne /\ pc[p] = "take"
      BY <1>1, <1>25 DEF TakeGpu, TypeOK, Serving
    <3>2. T!Take(job[p].run)
      BY <1>25, <2>1, <3>1 DEF TakeGpu, Holder, Phase, T!Take
    <3>. QED  BY <3>1, <3>2 DEF T!Next
  <2>2. CASE gpu # NoOne
    BY <1>1, <1>25, <2>2, StutterStep DEF TakeGpu, TypeOK, OnGpu
  <2>. QED  BY <2>1, <2>2
<1>26. ASSUME NEW p \in Proc, Popen(p) PROVE [T!Next]_(T!vars)
  <2>1. job[p].run \in Run /\ gpu = p /\ p # NoOne
    BY <1>1, <1>26 DEF Popen, TypeOK, Inv, Exclusive, OnGpu, Serving
  <2>2. trainer[job[p].run] = "none"
    BY <1>26 DEF Popen, Inv, Unstarted, Own, OnGpu
  <2>3. Holder = job[p].run /\ Holder' = Holder /\ Holder # NoRun
    BY <1>26, <2>1 DEF Popen, Holder
  <2>4. Phase[job[p].run] = "waiting" /\ Phase' = [Phase EXCEPT ![job[p].run] = "training"]
    BY <1>1, <1>26, <2>1, <2>2 DEF Popen, Phase, TypeOK
  <2>5. T!Start
    BY <1>26, <2>3, <2>4 DEF Popen, T!Start
  <2>. QED  BY <2>5 DEF T!Next
<1>27. ASSUME NEW p \in Proc, Settle(p) PROVE [T!Next]_(T!vars)
  <2>1. job[p].run \in Run /\ gpu = p /\ p # NoOne
    BY <1>1, <1>27 DEF Settle, TypeOK, Inv, Exclusive, OnGpu, Serving
  <2>2. trainer[job[p].run] # "alive"
    BY <1>27 DEF Settle, Inv, Started
  <2>3. Holder = job[p].run /\ Holder' = NoRun /\ Holder # NoRun
    BY <1>27, <2>1 DEF Settle, Holder
  <2>4. Phase[job[p].run] # "training" /\ Phase' = Phase
    BY <1>1, <1>27, <2>1, <2>2 DEF Settle, Phase, TypeOK
  <2>5. T!Give
    BY <1>27, <2>3, <2>4 DEF Settle, T!Give
  <2>. QED  BY <2>5 DEF T!Next
<1>28. ASSUME NEW p \in Proc, Crash(p) PROVE [T!Next]_(T!vars)
  <2>1. CASE pc[p] \in OnGpu
    <3>1. job[p].run \in Run /\ gpu = p /\ p # NoOne
      BY <1>1, <2>1 DEF TypeOK, Inv, Exclusive, OnGpu, Serving
    <3>2. Holder = job[p].run /\ Holder' = NoRun /\ Holder # NoRun
      BY <1>28, <3>1 DEF Crash, Holder
    <3>3. T!Lose
      BY <1>28, <2>1, <3>2 DEF Crash, Phase, T!Lose
    <3>. QED  BY <3>3 DEF T!Next
  <2>2. CASE pc[p] \notin OnGpu
    <3>1. gpu # p
      BY <2>2 DEF Inv, Locks, GpuInUse
    <3>. QED  BY <1>1, <1>28, <2>2, <3>1, StutterStep DEF Crash, TypeOK
  <2>. QED  BY <2>1, <2>2
<1>29. ASSUME NEW r \in Run, TrainerExits(r) PROVE [T!Next]_(T!vars)
  <2>1. Phase[r] = "training" /\ Phase' = [Phase EXCEPT ![r] = "trained"]
    BY <1>1, <1>29 DEF TrainerExits, Phase, TypeOK
  <2>2. T!End(r)
    BY <1>29, <2>1 DEF TrainerExits, Holder, T!End
  <2>. QED  BY <2>2 DEF T!Next
<1>30. ASSUME NEW p \in Proc, CancelAct(p) PROVE [T!Next]_(T!vars)
  <2>. DEFINE r == job[p].run
  <2>1. r \in Run /\ pc[p] = "act"
    BY <1>1, <1>30 DEF CancelAct, TypeOK, Serving
  <2>2. UNCHANGED <<gpu, orphaned>> /\ \A q \in Proc \ {p} : job'[q] = job[q]
    BY <1>1, <1>30 DEF CancelAct, Done, TypeOK
  <2>3. CASE trainer' = trainer
    BY <2>1, <2>2, <2>3, StutterStep DEF OnGpu
  <2>4. CASE trainer' # trainer
    <3>1. trainer' = [trainer EXCEPT ![r] = "exited"] /\ r \in job[p].known
      <4>1. CASE job[p].queued
        BY <1>30, <2>4, <4>1 DEF CancelAct
      <4>2. CASE ~job[p].queued
        BY <1>30, <2>4, <4>2 DEF CancelAct
      <4>. QED  BY <4>1, <4>2
    <3>2. trainer[r] = "alive"
      BY <1>1, <2>1, <2>4, <3>1 DEF Inv, Started, TypeOK
    <3>3. Phase[r] = "training" /\ Phase' = [Phase EXCEPT ![r] = "trained"]
      BY <1>1, <2>1, <3>1, <3>2 DEF Phase, TypeOK
    <3>4. Holder' = Holder
      <4>1. CASE gpu = NoOne
        BY <2>2, <4>1 DEF Holder
      <4>2. CASE gpu # NoOne
        <5>1. gpu \in Proc /\ gpu # p
          BY <2>1, <4>2 DEF Inv, Locks, GpuInUse, OnGpu
        <5>. QED  BY <2>2, <4>2, <5>1 DEF Holder
      <4>. QED  BY <4>1, <4>2
    <3>5. T!End(r)
      BY <2>2, <3>3, <3>4 DEF T!End
    <3>. QED  BY <2>1, <3>5 DEF T!Next
  <2>. QED  BY <2>3, <2>4
<1>31. CASE UNCHANGED vars
  <2>1. Holder' = Holder /\ Phase' = Phase /\ orphaned' = orphaned
    BY <1>31 DEF vars, Holder, Phase
  <2>. QED  BY <2>1 DEF T!vars
<1>. QED
    BY [Next]_vars, <1>2, <1>3, <1>4, <1>5, <1>6, <1>7, <1>8, <1>9, <1>10, <1>11, <1>12, <1>13,
     <1>14, <1>15, <1>16, <1>17, <1>18, <1>19, <1>20, <1>21, <1>22, <1>23, <1>24, <1>25, <1>26,
     <1>27, <1>28, <1>29, <1>30, <1>31 DEF Next, Begin, Step

\* The queue keeps what Turns promises: one run at a time has the GPU, its
\* trainer has ended before the next run gets it, and no run trains twice.
THEOREM QueueTakesTurns == Spec => OneByOne
<1>1. Init => T!Init
  BY DEF Init, T!Init, Holder, Phase
<1>2. Inv /\ [Next]_vars => [T!Next]_(T!vars)
  BY TurnsStep
<1>. QED  BY <1>1, <1>2, InvInit, InvNext, PTL DEF Spec, OneByOne, T!Spec

-----------------------------------------------------------------------------
(* The order of the queue.                                                 *)

\* Who waits for its turn has a record that is queued or over, and has read
\* that it is queued when it looks who is ahead.
InLine ==
  /\ \A p \in Proc : Own(p) /\ pc[p] \in Turning \cup {"list"} => state[job[p].run] \in {"queued"} \cup Final
  /\ \A p \in Proc : pc[p] \in {"drop", "ahead"} => job[p].queued

\* Those that waited when a run came were submitted before it.
OlderFirst ==
  /\ \A r \in Run : state[r] = "none" => older[r] = {}
  /\ \A r \in Run : \A o \in older[r] : state[o] # "none" /\ stamp[o] < stamp[r]

\* None of them waits any more when the run gets its turn.
NoneAhead ==
  \A p \in Proc : pc[p] \in {"take", "begin", "stage", "popen"} =>
    \A o \in older[job[p].run] : state[o] # "queued"

OrderInv == Inv /\ InLine /\ OlderFirst /\ NoneAhead

\* A run in line stays so until its turn.
LEMMA InLineNext ==
  ASSUME TypeOK, Locks, Fresh, Claims, InLine, [Next]_vars
  PROVE  InLine'
<1>. USE RunQueueAssumption DEF TypeOK, InLine, Own, State, Active, Final, Submitting, Turning,
   OnGpu, Serving, Cancelling, RunQueueAssumption, Proc, tableVars, lockVars, history
<1>1. ASSUME NEW t \in Terminal, NEW r \in Run, NEW m \in Modes, Submit(t, r, m) PROVE InLine'
  BY <1>1 DEF Submit, NoJob, Goto
<1>2. ASSUME NEW s \in Server, StartServer(s) PROVE InLine'
  BY <1>2 DEF StartServer, NoJob, Goto
<1>3. ASSUME NEW c \in Canceller, NEW r \in Run, CancelRead(c, r) PROVE InLine'
  BY <1>3 DEF CancelRead, NoJob, Goto
<1>4. ASSUME NEW r \in Run, TrainerExits(r) PROVE InLine'
  BY <1>4 DEF TrainerExits
<1>5. ASSUME NEW p \in Proc, Stamp(p) PROVE InLine'
  BY <1>5 DEF Stamp, Goto
<1>6. ASSUME NEW p \in Proc, Insert(p) PROVE InLine'
  <2>1. \A q \in Proc \ {p} : job[q].run # job[p].run
    BY <1>6 DEF Insert, Fresh
  <2>. QED  BY <1>6, <2>1 DEF Insert, SetState, Goto
<1>7. ASSUME NEW p \in Proc, AddAttempt(p) PROVE InLine'
  BY <1>7 DEF AddAttempt, Done, NoJob, Goto
<1>8. ASSUME NEW p \in Proc, Probe(p) PROVE InLine'
  BY <1>8 DEF Probe, Done, NoJob, Goto
<1>9. ASSUME NEW p \in Proc, StartWorker(p) PROVE InLine'
  BY <1>9 DEF StartWorker, NoJob, Goto
<1>10. ASSUME NEW p \in Proc, ReconcileRun(p) PROVE InLine'
  BY <1>10 DEF ReconcileRun, SetState
<1>11. ASSUME NEW p \in Proc, Reconciled(p) PROVE InLine'
  BY <1>11 DEF Reconciled, NoJob, Goto
<1>12. ASSUME NEW p \in Proc, TryServe(p) PROVE InLine'
  BY <1>12 DEF TryServe, Goto
<1>13. ASSUME NEW p \in Proc, Drop(p) PROVE InLine'
  BY <1>13 DEF Drop, Abandoned, Queued, Goto
<1>14. ASSUME NEW p \in Proc, PickRun(p) PROVE InLine'
  <2>1. UNCHANGED state /\ pc[p] = "pick"
    BY <1>14 DEF PickRun
  <2>2. \A q \in Proc \ {p} : pc'[q] = pc[q] /\ job'[q] = job[q]
    BY <1>14, Picked
  <2>3. \/ pc'[p] \in {"next", "leave"}
        \/ pc'[p] = "look" /\ state[job'[p].run] = "queued"
    BY <1>14, Picked DEF Queued
  <2>. QED  BY <2>1, <2>2, <2>3
<1>15. ASSUME NEW p \in Proc, LeaveQueue(p) PROVE InLine'
  BY <1>15 DEF LeaveQueue, Goto
<1>16. ASSUME NEW p \in Proc, Look(p) PROVE InLine'
  <2>1. pc[p] = "look"
    BY <1>16 DEF Look
  <2>2. \A q \in Proc \ {p} : pc'[q] = pc[q] /\ job'[q] = job[q]
    BY <1>16, Looked
  <2>3. state[job[p].run] \in {"queued"} \cup Final
    <3>1. Own(p) /\ pc[p] \in Turning \cup {"list"}
      BY <2>1
    <3>. QED  BY ONLY <3>1, InLine, p \in Proc DEF InLine
  <2>4. \/ pc'[p] \in {"next", "idle"}
        \/ pc'[p] = "drop" /\ job'[p].run = job[p].run /\ UNCHANGED state /\ state[job[p].run] = "queued"
    BY <1>16, <2>3, Looked, LookedOn
  <2>5. pc'[p] = "drop" => job'[p].queued
    BY <1>16, <2>3, LookedOn
  <2>6. \A r \in Run : state'[r] = state[r] \/ state'[r] = "cancelled"
    BY <1>16, Looked
  <2>7. \A q \in Proc : Own(q)' /\ pc'[q] \in Turning \cup {"list"} => state'[job'[q].run] \in {"queued"} \cup Final
    BY <2>2, <2>4, <2>6
  <2>8. \A q \in Proc : pc'[q] \in {"drop", "ahead"} => job'[q].queued
    BY <2>2, <2>4, <2>5
  <2>. QED  BY <2>7, <2>8
<1>17. ASSUME NEW p \in Proc, CheckAhead(p) PROVE InLine'
  BY <1>17 DEF CheckAhead, Goto
<1>18. ASSUME NEW p \in Proc, TakeGpu(p) PROVE InLine'
  BY <1>18 DEF TakeGpu, Goto
<1>19. ASSUME NEW p \in Proc, BeginRun(p) PROVE InLine'
  <2>1. \A q \in Proc \ {p} : Own(q) => job[q].run # job[p].run
    BY <1>19, OneExecutor DEF BeginRun
  <2>2. \A q \in Proc \ {p} : pc'[q] = pc[q] /\ job'[q] = job[q]
    BY <1>19 DEF BeginRun, SetState, Goto
  <2>3. pc'[p] \in OnGpu /\ \A r \in Run \ {job[p].run} : state'[r] = state[r]
    BY <1>19 DEF BeginRun, SetState, Goto
  <2>. QED  BY <2>1, <2>2, <2>3
<1>20. ASSUME NEW p \in Proc, CheckCancel(p) PROVE InLine'
  <2>1. \A q \in Proc \ {p} : Own(q) => job[q].run # job[p].run
    BY <1>20, OneExecutor DEF CheckCancel
  <2>2. \A q \in Proc \ {p} : pc'[q] = pc[q] /\ job'[q] = job[q]
    BY <1>20 DEF CheckCancel, SetState, Goto
  <2>3. pc'[p] \in OnGpu /\ \A r \in Run \ {job[p].run} : state'[r] = state[r]
    BY <1>20 DEF CheckCancel, SetState, Goto
  <2>. QED  BY <2>1, <2>2, <2>3
<1>21. ASSUME NEW p \in Proc, Popen(p) PROVE InLine'
  BY <1>21 DEF Popen, Goto
<1>22. ASSUME NEW p \in Proc, RecordPid(p) PROVE InLine'
  <2>1. \A q \in Proc \ {p} : Own(q) => job[q].run # job[p].run
    BY <1>22, OneExecutor DEF RecordPid
  <2>2. \A q \in Proc \ {p} : pc'[q] = pc[q] /\ job'[q] = job[q]
    BY <1>22 DEF RecordPid, SetState, Goto
  <2>3. pc'[p] \in OnGpu /\ \A r \in Run \ {job[p].run} : state'[r] = state[r]
    BY <1>22 DEF RecordPid, SetState, Goto
  <2>. QED  BY <2>1, <2>2, <2>3
<1>23. ASSUME NEW p \in Proc, Exited(p) PROVE InLine'
  <2>1. \A q \in Proc \ {p} : Own(q) => job[q].run # job[p].run
    BY <1>23, OneExecutor DEF Exited
  <2>2. \A q \in Proc \ {p} : pc'[q] = pc[q] /\ job'[q] = job[q]
    BY <1>23 DEF Exited, SetState, Goto
  <2>3. pc'[p] \in OnGpu /\ \A r \in Run \ {job[p].run} : state'[r] = state[r]
    BY <1>23 DEF Exited, SetState, Goto
  <2>. QED  BY <2>1, <2>2, <2>3
<1>24. ASSUME NEW p \in Proc, Publish(p) PROVE InLine'
  <2>1. \A q \in Proc \ {p} : Own(q) => job[q].run # job[p].run
    BY <1>24, OneExecutor DEF Publish
  <2>2. \A q \in Proc \ {p} : pc'[q] = pc[q] /\ job'[q] = job[q]
    BY <1>24 DEF Publish, SetState, Goto
  <2>3. pc'[p] \in OnGpu /\ \A r \in Run \ {job[p].run} : state'[r] = state[r]
    BY <1>24 DEF Publish, SetState, Goto
  <2>. QED  BY <2>1, <2>2, <2>3
<1>25. ASSUME NEW p \in Proc, Fail(p) PROVE InLine'
  <2>1. \A q \in Proc \ {p} : Own(q) => job[q].run # job[p].run
    BY <1>25, OneExecutor DEF Fail
  <2>2. \A q \in Proc \ {p} : pc'[q] = pc[q] /\ job'[q] = job[q]
    BY <1>25 DEF Fail, SetState, Goto
  <2>3. pc'[p] \in OnGpu /\ \A r \in Run \ {job[p].run} : state'[r] = state[r]
    BY <1>25 DEF Fail, SetState, Goto
  <2>. QED  BY <2>1, <2>2, <2>3
<1>26. ASSUME NEW p \in Proc, Settle(p) PROVE InLine'
  BY <1>26 DEF Settle, Done, NoJob, Goto
<1>27. ASSUME NEW p \in Proc, CancelMark(p) PROVE InLine'
  BY <1>27 DEF CancelMark, Goto
<1>28. ASSUME NEW p \in Proc, CancelAct(p) PROVE InLine'
  <2>1. \A r \in Run : state'[r] = state[r] \/ state'[r] = "cancelled"
    BY <1>28 DEF CancelAct, SetState
  <2>2. \A q \in Proc : (pc'[q] = pc[q] /\ job'[q] = job[q]) \/ pc'[q] \in {"idle", "next"}
    BY <1>28 DEF CancelAct, Done, Goto
  <2>. QED  BY <2>1, <2>2
<1>29. ASSUME NEW p \in Proc, Crash(p) PROVE InLine'
  BY <1>29 DEF Crash, NoJob, Goto
<1>30. CASE UNCHANGED vars
  BY <1>30 DEF vars
<1>. QED
  BY [Next]_vars, <1>1, <1>2, <1>3, <1>4, <1>5, <1>6, <1>7, <1>8, <1>9, <1>10, <1>11, <1>12,
     <1>13, <1>14, <1>15, <1>16, <1>17, <1>18, <1>19, <1>20, <1>21, <1>22, <1>23, <1>24, <1>25,
     <1>26, <1>27, <1>28, <1>29, <1>30 DEF Next, Begin, Step

\* Who comes later is later.
LEMMA OlderNext ==
  ASSUME TypeOK, Timed, Fresh, OlderFirst, [Next]_vars
  PROVE  OlderFirst'
<1>. USE RunQueueAssumption DEF TypeOK, OlderFirst, State, Active, Final, RunQueueAssumption,
   Proc, tableVars, lockVars, history
<1>1. ASSUME NEW t \in Terminal, NEW r \in Run, NEW m \in Modes, Submit(t, r, m) PROVE OlderFirst'
  BY <1>1 DEF Submit, NoJob, Goto
<1>2. ASSUME NEW s \in Server, StartServer(s) PROVE OlderFirst'
  BY <1>2 DEF StartServer, NoJob, Goto
<1>3. ASSUME NEW c \in Canceller, NEW r \in Run, CancelRead(c, r) PROVE OlderFirst'
  BY <1>3 DEF CancelRead, NoJob, Goto
<1>4. ASSUME NEW r \in Run, TrainerExits(r) PROVE OlderFirst'
  BY <1>4 DEF TrainerExits
<1>5. ASSUME NEW p \in Proc, Stamp(p) PROVE OlderFirst'
  <2>1. state[job[p].run] = "none"
    BY <1>5 DEF Stamp, Fresh
  <2>2. \A r \in Run : stamp'[r] = stamp[r] \/ r = job[p].run
    BY <1>5 DEF Stamp
  <2>. QED  BY <1>5, <2>1, <2>2 DEF Stamp
<1>6. ASSUME NEW p \in Proc, Insert(p) PROVE OlderFirst'
  <2>1. state[job[p].run] = "none"
    BY <1>6 DEF Insert, Fresh
  <2>2. \A o \in QueuedBefore(job[p].run) : state[o] # "none" /\ stamp[o] < stamp[job[p].run]
    BY DEF QueuedBefore, Queued
  <2>. QED  BY <1>6, <2>1, <2>2 DEF Insert, SetState
<1>7. ASSUME NEW p \in Proc, AddAttempt(p) PROVE OlderFirst'
  BY <1>7 DEF AddAttempt, Done, NoJob, Goto
<1>8. ASSUME NEW p \in Proc, Probe(p) PROVE OlderFirst'
  BY <1>8 DEF Probe, Done, NoJob, Goto
<1>9. ASSUME NEW p \in Proc, StartWorker(p) PROVE OlderFirst'
  BY <1>9 DEF StartWorker, NoJob, Goto
<1>10. ASSUME NEW p \in Proc, ReconcileRun(p) PROVE OlderFirst'
  BY <1>10 DEF ReconcileRun, SetState
<1>11. ASSUME NEW p \in Proc, Reconciled(p) PROVE OlderFirst'
  BY <1>11 DEF Reconciled, NoJob, Goto
<1>12. ASSUME NEW p \in Proc, TryServe(p) PROVE OlderFirst'
  BY <1>12 DEF TryServe, Goto
<1>13. ASSUME NEW p \in Proc, Drop(p) PROVE OlderFirst'
  BY <1>13 DEF Drop, Abandoned, Queued, Goto
<1>14. ASSUME NEW p \in Proc, PickRun(p) PROVE OlderFirst'
  BY <1>14 DEF PickRun, Servable, Queued, OwnerState, Goto, Job
<1>15. ASSUME NEW p \in Proc, LeaveQueue(p) PROVE OlderFirst'
  BY <1>15 DEF LeaveQueue, Goto
<1>16. ASSUME NEW p \in Proc, Look(p) PROVE OlderFirst'
  BY <1>16 DEF Look, Done, SetState
<1>17. ASSUME NEW p \in Proc, CheckAhead(p) PROVE OlderFirst'
  BY <1>17 DEF CheckAhead, Goto
<1>18. ASSUME NEW p \in Proc, TakeGpu(p) PROVE OlderFirst'
  BY <1>18 DEF TakeGpu, Goto
<1>19. ASSUME NEW p \in Proc, BeginRun(p) PROVE OlderFirst'
  BY <1>19 DEF BeginRun, SetState, Goto
<1>20. ASSUME NEW p \in Proc, CheckCancel(p) PROVE OlderFirst'
  BY <1>20 DEF CheckCancel, SetState, Goto
<1>21. ASSUME NEW p \in Proc, Popen(p) PROVE OlderFirst'
  BY <1>21 DEF Popen, Goto
<1>22. ASSUME NEW p \in Proc, RecordPid(p) PROVE OlderFirst'
  BY <1>22 DEF RecordPid, SetState, Goto
<1>23. ASSUME NEW p \in Proc, Exited(p) PROVE OlderFirst'
  BY <1>23 DEF Exited, SetState, Goto
<1>24. ASSUME NEW p \in Proc, Publish(p) PROVE OlderFirst'
  BY <1>24 DEF Publish, SetState, Goto
<1>25. ASSUME NEW p \in Proc, Fail(p) PROVE OlderFirst'
  BY <1>25 DEF Fail, SetState, Goto
<1>26. ASSUME NEW p \in Proc, Settle(p) PROVE OlderFirst'
  BY <1>26 DEF Settle, Done, NoJob, Goto
<1>27. ASSUME NEW p \in Proc, CancelMark(p) PROVE OlderFirst'
  BY <1>27 DEF CancelMark, Goto
<1>28. ASSUME NEW p \in Proc, CancelAct(p) PROVE OlderFirst'
  BY <1>28 DEF CancelAct, Done, NoJob, SetState, Goto
<1>29. ASSUME NEW p \in Proc, Crash(p) PROVE OlderFirst'
  BY <1>29 DEF Crash, NoJob, Goto
<1>30. CASE UNCHANGED vars
  BY <1>30 DEF vars
<1>. QED
  BY [Next]_vars, <1>1, <1>2, <1>3, <1>4, <1>5, <1>6, <1>7, <1>8, <1>9, <1>10, <1>11, <1>12,
     <1>13, <1>14, <1>15, <1>16, <1>17, <1>18, <1>19, <1>20, <1>21, <1>22, <1>23, <1>24, <1>25,
     <1>26, <1>27, <1>28, <1>29, <1>30 DEF Next, Begin, Step

\* Who has the turn keeps it: nobody that waited comes back.
LEMMA AheadNext ==
  ASSUME TypeOK, Locks, Fresh, Claims, InLine, OlderFirst, NoneAhead, [Next]_vars
  PROVE  NoneAhead'
<1>. USE RunQueueAssumption DEF TypeOK, NoneAhead, State, Active, Final, Submitting, Turning,
   OnGpu, Serving, Cancelling, RunQueueAssumption, Proc, tableVars, lockVars, history
<1>1. ASSUME NEW t \in Terminal, NEW r \in Run, NEW m \in Modes, Submit(t, r, m) PROVE NoneAhead'
  BY <1>1 DEF Submit, NoJob, Goto
<1>2. ASSUME NEW s \in Server, StartServer(s) PROVE NoneAhead'
  BY <1>2 DEF StartServer, NoJob, Goto
<1>3. ASSUME NEW c \in Canceller, NEW r \in Run, CancelRead(c, r) PROVE NoneAhead'
  BY <1>3 DEF CancelRead, NoJob, Goto
<1>4. ASSUME NEW r \in Run, TrainerExits(r) PROVE NoneAhead'
  BY <1>4 DEF TrainerExits
<1>5. ASSUME NEW p \in Proc, Stamp(p) PROVE NoneAhead'
  BY <1>5 DEF Stamp, Goto
<1>6. ASSUME NEW p \in Proc, Insert(p) PROVE NoneAhead'
  <2>1. \A q \in Proc \ {p} : job[q].run # job[p].run
    BY <1>6 DEF Insert, Fresh
  <2>2. \A r \in Run : job[p].run \notin older[r]
    BY <1>6 DEF Insert, Fresh, OlderFirst
  <2>3. pc'[p] = "list" /\ \A q \in Proc \ {p} : pc'[q] = pc[q]
    BY <1>6 DEF Insert, Goto
  <2>. QED  BY <1>6, <2>1, <2>2, <2>3 DEF Insert, SetState
<1>7. ASSUME NEW p \in Proc, AddAttempt(p) PROVE NoneAhead'
  BY <1>7 DEF AddAttempt, Done, NoJob, Goto
<1>8. ASSUME NEW p \in Proc, Probe(p) PROVE NoneAhead'
  BY <1>8 DEF Probe, Done, NoJob, Goto
<1>9. ASSUME NEW p \in Proc, StartWorker(p) PROVE NoneAhead'
  BY <1>9 DEF StartWorker, NoJob, Goto
<1>10. ASSUME NEW p \in Proc, ReconcileRun(p) PROVE NoneAhead'
  BY <1>10 DEF ReconcileRun, SetState
<1>11. ASSUME NEW p \in Proc, Reconciled(p) PROVE NoneAhead'
  BY <1>11 DEF Reconciled, NoJob, Goto
<1>12. ASSUME NEW p \in Proc, TryServe(p) PROVE NoneAhead'
  BY <1>12 DEF TryServe, Goto
<1>13. ASSUME NEW p \in Proc, Drop(p) PROVE NoneAhead'
  BY <1>13 DEF Drop, Abandoned, Queued, Goto
<1>14. ASSUME NEW p \in Proc, PickRun(p) PROVE NoneAhead'
  <2>1. UNCHANGED <<state, older>>
    BY <1>14 DEF PickRun, tableVars, history
  <2>2. \A q \in Proc \ {p} : pc'[q] = pc[q] /\ job'[q] = job[q]
    BY <1>14, Picked
  <2>3. pc'[p] \in {"next", "leave", "look"}
    BY <1>14, Picked
  <2>. QED  BY <2>1, <2>2, <2>3
<1>15. ASSUME NEW p \in Proc, LeaveQueue(p) PROVE NoneAhead'
  BY <1>15 DEF LeaveQueue, Goto
<1>16. ASSUME NEW p \in Proc, Look(p) PROVE NoneAhead'
  <2>1. \A q \in Proc \ {p} : pc'[q] = pc[q] /\ job'[q] = job[q]
    BY <1>16, Looked
  <2>2. pc'[p] \in {"next", "idle", "drop"} /\ UNCHANGED older
    BY <1>16, Looked DEF Look, history
  <2>3. \A r \in Run : state'[r] = state[r] \/ state'[r] = "cancelled"
    BY <1>16, Looked
  <2>. QED  BY <2>1, <2>2, <2>3
<1>17. ASSUME NEW p \in Proc, CheckAhead(p) PROVE NoneAhead'
  <2>1. CASE pc'[p] # "take"
    BY <1>17, <2>1 DEF CheckAhead, Goto
  <2>2. CASE pc'[p] = "take"
    <3>1. QueuedBefore(job[p].run) = {}
      BY <1>17, <2>2 DEF CheckAhead, Goto, InLine
    <3>2. \A o \in older[job[p].run] : state[o] # "queued"
      BY <3>1, <1>17 DEF CheckAhead, OlderFirst, QueuedBefore, Queued
    <3>. QED  BY <1>17, <2>2, <3>2 DEF CheckAhead, Goto
  <2>. QED  BY <2>1, <2>2
<1>18. ASSUME NEW p \in Proc, TakeGpu(p) PROVE NoneAhead'
  BY <1>18 DEF TakeGpu, Goto
<1>19. ASSUME NEW p \in Proc, BeginRun(p) PROVE NoneAhead'
  BY <1>19 DEF BeginRun, SetState, Goto
<1>20. ASSUME NEW p \in Proc, CheckCancel(p) PROVE NoneAhead'
  BY <1>20 DEF CheckCancel, SetState, Goto
<1>21. ASSUME NEW p \in Proc, Popen(p) PROVE NoneAhead'
  BY <1>21 DEF Popen, Goto
<1>22. ASSUME NEW p \in Proc, RecordPid(p) PROVE NoneAhead'
  BY <1>22 DEF RecordPid, SetState, Goto
<1>23. ASSUME NEW p \in Proc, Exited(p) PROVE NoneAhead'
  BY <1>23 DEF Exited, SetState, Goto
<1>24. ASSUME NEW p \in Proc, Publish(p) PROVE NoneAhead'
  BY <1>24 DEF Publish, SetState, Goto
<1>25. ASSUME NEW p \in Proc, Fail(p) PROVE NoneAhead'
  BY <1>25 DEF Fail, SetState, Goto
<1>26. ASSUME NEW p \in Proc, Settle(p) PROVE NoneAhead'
  BY <1>26 DEF Settle, Done, NoJob, Goto
<1>27. ASSUME NEW p \in Proc, CancelMark(p) PROVE NoneAhead'
  BY <1>27 DEF CancelMark, Goto
<1>28. ASSUME NEW p \in Proc, CancelAct(p) PROVE NoneAhead'
  <2>1. UNCHANGED older /\ \A r \in Run : state'[r] = state[r] \/ state'[r] = "cancelled"
    BY <1>28 DEF CancelAct, SetState
  <2>2. \A q \in Proc : (pc'[q] = pc[q] /\ job'[q] = job[q]) \/ pc'[q] \in {"idle", "next"}
    BY <1>28 DEF CancelAct, Done, Goto
  <2>. QED  BY <2>1, <2>2
<1>29. ASSUME NEW p \in Proc, Crash(p) PROVE NoneAhead'
  BY <1>29 DEF Crash, NoJob, Goto
<1>30. CASE UNCHANGED vars
  BY <1>30 DEF vars
<1>. QED
  BY [Next]_vars, <1>1, <1>2, <1>3, <1>4, <1>5, <1>6, <1>7, <1>8, <1>9, <1>10, <1>11, <1>12,
     <1>13, <1>14, <1>15, <1>16, <1>17, <1>18, <1>19, <1>20, <1>21, <1>22, <1>23, <1>24, <1>25,
     <1>26, <1>27, <1>28, <1>29, <1>30 DEF Next, Begin, Step

\* The order of the queue is kept.
LEMMA OrderNext == OrderInv /\ [Next]_vars => OrderInv'
BY InvNext, InLineNext, OlderNext, AheadNext DEF OrderInv, Inv

\* Nothing is submitted at first.
LEMMA OrderInit == Init => OrderInv
BY InvInit DEF Init, OrderInv, InLine, OlderFirst, NoneAhead, Own, Turning, OnGpu

\* Only a process about to start the trainer of its run starts one.
LEMMA Launched ==
  ASSUME TypeOK, [Next]_vars, NEW r \in Run, launches'[r] > launches[r]
  PROVE  \E p \in Proc : pc[p] = "popen" /\ job[p].run = r
<1>1. launches' # launches
  BY DEF TypeOK
<1>2. PICK p \in Proc : Popen(p)
  BY <1>1 DEF Next, Begin, Step, vars, history, Submit, StartServer, CancelRead, TrainerExits, Stamp, Insert,
     AddAttempt, Probe, StartWorker, ReconcileRun, Reconciled, TryServe, Drop, PickRun, LeaveQueue, Look,
     CheckAhead, TakeGpu, BeginRun, CheckCancel, RecordPid, Exited, Publish, Fail, Settle, CancelMark,
     CancelAct, Crash, RunQueueAssumption, Proc
<1>. QED  BY <1>2 DEF Popen, TypeOK

\* No run starts while one that was waiting when it came still waits, whoever
\* submits, cancels, serves or dies.
THEOREM StartsInOrder == Spec => NoOvertaking
<1>1. ASSUME OrderInv, [Next]_vars, NEW r \in Run, launches'[r] > launches[r], NEW o \in older[r]
      PROVE  state[o] # "queued"
  <2>1. PICK p \in Proc : pc[p] = "popen" /\ job[p].run = r
    BY <1>1, Launched DEF OrderInv, Inv
  <2>. QED  BY <1>1, <2>1 DEF OrderInv, NoneAhead
<1>2. OrderInv /\ [Next]_vars => [\A r \in Run : launches'[r] > launches[r] => \A o \in older[r] : state[o] # "queued"]_vars
  BY <1>1
<1>. QED  BY <1>2, OrderInit, OrderNext, PTL DEF Spec, NoOvertaking

\* A run that is started was handed to the queue, or its terminal is there.
THEOREM StartsAttended == Spec => AbandonedNotStarted
<1>1. ASSUME Inv, [Next]_vars, NEW r \in Run, launches'[r] > launches[r]
      PROVE  OwnerState(r) # "gone"
  <2>1. PICK p \in Proc : pc[p] = "popen" /\ job[p].run = r
    BY <1>1, Launched DEF Inv
  <2>2. owner[r] = IF p \in Terminal THEN p ELSE NoOne
    BY <1>1, <2>1 DEF Inv, Claims, Own, OnGpu
  <2>. QED  BY <2>1, <2>2 DEF OwnerState, Held
<1>2. Inv /\ [Next]_vars => [\A r \in Run : launches'[r] > launches[r] => OwnerState(r) # "gone"]_vars
  BY <1>1
<1>. QED  BY <1>2, InvInit, InvNext, PTL DEF Spec, AbandonedNotStarted
=============================================================================
