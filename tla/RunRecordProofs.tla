--------------------------- MODULE RunRecordProofs ---------------------------
(***************************************************************************)
(* Proofs about RunRecord, for any number of cancellers: the records are   *)
(* typed, a run whose executor is done with it is over, its file is        *)
(* neither ahead of its row nor missing, and who follows a run that nobody *)
(* else ends sees all of its log.                                          *)
(*                                                                         *)
(* None of these is inductive.  Whether the run is over once its executor  *)
(* is done depends on what the executor has begun to write, and on what    *)
(* the others may move away under the temporary name they share: Course    *)
(* says where each update leads, Ends that the updates after which nobody  *)
(* looks again write that the run is over, and OthersEnd that nobody else  *)
(* writes anything less.  The file needs RowFirst (what is in a temporary  *)
(* file was in the row before) and Exists; the log needs Undisturbed: as   *)
(* long as nobody else ends the run, the row says that it is over only     *)
(* after the script has exited and its last lines are there.               *)
(***************************************************************************)
EXTENDS RunRecord, TLAPS

\* Somebody is between two steps of an update.
Updating(c) == job[c].step # "at"

\* What is being written is a record.
Typed == TypeOK /\ \A c \in Client : Updating(c) => job[c].rec \in Record

\* The course of the executor: where it goes on from each label.
Course ==
  LET j == job[executor]
      at == pc[executor]
  IN /\ at \notin {"idle", "cancel", "rebuild", "reconcile"}
     /\ Updating(executor) =>
          /\ j.otherwise \in {"over", "fail"}
          /\ <<at, j.next>> \in
               {<<"create", "turn">>, <<"turn", "stage">>, <<"turn", "over">>, <<"stage", "settle">>,
                <<"spawn", "wait">>, <<"wait", "published">>, <<"wait", "settle">>,
                <<"published", "published">>, <<"published", "settle">>,
                <<"fail", "salvage">>, <<"settle", "over">>, <<"salvage", "over">>}
          /\ at = "create" => j.step # "write"

\* Before it is created there is nothing of the run.
Begun ==
  At(executor, "create") =>
    /\ row = NoRecord /\ file = NoRecord /\ part = NoRecord /\ reader = "none"
    /\ \A c \in Client \ {executor} : ~Updating(c)

\* Files are written after the row.
RowFirst ==
  /\ \A c \in Client : job[c].step \in {"part", "move"} => job[c].rec.state \in said
  /\ part # NoRecord => part.state \in said
  /\ FileNeverAhead

\* The row and its file exist once the run has been created.
Exists ==
  /\ row # NoRecord \/ pc[executor] = "dead" \/ At(executor, "create")
  /\ pc[executor] = "create" /\ job[executor].step = "move" => part # NoRecord \/ file # NoRecord
  /\ HistoryKept

\* Nobody but the executor writes anything else than that the run is over.
OthersEnd == \A c \in Client \ {executor} : Updating(c) => job[c].rec.state \in Terminal

\* The run is over, as far as its row says.
Over == row # NoRecord /\ row.state \in Terminal

\* How the executor brings it to its end.
Ends ==
  LET j == job[executor]
      at == pc[executor]
  IN /\ at \in {"over", "settle", "salvage"} /\ ~Updating(executor) => Over
     /\ at = "published" /\ ~Updating(executor) /\ j.rec.state \in Terminal => Over
     /\ Updating(executor) /\ at # "create"
        /\ (j.otherwise = "over" \/ j.next \in {"over", "settle", "salvage"})
          => j.rec.state \in Terminal
     /\ j.step \in {"part", "move"} /\ j.rec.state \in Terminal => Over
     /\ Updating(executor) /\ at = "create" =>
          \/ Over
          \/ /\ \A c \in Client \ {executor} : job[c].step \notin {"part", "move"}
             /\ j.step = "move" => part # NoRecord

\* Nothing is to come of the training script any more.
Quiet ==
  /\ trainer # "running"
  /\ pc[executor] \in {"published", "settle", "salvage", "fail", "over", "dead"}

\* A run that nobody else ends.
Undisturbed ==
  LET j == job[executor]
      at == pc[executor]
  IN ~shaken =>
     /\ ~requested
     /\ \A c \in Client \ {executor} : ~Updating(c) /\ pc[c] # "cancel"
     /\ j.step = "move" => part # NoRecord
     /\ at \in {"create", "turn", "stage"} \/ (at = "spawn" /\ ~Updating(executor)) => trainer = "none"
     /\ trainer = "running" => at \in {"spawn", "dead"} \/ At(executor, "wait")
     /\ Over => Quiet
     /\ row = NoRecord => Quiet \/ At(executor, "create")
     /\ Updating(executor) /\ j.rec.state \in Terminal => Quiet
     /\ reader \in {"last", "done"} => Quiet
     /\ reader = "done" => ~unread

\* Every step writes records, labels and steps.
LEMMA TypedStep ==
  ASSUME Typed, [Next]_vars
  PROVE  Typed'
<1>. USE RunRecordAssumption DEF Client, Typed, TypeOK, Updating, Job, NoJob, Step, Label, Record,
         State, Active, Terminal, Submitted, To, At, Goto, Update, others, Resting
<1>1. CASE Create
  BY <1>1 DEF Create
<1>2. CASE Turn
  BY <1>2 DEF Turn
<1>3. CASE Raise
  BY <1>3 DEF Raise
<1>4. CASE Stage
  BY <1>4 DEF Stage
<1>5. CASE Spawn
  BY <1>5 DEF Spawn
<1>6. ASSUME NEW code \in {"ok", "bad"}, Exited(code) PROVE Typed'
  <2>1. [row EXCEPT !.state = "cancelled", !.exit = code] \in Record /\ [row EXCEPT !.exit = code] \in Record
    BY <1>6 DEF Exited
  <2>. DEFINE new == IF requested THEN [row EXCEPT !.state = "cancelled", !.exit = code] ELSE [row EXCEPT !.exit = code]
             next == IF requested THEN "settle" ELSE "published"
  <2>2. new \in Record /\ next \in Label
    BY <2>1
  <2>3. Update(executor, new, next, "fail") /\ UNCHANGED <<row, file, part, requested, trainer, reader, said, shaken>>
    BY <1>6 DEF Exited
  <2>. HIDE DEF new, next
  <2>4. job' \in [Client -> Job] /\ UNCHANGED pc /\ \A c \in Client : Updating(c)' => job'[c].rec \in Record
    BY <2>2, <2>3
  <2>5. unread' \in BOOLEAN
    BY <1>6 DEF Exited
  <2>. QED  BY <2>3, <2>4, <2>5
<1>7. CASE Published
  BY <1>7 DEF Published
<1>8. CASE Fail
  BY <1>8 DEF Fail
<1>9. CASE Settle
  BY <1>9 DEF Settle
<1>10. CASE TrainerLogs
  BY <1>10 DEF TrainerLogs
<1>11. CASE TrainerExits
  BY <1>11 DEF TrainerExits
<1>12. CASE Follow
  BY <1>12 DEF Follow
<1>13. CASE FollowLook
  BY <1>13 DEF FollowLook
<1>14. CASE FollowLast
  BY <1>14 DEF FollowLast
<1>15. CASE Rebuild
  BY <1>15 DEF Rebuild
<1>16. CASE Reconcile
  <2>1. CASE Lost(row)
    <3>1. To("failed") \in Record
      BY <2>1 DEF Lost
    <3>. QED  BY <2>1, <3>1, <1>16 DEF Reconcile
  <2>2. CASE ~Lost(row)
    BY <2>2, <1>16 DEF Reconcile
  <2>. QED  BY <2>1, <2>2
<1>17. CASE DatabaseLost
  <2>1. pc' \in [Client -> Label]
    BY <1>17 DEF DatabaseLost
  <2>2. row' = NoRecord /\ UNCHANGED <<file, part, requested, trainer, unread, job, reader, said, shaken>>
    BY <1>17 DEF DatabaseLost
  <2>. QED  BY <2>1, <2>2
<1>18. ASSUME NEW c \in Client, WriteRow(c) PROVE Typed'
  BY <1>18 DEF WriteRow
<1>19. ASSUME NEW c \in Client, WritePart(c) PROVE Typed'
  BY <1>19 DEF WritePart
<1>20. ASSUME NEW c \in Client, Move(c) PROVE Typed'
  BY <1>20 DEF Move
<1>21. ASSUME NEW c \in Client, CancelBegin(c) PROVE Typed'
  BY <1>21 DEF CancelBegin
<1>22. ASSUME NEW c \in Client, CancelQueued(c) PROVE Typed'
  BY <1>22 DEF CancelQueued
<1>23. ASSUME NEW c \in Client, CancelStarted(c) PROVE Typed'
  BY <1>23 DEF CancelStarted
<1>24. ASSUME NEW c \in Client, Crash(c) PROVE Typed'
  BY <1>24 DEF Crash
<1>25. CASE UNCHANGED vars
  BY <1>25 DEF vars
<1>. QED
  BY <1>1, <1>2, <1>3, <1>4, <1>5, <1>6, <1>7, <1>8, <1>9, <1>10, <1>11, <1>12, <1>13, <1>14, <1>15,
     <1>16, <1>17, <1>18, <1>19, <1>20, <1>21, <1>22, <1>23, <1>24, <1>25 DEF Next, Execute,
     Following, Recording

\* Every step of the executor follows its course.
LEMMA CourseStep ==
  ASSUME Typed, Course, [Next]_vars
  PROVE  Course'
<1>. USE RunRecordAssumption DEF Client, Updating, At, Goto, Update, others, NoJob, Resting, Course,
         Typed, TypeOK, Job, Step, Label, Record, State, Active, Terminal, Submitted, To
<1>1. CASE Create
  BY <1>1 DEF Create
<1>2. CASE Turn
  BY <1>2 DEF Turn
<1>3. CASE Raise
  BY <1>3 DEF Raise
<1>4. CASE Stage
  BY <1>4 DEF Stage
<1>5. CASE Spawn
  BY <1>5 DEF Spawn
<1>6. ASSUME NEW code \in {"ok", "bad"}, Exited(code) PROVE Course'
  BY <1>6 DEF Exited
<1>7. CASE Published
  BY <1>7 DEF Published
<1>8. CASE Fail
  BY <1>8 DEF Fail
<1>9. CASE Settle
  BY <1>9 DEF Settle
<1>10. CASE TrainerLogs
  BY <1>10 DEF TrainerLogs
<1>11. CASE TrainerExits
  BY <1>11 DEF TrainerExits
<1>12. CASE Follow
  BY <1>12 DEF Follow
<1>13. CASE FollowLook
  BY <1>13 DEF FollowLook
<1>14. CASE FollowLast
  BY <1>14 DEF FollowLast
<1>15. CASE Rebuild
  BY <1>15 DEF Rebuild
<1>16. CASE Reconcile
  BY <1>16 DEF Reconcile, Lost
<1>17. CASE DatabaseLost
  BY <1>17 DEF DatabaseLost
<1>18. ASSUME NEW c \in Client, WriteRow(c) PROVE Course'
  BY <1>18 DEF WriteRow
<1>19. ASSUME NEW c \in Client, WritePart(c) PROVE Course'
  BY <1>19 DEF WritePart
<1>20. ASSUME NEW c \in Client, Move(c) PROVE Course'
  BY <1>20 DEF Move
<1>21. ASSUME NEW c \in Client, CancelBegin(c) PROVE Course'
  BY <1>21 DEF CancelBegin
<1>22. ASSUME NEW c \in Client, CancelQueued(c) PROVE Course'
  BY <1>22 DEF CancelQueued
<1>23. ASSUME NEW c \in Client, CancelStarted(c) PROVE Course'
  BY <1>23 DEF CancelStarted
<1>24. ASSUME NEW c \in Client, Crash(c) PROVE Course'
  BY <1>24 DEF Crash
<1>25. CASE UNCHANGED vars
  BY <1>25 DEF vars
<1>. QED
  BY <1>1, <1>2, <1>3, <1>4, <1>5, <1>6, <1>7, <1>8, <1>9, <1>10, <1>11, <1>12, <1>13, <1>14, <1>15,
     <1>16, <1>17, <1>18, <1>19, <1>20, <1>21, <1>22, <1>23, <1>24, <1>25 DEF Next, Execute,
     Following, Recording

\* Nothing of the run appears before it is created.
LEMMA BegunStep ==
  ASSUME Typed, Course, Begun, [Next]_vars
  PROVE  Begun'
<1>. USE RunRecordAssumption DEF Client, Updating, At, Goto, Update, others, NoJob, Resting, Begun,
         Course, Typed, TypeOK, Job, Step, Label, Record, State, Active, Terminal, Submitted, To
<1>1. CASE Create
  BY <1>1 DEF Create
<1>2. CASE Turn
  BY <1>2 DEF Turn
<1>3. CASE Raise
  BY <1>3 DEF Raise
<1>4. CASE Stage
  BY <1>4 DEF Stage
<1>5. CASE Spawn
  BY <1>5 DEF Spawn
<1>6. ASSUME NEW code \in {"ok", "bad"}, Exited(code) PROVE Begun'
  BY <1>6 DEF Exited
<1>7. CASE Published
  BY <1>7 DEF Published
<1>8. CASE Fail
  BY <1>8 DEF Fail
<1>9. CASE Settle
  BY <1>9 DEF Settle
<1>10. CASE TrainerLogs
  BY <1>10 DEF TrainerLogs
<1>11. CASE TrainerExits
  BY <1>11 DEF TrainerExits
<1>12. CASE Follow
  BY <1>12 DEF Follow
<1>13. CASE FollowLook
  BY <1>13 DEF FollowLook
<1>14. CASE FollowLast
  BY <1>14 DEF FollowLast
<1>15. CASE Rebuild
  BY <1>15 DEF Rebuild
<1>16. CASE Reconcile
  BY <1>16 DEF Reconcile, Lost
<1>17. CASE DatabaseLost
  BY <1>17 DEF DatabaseLost
<1>18. ASSUME NEW c \in Client, WriteRow(c) PROVE Begun'
  BY <1>18 DEF WriteRow
<1>19. ASSUME NEW c \in Client, WritePart(c) PROVE Begun'
  BY <1>19 DEF WritePart
<1>20. ASSUME NEW c \in Client, Move(c) PROVE Begun'
  BY <1>20 DEF Move
<1>21. ASSUME NEW c \in Client, CancelBegin(c) PROVE Begun'
  BY <1>21 DEF CancelBegin
<1>22. ASSUME NEW c \in Client, CancelQueued(c) PROVE Begun'
  BY <1>22 DEF CancelQueued
<1>23. ASSUME NEW c \in Client, CancelStarted(c) PROVE Begun'
  BY <1>23 DEF CancelStarted
<1>24. ASSUME NEW c \in Client, Crash(c) PROVE Begun'
  BY <1>24 DEF Crash
<1>25. CASE UNCHANGED vars
  BY <1>25 DEF vars
<1>. QED
  BY <1>1, <1>2, <1>3, <1>4, <1>5, <1>6, <1>7, <1>8, <1>9, <1>10, <1>11, <1>12, <1>13, <1>14, <1>15,
     <1>16, <1>17, <1>18, <1>19, <1>20, <1>21, <1>22, <1>23, <1>24, <1>25 DEF Next, Execute,
     Following, Recording

\* What is written to a file was written to the row before.
LEMMA RowFirstStep ==
  ASSUME Typed, RowFirst, [Next]_vars
  PROVE  RowFirst'
<1>. USE RunRecordAssumption DEF Client, Updating, At, Goto, Update, others, NoJob, Resting,
         RowFirst, FileNeverAhead, Typed, TypeOK, Job, Step, Label, Record, State, Active, Terminal,
         Submitted, To
<1>1. CASE Create
  BY <1>1 DEF Create
<1>2. CASE Turn
  BY <1>2 DEF Turn
<1>3. CASE Raise
  BY <1>3 DEF Raise
<1>4. CASE Stage
  BY <1>4 DEF Stage
<1>5. CASE Spawn
  BY <1>5 DEF Spawn
<1>6. ASSUME NEW code \in {"ok", "bad"}, Exited(code) PROVE RowFirst'
  BY <1>6 DEF Exited
<1>7. CASE Published
  BY <1>7 DEF Published
<1>8. CASE Fail
  BY <1>8 DEF Fail
<1>9. CASE Settle
  BY <1>9 DEF Settle
<1>10. CASE TrainerLogs
  BY <1>10 DEF TrainerLogs
<1>11. CASE TrainerExits
  BY <1>11 DEF TrainerExits
<1>12. CASE Follow
  BY <1>12 DEF Follow
<1>13. CASE FollowLook
  BY <1>13 DEF FollowLook
<1>14. CASE FollowLast
  BY <1>14 DEF FollowLast
<1>15. CASE Rebuild
  BY <1>15 DEF Rebuild
<1>16. CASE Reconcile
  BY <1>16 DEF Reconcile, Lost
<1>17. CASE DatabaseLost
  BY <1>17 DEF DatabaseLost
<1>18. ASSUME NEW c \in Client, WriteRow(c) PROVE RowFirst'
  BY <1>18 DEF WriteRow
<1>19. ASSUME NEW c \in Client, WritePart(c) PROVE RowFirst'
  BY <1>19 DEF WritePart
<1>20. ASSUME NEW c \in Client, Move(c) PROVE RowFirst'
  BY <1>20 DEF Move
<1>21. ASSUME NEW c \in Client, CancelBegin(c) PROVE RowFirst'
  BY <1>21 DEF CancelBegin
<1>22. ASSUME NEW c \in Client, CancelQueued(c) PROVE RowFirst'
  BY <1>22 DEF CancelQueued
<1>23. ASSUME NEW c \in Client, CancelStarted(c) PROVE RowFirst'
  BY <1>23 DEF CancelStarted
<1>24. ASSUME NEW c \in Client, Crash(c) PROVE RowFirst'
  BY <1>24 DEF Crash
<1>25. CASE UNCHANGED vars
  BY <1>25 DEF vars
<1>. QED
  BY <1>1, <1>2, <1>3, <1>4, <1>5, <1>6, <1>7, <1>8, <1>9, <1>10, <1>11, <1>12, <1>13, <1>14, <1>15,
     <1>16, <1>17, <1>18, <1>19, <1>20, <1>21, <1>22, <1>23, <1>24, <1>25 DEF Next, Execute,
     Following, Recording

\* Cancel and reconcile write that the run is over.
LEMMA OthersEndStep ==
  ASSUME Typed, OthersEnd, [Next]_vars
  PROVE  OthersEnd'
<1>. USE RunRecordAssumption DEF Client, Updating, At, Goto, Update, others, NoJob, Resting,
         OthersEnd, Typed, TypeOK, Job, Step, Label, Record, State, Active, Terminal, Submitted, To
<1>1. CASE Create
  BY <1>1 DEF Create
<1>2. CASE Turn
  BY <1>2 DEF Turn
<1>3. CASE Raise
  BY <1>3 DEF Raise
<1>4. CASE Stage
  BY <1>4 DEF Stage
<1>5. CASE Spawn
  BY <1>5 DEF Spawn
<1>6. ASSUME NEW code \in {"ok", "bad"}, Exited(code) PROVE OthersEnd'
  BY <1>6 DEF Exited
<1>7. CASE Published
  BY <1>7 DEF Published
<1>8. CASE Fail
  BY <1>8 DEF Fail
<1>9. CASE Settle
  BY <1>9 DEF Settle
<1>10. CASE TrainerLogs
  BY <1>10 DEF TrainerLogs
<1>11. CASE TrainerExits
  BY <1>11 DEF TrainerExits
<1>12. CASE Follow
  BY <1>12 DEF Follow
<1>13. CASE FollowLook
  BY <1>13 DEF FollowLook
<1>14. CASE FollowLast
  BY <1>14 DEF FollowLast
<1>15. CASE Rebuild
  BY <1>15 DEF Rebuild
<1>16. CASE Reconcile
  BY <1>16 DEF Reconcile, Lost
<1>17. CASE DatabaseLost
  BY <1>17 DEF DatabaseLost
<1>18. ASSUME NEW c \in Client, WriteRow(c) PROVE OthersEnd'
  BY <1>18 DEF WriteRow
<1>19. ASSUME NEW c \in Client, WritePart(c) PROVE OthersEnd'
  BY <1>19 DEF WritePart
<1>20. ASSUME NEW c \in Client, Move(c) PROVE OthersEnd'
  BY <1>20 DEF Move
<1>21. ASSUME NEW c \in Client, CancelBegin(c) PROVE OthersEnd'
  BY <1>21 DEF CancelBegin
<1>22. ASSUME NEW c \in Client, CancelQueued(c) PROVE OthersEnd'
  BY <1>22 DEF CancelQueued
<1>23. ASSUME NEW c \in Client, CancelStarted(c) PROVE OthersEnd'
  BY <1>23 DEF CancelStarted
<1>24. ASSUME NEW c \in Client, Crash(c) PROVE OthersEnd'
  BY <1>24 DEF Crash
<1>25. CASE UNCHANGED vars
  BY <1>25 DEF vars
<1>. QED
  BY <1>1, <1>2, <1>3, <1>4, <1>5, <1>6, <1>7, <1>8, <1>9, <1>10, <1>11, <1>12, <1>13, <1>14, <1>15,
     <1>16, <1>17, <1>18, <1>19, <1>20, <1>21, <1>22, <1>23, <1>24, <1>25 DEF Next, Execute,
     Following, Recording

\* No step loses the row of a run whose executor lives, or its file.
LEMMA ExistsStep ==
  ASSUME Typed, Course, Begun, Exists, [Next]_vars
  PROVE  Exists'
<1>. USE RunRecordAssumption DEF Client, Updating, At, Goto, Update, others, NoJob, Resting, Exists,
         HistoryKept, Begun, Course, Typed, TypeOK, Job, Step, Label, Record, State, Active,
         Terminal, Submitted, To
<1>1. CASE Create
  <2>1. Submitted \in Record
    OBVIOUS
  <2>. QED  BY <2>1, <1>1 DEF Create
<1>2. CASE Turn
  BY <1>2 DEF Turn
<1>3. CASE Raise
  BY <1>3 DEF Raise
<1>4. CASE Stage
  BY <1>4 DEF Stage
<1>5. CASE Spawn
  BY <1>5 DEF Spawn
<1>6. ASSUME NEW code \in {"ok", "bad"}, Exited(code) PROVE Exists'
  BY <1>6 DEF Exited
<1>7. CASE Published
  BY <1>7 DEF Published
<1>8. CASE Fail
  BY <1>8 DEF Fail
<1>9. CASE Settle
  BY <1>9 DEF Settle
<1>10. CASE TrainerLogs
  BY <1>10 DEF TrainerLogs
<1>11. CASE TrainerExits
  BY <1>11 DEF TrainerExits
<1>12. CASE Follow
  BY <1>12 DEF Follow
<1>13. CASE FollowLook
  BY <1>13 DEF FollowLook
<1>14. CASE FollowLast
  BY <1>14 DEF FollowLast
<1>15. CASE Rebuild
  BY <1>15 DEF Rebuild
<1>16. CASE Reconcile
  BY <1>16 DEF Reconcile, Lost
<1>17. CASE DatabaseLost
  BY <1>17 DEF DatabaseLost
<1>18. ASSUME NEW c \in Client, WriteRow(c) PROVE Exists'
  BY <1>18 DEF WriteRow
<1>19. ASSUME NEW c \in Client, WritePart(c) PROVE Exists'
  BY <1>19 DEF WritePart
<1>20. ASSUME NEW c \in Client, Move(c) PROVE Exists'
  BY <1>20 DEF Move
<1>21. ASSUME NEW c \in Client, CancelBegin(c) PROVE Exists'
  BY <1>21 DEF CancelBegin
<1>22. ASSUME NEW c \in Client, CancelQueued(c) PROVE Exists'
  BY <1>22 DEF CancelQueued
<1>23. ASSUME NEW c \in Client, CancelStarted(c) PROVE Exists'
  BY <1>23 DEF CancelStarted
<1>24. ASSUME NEW c \in Client, Crash(c) PROVE Exists'
  BY <1>24 DEF Crash
<1>25. CASE UNCHANGED vars
  BY <1>25 DEF vars
<1>. QED
  BY <1>1, <1>2, <1>3, <1>4, <1>5, <1>6, <1>7, <1>8, <1>9, <1>10, <1>11, <1>12, <1>13, <1>14, <1>15,
     <1>16, <1>17, <1>18, <1>19, <1>20, <1>21, <1>22, <1>23, <1>24, <1>25 DEF Next, Execute,
     Following, Recording

\* Whatever the others write meanwhile, the executor ends by a row that is over.
LEMMA EndsStep ==
  ASSUME Typed, Course, Begun, Exists, OthersEnd, Ends, [Next]_vars
  PROVE  Ends'
<1>. USE RunRecordAssumption DEF Client, Updating, At, Goto, Update, others, NoJob, Resting, Over,
         Ends, Exists, OthersEnd, Begun, Course, Typed, TypeOK, Job, Step, Label, Record, State,
         Active, Terminal, Submitted, To
<1>1. CASE Create
  BY <1>1 DEF Create
<1>2. CASE Turn
  BY <1>2 DEF Turn
<1>3. CASE Raise
  BY <1>3 DEF Raise
<1>4. CASE Stage
  BY <1>4 DEF Stage
<1>5. CASE Spawn
  BY <1>5 DEF Spawn
<1>6. ASSUME NEW code \in {"ok", "bad"}, Exited(code) PROVE Ends'
  <2>1. CASE requested
    <3>1. row \in Record /\ [row EXCEPT !.state = "cancelled", !.exit = code].state = "cancelled"
      BY <1>6 DEF Exited
    <3>2. Update(executor, [row EXCEPT !.state = "cancelled", !.exit = code], "settle", "fail") /\ UNCHANGED row
      BY <2>1, <1>6 DEF Exited
    <3>. QED  BY <3>1, <3>2, <1>6 DEF Exited
  <2>2. CASE ~requested
    BY <2>2, <1>6 DEF Exited
  <2>. QED  BY <2>1, <2>2
<1>7. CASE Published
  BY <1>7 DEF Published
<1>8. CASE Fail
  BY <1>8 DEF Fail
<1>9. CASE Settle
  BY <1>9 DEF Settle
<1>10. CASE TrainerLogs
  BY <1>10 DEF TrainerLogs
<1>11. CASE TrainerExits
  BY <1>11 DEF TrainerExits
<1>12. CASE Follow
  BY <1>12 DEF Follow
<1>13. CASE FollowLook
  BY <1>13 DEF FollowLook
<1>14. CASE FollowLast
  BY <1>14 DEF FollowLast
<1>15. CASE Rebuild
  BY <1>15 DEF Rebuild
<1>16. CASE Reconcile
  BY <1>16 DEF Reconcile, Lost
<1>17. CASE DatabaseLost
  BY <1>17 DEF DatabaseLost
<1>18. ASSUME NEW c \in Client, WriteRow(c) PROVE Ends'
  BY <1>18 DEF WriteRow
<1>19. ASSUME NEW c \in Client, WritePart(c) PROVE Ends'
  BY <1>19 DEF WritePart
<1>20. ASSUME NEW c \in Client, Move(c) PROVE Ends'
  BY <1>20 DEF Move
<1>21. ASSUME NEW c \in Client, CancelBegin(c) PROVE Ends'
  BY <1>21 DEF CancelBegin
<1>22. ASSUME NEW c \in Client, CancelQueued(c) PROVE Ends'
  BY <1>22 DEF CancelQueued
<1>23. ASSUME NEW c \in Client, CancelStarted(c) PROVE Ends'
  BY <1>23 DEF CancelStarted
<1>24. ASSUME NEW c \in Client, Crash(c) PROVE Ends'
  BY <1>24 DEF Crash
<1>25. CASE UNCHANGED vars
  BY <1>25 DEF vars
<1>. QED
  BY <1>1, <1>2, <1>3, <1>4, <1>5, <1>6, <1>7, <1>8, <1>9, <1>10, <1>11, <1>12, <1>13, <1>14, <1>15,
     <1>16, <1>17, <1>18, <1>19, <1>20, <1>21, <1>22, <1>23, <1>24, <1>25 DEF Next, Execute,
     Following, Recording

\* While nobody else means to end the run, it is over after its script, not before.
LEMMA UndisturbedStep ==
  ASSUME Typed, Course, Begun, Exists, OthersEnd, Ends, Undisturbed, [Next]_vars
  PROVE  Undisturbed'
<1>. USE RunRecordAssumption DEF Client, Updating, At, Goto, Update, others, NoJob, Resting, Over,
         Quiet, Undisturbed, Exists, OthersEnd, Begun, Course, Typed, TypeOK, Job, Step, Label,
         Record, State, Active, Terminal, Submitted, To
<1>1. CASE Create
  <2>1. SUFFICES ASSUME ~shaken PROVE Undisturbed'
    BY <1>1 DEF Create
  <2>2. ~shaken /\ pc[executor] = "create"
    BY <2>1, <1>1 DEF Create
  <2>5. trainer = "none" /\ ~requested /\ \A c \in Client \ {executor} : ~Updating(c) /\ pc[c] # "cancel"
    BY <2>2
  <2>3. job'[executor].step = "part" /\ job'[executor].rec = Submitted /\ reader' = "read" /\ row' = Submitted
    BY <1>1 DEF Create
  <2>4. \A c \in Client \ {executor} : job'[c] = job[c]
    BY <1>1 DEF Create
  <2>6. row' # NoRecord /\ row'.state = "queued"
    <3>1. Submitted \in Record /\ Submitted.state = "queued"
      OBVIOUS
    <3>. QED  BY <2>3, <3>1
  <2>7. UNCHANGED <<pc, trainer, requested, part>>
    BY <1>1 DEF Create
  <2>. QED  BY <2>2, <2>3, <2>4, <2>5, <2>6, <2>7
<1>2. CASE Turn
  BY <1>2 DEF Turn
<1>3. CASE Raise
  BY <1>3 DEF Raise
<1>4. CASE Stage
  BY <1>4 DEF Stage
<1>5. CASE Spawn
  BY <1>5 DEF Spawn
<1>6. ASSUME NEW code \in {"ok", "bad"}, Exited(code) PROVE Undisturbed'
  BY <1>6 DEF Exited
<1>7. CASE Published
  BY <1>7 DEF Published
<1>8. CASE Fail
  BY <1>8 DEF Fail
<1>9. CASE Settle
  BY <1>9 DEF Settle
<1>10. CASE TrainerLogs
  BY <1>10 DEF TrainerLogs
<1>11. CASE TrainerExits
  BY <1>11 DEF TrainerExits
<1>12. CASE Follow
  BY <1>12 DEF Follow
<1>13. CASE FollowLook
  BY <1>13 DEF FollowLook
<1>14. CASE FollowLast
  BY <1>14 DEF FollowLast
<1>15. CASE Rebuild
  BY <1>15 DEF Rebuild
<1>16. CASE Reconcile
  BY <1>16 DEF Reconcile, Lost
<1>17. CASE DatabaseLost
  BY <1>17 DEF DatabaseLost
<1>18. ASSUME NEW c \in Client, WriteRow(c) PROVE Undisturbed'
  BY <1>18 DEF WriteRow
<1>19. ASSUME NEW c \in Client, WritePart(c) PROVE Undisturbed'
  BY <1>19 DEF WritePart
<1>20. ASSUME NEW c \in Client, Move(c) PROVE Undisturbed'
  <2>1. SUFFICES ASSUME ~shaken PROVE Undisturbed'
    BY <1>20 DEF Move
  <2>2. c = executor /\ part # NoRecord
    BY <2>1, <1>20 DEF Move
  <2>3. Goto(executor, job[executor].next, job[executor].rec) /\ part' = NoRecord
    BY <2>2, <1>20 DEF Move
  <2>4. /\ pc'[executor] = job[executor].next /\ job'[executor].step = "at"
        /\ \A o \in Client \ {executor} : pc'[o] = pc[o] /\ job'[o] = job[o]
    BY <2>3
  <2>5. ~shaken /\ Updating(executor) /\ UNCHANGED <<row, requested, trainer, unread, reader>>
    BY <2>1, <2>2, <1>20 DEF Move
  <2>6. Quiet => Quiet'
    BY <2>4, <2>5
  <2>7. /\ pc'[executor] \in {"create", "turn", "stage", "spawn"} => trainer' = "none"
        /\ trainer' = "running" => At(executor, "wait")'
    BY <2>4, <2>5
  <2>8. row' = NoRecord => Quiet'
    BY <2>5, <2>6
  <2>9. \A o \in Client \ {executor} : ~Updating(o)' /\ pc'[o] # "cancel"
    BY <2>4, <2>5
  <2>10. (Over' => Quiet') /\ (reader' \in {"last", "done"} => Quiet') /\ (reader' = "done" => ~unread')
    BY <2>5, <2>6
  <2>. QED  BY <2>4, <2>5, <2>7, <2>8, <2>9, <2>10
<1>21. ASSUME NEW c \in Client, CancelBegin(c) PROVE Undisturbed'
  BY <1>21 DEF CancelBegin
<1>22. ASSUME NEW c \in Client, CancelQueued(c) PROVE Undisturbed'
  BY <1>22 DEF CancelQueued
<1>23. ASSUME NEW c \in Client, CancelStarted(c) PROVE Undisturbed'
  BY <1>23 DEF CancelStarted
<1>24. ASSUME NEW c \in Client, Crash(c) PROVE Undisturbed'
  BY <1>24 DEF Crash
<1>25. CASE UNCHANGED vars
  BY <1>25 DEF vars
<1>. QED
  BY <1>1, <1>2, <1>3, <1>4, <1>5, <1>6, <1>7, <1>8, <1>9, <1>10, <1>11, <1>12, <1>13, <1>14, <1>15,
     <1>16, <1>17, <1>18, <1>19, <1>20, <1>21, <1>22, <1>23, <1>24, <1>25 DEF Next, Execute,
     Following, Recording

-----------------------------------------------------------------------------
(* The invariant, and what follows from it.                                *)

Inv == Typed /\ Course /\ Begun /\ RowFirst /\ OthersEnd /\ Exists /\ Ends /\ Undisturbed

\* There is nothing yet, and everything still to be done.
LEMMA Initially == Init => Inv
<1>. SUFFICES ASSUME Init PROVE Inv
  OBVIOUS
<1>. USE RunRecordAssumption DEF Init, Client, NoJob, Updating
<1>1. Typed
  BY DEF Typed, TypeOK, Job, Step, Label
<1>2. Course /\ Begun /\ OthersEnd
  BY DEF Course, Begun, OthersEnd
<1>3. RowFirst /\ Exists
  BY DEF RowFirst, FileNeverAhead, Exists, HistoryKept, At
<1>4. Ends /\ Undisturbed
  BY DEF Ends, Undisturbed, Over, Quiet, At
<1>. QED  BY <1>1, <1>2, <1>3, <1>4 DEF Inv

\* The invariant is inductive.
LEMMA InvStep == Inv /\ [Next]_vars => Inv'
  BY TypedStep, CourseStep, BegunStep, RowFirstStep, OthersEndStep, ExistsStep, EndsStep,
     UndisturbedStep
     DEF Inv

\* It holds in every reachable state.
LEMMA Always == Spec => []Inv
  BY Initially, InvStep, PTL DEF Spec

\* Rows, files and what is being written are always whole records (runs.py:142),
\* and every client of the store is where its code can be.
THEOREM RecordTypes == Spec => []TypeOK
<1>1. Inv => TypeOK
  BY DEF Inv, Typed
<1>. QED  BY <1>1, Always, PTL

\* Whoever cancels, reconciles, is killed or raises meanwhile: an executor that is
\* done with a run leaves it over, run.json says nothing that the row has not
\* said, and no run whose submission returned is missing there.
THEOREM RecordsKept == Spec => []RecordKept
<1>1. Inv => OverForGood
  <2>. SUFFICES ASSUME Inv, pc[executor] = "over" PROVE row.state \in Terminal
    BY DEF OverForGood
  <2>1. ~Updating(executor)
    BY DEF Inv, Course
  <2>. QED  BY <2>1 DEF Inv, Ends, Over
<1>2. Inv => FileNeverAhead /\ HistoryKept
  BY DEF Inv, RowFirst, Exists
<1>. QED  BY <1>1, <1>2, Always, PTL DEF RecordKept

\* Who follows a run that nobody else ends has all of its log when the following
\* ends, however the executor, the script and the reader are interleaved.
THEOREM LogSeen == Spec => []FollowerSeesAll
<1>1. Inv => FollowerSeesAll
  BY DEF Inv, Undisturbed, FollowerSeesAll
<1>. QED  BY <1>1, Always, PTL
==============================================================================
