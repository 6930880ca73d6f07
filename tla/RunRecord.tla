------------------------------ MODULE RunRecord ------------------------------
(***************************************************************************)
(* The record of one run (src/nawat/runs.py): its row in the database and  *)
(* the run.json beside its log, as the executor (executor.py) brings them  *)
(* forward while somebody cancels the run, the control plane starts        *)
(* (api.py) and a terminal follows the log.  RunQueue says who may execute *)
(* and when; here update is what it is: a read, a transaction that writes  *)
(* every column, and a file written under a temporary name and moved.      *)
(***************************************************************************)
CONSTANTS
  Canceller,   \* terminals and requests that cancel the run
  executor,    \* who executes it: a terminal or the queue service
  platform,    \* a control plane that starts
  NoRecord     \* no row, no file

VARIABLES
  row,        \* SELECT * FROM runs WHERE id = ?
  file,       \* run.json
  part,       \* run.json.part
  requested,  \* the cancel sentinel
  trainer,    \* the training process
  unread,     \* run.log has lines of the script that its follower has not read
  pc, job,    \* the clients of the store
  reader,     \* who follows the log
  said,       \* history: the states the row has been in
  shaken      \* history: somebody else than the executor meant to end the run

vars == <<row, file, part, requested, trainer, unread, pc, job, reader, said, shaken>>

Client == Canceller \cup {executor, platform}

-----------------------------------------------------------------------------
(* RunState and RunRecord.                                                 *)

Terminal == {"succeeded", "failed", "cancelled"}
Active == {"staging", "running", "publishing"}
\* Times, the error and the artifacts are written with them.
State == {"queued"} \cup Active \cup Terminal

Record == [state : State, pid : BOOLEAN,
           exit : {"none", "ok", "bad"}]

Submitted == [state |-> "queued", pid |-> FALSE, exit |-> "none"]

\* What an update writes: the row as it reads it, with some fields changed.
To(s) == [row EXCEPT !.state = s]

ASSUME RunRecordAssumption ==
  /\ executor \notin Canceller /\ platform \notin Canceller /\ executor # platform
  /\ NoRecord \notin Record

Label == {"create", "turn", "stage", "spawn", "wait", "published", "settle", "fail", "salvage",
          "over", "idle", "cancel", "rebuild", "reconcile", "dead"}

Step == {"at", "read", "write", "part", "move"}

\* next, otherwise: where the client goes on after the update, or when it raises.
Job == [step : Step, next : Label, otherwise : Label, rec : Record \cup {NoRecord}]

NoJob == [step |-> "at", next |-> "idle", otherwise |-> "idle", rec |-> NoRecord]

Resting == {"turn", "over", "idle", "dead", "fail", "rebuild", "reconcile"}

At(c, label) == pc[c] = label /\ job[c].step = "at"

Goto(c, label, rec) ==
  /\ pc' = [pc EXCEPT ![c] = label]
  /\ job' = [job EXCEPT ![c] = [NoJob EXCEPT !.rec = IF label \in Resting THEN NoRecord ELSE rec]]

-----------------------------------------------------------------------------
(* create and update.                                                      *)

\* The row, ...  Whoever follows the run does so from here on, at any pace.
Create ==
  /\ At(executor, "create") /\ row = NoRecord
  /\ row' = Submitted
  /\ said' = said \cup {"queued"}
  /\ job' = [job EXCEPT ![executor] = [step |-> "part", next |-> "turn", otherwise |-> "over", rec |-> Submitted]]
  /\ reader' = "read"
  /\ UNCHANGED <<file, part, requested, trainer, unread, pc, shaken>>

\* update: it begins by reading, ...
Update(c, changed, next, otherwise) ==
  /\ row # NoRecord
  /\ job' = [job EXCEPT ![c] = [step |-> "write", next |-> next, otherwise |-> otherwise, rec |-> changed]]
  /\ UNCHANGED pc

\* Faulty: only the state is written back.
WriteState(c) ==
  /\ job[c].step = "write"
  /\ row' = [state |-> job[c].rec.state]
  /\ said' = said \cup {job[c].rec.state}
  /\ job' = [job EXCEPT ![c].step = "part"]
  /\ UNCHANGED <<file, part, requested, trainer, unread, pc, reader, shaken>>

\* ... then writes every column, whatever the row is by now, ...
WriteRow(c) ==
  /\ job[c].step = "write"
  /\ row' = job[c].rec
  /\ said' = said \cup {job[c].rec.state}
  /\ job' = [job EXCEPT ![c].step = "part"]
  /\ UNCHANGED <<file, part, requested, trainer, unread, pc, reader, shaken>>

\* ... then the file, under the one temporary name of the run, ...
WritePart(c) ==
  /\ job[c].step = "part"
  /\ part' = job[c].rec
  /\ job' = [job EXCEPT ![c].step = "move"]
  /\ UNCHANGED <<row, file, requested, trainer, unread, pc, reader, said, shaken>>

\* ... and moves it, unless another update has moved it away.
Move(c) ==
  /\ job[c].step = "move"
  /\ IF part # NoRecord
     THEN file' = part /\ part' = NoRecord /\ Goto(c, job[c].next, job[c].rec)
     ELSE UNCHANGED <<file, part>> /\ Goto(c, job[c].otherwise, job[c].rec)
  /\ UNCHANGED <<row, requested, trainer, unread, reader, said, shaken>>

others == <<row, file, part, unread, reader, said, shaken>>

-----------------------------------------------------------------------------
(* execute.                                                                *)

\* wait_for_turn: a run that was ended or cancelled meanwhile is left.
Turn ==
  /\ At(executor, "turn")
  /\ IF row.state \in Terminal THEN Goto(executor, "over", row)
     ELSE IF requested THEN Update(executor, To("cancelled"), "over", "over")
     ELSE Update(executor, To("staging"), "stage", "fail")
  /\ UNCHANGED <<others, requested, trainer>>

\* Whatever is not the recording may raise: staging, planning, publishing.
Raise ==
  /\ At(executor, "stage") \/ At(executor, "published")
  /\ Goto(executor, "fail", job[executor].rec)
  /\ UNCHANGED <<others, requested, trainer>>

\* The inputs are staged, the run is planned.
Stage ==
  /\ At(executor, "stage")
  /\ IF requested THEN Update(executor, To("cancelled"), "settle", "fail")
                  ELSE Goto(executor, "spawn", job[executor].rec)
  /\ UNCHANGED <<others, requested, trainer>>

Spawn ==
  /\ At(executor, "spawn") /\ trainer = "none"
  /\ trainer' = "running"
  /\ Update(executor, [row EXCEPT !.state = "running", !.pid = TRUE], "wait", "fail")
  /\ UNCHANGED <<others, requested>>

\* process.wait and what comes of it.
Exited(code) ==
  /\ At(executor, "wait") /\ trainer = "exited"
  /\ unread' = TRUE
  /\ IF requested THEN Update(executor, [row EXCEPT !.state = "cancelled", !.exit = code], "settle", "fail")
                  ELSE Update(executor, [row EXCEPT !.exit = code], "published", "fail")
  /\ UNCHANGED <<row, file, part, requested, trainer, reader, said, shaken>>

\* PUBLISHING and then the outcome, both by the record the last update returned.
Published ==
  LET rec == job[executor].rec
  IN /\ At(executor, "published")
     /\ CASE rec.state = "cancelled" -> Goto(executor, "settle", rec)
          [] rec.state = "publishing" /\ rec.exit = "ok" ->
               Update(executor, To("succeeded"), "settle", "fail")
          [] rec.state = "publishing" /\ rec.exit # "ok" ->
               Update(executor, To("failed"), "settle", "fail")
          [] OTHER -> Update(executor, To("publishing"), "published", "fail")
     /\ UNCHANGED <<others, requested, trainer>>

\* Faulty: the outcome is left to reconcile.
FailQuietly ==
  /\ At(executor, "fail")
  /\ Goto(executor, "salvage", row)
  /\ UNCHANGED <<others, requested, trainer>>

\* _fail, in the handler of every exception: what is raised here nobody handles.
Fail ==
  /\ At(executor, "fail")
  /\ IF row.state = "cancelled" THEN Goto(executor, "salvage", row)
                                ELSE Update(executor, To("failed"), "salvage", "over")
  /\ UNCHANGED <<others, requested, trainer>>

\* _settle_checkpoints records what has become of the checkpoints, in the try of
\* _execute or in its handlers.
Settle ==
  /\ At(executor, "settle") \/ At(executor, "salvage")
  /\ Update(executor, row, "over",
            IF pc[executor] = "settle" THEN "fail" ELSE "over")
  /\ UNCHANGED <<others, requested, trainer>>

-----------------------------------------------------------------------------
(* The training script and who follows it.                                 *)

TrainerLogs ==
  /\ trainer = "running"
  /\ unread' = TRUE
  /\ UNCHANGED <<row, file, part, requested, trainer, pc, job, reader, said, shaken>>

TrainerExits ==
  /\ trainer = "running"
  /\ trainer' = "exited"
  /\ UNCHANGED <<others, requested, pc, job>>

\* follow_log: what is there is yielded, and then the record is looked at.
Follow ==
  /\ reader = "read"
  /\ unread' = FALSE /\ reader' = IF unread THEN "read" ELSE "look"
  /\ UNCHANGED <<row, file, part, requested, trainer, pc, job, said, shaken>>

\* Faulty: a cancelled run is not over.
FollowCancelled ==
  /\ reader = "look"
  /\ reader' = IF row = NoRecord \/ row.state \in {"succeeded", "failed"} THEN "last" ELSE "read"
  /\ UNCHANGED <<row, file, part, requested, trainer, unread, pc, job, said, shaken>>

\* Faulty: nothing is read any more once the run is over.
FollowNoMore ==
  /\ reader = "look"
  /\ reader' = IF row = NoRecord \/ row.state \in Terminal THEN "done" ELSE "read"
  /\ UNCHANGED <<row, file, part, requested, trainer, unread, pc, job, said, shaken>>

FollowLook ==
  /\ reader = "look"
  /\ reader' = IF row = NoRecord \/ row.state \in Terminal THEN "last" ELSE "read"
  /\ UNCHANGED <<row, file, part, requested, trainer, unread, pc, job, said, shaken>>

\* One last read, for anything written as it exited.
FollowLast ==
  /\ reader = "last"
  /\ reader' = "done" /\ unread' = FALSE
  /\ UNCHANGED <<row, file, part, requested, trainer, pc, job, said, shaken>>

-----------------------------------------------------------------------------
(* cancel: each canceller once (a bound).                                  *)

CancelBegin(c) ==
  /\ At(c, "idle") /\ c \in Canceller /\ row # NoRecord /\ row.state \notin Terminal
  /\ Goto(c, "cancel", row)
  /\ shaken' = TRUE
  /\ UNCHANGED <<row, file, part, requested, trainer, unread, reader, said>>

\* By the record it has read: a queued run is cancelled here, ...
CancelQueued(c) ==
  /\ At(c, "cancel") /\ job[c].rec.state = "queued"
  /\ requested' = TRUE
  /\ Update(c, To("cancelled"), "over", "over")
  /\ UNCHANGED <<others, trainer>>

\* ... any other one by whoever executes it, once its process has been stopped.
CancelStarted(c) ==
  /\ At(c, "cancel") /\ job[c].rec.state # "queued"
  /\ requested' = TRUE
  /\ trainer' = IF job[c].rec.pid /\ trainer = "running" THEN "exited" ELSE trainer
  /\ Goto(c, "over", NoRecord)
  /\ UNCHANGED others

-----------------------------------------------------------------------------
(* The control plane starts: once, and again when the database was lost (a *)
(* bound).                                                                 *)

\* rebuild_from_disk: what the database has forgotten.
Rebuild ==
  /\ At(platform, "idle") \/ At(platform, "rebuild")
  /\ row' = IF row = NoRecord THEN file ELSE row
  /\ Goto(platform, "reconcile", row')
  /\ UNCHANGED <<file, part, requested, trainer, unread, reader, said, shaken>>

Lost(rec) == rec # NoRecord /\ rec.state \in Active /\ ~(rec.pid /\ trainer = "running")

\* reconcile: the run cannot be running any more.
Reconcile ==
  /\ At(platform, "reconcile")
  /\ IF Lost(row)
     THEN shaken' = TRUE /\ Update(platform, To("failed"), "over", "over")
     ELSE UNCHANGED shaken /\ Goto(platform, "over", NoRecord)
  /\ UNCHANGED <<row, file, part, requested, trainer, unread, reader, said>>

-----------------------------------------------------------------------------
(* Faults.                                                                 *)

\* A process is killed; the training script goes on without it.
Crash(c) ==
  /\ pc[c] \notin {"over", "dead"} /\ ~At(c, "idle")
  /\ Goto(c, IF c = executor THEN "dead" ELSE "over", NoRecord)
  /\ UNCHANGED <<others, requested, trainer>>

\* The database is lost while nothing runs and
\* whoever executed the run has gone.
DatabaseLost ==
  /\ pc[executor] \in {"over", "dead"} /\ \A c \in Canceller \cup {platform} : pc[c] \in {"idle", "over"}
  /\ row # NoRecord /\ trainer # "running"
  /\ row' = NoRecord
  /\ pc' = [pc EXCEPT ![platform] = "rebuild", ![executor] = "dead"]
  /\ UNCHANGED <<file, part, requested, trainer, unread, job, reader, said, shaken>>

-----------------------------------------------------------------------------

Init ==
  /\ row = NoRecord /\ file = NoRecord /\ part = NoRecord
  /\ requested = FALSE /\ trainer = "none" /\ unread = FALSE
  /\ pc = [c \in Client |-> IF c = executor THEN "create" ELSE "idle"]
  /\ job = [c \in Client |-> NoJob]
  /\ reader = "none"
  /\ said = {} /\ shaken = FALSE

Recording(c) == WriteRow(c) \/ WritePart(c) \/ Move(c)

Execute ==
  \/ Create \/ Turn \/ Raise \/ Stage \/ Spawn \/ (\E code \in {"ok", "bad"} : Exited(code)) \/ Published
  \/ Fail \/ Settle

Following == Follow \/ FollowLook \/ FollowLast

Next ==
  \/ Execute \/ TrainerLogs \/ TrainerExits \/ Following \/ Rebuild \/ Reconcile \/ DatabaseLost
  \/ \E c \in Client : Recording(c) \/ CancelBegin(c) \/ CancelQueued(c) \/ CancelStarted(c) \/ Crash(c)

Spec == Init /\ [][Next]_vars

\* A terminal that follows a log polls it.
FairSpec == Spec /\ WF_vars(Following)

-----------------------------------------------------------------------------
(* Properties.                                                             *)

TypeOK ==
  /\ {row, file, part} \subseteq Record \cup {NoRecord}
  /\ requested \in BOOLEAN /\ trainer \in {"none", "running", "exited"} /\ unread \in BOOLEAN
  /\ pc \in [Client -> Label] /\ job \in [Client -> Job]
  /\ reader \in {"none", "read", "look", "last", "done"}
  /\ said \subseteq State /\ shaken \in BOOLEAN

\* Whoever cancels, reconciles or raises in between, an executor that is done with
\* a run leaves it over (executor.py:352 "the record must survive anything"), and
\* over it stays until the database is lost.
OverForGood == pc[executor] = "over" => row.state \in Terminal

\* run.json never says more than the row has said, so a rebuilt history claims
\* nothing that was not so (runs.py:6).
FileNeverAhead == file # NoRecord => file.state \in said

\* A run whose submission has returned is in run.json from then on, through
\* crashes in the middle of any update (runs.py:7): losing the database loses no run.
HistoryKept ==
  pc[executor] \notin {"create", "dead"} => file # NoRecord

\* The record of a run: over for good, and its file neither ahead of it nor missing.
RecordKept == OverForGood /\ FileNeverAhead /\ HistoryKept

\* Who follows a run that nobody else ends sees all that its script has written,
\* the last lines before it exited included (runs.py:401).
FollowerSeesAll == reader = "done" /\ ~shaken => ~unread

\* Who follows a run that is over, its script too, comes to an end (runs.py:397).
FollowEnds ==
  (pc[executor] = "over" /\ trainer # "running") ~> (reader \in {"none", "done"} \/ pc[executor] = "dead")
=============================================================================
