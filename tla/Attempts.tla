------------------------------- MODULE Attempts -------------------------------
(***************************************************************************)
(* The attempts of one experiment, in four places that have to agree: the  *)
(* list in its experiment.json, the run store, the copies in attempts/,    *)
(* and the folder's copy in object storage.                                *)
(*                                                                         *)
(* Terminals and the API submit runs (lab/cli.py, api.py), executors run   *)
(* and finalize them one at a time (executor.py, lab/finalize.py), people  *)
(* publish, pull and remove the experiment and ask for its status          *)
(* (lab/cli.py, lab/storage.py, lab/report.py).  How runs take turns on    *)
(* the GPU is in RunQueue; here an executor holds it from start to end.    *)
(***************************************************************************)
EXTENDS Naturals, SequencesExt

CONSTANTS
  Run,        \* run ids
  NoRun,
  Submitter,  \* nawat exp run, nawat sweep run, POST /experiments/.../run
  MaxOdd      \* bound on the deaths and on publishing, pulling and removing by hand

ASSUME AttemptsAssumption == NoRun \notin Run /\ MaxOdd \in Nat

VARIABLES
  folder,     \* the experiment folder is there
  listed,     \* "attempts" in its experiment.json
  row,        \* the run store's state of each run
  process,    \* its trainer
  copy,       \* the state in attempts/<run>/record.json
  stored,     \* runs/<experiment>/experiment in object storage, Nothing: none of it, or a part
  submitter,  \* who submits
  executor,   \* who holds the GPU
  publisher,  \* who copies the folder to object storage: the executor, or by hand
  remover,    \* nawat exp rm
  odd,        \* deaths and times by hand so far
  muddled,    \* history: someone submitted, or may do so, who cannot know of a pending run
  raced,      \* history: an update of the list was lost: two at a time, or an older list pulled
  cut         \* history: a publishing failed, was killed or crossed another, or the copy was removed

files == <<folder, listed, copy>>
runs == <<row, process>>
history == <<muddled, raced, cut>>
vars == <<files, runs, stored, submitter, executor, publisher, remover, odd, history>>

-----------------------------------------------------------------------------

Ended == "ended"   \* succeeded, failed or cancelled
Active == {"staging", "running"}   \* and publishing, which differs in nothing here
Pending == {"queued"} \cup Active
State == {"none", Ended} \cup Pending
Nothing == [there |-> FALSE, listed |-> <<>>, copy |-> [r \in Run |-> "none"]]
Snapshot == [there |-> TRUE, listed |-> listed, copy |-> copy]

\* at: with which step it is done; run: the run created; list: attempts as read.
Idle == [at |-> "idle", run |-> NoRun, list |-> <<>>, here |-> FALSE]
Resting == [at |-> "idle", snapshot |-> Nothing]
Publisher == {"executor", "hand"}

Odd == odd < MaxOdd /\ odd' = odd + 1

\* Nobody is between looking at the list and writing it; nobody is writing it.
NoneAtList == /\ \A s \in Submitter : submitter[s].at \in {"idle", "waiting", "gone"}
              /\ executor.at \notin {"listing", "adding"}
NoneAdding == /\ \A s \in Submitter : submitter[s].at # "adding"
              /\ executor.at # "adding"

-----------------------------------------------------------------------------
(* Submitting.                                                             *)

\* find loads experiment.json; the attempts are looked at as they were then.
Find(s) ==
  /\ submitter[s].at = "idle" /\ folder
  /\ submitter' = [submitter EXCEPT ![s] = [Idle EXCEPT !.at = "found", !.list = listed]]
  /\ muddled' = (muddled \/ ~NoneAtList)
  /\ UNCHANGED <<files, runs, stored, executor, publisher, remover, odd, raced, cut>>

\* Faulty: only a run that has started counts.
CreateUnlessRunning(s, r, here) ==
  /\ submitter[s].at = "found" /\ row[r] = "none"
  /\ IF \E a \in ToSet(submitter[s].list) : row[a] \in Active
     THEN submitter' = [submitter EXCEPT ![s] = Idle] /\ UNCHANGED row
     ELSE /\ row' = [row EXCEPT ![r] = "queued"]
          /\ submitter' = [submitter EXCEPT ![s] = [Idle EXCEPT !.at = "created", !.run = r, !.here = here]]
  /\ UNCHANGED <<files, process, stored, executor, publisher, remover, odd, history>>

\* pending_attempt, then the run is created: from here on the queue may start it,
\* unless it is claimed by the terminal that is here.
Create(s, r, here) ==
  /\ submitter[s].at = "found" /\ row[r] = "none"
  /\ IF \E a \in ToSet(submitter[s].list) : row[a] \in Pending
     THEN submitter' = [submitter EXCEPT ![s] = Idle] /\ UNCHANGED row
     ELSE /\ row' = [row EXCEPT ![r] = "queued"]
          /\ submitter' = [submitter EXCEPT ![s] = [Idle EXCEPT !.at = "created", !.run = r, !.here = here]]
  /\ UNCHANGED <<files, process, stored, executor, publisher, remover, odd, history>>

\* add_attempt reads the file again, ...
AddRead(s) ==
  /\ submitter[s].at = "created"
  /\ submitter' = [submitter EXCEPT ![s] = IF folder THEN [@ EXCEPT !.at = "adding", !.list = listed] ELSE Idle]
  /\ raced' = (raced \/ ~NoneAdding)
  /\ UNCHANGED <<files, runs, stored, executor, publisher, remover, odd, muddled, cut>>

\* Faulty: the newest comes first.
AddedFirst(list, r) == <<r>> \o list

Added(list, r) == Append(list, r)

\* ... and writes it.
AddWrite(s) ==
  /\ submitter[s].at = "adding"
  /\ IF folder THEN listed' = Added(submitter[s].list, submitter[s].run) ELSE UNCHANGED listed
  /\ submitter' = [submitter EXCEPT ![s] = IF folder /\ @.here THEN [@ EXCEPT !.at = "waiting", !.list = <<>>] ELSE Idle]
  /\ UNCHANGED <<folder, copy, runs, stored, executor, publisher, remover, odd, history>>

\* The terminal sees its run end.
Return(s) ==
  /\ submitter[s].at = "waiting" /\ row[submitter[s].run] = Ended
  /\ submitter' = [submitter EXCEPT ![s] = Idle]
  /\ UNCHANGED <<files, runs, stored, executor, publisher, remover, odd, history>>

\* The claim of a terminal ends with it.
Dies(s) ==
  /\ submitter[s].at \in {"found", "created", "adding", "waiting"}
  /\ submitter' = [submitter EXCEPT ![s] = IF @.here /\ row[@.run] = "queued" THEN [@ EXCEPT !.at = "gone", !.list = <<>>] ELSE Idle]
  /\ muddled' = (muddled \/ submitter[s].at \in {"created", "adding"})
  /\ Odd
  /\ UNCHANGED <<files, runs, stored, executor, publisher, remover, raced, cut>>

\* drop_abandoned, by whoever waits for the GPU or serves the queue.
Drop(s) ==
  /\ submitter[s].at = "gone"
  /\ row' = [row EXCEPT ![submitter[s].run] = IF @ = "queued" THEN Ended ELSE @]
  /\ submitter' = [submitter EXCEPT ![s] = Idle]
  /\ UNCHANGED <<files, process, stored, executor, publisher, remover, odd, history>>

Claimed(r) == \E s \in Submitter : submitter[s].run = r /\ submitter[s].here /\ submitter[s].at \in {"created", "adding", "gone"}

\* nawat exp cancel is about the last attempt listed.
Cancel ==
  /\ folder /\ listed # <<>> /\ row[Last(listed)] \in Pending
  /\ LET r == Last(listed)
     IN IF row[r] = "queued"
        THEN row' = [row EXCEPT ![r] = Ended] /\ UNCHANGED process
        ELSE process' = [process EXCEPT ![r] = IF @ = "alive" THEN "gone" ELSE @] /\ UNCHANGED row
  /\ UNCHANGED <<files, stored, submitter, executor, publisher, remover, odd, history>>

-----------------------------------------------------------------------------
(* Executor.execute.                                                       *)

Start(r) ==
  /\ executor.at = "idle" /\ row[r] = "queued" /\ ~Claimed(r)
  /\ row' = [row EXCEPT ![r] = "staging"]
  /\ executor' = [Idle EXCEPT !.at = "waiting", !.run = r]
  /\ UNCHANGED <<files, process, stored, submitter, publisher, remover, odd, history>>

Launch ==
  /\ executor.at = "waiting" /\ process[executor.run] = "none"
  /\ row' = [row EXCEPT ![executor.run] = "running"] /\ process' = [process EXCEPT ![executor.run] = "alive"]
  /\ UNCHANGED <<files, stored, submitter, executor, publisher, remover, odd, history>>

Exit(r) ==
  /\ process[r] = "alive"
  /\ process' = [process EXCEPT ![r] = "gone"]
  /\ UNCHANGED <<files, row, stored, submitter, executor, publisher, remover, odd, history>>

\* Faulty: the run is finalized before its end is recorded.
EndUnrecorded ==
  /\ executor.at = "waiting" /\ process[executor.run] # "alive"
  /\ executor' = [executor EXCEPT !.at = "ended"]
  /\ UNCHANGED <<files, runs, stored, submitter, publisher, remover, odd, history>>

\* Cancelled or failed before it was launched, or its outputs are published: from here on
\* the experiment may be run again.
End ==
  /\ executor.at = "waiting" /\ process[executor.run] # "alive"
  /\ row' = [row EXCEPT ![executor.run] = Ended]
  /\ executor' = [executor EXCEPT !.at = "ended"]
  /\ UNCHANGED <<files, process, stored, submitter, publisher, remover, odd, history>>

\* Faulty: the submitter may have added it, or not.
LookAway ==
  /\ executor.at = "ended"
  /\ executor' = IF ~folder THEN Idle ELSE [executor EXCEPT !.at = "listing"]
  /\ UNCHANGED <<files, runs, stored, submitter, publisher, remover, odd, history>>

\* Faulty: the submitter has added it.
LookOnly ==
  /\ executor.at = "ended"
  /\ executor' = IF ~folder THEN Idle ELSE [executor EXCEPT !.at = "copying"]
  /\ UNCHANGED <<files, runs, stored, submitter, publisher, remover, odd, history>>

\* finalize: without the folder there is nothing to do; the attempt is added if it is missing.
Look ==
  /\ executor.at = "ended"
  /\ executor' = IF ~folder THEN Idle
                 ELSE [executor EXCEPT !.at = IF executor.run \in ToSet(listed) THEN "copying" ELSE "listing"]
  /\ muddled' = (muddled \/ (folder /\ executor.run \notin ToSet(listed) /\ ~NoneAtList))
  /\ UNCHANGED <<files, runs, stored, submitter, publisher, remover, odd, raced, cut>>

ListRead ==
  /\ executor.at = "listing"
  /\ executor' = IF folder THEN [executor EXCEPT !.at = "adding", !.list = listed] ELSE Idle
  /\ raced' = (raced \/ ~NoneAdding)
  /\ UNCHANGED <<files, runs, stored, submitter, publisher, remover, odd, muddled, cut>>

ListWrite ==
  /\ executor.at = "adding"
  /\ IF folder THEN listed' = Added(executor.list, executor.run) /\ executor' = [executor EXCEPT !.at = "copying", !.list = <<>>]
     ELSE executor' = Idle /\ UNCHANGED listed
  /\ UNCHANGED <<folder, copy, runs, stored, submitter, publisher, remover, odd, history>>

\* The run's files, its record and the reports.
Copy ==
  /\ executor.at = "copying"
  /\ IF folder THEN copy' = [copy EXCEPT ![executor.run] = row[executor.run]] /\ executor' = [executor EXCEPT !.at = "publishing"]
     ELSE executor' = Idle /\ UNCHANGED copy
  /\ UNCHANGED <<folder, listed, runs, stored, submitter, publisher, remover, odd, history>>

\* The GPU is given back: the next run takes its turn.
Finalized ==
  /\ executor.at = "published"
  /\ executor' = Idle
  /\ UNCHANGED <<files, runs, stored, submitter, publisher, remover, odd, history>>

\* The executor dies.  Its trainer lives on.
Crash ==
  /\ executor.at # "idle"
  /\ executor' = Idle
  /\ publisher' = [publisher EXCEPT !["executor"] = Resting]
  /\ cut' = (cut \/ executor.at \notin {"waiting"})
  /\ Odd
  /\ UNCHANGED <<files, runs, stored, submitter, remover, muddled, raced>>

\* RunStore.reconcile, when the control plane starts: a run without a trainer has failed,
\* even one that another process is staging or publishing.  It is not finalized for that.
Reconcile(r) ==
  /\ row[r] \in Active /\ process[r] # "alive"
  /\ row' = [row EXCEPT ![r] = Ended]
  /\ muddled' = (muddled \/ (executor.at = "waiting" /\ executor.run = r))
  /\ UNCHANGED <<files, process, stored, submitter, executor, publisher, remover, odd, raced, cut>>

-----------------------------------------------------------------------------
(* finalize.publish, by the executor or by hand.                           *)

\* It has come to an end, one way or the other.
Over(p) ==
  /\ publisher' = [publisher EXCEPT ![p] = Resting]
  /\ executor' = IF p = "executor" THEN [executor EXCEPT !.at = "published"] ELSE executor

\* The folder is copied aside.  Another's publishing may cross this one.
Stage(p) ==
  /\ publisher[p].at = "idle" /\ folder
  /\ IF p = "executor" THEN executor.at = "publishing" /\ UNCHANGED odd
     ELSE Odd
  /\ publisher' = [publisher EXCEPT ![p] = [at |-> "staged", snapshot |-> Snapshot]]
  /\ cut' = (cut \/ \E other \in Publisher : publisher[other].at # "idle")
  /\ UNCHANGED <<files, runs, stored, submitter, executor, remover, muddled, raced>>

\* Faulty: what is there stays there.
DeleteNothing(p) ==
  /\ publisher[p].at = "staged"
  /\ IF stored.there THEN Over(p)
     ELSE publisher' = [publisher EXCEPT ![p].at = "deleted"] /\ UNCHANGED executor
  /\ UNCHANGED <<files, runs, stored, submitter, remover, odd, history>>

\* Faulty: the store is asked again and again.
FailsAndRetries(p) ==
  /\ publisher[p].at \in {"staged", "deleted"} \/ (p = "executor" /\ executor.at = "publishing" /\ publisher[p].at = "idle")
  /\ publisher' = [publisher EXCEPT ![p] = Resting]
  /\ cut' = TRUE
  /\ UNCHANGED <<files, runs, stored, submitter, executor, remover, odd, muddled, raced>>

\* delete_prefix
Delete(p) ==
  /\ publisher[p].at = "staged"
  /\ stored' = Nothing
  /\ publisher' = [publisher EXCEPT ![p].at = "deleted"]
  /\ UNCHANGED <<files, runs, submitter, executor, remover, odd, history>>

Upload(p) ==
  /\ publisher[p].at = "deleted"
  /\ stored' = publisher[p].snapshot
  /\ Over(p)
  /\ UNCHANGED <<files, runs, submitter, remover, odd, history>>

\* The store is down, the copy does not verify, or the folder has gone.
PublishFails(p) ==
  /\ publisher[p].at \in {"staged", "deleted"} \/ (p = "executor" /\ executor.at = "publishing" /\ publisher[p].at = "idle")
  /\ Over(p)
  /\ cut' = TRUE
  /\ UNCHANGED <<files, runs, stored, submitter, remover, odd, muddled, raced>>

-----------------------------------------------------------------------------
(* nawat exp rm and nawat exp pull.                                        *)

\* _live_keys: the runs that are active; queued ones are not.
LiveKeys == {r \in Run : row[r] \in Active}

\* storage.delete refuses what a live run uses; the answer is older than the deletion.
RemoveAsk ==
  /\ remover = "idle" /\ Odd /\ folder
  /\ LiveKeys = {}
  /\ remover' = "asked"
  /\ UNCHANGED <<files, runs, stored, submitter, executor, publisher, history>>

RemoveStored ==
  /\ remover = "asked"
  /\ stored' = Nothing /\ cut' = TRUE
  /\ remover' \in {"idle", "stored"}
  /\ UNCHANGED <<files, runs, submitter, executor, publisher, odd, muddled, raced>>

\* --local asks for nothing: a run in progress loses its folder.
RemoveFolder ==
  /\ \/ remover = "stored" /\ UNCHANGED odd
     \/ remover = "idle" /\ Odd
  /\ folder
  /\ folder' = FALSE /\ listed' = <<>> /\ copy' = Nothing.copy
  /\ remover' = "idle"
  /\ muddled' = (muddled \/ (\E r \in Run : row[r] \in Pending) \/ ~NoneAtList)
  /\ raced' = (raced \/ executor.at # "idle")
  /\ cut' = (cut \/ executor.at # "idle")
  /\ UNCHANGED <<runs, stored, submitter, executor, publisher>>

\* The stored files replace those of the same name.
Pull ==
  /\ Odd /\ stored.there
  /\ muddled' = (muddled \/ (\E r \in Run : row[r] \in Pending \/ r \in ToSet(listed) \ ToSet(stored.listed)) \/ ~NoneAtList)
  /\ folder' = TRUE /\ listed' = stored.listed
  /\ copy' = [r \in Run |-> IF stored.copy[r] # "none" THEN stored.copy[r] ELSE copy[r]]
  /\ raced' = (raced \/ ~NoneAdding \/ ~(ToSet(listed) \subseteq ToSet(stored.listed)))
  /\ cut' = (cut \/ executor.at # "idle")
  /\ UNCHANGED <<runs, stored, submitter, executor, publisher, remover>>

-----------------------------------------------------------------------------
(* report.status.                                                          *)

\* attempt_records: the copy, and without one what the run store says now.
StateOf(r) ==
  IF copy[r] # "none" THEN copy[r]
  ELSE IF row[r] = "running" /\ process[r] = "gone" THEN "interrupted"
  ELSE row[r]

\* latest_attempt: experiments that have not been run are planned, or approved.
Status == IF listed = <<>> THEN "approved" ELSE StateOf(Last(listed))

-----------------------------------------------------------------------------

Init ==
  /\ folder = TRUE /\ listed = <<>> /\ copy = [r \in Run |-> "none"]
  /\ row = [r \in Run |-> "none"] /\ process = [r \in Run |-> "none"]
  /\ stored = Nothing
  /\ submitter = [s \in Submitter |-> Idle] /\ executor = Idle
  /\ publisher = [p \in Publisher |-> Resting] /\ remover = "idle"
  /\ odd = 0 /\ muddled = FALSE /\ raced = FALSE /\ cut = FALSE

Submitting(s) ==
  \/ Find(s) \/ AddRead(s) \/ AddWrite(s) \/ Return(s) \/ Dies(s) \/ Drop(s)
  \/ \E r \in Run, here \in BOOLEAN : Create(s, r, here)

Executing ==
  \/ \E r \in Run : Start(r) \/ Exit(r) \/ Reconcile(r)
  \/ Launch \/ End \/ Look \/ ListRead \/ ListWrite \/ Copy \/ Finalized \/ Crash

Publishing(p) == Stage(p) \/ Delete(p) \/ Upload(p) \/ PublishFails(p)

Next ==
  \/ \E s \in Submitter : Submitting(s)
  \/ Executing \/ Cancel
  \/ \E p \in Publisher : Publishing(p)
  \/ RemoveAsk \/ RemoveStored \/ RemoveFolder \/ Pull

Spec == Init /\ [][Next]_vars

\* Executors and what they do go on, as long as nothing kills them; trainers end.
FairSpec ==
  /\ Spec
  /\ WF_vars(Launch \/ End \/ Look \/ ListRead \/ ListWrite \/ Copy \/ Finalized)
  /\ WF_vars(Publishing("executor"))
  /\ \A r \in Run : WF_vars(Exit(r))

-----------------------------------------------------------------------------
(* Properties.                                                             *)

\* Every variable stays in its type, and nobody writes a run into the list that is not in the run store.
TypeOK ==
  /\ folder \in BOOLEAN /\ listed \in Seq(Run) /\ copy \in [Run -> {"none", Ended}]
  /\ row \in [Run -> State] /\ process \in [Run -> {"none", "alive", "gone"}]
  /\ stored.there \in BOOLEAN /\ stored.listed \in Seq(Run) /\ stored.copy \in [Run -> {"none", Ended}]
  /\ remover \in {"idle", "asked", "stored"} /\ odd \in 0..MaxOdd
  /\ muddled \in BOOLEAN /\ raced \in BOOLEAN /\ cut \in BOOLEAN
  /\ \A r \in ToSet(listed) \cup ToSet(stored.listed) : row[r] # "none"

\* An experiment has one attempt queued or running at a time (lab/cli.py:301), whoever submits,
\* unless two submit at a time or the list does not tell of a run that was created.
OnePending == ~muddled /\ ~raced => \A r, s \in Run : row[r] \in Pending /\ row[s] \in Pending => r = s

\* Who asks for the status of an experiment (report.py:86) is told of the run that is pending,
\* and that it was interrupted only when its trainer has gone.
StatusTruthful ==
  folder /\ ~muddled /\ ~raced => \A r \in ToSet(listed) : row[r] \in Pending =>
    Status = row[r] \/ (Status = "interrupted" /\ process[r] = "gone")

\* finalize.py:49: a finished attempt whose files were gathered is in the list, whether or not
\* its submitter lived to add it ...
FinishedListed == folder /\ ~raced => \A r \in Run : copy[r] # "none" => r \in ToSet(listed)

\* ... and there once: a report would count its measurements twice.
ListedOnce == ~muddled /\ ~raced => IsInjective(listed)

\* The list of attempts, and what is told from it.
ListTruthful == TypeOK /\ StatusTruthful /\ FinishedListed /\ ListedOnce

\* finalize.py:6-16: when a run has been finalized, object storage has the list and the records
\* of all attempts, unless a publishing was disturbed.
StoreKeepsUp ==
  folder /\ ~cut /\ ~raced /\ executor.at = "idle" /\ (\A p \in Publisher : publisher[p].at = "idle") =>
    \A r \in Run : copy[r] # "none" => stored.copy[r] = copy[r] /\ r \in ToSet(stored.listed)

\* executor.py:447: whatever becomes of the finalization, the GPU is given back.
GpuGivenBack == executor.at # "idle" ~> executor.at = "idle"
=============================================================================
