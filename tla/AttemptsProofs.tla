---------------------------- MODULE AttemptsProofs ----------------------------
(***************************************************************************)
(* Proofs about Attempts, for any numbers of runs and submitters.          *)
(*                                                                         *)
(* The list of attempts is read and written in two steps, by terminals and *)
(* by the executor. What keeps it whole (Sole) is that nobody else writes  *)
(* between the two. What keeps attempts apart (Apart, Waits) is that       *)
(* whoever looked for a pending attempt and found none is alone from then  *)
(* on until its own is in the list. The invariant says so of every place   *)
(* where a run can be on its way into the list, unless one of the          *)
(* histories tells that the condition was broken. That the store keeps up  *)
(* (Stores) is the same for the copies: each is in the store, or in all    *)
(* that is on its way there, or the executor is about to send it.          *)
(***************************************************************************)
EXTENDS Attempts, TLAPS, SequenceTheorems

-----------------------------------------------------------------------------
(* Types, and what is true of every state.                                 *)

SubmitterAt == {"idle", "found", "created", "adding", "waiting", "gone"}
ExecutorAt == {"idle", "waiting", "ended", "listing", "adding", "copying", "publishing", "published"}
Worker(places) == [at : places, run : Run \cup {NoRun}, list : Seq(Run), here : BOOLEAN]
Stored == [there : BOOLEAN, listed : Seq(Run), copy : [Run -> {"none", Ended}]]

Typed ==
  /\ folder \in BOOLEAN /\ listed \in Seq(Run) /\ copy \in [Run -> {"none", Ended}]
  /\ row \in [Run -> State] /\ process \in [Run -> {"none", "alive", "gone"}]
  /\ stored \in Stored
  /\ submitter \in [Submitter -> Worker(SubmitterAt)] /\ executor \in Worker(ExecutorAt)
  /\ publisher \in [Publisher -> [at : {"idle", "staged", "deleted"}, snapshot : Stored]]
  /\ remover \in {"idle", "asked", "stored"} /\ odd \in 0..MaxOdd
  /\ muddled \in BOOLEAN /\ raced \in BOOLEAN /\ cut \in BOOLEAN

\* Whoever has a run in hand.
Holding ==
  /\ \A s \in Submitter : submitter[s].at \in {"created", "adding", "waiting", "gone"} => submitter[s].run \in Run
  /\ \A s \in Submitter : submitter[s].at = "found" => ~submitter[s].here
  /\ executor.at # "idle" => executor.run \in Run
  /\ publisher["executor"].at # "idle" => executor.at = "publishing"

\* Every run that is written down anywhere, or in somebody's hands, was created.
Made(list, rows) == \A r \in ToSet(list) : rows[r] # "none"
Created ==
  /\ Made(listed, row) /\ Made(stored.listed, row) /\ Made(executor.list, row)
  /\ \A s \in Submitter : Made(submitter[s].list, row)
  /\ \A p \in Publisher : Made(publisher[p].snapshot.listed, row)
  /\ \A s \in Submitter : submitter[s].at \in {"created", "adding", "waiting", "gone"} => row[submitter[s].run] # "none"
  /\ executor.at # "idle" => row[executor.run] \notin {"none", "queued"}

\* What is copied is over for good.
ForGood(r) == row[r] = Ended /\ ~(executor.at = "waiting" /\ executor.run = r)
Final ==
  /\ executor.at \notin {"idle", "waiting"} => row[executor.run] = Ended
  /\ \A r \in Run : copy[r] # "none" \/ stored.copy[r] # "none" \/ (\E p \in Publisher : publisher[p].snapshot.copy[r] # "none") => ForGood(r)

\* Without its folder nothing of an experiment is there.
Absent == ~folder => listed = <<>> /\ copy = Nothing.copy

-----------------------------------------------------------------------------
AtList(s) == submitter[s].at \in {"found", "created", "adding"}
Submits(s) == submitter[s].at \in {"created", "adding"}

\* One writes the list at a time, and what it has read is what is there.
Sole ==
  ~raced =>
    /\ \A s, t \in Submitter : submitter[s].at = "adding" /\ submitter[t].at = "adding" => s = t
    /\ \A s \in Submitter : submitter[s].at = "adding" => executor.at # "adding"
    /\ \A s \in Submitter : submitter[s].at = "adding" /\ folder => submitter[s].list = listed
    /\ executor.at = "adding" => executor.list = listed
    /\ executor.at = "copying" => executor.run \in ToSet(listed)

Gathered(copied, list) == \A r \in Run : copied[r] # "none" => r \in ToSet(list)
Finished ==
  ~raced =>
    /\ folder => Gathered(copy, listed)
    /\ Gathered(stored.copy, stored.listed)
    /\ \A p \in Publisher : Gathered(publisher[p].snapshot.copy, publisher[p].snapshot.listed)

\* One is at the list at a time, and what it has read is what is there.
Apart ==
  ~muddled /\ ~raced =>
    /\ \A s, t \in Submitter : AtList(s) /\ AtList(t) => s = t
    /\ executor.at \notin {"listing", "adding"}
    /\ \A s \in Submitter : AtList(s) => folder
    /\ \A s \in Submitter : submitter[s].at \in {"found", "adding"} => submitter[s].list = listed

\* What is pending is the last of the list, or is about to be.
Waits ==
  ~muddled /\ ~raced =>
    /\ \A s \in Submitter : Submits(s) => submitter[s].run \notin ToSet(listed)
    /\ \A s \in Submitter, r \in Run : Submits(s) /\ row[r] \in Pending => r = submitter[s].run
    /\ \A r \in Run : row[r] \in Pending /\ (\A s \in Submitter : ~Submits(s)) => listed # <<>> /\ r = Last(listed)
    /\ executor.at = "waiting" => row[executor.run] \in Active
    /\ executor.at # "idle" =>
         executor.run \in ToSet(listed) \/ \E s \in Submitter : Submits(s) /\ submitter[s].run = executor.run

\* No list has a run twice.
Once ==
  ~muddled /\ ~raced =>
    /\ IsInjective(listed) /\ IsInjective(stored.listed)
    /\ \A p \in Publisher : IsInjective(publisher[p].snapshot.listed)

-----------------------------------------------------------------------------
\* Whose copy of the folder is under way to the store; what it has, or the store;
\* and that the executor has yet to send a run that it has copied.
Publishes(p) == publisher[p].at # "idle"
Has(kept, r) == kept.copy[r] # "none" /\ r \in ToSet(kept.listed)
Own(r) == executor.at = "publishing" /\ executor.run = r

\* What is in the folder is in the store, on its way, or next to be sent; nothing is
\* sent or stored that is not in the folder, while that is there.
Stores ==
  ~cut /\ ~raced =>
    /\ ~(Publishes("executor") /\ Publishes("hand"))
    /\ \A p \in Publisher : publisher[p].at = "deleted" => stored = Nothing
    /\ folder => \A r \in Run : copy[r] # "none" =>
         \/ Own(r) /\ ~Publishes("executor")
         \/ (\E p \in Publisher : Publishes(p)) /\ \A p \in Publisher : Publishes(p) => Has(publisher[p].snapshot, r)
         \/ (\A p \in Publisher : ~Publishes(p)) /\ Has(stored, r)
    /\ folder => \A r \in Run : stored.copy[r] # "none" => copy[r] # "none"
    /\ \A p \in Publisher, r \in Run : publisher[p].at = "staged" =>
         /\ stored.copy[r] # "none" => publisher[p].snapshot.copy[r] # "none"
         /\ publisher[p].snapshot.copy[r] # "none" => stored.copy[r] # "none" \/ Own(r)
    /\ folder => \A p \in Publisher, r \in Run :
         Publishes(p) /\ publisher[p].snapshot.copy[r] # "none" => copy[r] # "none"

-----------------------------------------------------------------------------
(* Lists of attempts.                                                      *)

\* Nothing is in an empty list.
LEMMA EmptyList == <<>> \in Seq(Run) /\ ToSet(<<>>) = {} /\ IsInjective(<<>>)
<1>1. <<>> \in Seq(Run) /\ DOMAIN <<>> = {}
  OBVIOUS
<1>. QED  BY <1>1 DEF ToSet, IsInjective

\* A run that is added is the last of the list, and there once if it was not there.
LEMMA AddedIs ==
  ASSUME NEW list \in Seq(Run), NEW r \in Run
  PROVE  /\ Added(list, r) \in Seq(Run) /\ Added(list, r) # <<>> /\ Last(Added(list, r)) = r
         /\ ToSet(Added(list, r)) = ToSet(list) \cup {r}
         /\ IsInjective(list) /\ r \notin ToSet(list) => IsInjective(Added(list, r))
<1>. DEFINE new == Append(list, r)
<1>1. /\ new \in Seq(Run) /\ Len(new) = Len(list) + 1 /\ Len(list) \in Nat
      /\ DOMAIN new = 1..Len(new) /\ DOMAIN list = 1..Len(list)
      /\ \A i \in 1..Len(list) : new[i] = list[i]
      /\ new[Len(list) + 1] = r
  BY AppendProperties, LenProperties
<1>. HIDE DEF new
<1>2. new # <<>> /\ Last(new) = r
  BY <1>1 DEF Last
<1>3. ToSet(new) = ToSet(list) \cup {r}
  <2>1. \A i \in DOMAIN new : new[i] \in ToSet(list) \cup {r}
    BY <1>1 DEF ToSet
  <2>2. \A x \in ToSet(list) : \E i \in DOMAIN new : x = new[i]
    BY <1>1 DEF ToSet
  <2>3. Len(list) + 1 \in DOMAIN new
    BY <1>1
  <2>. QED  BY <1>1, <2>1, <2>2, <2>3 DEF ToSet
<1>4. IsInjective(list) /\ r \notin ToSet(list) => IsInjective(new)
  <2>. SUFFICES ASSUME IsInjective(list), r \notin ToSet(list),
                       NEW i \in DOMAIN new, NEW j \in DOMAIN new, new[i] = new[j]
                PROVE  i = j
    BY DEF IsInjective
  <2>1. CASE i \in DOMAIN list /\ j \in DOMAIN list
    BY <1>1, <2>1 DEF IsInjective
  <2>2. CASE i \notin DOMAIN list \/ j \notin DOMAIN list
    <3>1. \A k \in DOMAIN list : list[k] # r
      BY DEF ToSet
    <3>. QED  BY <1>1, <2>2, <3>1
  <2>. QED  BY <2>1, <2>2
<1>. QED  BY <1>1, <1>2, <1>3, <1>4 DEF Added, new

\* What is in a list is a run; the last of a list is in it.
LEMMA ListedIs ==
  ASSUME NEW list \in Seq(Run)
  PROVE  ToSet(list) \subseteq Run /\ (list # <<>> => Last(list) \in ToSet(list))
<1>1. Len(list) \in Nat /\ DOMAIN list = 1..Len(list) /\ (list # <<>> => Len(list) # 0)
      /\ \A i \in 1..Len(list) : list[i] \in Run
  BY LenProperties, EmptySeq, ElementOfSeq
<1>. QED  BY <1>1 DEF ToSet, Last

\* A bound that is kept.
LEMMA OddStep ==
  ASSUME odd \in 0..MaxOdd, Odd
  PROVE  odd' \in 0..MaxOdd
BY AttemptsAssumption DEF Odd, AttemptsAssumption

-----------------------------------------------------------------------------
(* Records.                                                                *)

\* Who rests is somebody who works on an attempt.
LEMMA IdleIs == Idle \in Worker(SubmitterAt) /\ Idle \in Worker(ExecutorAt)
BY EmptyList DEF Worker, Idle, SubmitterAt, ExecutorAt

\* What is stored is of its type.
LEMMA StoredIs ==
  ASSUME Typed
  PROVE  Nothing \in Stored /\ Snapshot \in Stored
BY EmptyList DEF Typed, Stored, Nothing, Snapshot, Ended

-----------------------------------------------------------------------------
(* What the longer steps come to, where the folder is there.               *)

\* add_attempt has read the list.
LEMMA AddReadIs ==
  ASSUME Typed, NEW s \in Submitter, AddRead(s), folder
  PROVE  /\ submitter[s].at = "created"
         /\ \A t \in Submitter : t # s => submitter'[t] = submitter[t]
         /\ submitter'[s].at = "adding" /\ submitter'[s].list = listed
         /\ submitter'[s].run = submitter[s].run /\ submitter'[s].here = submitter[s].here
BY DEF Typed, Worker, AddRead

\* add_attempt has written it.
LEMMA AddWriteIs ==
  ASSUME Typed, NEW s \in Submitter, AddWrite(s), folder
  PROVE  /\ submitter[s].at = "adding"
         /\ \A t \in Submitter : t # s => submitter'[t] = submitter[t]
         /\ submitter'[s].at \in {"waiting", "idle"}
         /\ listed' = Added(submitter[s].list, submitter[s].run)
BY DEF Typed, Worker, AddWrite, Idle

\* So has the executor.
LEMMA ListWriteIs ==
  ASSUME Typed, ListWrite, folder
  PROVE  /\ executor.at = "adding" /\ executor'.at = "copying" /\ executor'.run = executor.run
         /\ listed' = Added(executor.list, executor.run)
BY DEF Typed, Worker, ListWrite

\* The run's record is in the folder.
LEMMA CopyIs ==
  ASSUME Typed, Copy, folder
  PROVE  /\ executor.at = "copying" /\ executor'.at = "publishing" /\ executor'.run = executor.run
         /\ copy' = [copy EXCEPT ![executor.run] = row[executor.run]]
BY DEF Typed, Worker, Copy

\* A publishing comes to an end.
LEMMA OverIs ==
  ASSUME Typed, NEW p \in Publisher, Over(p)
  PROVE  /\ publisher'[p] = Resting
         /\ \A q \in Publisher : q # p => publisher'[q] = publisher[q]
         /\ executor'.run = executor.run
         /\ IF p = "executor" THEN executor'.at = "published" ELSE executor' = executor
BY DEF Typed, Worker, Over

\* Every step keeps every variable in its type.
LEMMA TypedStep ==
  ASSUME Typed, Holding, Final, [Next]_vars
  PROVE  Typed'
<1>1. ASSUME NEW s \in Submitter, Find(s) PROVE Typed'
  <2>1. submitter[s] \in Worker(SubmitterAt)
    BY DEF Typed
  <2>2. submitter' = [submitter EXCEPT ![s] = submitter'[s]] /\ submitter'[s] \in Worker(SubmitterAt)
    BY <1>1, <2>1, AddedIs, EmptyList DEF Typed, SubmitterAt, Holding, Idle, Worker, Find
  <2>. QED  BY <1>1, <2>2 DEF Typed, Find, files, runs, history
<1>2. ASSUME NEW s \in Submitter, NEW r \in Run, NEW here \in BOOLEAN, Create(s, r, here) PROVE Typed'
  <2>1. submitter[s] \in Worker(SubmitterAt)
    BY DEF Typed
  <2>2. submitter'[s] \in Worker(SubmitterAt) /\ submitter' = [submitter EXCEPT ![s] = submitter'[s]]
    <3>1. CASE \E a \in ToSet(submitter[s].list) : row[a] \in Pending
      BY <1>2, <3>1, IdleIs DEF Create, Typed
    <3>2. CASE ~\E a \in ToSet(submitter[s].list) : row[a] \in Pending
      <4>1. submitter' = [submitter EXCEPT ![s] = [Idle EXCEPT !.at = "created", !.run = r, !.here = here]]
        BY <1>2, <3>2 DEF Create
      <4>2. [Idle EXCEPT !.at = "created", !.run = r, !.here = here] \in Worker(SubmitterAt)
        BY EmptyList DEF Worker, Idle, SubmitterAt
      <4>. QED  BY <4>1, <4>2 DEF Typed
    <3>. QED  BY <3>1, <3>2
  <2>3. row' \in [Run -> State]
    BY <1>2 DEF Typed, Create, State, Pending
  <2>. QED  BY <1>2, <2>2, <2>3 DEF Typed, Create, files, runs, history
<1>3. ASSUME NEW s \in Submitter, AddRead(s) PROVE Typed'
  <2>1. submitter[s] \in Worker(SubmitterAt)
    BY DEF Typed
  <2>2. submitter' = [submitter EXCEPT ![s] = submitter'[s]] /\ submitter'[s] \in Worker(SubmitterAt)
    <3>1. CASE folder
      BY <1>3, <2>1, <3>1, AddedIs, EmptyList DEF Typed, SubmitterAt, Holding, Idle, Worker, AddRead
    <3>2. CASE ~folder
      BY <1>3, <3>2, IdleIs DEF Typed, AddRead
    <3>. QED  BY <3>1, <3>2
  <2>. QED  BY <1>3, <2>2 DEF Typed, AddRead, files, runs, history
<1>4. ASSUME NEW s \in Submitter, AddWrite(s) PROVE Typed'
  <2>1. submitter[s] \in Worker(SubmitterAt)
    BY DEF Typed
  <2>2. submitter' = [submitter EXCEPT ![s] = submitter'[s]] /\ submitter'[s] \in Worker(SubmitterAt)
    BY <1>4, <2>1, AddedIs, EmptyList DEF Typed, SubmitterAt, Holding, Idle, Worker, AddWrite
  <2>3. submitter[s].list \in Seq(Run) /\ submitter[s].run \in Run
    BY <1>4, <2>1 DEF Holding, Worker, AddWrite
  <2>4. Added(submitter[s].list, submitter[s].run) \in Seq(Run)
    BY <2>3, AddedIs
  <2>5. listed' \in Seq(Run)
    BY <1>4, <2>4 DEF Typed, AddWrite
  <2>. QED  BY <1>4, <2>2, <2>5 DEF Typed, AddWrite, files, runs, history
<1>5. ASSUME NEW s \in Submitter, Return(s) PROVE Typed'
  <2>1. submitter[s] \in Worker(SubmitterAt)
    BY DEF Typed
  <2>2. submitter' = [submitter EXCEPT ![s] = submitter'[s]] /\ submitter'[s] \in Worker(SubmitterAt)
    BY <1>5, <2>1, AddedIs, EmptyList DEF Typed, SubmitterAt, Holding, Idle, Worker, Return
  <2>. QED  BY <1>5, <2>2 DEF Typed, Return, files, runs, history
<1>6. ASSUME NEW s \in Submitter, Dies(s) PROVE Typed'
  <2>1. submitter[s] \in Worker(SubmitterAt)
    BY DEF Typed
  <2>2. submitter' = [submitter EXCEPT ![s] = submitter'[s]] /\ submitter'[s] \in Worker(SubmitterAt)
    BY <1>6, <2>1, AddedIs, EmptyList DEF Typed, SubmitterAt, Holding, Idle, Worker, Dies
  <2>3. odd' \in 0..MaxOdd
    BY <1>6, OddStep DEF Typed, Dies
  <2>. QED  BY <1>6, <2>2, <2>3 DEF Typed, Dies, files, runs, history
<1>7. ASSUME NEW s \in Submitter, Drop(s) PROVE Typed'
  <2>1. submitter[s] \in Worker(SubmitterAt)
    BY DEF Typed
  <2>2. submitter' = [submitter EXCEPT ![s] = submitter'[s]] /\ submitter'[s] \in Worker(SubmitterAt)
    BY <1>7, <2>1, AddedIs, EmptyList DEF Typed, SubmitterAt, Holding, Idle, Worker, Drop
  <2>3. row' \in [Run -> State]
    BY <1>7 DEF Typed, Drop, State
  <2>. QED  BY <1>7, <2>2, <2>3 DEF Typed, Drop, files, runs, history
<1>8. ASSUME NEW r \in Run, Start(r) PROVE Typed'
  <2>1. executor \in Worker(ExecutorAt)
    BY DEF Typed
  <2>2. executor' \in Worker(ExecutorAt)
    BY <1>8, <2>1, AddedIs, EmptyList DEF Typed, ExecutorAt, Holding, Idle, Worker, Start
  <2>3. row' \in [Run -> State]
    BY <1>8 DEF Typed, Start, State, Pending, Active
  <2>. QED  BY <1>8, <2>2, <2>3 DEF Typed, Start, files, runs, history
<1>9. ASSUME NEW r \in Run, Exit(r) PROVE Typed'
  BY <1>9 DEF Exit, Typed, files, runs, history
<1>10. ASSUME NEW r \in Run, Reconcile(r) PROVE Typed'
  BY <1>10 DEF Typed, State, Reconcile, files, runs, history
<1>11. CASE Launch
  BY <1>11 DEF Typed, State, Pending, Active, Launch, files, runs, history
<1>12. CASE End
  <2>1. executor \in Worker(ExecutorAt)
    BY DEF Typed
  <2>2. executor' \in Worker(ExecutorAt)
    BY <1>12, <2>1, AddedIs, EmptyList DEF Typed, ExecutorAt, Holding, Idle, Worker, End
  <2>3. row' \in [Run -> State]
    BY <1>12 DEF Typed, End, State, Pending, Active
  <2>. QED  BY <1>12, <2>2, <2>3 DEF Typed, End, files, runs, history
<1>13. CASE Look
  <2>1. executor \in Worker(ExecutorAt)
    BY DEF Typed
  <2>2. executor' \in Worker(ExecutorAt)
    BY <1>13, <2>1, AddedIs, EmptyList DEF Typed, ExecutorAt, Holding, Idle, Worker, Look
  <2>. QED  BY <1>13, <2>2 DEF Typed, Look, files, runs, history
<1>14. CASE ListRead
  <2>1. executor \in Worker(ExecutorAt)
    BY DEF Typed
  <2>2. executor' \in Worker(ExecutorAt)
    BY <1>14, <2>1, AddedIs, EmptyList DEF Typed, ExecutorAt, Holding, Idle, Worker, ListRead
  <2>. QED  BY <1>14, <2>2 DEF Typed, ListRead, files, runs, history
<1>15. CASE ListWrite
  <2>1. executor \in Worker(ExecutorAt)
    BY DEF Typed
  <2>2. executor' \in Worker(ExecutorAt)
    <3>1. CASE folder
      BY <1>15, <2>1, <3>1, AddedIs, EmptyList DEF Typed, ExecutorAt, Holding, Idle, Worker,
         ListWrite
    <3>2. CASE ~folder
      BY <1>15, <3>2, IdleIs DEF Typed, ListWrite
    <3>. QED  BY <3>1, <3>2
  <2>4. Added(executor.list, executor.run) \in Seq(Run)
    <3>1. executor.list \in Seq(Run) /\ executor.run \in Run
      BY <1>15, <2>1 DEF Holding, Worker, ListWrite
    <3>. QED  BY <3>1, AddedIs
  <2>3. listed' \in Seq(Run)
    BY <1>15, <2>4 DEF Typed, ListWrite
  <2>. QED  BY <1>15, <2>2, <2>3 DEF Typed, ListWrite, files, runs, history
<1>16. CASE Copy
  <2>1. executor \in Worker(ExecutorAt)
    BY DEF Typed
  <2>2. executor' \in Worker(ExecutorAt)
    <3>1. CASE folder
      BY <1>16, <2>1, <3>1, AddedIs, EmptyList DEF Typed, ExecutorAt, Holding, Idle, Worker, Copy
    <3>2. CASE ~folder
      BY <1>16, <3>2, IdleIs DEF Typed, Copy
    <3>. QED  BY <3>1, <3>2
  <2>3. copy' \in [Run -> {"none", Ended}]
    BY <1>16 DEF Typed, Final, Copy
  <2>. QED  BY <1>16, <2>2, <2>3 DEF Typed, Copy, files, runs, history
<1>17. CASE Finalized
  <2>1. executor \in Worker(ExecutorAt)
    BY DEF Typed
  <2>2. executor' \in Worker(ExecutorAt)
    BY <1>17, <2>1, AddedIs, EmptyList DEF Typed, ExecutorAt, Holding, Idle, Worker, Finalized
  <2>. QED  BY <1>17, <2>2 DEF Typed, Finalized, files, runs, history
<1>18. CASE Crash
  <2>1. executor \in Worker(ExecutorAt)
    BY DEF Typed
  <2>2. executor' \in Worker(ExecutorAt)
    BY <1>18, <2>1, AddedIs, EmptyList DEF Typed, ExecutorAt, Holding, Idle, Worker, Crash
  <2>3. odd' \in 0..MaxOdd
    BY <1>18, OddStep DEF Typed, Crash
  <2>4. publisher' \in [Publisher -> [at : {"idle", "staged", "deleted"}, snapshot : Stored]]
    BY <1>18, StoredIs DEF Typed, Publisher, Resting, Crash
  <2>. QED  BY <1>18, <2>2, <2>3, <2>4 DEF Typed, Crash, files, runs, history
<1>19. CASE Cancel
  <2>1. row' \in [Run -> State] /\ process' \in [Run -> {"none", "alive", "gone"}]
    BY <1>19 DEF Typed, State, Cancel
  <2>. QED  BY <1>19, <2>1 DEF Typed, Cancel, files, runs, history
<1>20. ASSUME NEW p \in Publisher, Stage(p) PROVE Typed'
  <2>1. publisher' \in [Publisher -> [at : {"idle", "staged", "deleted"}, snapshot : Stored]]
    BY <1>20, StoredIs DEF Typed, Publisher, Resting, Over, Stage
  <2>2. odd' \in 0..MaxOdd
    BY <1>20, OddStep DEF Typed, Stage
  <2>. QED  BY <1>20, <2>1, <2>2 DEF Typed, Stage, files, runs, history
<1>21. ASSUME NEW p \in Publisher, Delete(p) PROVE Typed'
  <2>1. publisher' \in [Publisher -> [at : {"idle", "staged", "deleted"}, snapshot : Stored]]
    BY <1>21, StoredIs DEF Typed, Publisher, Resting, Over, Delete
  <2>. QED  BY <1>21, <2>1, StoredIs DEF Typed, Delete, files, runs, history
<1>22. ASSUME NEW p \in Publisher, Upload(p) PROVE Typed'
  <2>1. publisher' \in [Publisher -> [at : {"idle", "staged", "deleted"}, snapshot : Stored]]
    BY <1>22, StoredIs DEF Typed, Publisher, Resting, Over, Upload
  <2>2. executor' \in Worker(ExecutorAt)
    BY <1>22 DEF Typed, ExecutorAt, Worker, Over, Upload
  <2>3. stored' \in Stored
    BY <1>22 DEF Typed, Upload
  <2>. QED  BY <1>22, <2>1, <2>2, <2>3 DEF Typed, Upload, files, runs, history
<1>23. ASSUME NEW p \in Publisher, PublishFails(p) PROVE Typed'
  <2>1. publisher' \in [Publisher -> [at : {"idle", "staged", "deleted"}, snapshot : Stored]]
    BY <1>23, StoredIs DEF Typed, Publisher, Resting, Over, PublishFails
  <2>2. executor' \in Worker(ExecutorAt)
    BY <1>23 DEF Typed, ExecutorAt, Worker, Over, PublishFails
  <2>. QED  BY <1>23, <2>1, <2>2 DEF Typed, PublishFails, files, runs, history
<1>24. CASE RemoveAsk
  <2>1. odd' \in 0..MaxOdd
    BY <1>24, OddStep DEF Typed, RemoveAsk
  <2>. QED  BY <1>24, <2>1 DEF Typed, RemoveAsk, files, runs, history
<1>25. CASE RemoveStored
  BY <1>25, StoredIs DEF Typed, RemoveStored, files, runs, history
<1>26. CASE RemoveFolder
  <2>1. odd' \in 0..MaxOdd
    BY <1>26, OddStep DEF Typed, RemoveFolder
  <2>2. listed' \in Seq(Run) /\ copy' \in [Run -> {"none", Ended}]
    BY <1>26, StoredIs, EmptyList DEF RemoveFolder, Stored
  <2>. QED  BY <1>26, <2>1, <2>2 DEF Typed, RemoveFolder, files, runs, history
<1>27. CASE Pull
  <2>1. odd' \in 0..MaxOdd
    BY <1>27, OddStep DEF Typed, Pull
  <2>2. listed' \in Seq(Run) /\ copy' \in [Run -> {"none", Ended}]
    BY <1>27 DEF Typed, Stored, Pull
  <2>. QED  BY <1>27, <2>1, <2>2 DEF Typed, Pull, files, runs, history
<1>28. CASE UNCHANGED vars
  BY <1>28 DEF Typed, vars, files, runs, history
<1>. QED
  BY <1>1, <1>2, <1>3, <1>4, <1>5, <1>6, <1>7, <1>8, <1>9, <1>10, <1>11, <1>12, <1>13, <1>14, <1>15,
     <1>16, <1>17, <1>18, <1>19, <1>20, <1>21, <1>22, <1>23, <1>24, <1>25, <1>26, <1>27, <1>28 DEF
     Next, Submitting, Executing, Publishing

\* Who works on an attempt has it in hand.
LEMMA HoldingStep ==
  ASSUME Typed, Holding, [Next]_vars
  PROVE  Holding'
<1>. USE DEF Typed, Holding, Worker
<1>1. ASSUME NEW s \in Submitter, Find(s) PROVE Holding'
  BY <1>1 DEF Find, Idle, Resting, Over, Odd, Publisher, files, runs, history
<1>2. ASSUME NEW s \in Submitter, NEW r \in Run, NEW here \in BOOLEAN, Create(s, r, here) PROVE Holding'
  <2>1. UNCHANGED <<files, process, stored, executor, publisher, remover, odd, history>> /\ submitter[s].at = "found"
    BY <1>2 DEF Create
  <2>2. CASE \E a \in ToSet(submitter[s].list) : row[a] \in Pending
    <3>1. submitter' = [submitter EXCEPT ![s] = Idle] /\ row' = row
      BY <1>2, <2>2 DEF Create
    <3>. QED  BY <2>1, <3>1 DEF Idle, files, runs, history
  <2>3. CASE ~(\E a \in ToSet(submitter[s].list) : row[a] \in Pending)
    <3>. DEFINE new == [Idle EXCEPT !.at = "created", !.run = r, !.here = here]
    <3>1. /\ submitter' = [submitter EXCEPT ![s] = new]
          /\ row' = [row EXCEPT ![r] = "queued"] /\ row[r] = "none"
      BY <1>2, <2>3 DEF Create
    <3>2. new.at = "created" /\ new.run = r /\ new.here = here /\ new.list = <<>>
      BY DEF Idle
    <3>. HIDE DEF new
    <3>. QED  BY <2>1, <2>3, <3>1, <3>2 DEF Idle, files, runs, history
  <2>. QED  BY <2>2, <2>3
<1>3. ASSUME NEW s \in Submitter, AddRead(s) PROVE Holding'
  <2>1. CASE folder
    BY <1>3, <2>1 DEF AddRead, Idle, Resting, Over, Odd, Publisher, files, runs, history
  <2>2. CASE ~folder
    BY <1>3, <2>2 DEF AddRead, Idle, Resting, Over, Odd, Publisher, files, runs, history
  <2>. QED  BY <2>1, <2>2
<1>4. ASSUME NEW s \in Submitter, AddWrite(s) PROVE Holding'
  <2>1. CASE folder
    BY <1>4, <2>1 DEF AddWrite, Idle, Resting, Over, Odd, Publisher, files, runs, history
  <2>2. CASE ~folder
    BY <1>4, <2>2 DEF AddWrite, Idle, Resting, Over, Odd, Publisher, files, runs, history
  <2>. QED  BY <2>1, <2>2
<1>5. ASSUME NEW s \in Submitter, Return(s) PROVE Holding'
  BY <1>5 DEF Return, Idle, Resting, Over, Odd, Publisher, files, runs, history
<1>6. ASSUME NEW s \in Submitter, Dies(s) PROVE Holding'
  <2>1. /\ UNCHANGED <<files, runs, stored, executor, publisher, remover, raced, cut>>
        /\ submitter[s].at \in {"found", "created", "adding", "waiting"}
        /\ muddled' = (muddled \/ submitter[s].at \in {"created", "adding"})
    BY <1>6 DEF Dies
  <2>2. CASE submitter[s].here /\ row[submitter[s].run] = "queued"
    <3>1. submitter' = [submitter EXCEPT ![s] = [submitter[s] EXCEPT !.at = "gone", !.list = <<>>]]
      BY <1>6, <2>2 DEF Dies, Typed
    <3>. QED  BY <2>1, <2>2, <3>1 DEF Idle, Resting, Over, Odd, Publisher, files, runs, history
  <2>3. CASE ~(submitter[s].here /\ row[submitter[s].run] = "queued")
    <3>1. submitter' = [submitter EXCEPT ![s] = Idle]
      BY <1>6, <2>3 DEF Dies, Typed
    <3>. QED  BY <2>1, <3>1 DEF Idle, Resting, Over, Odd, Publisher, files, runs, history
  <2>. QED  BY <2>2, <2>3
<1>7. ASSUME NEW s \in Submitter, Drop(s) PROVE Holding'
  BY <1>7 DEF Drop, Idle, Resting, Over, Odd, Publisher, files, runs, history
<1>8. ASSUME NEW r \in Run, Start(r) PROVE Holding'
  BY <1>8 DEF Start, Idle, Resting, Over, Odd, Publisher, files, runs, history
<1>9. ASSUME NEW r \in Run, Exit(r) PROVE Holding'
  BY <1>9 DEF Exit, Idle, Resting, Over, Odd, Publisher, files, runs, history
<1>10. ASSUME NEW r \in Run, Reconcile(r) PROVE Holding'
  BY <1>10 DEF Reconcile, Idle, Resting, Over, Odd, Publisher, files, runs, history
<1>11. CASE Launch
  BY <1>11 DEF Launch, Idle, Resting, Over, Odd, Publisher, files, runs, history
<1>12. CASE End
  BY <1>12 DEF End, Idle, Resting, Over, Odd, Publisher, files, runs, history
<1>13. CASE Look
  <2>1. CASE folder
    BY <1>13, <2>1 DEF Look, Idle, Resting, Over, Odd, Publisher, files, runs, history
  <2>2. CASE ~folder
    BY <1>13, <2>2 DEF Look, Idle, Resting, Over, Odd, Publisher, files, runs, history
  <2>. QED  BY <2>1, <2>2
<1>14. CASE ListRead
  <2>1. CASE folder
    BY <1>14, <2>1 DEF ListRead, Idle, Resting, Over, Odd, Publisher, files, runs, history
  <2>2. CASE ~folder
    BY <1>14, <2>2 DEF ListRead, Idle, Resting, Over, Odd, Publisher, files, runs, history
  <2>. QED  BY <2>1, <2>2
<1>15. CASE ListWrite
  <2>1. CASE folder
    BY <1>15, <2>1 DEF ListWrite, Idle, Resting, Over, Odd, Publisher, files, runs, history
  <2>2. CASE ~folder
    BY <1>15, <2>2 DEF ListWrite, Idle, Resting, Over, Odd, Publisher, files, runs, history
  <2>. QED  BY <2>1, <2>2
<1>16. CASE Copy
  <2>1. CASE folder
    BY <1>16, <2>1 DEF Copy, Idle, Resting, Over, Odd, Publisher, files, runs, history
  <2>2. CASE ~folder
    BY <1>16, <2>2 DEF Copy, Idle, Resting, Over, Odd, Publisher, files, runs, history
  <2>. QED  BY <2>1, <2>2
<1>17. CASE Finalized
  BY <1>17 DEF Finalized, Idle, Resting, Over, Odd, Publisher, files, runs, history
<1>18. CASE Crash
  BY <1>18 DEF Crash, Idle, Resting, Over, Odd, Publisher, files, runs, history
<1>19. CASE Cancel
  BY <1>19 DEF Cancel, Idle, Resting, Over, Odd, Publisher, files, runs, history
<1>20. ASSUME NEW p \in Publisher, Stage(p) PROVE Holding'
  BY <1>20 DEF Stage, Idle, Resting, Over, Odd, Publisher, files, runs, history
<1>21. ASSUME NEW p \in Publisher, Delete(p) PROVE Holding'
  BY <1>21 DEF Delete, Idle, Resting, Over, Odd, Publisher, files, runs, history
<1>22. ASSUME NEW p \in Publisher, Upload(p) PROVE Holding'
  <2>1. CASE p = "executor"
    BY <1>22, <2>1 DEF Upload, Idle, Resting, Over, Odd, Publisher, files, runs, history
  <2>2. CASE ~(p = "executor")
    BY <1>22, <2>2 DEF Upload, Idle, Resting, Over, Odd, Publisher, files, runs, history
  <2>. QED  BY <2>1, <2>2
<1>23. ASSUME NEW p \in Publisher, PublishFails(p) PROVE Holding'
  <2>1. CASE p = "executor"
    BY <1>23, <2>1 DEF PublishFails, Idle, Resting, Over, Odd, Publisher, files, runs, history
  <2>2. CASE ~(p = "executor")
    BY <1>23, <2>2 DEF PublishFails, Idle, Resting, Over, Odd, Publisher, files, runs, history
  <2>. QED  BY <2>1, <2>2
<1>24. CASE RemoveAsk
  BY <1>24 DEF RemoveAsk, Idle, Resting, Over, Odd, Publisher, files, runs, history
<1>25. CASE RemoveStored
  BY <1>25 DEF RemoveStored, Idle, Resting, Over, Odd, Publisher, files, runs, history
<1>26. CASE RemoveFolder
  BY <1>26 DEF RemoveFolder, Idle, Resting, Over, Odd, Publisher, files, runs, history
<1>27. CASE Pull
  BY <1>27 DEF Pull, Idle, Resting, Over, Odd, Publisher, files, runs, history
<1>28. CASE UNCHANGED vars
  BY <1>28 DEF vars, files, runs, history
<1>. HIDE DEF Typed, Holding, Worker
<1>. QED
  BY <1>1, <1>2, <1>3, <1>4, <1>5, <1>6, <1>7, <1>8, <1>9, <1>10, <1>11, <1>12, <1>13, <1>14, <1>15,
     <1>16, <1>17, <1>18, <1>19, <1>20, <1>21, <1>22, <1>23, <1>24, <1>25, <1>26, <1>27, <1>28 DEF
     Next, Submitting, Executing, Publishing

\* What has been copied stays over.
LEMMA FinalStep ==
  ASSUME Typed, Holding, Created, Final, [Next]_vars
  PROVE  Final'
<1>. USE DEF Typed, Holding, Final, ForGood, Worker, Stored, Ended, Pending, Active
<1>1. ASSUME NEW s \in Submitter, Find(s) PROVE Final'
  BY <1>1 DEF Find, Snapshot, Nothing, Created, Idle, Resting, Over, Odd, Publisher, files, runs,
     history
<1>2. ASSUME NEW s \in Submitter, NEW r \in Run, NEW here \in BOOLEAN, Create(s, r, here) PROVE Final'
  BY <1>2 DEF Create, Snapshot, Nothing, Created, Idle, Resting, Over, Odd, Publisher, files, runs,
     history
<1>3. ASSUME NEW s \in Submitter, AddRead(s) PROVE Final'
  BY <1>3 DEF AddRead, Snapshot, Nothing, Created, Idle, Resting, Over, Odd, Publisher, files, runs,
     history
<1>4. ASSUME NEW s \in Submitter, AddWrite(s) PROVE Final'
  BY <1>4 DEF AddWrite, Snapshot, Nothing, Created, Idle, Resting, Over, Odd, Publisher, files,
     runs, history
<1>5. ASSUME NEW s \in Submitter, Return(s) PROVE Final'
  BY <1>5 DEF Return, Snapshot, Nothing, Created, Idle, Resting, Over, Odd, Publisher, files, runs,
     history
<1>6. ASSUME NEW s \in Submitter, Dies(s) PROVE Final'
  BY <1>6 DEF Dies, Snapshot, Nothing, Created, Idle, Resting, Over, Odd, Publisher, files, runs,
     history
<1>7. ASSUME NEW s \in Submitter, Drop(s) PROVE Final'
  BY <1>7 DEF Drop, Snapshot, Nothing, Created, Idle, Resting, Over, Odd, Publisher, files, runs,
     history
<1>8. ASSUME NEW r \in Run, Start(r) PROVE Final'
  BY <1>8 DEF Start, Snapshot, Nothing, Created, Idle, Resting, Over, Odd, Publisher, files, runs,
     history
<1>9. ASSUME NEW r \in Run, Exit(r) PROVE Final'
  BY <1>9 DEF Exit, Snapshot, Nothing, Created, Idle, Resting, Over, Odd, Publisher, files, runs,
     history
<1>10. ASSUME NEW r \in Run, Reconcile(r) PROVE Final'
  BY <1>10 DEF Reconcile, Snapshot, Nothing, Created, Idle, Resting, Over, Odd, Publisher, files,
     runs, history
<1>11. CASE Launch
  BY <1>11 DEF Launch, Snapshot, Nothing, Created, Idle, Resting, Over, Odd, Publisher, files, runs,
     history
<1>12. CASE End
  BY <1>12 DEF End, Snapshot, Nothing, Created, Idle, Resting, Over, Odd, Publisher, files, runs,
     history
<1>13. CASE Look
  BY <1>13 DEF Look, Snapshot, Nothing, Created, Idle, Resting, Over, Odd, Publisher, files, runs,
     history
<1>14. CASE ListRead
  BY <1>14 DEF ListRead, Snapshot, Nothing, Created, Idle, Resting, Over, Odd, Publisher, files,
     runs, history
<1>15. CASE ListWrite
  <2>1. CASE folder
    <3>1. /\ executor'.at = "copying" /\ executor'.run = executor.run /\ executor.at # "idle" /\ executor.at # "waiting"
          /\ UNCHANGED <<row, copy, stored, publisher>>
      BY <1>15, <2>1 DEF ListWrite, Idle, Resting, Over, Odd, Publisher, files, runs, history
    <3>. QED  BY <3>1
  <2>2. CASE ~folder
    BY <1>15, <2>2 DEF ListWrite, Idle, Resting, Over, Odd, Publisher, files, runs, history
  <2>. QED  BY <2>1, <2>2
<1>16. CASE Copy
  <2>1. CASE folder
    <3>1. /\ executor'.at = "publishing" /\ executor'.run = executor.run /\ executor.at # "idle" /\ executor.at # "waiting"
          /\ copy' = [copy EXCEPT ![executor.run] = row[executor.run]] /\ UNCHANGED <<row, stored, publisher>>
      BY <1>16, <2>1 DEF Copy, Idle, Resting, Over, Odd, Publisher, files, runs, history
    <3>. QED  BY <3>1
  <2>2. CASE ~folder
    BY <1>16, <2>2 DEF Copy, Idle, Resting, Over, Odd, Publisher, files, runs, history
  <2>. QED  BY <2>1, <2>2
<1>17. CASE Finalized
  BY <1>17 DEF Finalized, Snapshot, Nothing, Created, Idle, Resting, Over, Odd, Publisher, files,
     runs, history
<1>18. CASE Crash
  BY <1>18 DEF Crash, Snapshot, Nothing, Created, Idle, Resting, Over, Odd, Publisher, files, runs,
     history
<1>19. CASE Cancel
  BY <1>19 DEF Cancel, Snapshot, Nothing, Created, Idle, Resting, Over, Odd, Publisher, files, runs,
     history
<1>20. ASSUME NEW p \in Publisher, Stage(p) PROVE Final'
  BY <1>20 DEF Stage, Snapshot, Nothing, Created, Idle, Resting, Over, Odd, Publisher, files, runs,
     history
<1>21. ASSUME NEW p \in Publisher, Delete(p) PROVE Final'
  BY <1>21 DEF Delete, Snapshot, Nothing, Created, Idle, Resting, Over, Odd, Publisher, files, runs,
     history
<1>22. ASSUME NEW p \in Publisher, Upload(p) PROVE Final'
  <2>1. CASE p = "executor"
    BY <1>22, <2>1 DEF Upload, Idle, Resting, Over, Odd, Publisher, files, runs, history, Nothing
  <2>2. CASE ~(p = "executor")
    BY <1>22, <2>2 DEF Upload, Idle, Resting, Over, Odd, Publisher, files, runs, history, Nothing
  <2>. QED  BY <2>1, <2>2
<1>23. ASSUME NEW p \in Publisher, PublishFails(p) PROVE Final'
  <2>1. CASE p = "executor"
    BY <1>23, <2>1 DEF PublishFails, Idle, Resting, Over, Odd, Publisher, files, runs, history,
       Nothing
  <2>2. CASE ~(p = "executor")
    BY <1>23, <2>2 DEF PublishFails, Idle, Resting, Over, Odd, Publisher, files, runs, history,
       Nothing
  <2>. QED  BY <2>1, <2>2
<1>24. CASE RemoveAsk
  BY <1>24 DEF RemoveAsk, Snapshot, Nothing, Created, Idle, Resting, Over, Odd, Publisher, files,
     runs, history
<1>25. CASE RemoveStored
  BY <1>25 DEF RemoveStored, Snapshot, Nothing, Created, Idle, Resting, Over, Odd, Publisher, files,
     runs, history
<1>26. CASE RemoveFolder
  BY <1>26 DEF RemoveFolder, Snapshot, Nothing, Created, Idle, Resting, Over, Odd, Publisher, files,
     runs, history
<1>27. CASE Pull
  BY <1>27 DEF Pull, Snapshot, Nothing, Created, Idle, Resting, Over, Odd, Publisher, files, runs,
     history
<1>28. CASE UNCHANGED vars
  BY <1>28 DEF vars, files, runs, history
<1>. HIDE DEF Typed, Holding, Final, ForGood, Worker, Stored, Ended, Pending, Active
<1>. QED
  BY <1>1, <1>2, <1>3, <1>4, <1>5, <1>6, <1>7, <1>8, <1>9, <1>10, <1>11, <1>12, <1>13, <1>14, <1>15,
     <1>16, <1>17, <1>18, <1>19, <1>20, <1>21, <1>22, <1>23, <1>24, <1>25, <1>26, <1>27, <1>28 DEF
     Next, Submitting, Executing, Publishing

\* Without its folder nothing of an experiment is there.
LEMMA AbsentStep ==
  ASSUME Typed, Absent, [Next]_vars
  PROVE  Absent'
<1>. USE DEF Absent
<1>1. ASSUME NEW s \in Submitter, Find(s) PROVE Absent'
  BY <1>1 DEF Find, Idle, Resting, Over, Odd, Publisher, files, runs, history
<1>2. ASSUME NEW s \in Submitter, NEW r \in Run, NEW here \in BOOLEAN, Create(s, r, here) PROVE Absent'
  BY <1>2 DEF Create, Idle, Resting, Over, Odd, Publisher, files, runs, history
<1>3. ASSUME NEW s \in Submitter, AddRead(s) PROVE Absent'
  BY <1>3 DEF AddRead, Idle, Resting, Over, Odd, Publisher, files, runs, history
<1>4. ASSUME NEW s \in Submitter, AddWrite(s) PROVE Absent'
  BY <1>4 DEF AddWrite, Idle, Resting, Over, Odd, Publisher, files, runs, history
<1>5. ASSUME NEW s \in Submitter, Return(s) PROVE Absent'
  BY <1>5 DEF Return, Idle, Resting, Over, Odd, Publisher, files, runs, history
<1>6. ASSUME NEW s \in Submitter, Dies(s) PROVE Absent'
  BY <1>6 DEF Dies, Idle, Resting, Over, Odd, Publisher, files, runs, history
<1>7. ASSUME NEW s \in Submitter, Drop(s) PROVE Absent'
  BY <1>7 DEF Drop, Idle, Resting, Over, Odd, Publisher, files, runs, history
<1>8. ASSUME NEW r \in Run, Start(r) PROVE Absent'
  BY <1>8 DEF Start, Idle, Resting, Over, Odd, Publisher, files, runs, history
<1>9. ASSUME NEW r \in Run, Exit(r) PROVE Absent'
  BY <1>9 DEF Exit, Idle, Resting, Over, Odd, Publisher, files, runs, history
<1>10. ASSUME NEW r \in Run, Reconcile(r) PROVE Absent'
  BY <1>10 DEF Reconcile, Idle, Resting, Over, Odd, Publisher, files, runs, history
<1>11. CASE Launch
  BY <1>11 DEF Launch, Idle, Resting, Over, Odd, Publisher, files, runs, history
<1>12. CASE End
  BY <1>12 DEF End, Idle, Resting, Over, Odd, Publisher, files, runs, history
<1>13. CASE Look
  BY <1>13 DEF Look, Idle, Resting, Over, Odd, Publisher, files, runs, history
<1>14. CASE ListRead
  BY <1>14 DEF ListRead, Idle, Resting, Over, Odd, Publisher, files, runs, history
<1>15. CASE ListWrite
  BY <1>15 DEF ListWrite, Idle, Resting, Over, Odd, Publisher, files, runs, history
<1>16. CASE Copy
  BY <1>16 DEF Copy, Idle, Resting, Over, Odd, Publisher, files, runs, history
<1>17. CASE Finalized
  BY <1>17 DEF Finalized, Idle, Resting, Over, Odd, Publisher, files, runs, history
<1>18. CASE Crash
  BY <1>18 DEF Crash, Idle, Resting, Over, Odd, Publisher, files, runs, history
<1>19. CASE Cancel
  BY <1>19 DEF Cancel, Idle, Resting, Over, Odd, Publisher, files, runs, history
<1>20. ASSUME NEW p \in Publisher, Stage(p) PROVE Absent'
  BY <1>20 DEF Stage, Idle, Resting, Over, Odd, Publisher, files, runs, history
<1>21. ASSUME NEW p \in Publisher, Delete(p) PROVE Absent'
  BY <1>21 DEF Delete, Idle, Resting, Over, Odd, Publisher, files, runs, history
<1>22. ASSUME NEW p \in Publisher, Upload(p) PROVE Absent'
  BY <1>22 DEF Upload, Idle, Resting, Over, Odd, Publisher, files, runs, history
<1>23. ASSUME NEW p \in Publisher, PublishFails(p) PROVE Absent'
  BY <1>23 DEF PublishFails, Idle, Resting, Over, Odd, Publisher, files, runs, history
<1>24. CASE RemoveAsk
  BY <1>24 DEF RemoveAsk, Idle, Resting, Over, Odd, Publisher, files, runs, history
<1>25. CASE RemoveStored
  BY <1>25 DEF RemoveStored, Idle, Resting, Over, Odd, Publisher, files, runs, history
<1>26. CASE RemoveFolder
  BY <1>26 DEF RemoveFolder, Idle, Resting, Over, Odd, Publisher, files, runs, history
<1>27. CASE Pull
  BY <1>27 DEF Pull, Idle, Resting, Over, Odd, Publisher, files, runs, history
<1>28. CASE UNCHANGED vars
  BY <1>28 DEF vars, files, runs, history
<1>. HIDE DEF Absent
<1>. QED
  BY <1>1, <1>2, <1>3, <1>4, <1>5, <1>6, <1>7, <1>8, <1>9, <1>10, <1>11, <1>12, <1>13, <1>14, <1>15,
     <1>16, <1>17, <1>18, <1>19, <1>20, <1>21, <1>22, <1>23, <1>24, <1>25, <1>26, <1>27, <1>28 DEF
     Next, Submitting, Executing, Publishing

\* What has been created stays created.
LEMMA RowsStay ==
  ASSUME Typed, Holding, [Next]_vars
  PROVE  \A q \in Run : row[q] # "none" => row'[q] # "none"
<1>. USE DEF Typed, Holding, State, Pending, Active, Ended
<1>1. ASSUME NEW s \in Submitter, Find(s) PROVE \A q \in Run : row[q] # "none" => row'[q] # "none"
  BY <1>1 DEF Find, Idle, Resting, Over, Odd, Publisher, files, runs, history
<1>2. ASSUME NEW s \in Submitter, NEW r \in Run, NEW here \in BOOLEAN, Create(s, r, here)
      PROVE  \A q \in Run : row[q] # "none" => row'[q] # "none"
  <2>1. UNCHANGED <<files, process, stored, executor, publisher, remover, odd, history>> /\ submitter[s].at = "found"
    BY <1>2 DEF Create
  <2>2. CASE \E a \in ToSet(submitter[s].list) : row[a] \in Pending
    <3>1. submitter' = [submitter EXCEPT ![s] = Idle] /\ row' = row
      BY <1>2, <2>2 DEF Create
    <3>. QED  BY <2>1, <3>1 DEF Idle, files, runs, history
  <2>3. CASE ~(\E a \in ToSet(submitter[s].list) : row[a] \in Pending)
    <3>. DEFINE new == [Idle EXCEPT !.at = "created", !.run = r, !.here = here]
    <3>1. /\ submitter' = [submitter EXCEPT ![s] = new]
          /\ row' = [row EXCEPT ![r] = "queued"] /\ row[r] = "none"
      BY <1>2, <2>3 DEF Create
    <3>2. new.at = "created" /\ new.run = r /\ new.here = here /\ new.list = <<>>
      BY DEF Idle
    <3>. HIDE DEF new
    <3>. QED  BY <2>1, <2>3, <3>1, <3>2 DEF Idle, files, runs, history
  <2>. QED  BY <2>2, <2>3
<1>3. ASSUME NEW s \in Submitter, AddRead(s) PROVE \A q \in Run : row[q] # "none" => row'[q] # "none"
  BY <1>3 DEF AddRead, Idle, Resting, Over, Odd, Publisher, files, runs, history
<1>4. ASSUME NEW s \in Submitter, AddWrite(s) PROVE \A q \in Run : row[q] # "none" => row'[q] # "none"
  BY <1>4 DEF AddWrite, Idle, Resting, Over, Odd, Publisher, files, runs, history
<1>5. ASSUME NEW s \in Submitter, Return(s) PROVE \A q \in Run : row[q] # "none" => row'[q] # "none"
  BY <1>5 DEF Return, Idle, Resting, Over, Odd, Publisher, files, runs, history
<1>6. ASSUME NEW s \in Submitter, Dies(s) PROVE \A q \in Run : row[q] # "none" => row'[q] # "none"
  BY <1>6 DEF Dies, Idle, Resting, Over, Odd, Publisher, files, runs, history
<1>7. ASSUME NEW s \in Submitter, Drop(s) PROVE \A q \in Run : row[q] # "none" => row'[q] # "none"
  BY <1>7 DEF Drop, Idle, Resting, Over, Odd, Publisher, files, runs, history
<1>8. ASSUME NEW r \in Run, Start(r) PROVE \A q \in Run : row[q] # "none" => row'[q] # "none"
  BY <1>8 DEF Start, Idle, Resting, Over, Odd, Publisher, files, runs, history
<1>9. ASSUME NEW r \in Run, Exit(r) PROVE \A q \in Run : row[q] # "none" => row'[q] # "none"
  BY <1>9 DEF Exit, Idle, Resting, Over, Odd, Publisher, files, runs, history
<1>10. ASSUME NEW r \in Run, Reconcile(r) PROVE \A q \in Run : row[q] # "none" => row'[q] # "none"
  BY <1>10 DEF Reconcile, Idle, Resting, Over, Odd, Publisher, files, runs, history
<1>11. CASE Launch
  BY <1>11 DEF Launch, Idle, Resting, Over, Odd, Publisher, files, runs, history
<1>12. CASE End
  BY <1>12 DEF End, Idle, Resting, Over, Odd, Publisher, files, runs, history
<1>13. CASE Look
  BY <1>13 DEF Look, Idle, Resting, Over, Odd, Publisher, files, runs, history
<1>14. CASE ListRead
  BY <1>14 DEF ListRead, Idle, Resting, Over, Odd, Publisher, files, runs, history
<1>15. CASE ListWrite
  BY <1>15 DEF ListWrite, Idle, Resting, Over, Odd, Publisher, files, runs, history
<1>16. CASE Copy
  BY <1>16 DEF Copy, Idle, Resting, Over, Odd, Publisher, files, runs, history
<1>17. CASE Finalized
  BY <1>17 DEF Finalized, Idle, Resting, Over, Odd, Publisher, files, runs, history
<1>18. CASE Crash
  BY <1>18 DEF Crash, Idle, Resting, Over, Odd, Publisher, files, runs, history
<1>19. CASE Cancel
  BY <1>19 DEF Cancel, Idle, Resting, Over, Odd, Publisher, files, runs, history
<1>20. ASSUME NEW p \in Publisher, Stage(p) PROVE \A q \in Run : row[q] # "none" => row'[q] # "none"
  BY <1>20 DEF Stage, Idle, Resting, Over, Odd, Publisher, files, runs, history
<1>21. ASSUME NEW p \in Publisher, Delete(p) PROVE \A q \in Run : row[q] # "none" => row'[q] # "none"
  BY <1>21 DEF Delete, Idle, Resting, Over, Odd, Publisher, files, runs, history
<1>22. ASSUME NEW p \in Publisher, Upload(p) PROVE \A q \in Run : row[q] # "none" => row'[q] # "none"
  BY <1>22 DEF Upload, Idle, Resting, Over, Odd, Publisher, files, runs, history
<1>23. ASSUME NEW p \in Publisher, PublishFails(p)
      PROVE  \A q \in Run : row[q] # "none" => row'[q] # "none"
  BY <1>23 DEF PublishFails, Idle, Resting, Over, Odd, Publisher, files, runs, history
<1>24. CASE RemoveAsk
  BY <1>24 DEF RemoveAsk, Idle, Resting, Over, Odd, Publisher, files, runs, history
<1>25. CASE RemoveStored
  BY <1>25 DEF RemoveStored, Idle, Resting, Over, Odd, Publisher, files, runs, history
<1>26. CASE RemoveFolder
  BY <1>26 DEF RemoveFolder, Idle, Resting, Over, Odd, Publisher, files, runs, history
<1>27. CASE Pull
  BY <1>27 DEF Pull, Idle, Resting, Over, Odd, Publisher, files, runs, history
<1>28. CASE UNCHANGED vars
  BY <1>28 DEF vars, files, runs, history
<1>. HIDE DEF Typed, Holding, State, Pending, Active, Ended
<1>. QED
  BY <1>1, <1>2, <1>3, <1>4, <1>5, <1>6, <1>7, <1>8, <1>9, <1>10, <1>11, <1>12, <1>13, <1>14, <1>15,
     <1>16, <1>17, <1>18, <1>19, <1>20, <1>21, <1>22, <1>23, <1>24, <1>25, <1>26, <1>27, <1>28 DEF
     Next, Submitting, Executing, Publishing

\* What is written down anywhere has been created.
LEMMA CreatedStep ==
  ASSUME Typed, Holding, Created, [Next]_vars
  PROVE  Created'
<1>. USE DEF Typed, Holding, Worker, Stored, Created, Pending, Active, Ended
<1>a. \A list \in Seq(Run) : Made(list, row) => Made(list, row')
  BY RowsStay, ListedIs DEF Made
<1>b. Made(<<>>, row')
  BY EmptyList DEF Made
<1>1. ASSUME NEW s \in Submitter, Find(s) PROVE Created'
  BY <1>1, <1>a, <1>b DEF Find, Snapshot, Nothing, Idle, Resting, Over, Odd, Publisher, files, runs,
     history
<1>2. ASSUME NEW s \in Submitter, NEW r \in Run, NEW here \in BOOLEAN, Create(s, r, here) PROVE Created'
  <2>1. UNCHANGED <<files, process, stored, executor, publisher, remover, odd, history>> /\ submitter[s].at = "found"
    BY <1>2 DEF Create
  <2>2. CASE \E a \in ToSet(submitter[s].list) : row[a] \in Pending
    <3>1. submitter' = [submitter EXCEPT ![s] = Idle] /\ row' = row
      BY <1>2, <2>2 DEF Create
    <3>. QED  BY <2>1, <3>1, <1>a, <1>b DEF Idle, files, runs, history
  <2>3. CASE ~(\E a \in ToSet(submitter[s].list) : row[a] \in Pending)
    <3>. DEFINE new == [Idle EXCEPT !.at = "created", !.run = r, !.here = here]
    <3>1. /\ submitter' = [submitter EXCEPT ![s] = new]
          /\ row' = [row EXCEPT ![r] = "queued"] /\ row[r] = "none"
      BY <1>2, <2>3 DEF Create
    <3>2. new.at = "created" /\ new.run = r /\ new.here = here /\ new.list = <<>>
      BY DEF Idle
    <3>. HIDE DEF new
    <3>3. /\ \A t \in Submitter : Made(submitter'[t].list, row')
          /\ UNCHANGED <<listed, stored, executor, publisher>>
      BY <2>1, <3>1, <3>2, <1>a, <1>b DEF files
    <3>4. \A t \in Submitter : t # s => submitter'[t] = submitter[t]
      BY <3>1
    <3>5. submitter'[s].run = r /\ row'[r] = "queued"
      BY <3>1, <3>2
    <3>6. \A q \in Run : row[q] # "none" => row'[q] = row[q]
      BY <3>1
    <3>7. \A t \in Submitter : submitter'[t].at \in {"created", "adding", "waiting", "gone"} => row'[submitter'[t].run] # "none"
      <4>1. \A t \in Submitter \ {s} : submitter[t].at \in {"created", "adding", "waiting", "gone"} =>
              submitter[t].run \in Run /\ row[submitter[t].run] # "none"
        OBVIOUS
      <4>2. \A t \in Submitter \ {s} : submitter[t].at \in {"created", "adding", "waiting", "gone"} => row'[submitter[t].run] # "none"
        BY <4>1, <3>6
      <4>. HIDE DEF Created, Holding, Typed
      <4>. QED  BY <3>4, <3>5, <4>2
    <3>8. executor'.at # "idle" => row'[executor'.run] \notin {"none", "queued"}
      BY <3>3, <3>6
    <3>9. Made(listed', row') /\ Made(stored'.listed, row') /\ Made(executor'.list, row')
      BY <3>3, <1>a
    <3>10. \A p \in Publisher : Made(publisher'[p].snapshot.listed, row')
      BY <3>3, <1>a
    <3>. QED  BY <3>3, <3>7, <3>8, <3>9, <3>10
  <2>. QED  BY <2>2, <2>3
<1>3. ASSUME NEW s \in Submitter, AddRead(s) PROVE Created'
  <2>1. CASE folder
    BY <1>3, <2>1, <1>a, <1>b DEF AddRead, Idle, Resting, Over, Odd, Publisher, files, runs, history
  <2>2. CASE ~folder
    BY <1>3, <2>2, <1>a, <1>b DEF AddRead, Idle, Resting, Over, Odd, Publisher, files, runs, history
  <2>. QED  BY <2>1, <2>2
<1>4. ASSUME NEW s \in Submitter, AddWrite(s) PROVE Created'
  <2>1. CASE folder
    <3>1. listed' = Added(submitter[s].list, submitter[s].run) /\ row' = row /\ Made(submitter[s].list, row) /\ row[submitter[s].run] # "none"
      BY <1>4, <2>1 DEF AddWrite, Idle, Resting, Over, Odd, Publisher, files, runs, history
    <3>2. submitter[s].list \in Seq(Run) /\ submitter[s].run \in Run
      BY <1>4 DEF AddWrite
    <3>3. Made(listed', row')
      BY <3>1, <3>2, AddedIs DEF Made
    <3>. QED  BY <1>4, <2>1, <3>3, <1>a, <1>b DEF AddWrite, Idle, Resting, Over, Odd, Publisher,
                 files, runs, history
  <2>2. CASE ~folder
    BY <1>4, <2>2, <1>a, <1>b DEF AddWrite, Idle, Resting, Over, Odd, Publisher, files, runs,
       history
  <2>. QED  BY <2>1, <2>2
<1>5. ASSUME NEW s \in Submitter, Return(s) PROVE Created'
  BY <1>5, <1>a, <1>b DEF Return, Snapshot, Nothing, Idle, Resting, Over, Odd, Publisher, files,
     runs, history
<1>6. ASSUME NEW s \in Submitter, Dies(s) PROVE Created'
  <2>1. /\ UNCHANGED <<files, runs, stored, executor, publisher, remover, raced, cut>>
        /\ submitter[s].at \in {"found", "created", "adding", "waiting"}
        /\ muddled' = (muddled \/ submitter[s].at \in {"created", "adding"})
    BY <1>6 DEF Dies
  <2>2. CASE submitter[s].here /\ row[submitter[s].run] = "queued"
    <3>1. submitter' = [submitter EXCEPT ![s] = [submitter[s] EXCEPT !.at = "gone", !.list = <<>>]]
      BY <1>6, <2>2 DEF Dies, Typed
    <3>. QED  BY <2>1, <2>2, <3>1, <1>a, <1>b DEF Idle, Resting, Over, Odd, Publisher, files, runs,
                 history
  <2>3. CASE ~(submitter[s].here /\ row[submitter[s].run] = "queued")
    <3>1. submitter' = [submitter EXCEPT ![s] = Idle]
      BY <1>6, <2>3 DEF Dies, Typed
    <3>. QED  BY <2>1, <3>1, <1>a, <1>b DEF Idle, Resting, Over, Odd, Publisher, files, runs,
                 history
  <2>. QED  BY <2>2, <2>3
<1>7. ASSUME NEW s \in Submitter, Drop(s) PROVE Created'
  BY <1>7, <1>a, <1>b DEF Drop, Snapshot, Nothing, Idle, Resting, Over, Odd, Publisher, files, runs,
     history
<1>8. ASSUME NEW r \in Run, Start(r) PROVE Created'
  BY <1>8, <1>a, <1>b DEF Start, Snapshot, Nothing, Idle, Resting, Over, Odd, Publisher, files,
     runs, history
<1>9. ASSUME NEW r \in Run, Exit(r) PROVE Created'
  BY <1>9, <1>a, <1>b DEF Exit, Snapshot, Nothing, Idle, Resting, Over, Odd, Publisher, files, runs,
     history
<1>10. ASSUME NEW r \in Run, Reconcile(r) PROVE Created'
  BY <1>10, <1>a, <1>b DEF Reconcile, Snapshot, Nothing, Idle, Resting, Over, Odd, Publisher, files,
     runs, history
<1>11. CASE Launch
  BY <1>11, <1>a, <1>b DEF Launch, Snapshot, Nothing, Idle, Resting, Over, Odd, Publisher, files,
     runs, history
<1>12. CASE End
  BY <1>12, <1>a, <1>b DEF End, Snapshot, Nothing, Idle, Resting, Over, Odd, Publisher, files, runs,
     history
<1>13. CASE Look
  <2>1. CASE folder
    BY <1>13, <2>1, <1>a, <1>b DEF Look, Idle, Resting, Over, Odd, Publisher, files, runs, history
  <2>2. CASE ~folder
    BY <1>13, <2>2, <1>a, <1>b DEF Look, Idle, Resting, Over, Odd, Publisher, files, runs, history
  <2>. QED  BY <2>1, <2>2
<1>14. CASE ListRead
  <2>1. CASE folder
    BY <1>14, <2>1, <1>a, <1>b DEF ListRead, Idle, Resting, Over, Odd, Publisher, files, runs,
       history
  <2>2. CASE ~folder
    BY <1>14, <2>2, <1>a, <1>b DEF ListRead, Idle, Resting, Over, Odd, Publisher, files, runs,
       history
  <2>. QED  BY <2>1, <2>2
<1>15. CASE ListWrite
  <2>1. CASE folder
    <3>1. listed' = Added(executor.list, executor.run) /\ row' = row /\ Made(executor.list, row) /\ row[executor.run] # "none"
      BY <1>15, <2>1 DEF ListWrite, Idle, Resting, Over, Odd, Publisher, files, runs, history
    <3>2. executor.list \in Seq(Run) /\ executor.run \in Run
      BY <1>15 DEF ListWrite
    <3>3. Made(listed', row')
      BY <3>1, <3>2, AddedIs DEF Made
    <3>. QED  BY <1>15, <2>1, <3>3, <1>a, <1>b DEF ListWrite, Idle, Resting, Over, Odd, Publisher,
                 files, runs, history
  <2>2. CASE ~folder
    BY <1>15, <2>2, <1>a, <1>b DEF ListWrite, Idle, Resting, Over, Odd, Publisher, files, runs,
       history
  <2>. QED  BY <2>1, <2>2
<1>16. CASE Copy
  <2>1. CASE folder
    BY <1>16, <2>1, <1>a, <1>b DEF Copy, Idle, Resting, Over, Odd, Publisher, files, runs, history
  <2>2. CASE ~folder
    BY <1>16, <2>2, <1>a, <1>b DEF Copy, Idle, Resting, Over, Odd, Publisher, files, runs, history
  <2>. QED  BY <2>1, <2>2
<1>17. CASE Finalized
  BY <1>17, <1>a, <1>b DEF Finalized, Snapshot, Nothing, Idle, Resting, Over, Odd, Publisher, files,
     runs, history
<1>18. CASE Crash
  BY <1>18, <1>a, <1>b DEF Crash, Snapshot, Nothing, Idle, Resting, Over, Odd, Publisher, files,
     runs, history
<1>19. CASE Cancel
  BY <1>19, <1>a, <1>b DEF Cancel, Snapshot, Nothing, Idle, Resting, Over, Odd, Publisher, files,
     runs, history
<1>20. ASSUME NEW p \in Publisher, Stage(p) PROVE Created'
  BY <1>20, <1>a, <1>b DEF Stage, Snapshot, Nothing, Idle, Resting, Over, Odd, Publisher, files,
     runs, history
<1>21. ASSUME NEW p \in Publisher, Delete(p) PROVE Created'
  BY <1>21, <1>a, <1>b DEF Delete, Snapshot, Nothing, Idle, Resting, Over, Odd, Publisher, files,
     runs, history
<1>22. ASSUME NEW p \in Publisher, Upload(p) PROVE Created'
  <2>1. CASE p = "executor"
    BY <1>22, <2>1, <1>a, <1>b DEF Upload, Idle, Resting, Over, Odd, Publisher, files, runs,
       history, Nothing
  <2>2. CASE ~(p = "executor")
    BY <1>22, <2>2, <1>a, <1>b DEF Upload, Idle, Resting, Over, Odd, Publisher, files, runs,
       history, Nothing
  <2>. QED  BY <2>1, <2>2
<1>23. ASSUME NEW p \in Publisher, PublishFails(p) PROVE Created'
  <2>1. CASE p = "executor"
    BY <1>23, <2>1, <1>a, <1>b DEF PublishFails, Idle, Resting, Over, Odd, Publisher, files, runs,
       history, Nothing
  <2>2. CASE ~(p = "executor")
    BY <1>23, <2>2, <1>a, <1>b DEF PublishFails, Idle, Resting, Over, Odd, Publisher, files, runs,
       history, Nothing
  <2>. QED  BY <2>1, <2>2
<1>24. CASE RemoveAsk
  BY <1>24, <1>a, <1>b DEF RemoveAsk, Snapshot, Nothing, Idle, Resting, Over, Odd, Publisher, files,
     runs, history
<1>25. CASE RemoveStored
  BY <1>25, <1>a, <1>b DEF RemoveStored, Snapshot, Nothing, Idle, Resting, Over, Odd, Publisher,
     files, runs, history
<1>26. CASE RemoveFolder
  BY <1>26, <1>a, <1>b DEF RemoveFolder, Snapshot, Nothing, Idle, Resting, Over, Odd, Publisher,
     files, runs, history
<1>27. CASE Pull
  BY <1>27, <1>a, <1>b DEF Pull, Snapshot, Nothing, Idle, Resting, Over, Odd, Publisher, files,
     runs, history
<1>28. CASE UNCHANGED vars
  BY <1>28 DEF vars, files, runs, history
<1>. HIDE DEF Typed, Holding, Worker, Stored, Created, Pending, Active, Ended
<1>. QED
  BY <1>1, <1>2, <1>3, <1>4, <1>5, <1>6, <1>7, <1>8, <1>9, <1>10, <1>11, <1>12, <1>13, <1>14, <1>15,
     <1>16, <1>17, <1>18, <1>19, <1>20, <1>21, <1>22, <1>23, <1>24, <1>25, <1>26, <1>27, <1>28 DEF
     Next, Submitting, Executing, Publishing

\* Unless updates of the list cross, one is made at a time.
LEMMA SoleStep ==
  ASSUME Typed, Holding, Sole, [Next]_vars
  PROVE  Sole'
<1>. USE DEF Typed, Holding, Worker, Sole
<1>1. ASSUME NEW s \in Submitter, Find(s) PROVE Sole'
  BY <1>1 DEF Find, NoneAdding, Idle, Resting, Over, Odd, Publisher, files, runs, history
<1>2. ASSUME NEW s \in Submitter, NEW r \in Run, NEW here \in BOOLEAN, Create(s, r, here) PROVE Sole'
  <2>1. UNCHANGED <<files, process, stored, executor, publisher, remover, odd, history>> /\ submitter[s].at = "found"
    BY <1>2 DEF Create
  <2>2. CASE \E a \in ToSet(submitter[s].list) : row[a] \in Pending
    <3>1. submitter' = [submitter EXCEPT ![s] = Idle] /\ row' = row
      BY <1>2, <2>2 DEF Create
    <3>. QED  BY <2>1, <3>1 DEF Idle, files, runs, history
  <2>3. CASE ~(\E a \in ToSet(submitter[s].list) : row[a] \in Pending)
    <3>. DEFINE new == [Idle EXCEPT !.at = "created", !.run = r, !.here = here]
    <3>1. /\ submitter' = [submitter EXCEPT ![s] = new]
          /\ row' = [row EXCEPT ![r] = "queued"] /\ row[r] = "none"
      BY <1>2, <2>3 DEF Create
    <3>2. new.at = "created" /\ new.run = r /\ new.here = here /\ new.list = <<>>
      BY DEF Idle
    <3>. HIDE DEF new
    <3>. QED  BY <2>1, <2>3, <3>1, <3>2 DEF Idle, files, runs, history
  <2>. QED  BY <2>2, <2>3
<1>3. ASSUME NEW s \in Submitter, AddRead(s) PROVE Sole'
  <2>1. CASE folder
    <3>1. UNCHANGED <<files, stored, executor, publisher>>
          /\ raced' = (raced \/ \E t \in Submitter : submitter[t].at = "adding" \/ executor.at = "adding")
      BY <1>3, <2>1 DEF AddRead, NoneAdding, files, runs, history
    <3>. HIDE DEF Typed, Holding, Worker
    <3>. QED  BY <1>3, <2>1, <3>1, AddReadIs DEF files
  <2>2. CASE ~folder
    <3>1. /\ submitter' = [submitter EXCEPT ![s] = Idle] /\ UNCHANGED <<files, stored, executor, publisher>>
          /\ raced' = (raced \/ \E t \in Submitter : submitter[t].at = "adding" \/ executor.at = "adding")
      BY <1>3, <2>2 DEF AddRead, NoneAdding, files, runs, history
    <3>. QED  BY <2>2, <3>1 DEF Idle, files
  <2>. QED  BY <2>1, <2>2
<1>4. ASSUME NEW s \in Submitter, AddWrite(s) PROVE Sole'
  <2>1. UNCHANGED <<folder, copy, stored, executor, publisher, raced>>
    BY <1>4 DEF AddWrite, runs, history
  <2>2. CASE folder
    <3>1. submitter[s].at = "adding" /\ submitter[s].list \in Seq(Run) /\ submitter[s].run \in Run
      BY <1>4 DEF AddWrite
    <3>. HIDE DEF Typed, Holding, Worker
    <3>2. /\ ToSet(listed') = ToSet(submitter[s].list) \cup {submitter[s].run}
          /\ \A t \in Submitter : t # s => submitter'[t] = submitter[t]
          /\ submitter'[s].at \in {"waiting", "idle"}
      BY <1>4, <2>2, <3>1, AddWriteIs, AddedIs
    <3>. QED  BY <2>1, <2>2, <3>1, <3>2
  <2>3. CASE ~folder
    <3>1. submitter' = [submitter EXCEPT ![s] = Idle] /\ UNCHANGED listed
      BY <1>4, <2>3 DEF AddWrite
    <3>. QED  BY <2>1, <2>3, <3>1 DEF Idle
  <2>. QED  BY <2>2, <2>3
<1>5. ASSUME NEW s \in Submitter, Return(s) PROVE Sole'
  BY <1>5 DEF Return, NoneAdding, Idle, Resting, Over, Odd, Publisher, files, runs, history
<1>6. ASSUME NEW s \in Submitter, Dies(s) PROVE Sole'
  <2>1. /\ UNCHANGED <<files, runs, stored, executor, publisher, remover, raced, cut>>
        /\ submitter[s].at \in {"found", "created", "adding", "waiting"}
        /\ muddled' = (muddled \/ submitter[s].at \in {"created", "adding"})
    BY <1>6 DEF Dies
  <2>2. CASE submitter[s].here /\ row[submitter[s].run] = "queued"
    <3>1. submitter' = [submitter EXCEPT ![s] = [submitter[s] EXCEPT !.at = "gone", !.list = <<>>]]
      BY <1>6, <2>2 DEF Dies, Typed
    <3>. QED  BY <2>1, <2>2, <3>1 DEF Idle, Resting, Over, Odd, Publisher, files, runs, history
  <2>3. CASE ~(submitter[s].here /\ row[submitter[s].run] = "queued")
    <3>1. submitter' = [submitter EXCEPT ![s] = Idle]
      BY <1>6, <2>3 DEF Dies, Typed
    <3>. QED  BY <2>1, <3>1 DEF Idle, Resting, Over, Odd, Publisher, files, runs, history
  <2>. QED  BY <2>2, <2>3
<1>7. ASSUME NEW s \in Submitter, Drop(s) PROVE Sole'
  BY <1>7 DEF Drop, NoneAdding, Idle, Resting, Over, Odd, Publisher, files, runs, history
<1>8. ASSUME NEW r \in Run, Start(r) PROVE Sole'
  BY <1>8 DEF Start, NoneAdding, Idle, Resting, Over, Odd, Publisher, files, runs, history
<1>9. ASSUME NEW r \in Run, Exit(r) PROVE Sole'
  BY <1>9 DEF Exit, NoneAdding, Idle, Resting, Over, Odd, Publisher, files, runs, history
<1>10. ASSUME NEW r \in Run, Reconcile(r) PROVE Sole'
  BY <1>10 DEF Reconcile, NoneAdding, Idle, Resting, Over, Odd, Publisher, files, runs, history
<1>11. CASE Launch
  BY <1>11 DEF Launch, NoneAdding, Idle, Resting, Over, Odd, Publisher, files, runs, history
<1>12. CASE End
  BY <1>12 DEF End, NoneAdding, Idle, Resting, Over, Odd, Publisher, files, runs, history
<1>13. CASE Look
  <2>1. CASE folder
    BY <1>13, <2>1 DEF Look, Idle, Resting, Over, Odd, Publisher, files, runs, history
  <2>2. CASE ~folder
    BY <1>13, <2>2 DEF Look, Idle, Resting, Over, Odd, Publisher, files, runs, history
  <2>. QED  BY <2>1, <2>2
<1>14. CASE ListRead
  <2>1. /\ UNCHANGED <<files, stored, submitter, publisher>>
        /\ raced' = (raced \/ \E t \in Submitter : submitter[t].at = "adding" \/ executor.at = "adding")
    BY <1>14 DEF ListRead, NoneAdding, runs
  <2>2. CASE folder
    <3>1. executor'.at = "adding" /\ executor'.list = listed
      BY <1>14, <2>2 DEF ListRead
    <3>. HIDE DEF Typed, Holding, Worker
    <3>. QED  BY <2>1, <2>2, <3>1 DEF files
  <2>3. CASE ~folder
    <3>1. executor' = Idle
      BY <1>14, <2>3 DEF ListRead
    <3>. QED  BY <2>1, <2>3, <3>1 DEF Idle, files
  <2>. QED  BY <2>2, <2>3
<1>15. CASE ListWrite
  <2>1. UNCHANGED <<folder, copy, stored, submitter, publisher, raced>>
    BY <1>15 DEF ListWrite, runs, history
  <2>2. CASE folder
    <3>1. executor.at = "adding" /\ executor.list \in Seq(Run) /\ executor.run \in Run
      BY <1>15 DEF ListWrite
    <3>. HIDE DEF Typed, Holding, Worker
    <3>2. /\ ToSet(listed') = ToSet(executor.list) \cup {executor.run}
          /\ executor'.at = "copying" /\ executor'.run = executor.run
      BY <1>15, <2>2, <3>1, ListWriteIs, AddedIs
    <3>. QED  BY <2>1, <2>2, <3>1, <3>2
  <2>3. CASE ~folder
    <3>1. executor' = Idle /\ UNCHANGED listed
      BY <1>15, <2>3 DEF ListWrite
    <3>. QED  BY <2>1, <2>3, <3>1 DEF Idle
  <2>. QED  BY <2>2, <2>3
<1>16. CASE Copy
  <2>1. UNCHANGED <<folder, listed, row, stored, submitter, publisher, raced>>
    BY <1>16 DEF Copy, runs, history
  <2>2. CASE folder
    BY <1>16, <2>1, <2>2, CopyIs
  <2>3. CASE ~folder
    <3>1. executor' = Idle /\ UNCHANGED copy
      BY <1>16, <2>3 DEF Copy
    <3>. QED  BY <2>1, <2>3, <3>1 DEF Idle
  <2>. QED  BY <2>2, <2>3
<1>17. CASE Finalized
  BY <1>17 DEF Finalized, NoneAdding, Idle, Resting, Over, Odd, Publisher, files, runs, history
<1>18. CASE Crash
  BY <1>18 DEF Crash, NoneAdding, Idle, Resting, Over, Odd, Publisher, files, runs, history
<1>19. CASE Cancel
  BY <1>19 DEF Cancel, NoneAdding, Idle, Resting, Over, Odd, Publisher, files, runs, history
<1>20. ASSUME NEW p \in Publisher, Stage(p) PROVE Sole'
  BY <1>20 DEF Stage, NoneAdding, Idle, Resting, Over, Odd, Publisher, files, runs, history
<1>21. ASSUME NEW p \in Publisher, Delete(p) PROVE Sole'
  BY <1>21 DEF Delete, NoneAdding, Idle, Resting, Over, Odd, Publisher, files, runs, history
<1>22. ASSUME NEW p \in Publisher, Upload(p) PROVE Sole'
  <2>1. Over(p) /\ UNCHANGED <<files, submitter, raced>> /\ publisher[p].at = "deleted" /\ stored' = publisher[p].snapshot
    BY <1>22 DEF Upload, files, runs, history
  <2>. QED  BY <2>1, OverIs DEF files
<1>23. ASSUME NEW p \in Publisher, PublishFails(p) PROVE Sole'
  <2>1. Over(p) /\ UNCHANGED <<files, stored, submitter, raced>>
    BY <1>23 DEF PublishFails, files, runs
  <2>. QED  BY <2>1, OverIs DEF files
<1>24. CASE RemoveAsk
  BY <1>24 DEF RemoveAsk, NoneAdding, Idle, Resting, Over, Odd, Publisher, files, runs, history
<1>25. CASE RemoveStored
  BY <1>25 DEF RemoveStored, NoneAdding, Idle, Resting, Over, Odd, Publisher, files, runs, history
<1>26. CASE RemoveFolder
  BY <1>26 DEF RemoveFolder, NoneAdding, Idle, Resting, Over, Odd, Publisher, files, runs, history
<1>27. CASE Pull
  BY <1>27 DEF Pull, NoneAdding, Idle, Resting, Over, Odd, Publisher, files, runs, history
<1>28. CASE UNCHANGED vars
  BY <1>28 DEF vars, files, runs, history
<1>. HIDE DEF Typed, Holding, Worker, Sole
<1>. QED
  BY <1>1, <1>2, <1>3, <1>4, <1>5, <1>6, <1>7, <1>8, <1>9, <1>10, <1>11, <1>12, <1>13, <1>14, <1>15,
     <1>16, <1>17, <1>18, <1>19, <1>20, <1>21, <1>22, <1>23, <1>24, <1>25, <1>26, <1>27, <1>28 DEF
     Next, Submitting, Executing, Publishing

\* What has been copied is in the list that goes with it.
LEMMA FinishedStep ==
  ASSUME Typed, Holding, Absent, Sole, Finished, [Next]_vars
  PROVE  Finished'
<1>. USE DEF Typed, Holding, Worker, Stored, Sole, Finished, Gathered
<1>1. ASSUME NEW s \in Submitter, Find(s) PROVE Finished'
  BY <1>1 DEF Find, NoneAdding, Snapshot, Nothing, Absent, Idle, Resting, Over, Odd, Publisher,
     files, runs, history
<1>2. ASSUME NEW s \in Submitter, NEW r \in Run, NEW here \in BOOLEAN, Create(s, r, here) PROVE Finished'
  <2>1. UNCHANGED <<files, process, stored, executor, publisher, remover, odd, history>> /\ submitter[s].at = "found"
    BY <1>2 DEF Create
  <2>2. CASE \E a \in ToSet(submitter[s].list) : row[a] \in Pending
    <3>1. submitter' = [submitter EXCEPT ![s] = Idle] /\ row' = row
      BY <1>2, <2>2 DEF Create
    <3>. QED  BY <2>1, <3>1 DEF Idle, files, runs, history
  <2>3. CASE ~(\E a \in ToSet(submitter[s].list) : row[a] \in Pending)
    <3>. DEFINE new == [Idle EXCEPT !.at = "created", !.run = r, !.here = here]
    <3>1. /\ submitter' = [submitter EXCEPT ![s] = new]
          /\ row' = [row EXCEPT ![r] = "queued"] /\ row[r] = "none"
      BY <1>2, <2>3 DEF Create
    <3>2. new.at = "created" /\ new.run = r /\ new.here = here /\ new.list = <<>>
      BY DEF Idle
    <3>. HIDE DEF new
    <3>. QED  BY <2>1, <2>3, <3>1, <3>2 DEF Idle, files, runs, history
  <2>. QED  BY <2>2, <2>3
<1>3. ASSUME NEW s \in Submitter, AddRead(s) PROVE Finished'
  <2>1. CASE folder
    <3>1. UNCHANGED <<files, stored, executor, publisher>>
          /\ raced' = (raced \/ \E t \in Submitter : submitter[t].at = "adding" \/ executor.at = "adding")
      BY <1>3, <2>1 DEF AddRead, NoneAdding, files, runs, history
    <3>. HIDE DEF Typed, Holding, Worker
    <3>. QED  BY <1>3, <2>1, <3>1, AddReadIs DEF files
  <2>2. CASE ~folder
    <3>1. /\ submitter' = [submitter EXCEPT ![s] = Idle] /\ UNCHANGED <<files, stored, executor, publisher>>
          /\ raced' = (raced \/ \E t \in Submitter : submitter[t].at = "adding" \/ executor.at = "adding")
      BY <1>3, <2>2 DEF AddRead, NoneAdding, files, runs, history
    <3>. QED  BY <2>2, <3>1 DEF Idle, files
  <2>. QED  BY <2>1, <2>2
<1>4. ASSUME NEW s \in Submitter, AddWrite(s) PROVE Finished'
  <2>1. UNCHANGED <<folder, copy, stored, executor, publisher, raced>>
    BY <1>4 DEF AddWrite, runs, history
  <2>2. CASE folder
    <3>1. submitter[s].at = "adding" /\ submitter[s].list \in Seq(Run) /\ submitter[s].run \in Run
      BY <1>4 DEF AddWrite
    <3>. HIDE DEF Typed, Holding, Worker
    <3>2. /\ ToSet(listed') = ToSet(submitter[s].list) \cup {submitter[s].run}
          /\ \A t \in Submitter : t # s => submitter'[t] = submitter[t]
          /\ submitter'[s].at \in {"waiting", "idle"}
      BY <1>4, <2>2, <3>1, AddWriteIs, AddedIs
    <3>. QED  BY <2>1, <2>2, <3>1, <3>2
  <2>3. CASE ~folder
    <3>1. submitter' = [submitter EXCEPT ![s] = Idle] /\ UNCHANGED listed
      BY <1>4, <2>3 DEF AddWrite
    <3>. QED  BY <2>1, <2>3, <3>1 DEF Idle
  <2>. QED  BY <2>2, <2>3
<1>5. ASSUME NEW s \in Submitter, Return(s) PROVE Finished'
  BY <1>5 DEF Return, NoneAdding, Snapshot, Nothing, Absent, Idle, Resting, Over, Odd, Publisher,
     files, runs, history
<1>6. ASSUME NEW s \in Submitter, Dies(s) PROVE Finished'
  <2>1. /\ UNCHANGED <<files, runs, stored, executor, publisher, remover, raced, cut>>
        /\ submitter[s].at \in {"found", "created", "adding", "waiting"}
        /\ muddled' = (muddled \/ submitter[s].at \in {"created", "adding"})
    BY <1>6 DEF Dies
  <2>2. CASE submitter[s].here /\ row[submitter[s].run] = "queued"
    <3>1. submitter' = [submitter EXCEPT ![s] = [submitter[s] EXCEPT !.at = "gone", !.list = <<>>]]
      BY <1>6, <2>2 DEF Dies, Typed
    <3>. QED  BY <2>1, <2>2, <3>1 DEF Idle, Resting, Over, Odd, Publisher, files, runs, history
  <2>3. CASE ~(submitter[s].here /\ row[submitter[s].run] = "queued")
    <3>1. submitter' = [submitter EXCEPT ![s] = Idle]
      BY <1>6, <2>3 DEF Dies, Typed
    <3>. QED  BY <2>1, <3>1 DEF Idle, Resting, Over, Odd, Publisher, files, runs, history
  <2>. QED  BY <2>2, <2>3
<1>7. ASSUME NEW s \in Submitter, Drop(s) PROVE Finished'
  BY <1>7 DEF Drop, NoneAdding, Snapshot, Nothing, Absent, Idle, Resting, Over, Odd, Publisher,
     files, runs, history
<1>8. ASSUME NEW r \in Run, Start(r) PROVE Finished'
  BY <1>8 DEF Start, NoneAdding, Snapshot, Nothing, Absent, Idle, Resting, Over, Odd, Publisher,
     files, runs, history
<1>9. ASSUME NEW r \in Run, Exit(r) PROVE Finished'
  BY <1>9 DEF Exit, NoneAdding, Snapshot, Nothing, Absent, Idle, Resting, Over, Odd, Publisher,
     files, runs, history
<1>10. ASSUME NEW r \in Run, Reconcile(r) PROVE Finished'
  BY <1>10 DEF Reconcile, NoneAdding, Snapshot, Nothing, Absent, Idle, Resting, Over, Odd,
     Publisher, files, runs, history
<1>11. CASE Launch
  BY <1>11 DEF Launch, NoneAdding, Snapshot, Nothing, Absent, Idle, Resting, Over, Odd, Publisher,
     files, runs, history
<1>12. CASE End
  BY <1>12 DEF End, NoneAdding, Snapshot, Nothing, Absent, Idle, Resting, Over, Odd, Publisher,
     files, runs, history
<1>13. CASE Look
  <2>1. CASE folder
    BY <1>13, <2>1 DEF Look, Idle, Resting, Over, Odd, Publisher, files, runs, history
  <2>2. CASE ~folder
    BY <1>13, <2>2 DEF Look, Idle, Resting, Over, Odd, Publisher, files, runs, history
  <2>. QED  BY <2>1, <2>2
<1>14. CASE ListRead
  <2>1. /\ UNCHANGED <<files, stored, submitter, publisher>>
        /\ raced' = (raced \/ \E t \in Submitter : submitter[t].at = "adding" \/ executor.at = "adding")
    BY <1>14 DEF ListRead, NoneAdding, runs
  <2>2. CASE folder
    <3>1. executor'.at = "adding" /\ executor'.list = listed
      BY <1>14, <2>2 DEF ListRead
    <3>. HIDE DEF Typed, Holding, Worker
    <3>. QED  BY <2>1, <2>2, <3>1 DEF files
  <2>3. CASE ~folder
    <3>1. executor' = Idle
      BY <1>14, <2>3 DEF ListRead
    <3>. QED  BY <2>1, <2>3, <3>1 DEF Idle, files
  <2>. QED  BY <2>2, <2>3
<1>15. CASE ListWrite
  <2>1. UNCHANGED <<folder, copy, stored, submitter, publisher, raced>>
    BY <1>15 DEF ListWrite, runs, history
  <2>2. CASE folder
    <3>1. executor.at = "adding" /\ executor.list \in Seq(Run) /\ executor.run \in Run
      BY <1>15 DEF ListWrite
    <3>. HIDE DEF Typed, Holding, Worker
    <3>2. /\ ToSet(listed') = ToSet(executor.list) \cup {executor.run}
          /\ executor'.at = "copying" /\ executor'.run = executor.run
      BY <1>15, <2>2, <3>1, ListWriteIs, AddedIs
    <3>. QED  BY <2>1, <2>2, <3>1, <3>2
  <2>3. CASE ~folder
    <3>1. executor' = Idle /\ UNCHANGED listed
      BY <1>15, <2>3 DEF ListWrite
    <3>. QED  BY <2>1, <2>3, <3>1 DEF Idle
  <2>. QED  BY <2>2, <2>3
<1>16. CASE Copy
  <2>a. ~raced => executor.run \in ToSet(listed)
    BY <1>16 DEF Copy, Sole
  <2>1. UNCHANGED <<folder, listed, row, stored, submitter, publisher, raced>>
    BY <1>16 DEF Copy, runs, history
  <2>2. CASE folder
    BY <1>16, <2>1, <2>2, CopyIs, <2>a
  <2>3. CASE ~folder
    <3>1. executor' = Idle /\ UNCHANGED copy
      BY <1>16, <2>3 DEF Copy
    <3>. QED  BY <2>1, <2>3, <3>1 DEF Idle
  <2>. QED  BY <2>2, <2>3
<1>17. CASE Finalized
  BY <1>17 DEF Finalized, NoneAdding, Snapshot, Nothing, Absent, Idle, Resting, Over, Odd,
     Publisher, files, runs, history
<1>18. CASE Crash
  BY <1>18 DEF Crash, NoneAdding, Snapshot, Nothing, Absent, Idle, Resting, Over, Odd, Publisher,
     files, runs, history
<1>19. CASE Cancel
  BY <1>19 DEF Cancel, NoneAdding, Snapshot, Nothing, Absent, Idle, Resting, Over, Odd, Publisher,
     files, runs, history
<1>20. ASSUME NEW p \in Publisher, Stage(p) PROVE Finished'
  BY <1>20 DEF Stage, NoneAdding, Snapshot, Nothing, Absent, Idle, Resting, Over, Odd, Publisher,
     files, runs, history
<1>21. ASSUME NEW p \in Publisher, Delete(p) PROVE Finished'
  BY <1>21 DEF Delete, NoneAdding, Snapshot, Nothing, Absent, Idle, Resting, Over, Odd, Publisher,
     files, runs, history
<1>22. ASSUME NEW p \in Publisher, Upload(p) PROVE Finished'
  <2>1. Over(p) /\ UNCHANGED <<files, submitter, raced>> /\ publisher[p].at = "deleted" /\ stored' = publisher[p].snapshot
    BY <1>22 DEF Upload, files, runs, history
  <2>2. Gathered(Resting.snapshot.copy, Resting.snapshot.listed)
    BY DEF Resting, Nothing
  <2>3. publisher'[p] = Resting /\ \A q \in Publisher : q # p => publisher'[q] = publisher[q]
    BY <2>1, OverIs
  <2>4. UNCHANGED <<folder, listed, copy>>
    BY <2>1 DEF files
  <2>. HIDE DEF Gathered, Typed, Holding, Worker, Stored, Sole
  <2>. QED  BY <2>1, <2>2, <2>3, <2>4
<1>23. ASSUME NEW p \in Publisher, PublishFails(p) PROVE Finished'
  <2>1. Over(p) /\ UNCHANGED <<files, stored, submitter, raced>>
    BY <1>23 DEF PublishFails, files, runs
  <2>2. Gathered(Resting.snapshot.copy, Resting.snapshot.listed)
    BY DEF Resting, Nothing
  <2>3. publisher'[p] = Resting /\ \A q \in Publisher : q # p => publisher'[q] = publisher[q]
    BY <2>1, OverIs
  <2>4. UNCHANGED <<folder, listed, copy>>
    BY <2>1 DEF files
  <2>. HIDE DEF Gathered, Typed, Holding, Worker, Stored, Sole
  <2>. QED  BY <2>1, <2>2, <2>3, <2>4
<1>24. CASE RemoveAsk
  BY <1>24 DEF RemoveAsk, NoneAdding, Snapshot, Nothing, Absent, Idle, Resting, Over, Odd,
     Publisher, files, runs, history
<1>25. CASE RemoveStored
  BY <1>25 DEF RemoveStored, NoneAdding, Snapshot, Nothing, Absent, Idle, Resting, Over, Odd,
     Publisher, files, runs, history
<1>26. CASE RemoveFolder
  BY <1>26 DEF RemoveFolder, NoneAdding, Snapshot, Nothing, Absent, Idle, Resting, Over, Odd,
     Publisher, files, runs, history
<1>27. CASE Pull
  BY <1>27 DEF Pull, NoneAdding, Snapshot, Nothing, Absent, Idle, Resting, Over, Odd, Publisher,
     files, runs, history
<1>28. CASE UNCHANGED vars
  BY <1>28 DEF vars, files, runs, history
<1>. HIDE DEF Typed, Holding, Worker, Stored, Sole, Finished, Gathered
<1>. QED
  BY <1>1, <1>2, <1>3, <1>4, <1>5, <1>6, <1>7, <1>8, <1>9, <1>10, <1>11, <1>12, <1>13, <1>14, <1>15,
     <1>16, <1>17, <1>18, <1>19, <1>20, <1>21, <1>22, <1>23, <1>24, <1>25, <1>26, <1>27, <1>28 DEF
     Next, Submitting, Executing, Publishing

\* Unless it is known otherwise one is at the list at a time.
LEMMA ApartStep ==
  ASSUME Typed, Holding, Waits, Apart, [Next]_vars
  PROVE  Apart'
<1>. USE DEF Typed, Worker, Apart, AtList
<1>1. ASSUME NEW s \in Submitter, Find(s) PROVE Apart'
  <2>1. /\ submitter' = [submitter EXCEPT ![s] = submitter'[s]] /\ submitter'[s].at = "found"
        /\ submitter'[s].list = listed
        /\ UNCHANGED <<folder, listed, executor, raced>> /\ folder
        /\ ~muddled' => ~muddled /\ \A t \in Submitter : ~AtList(t)
    BY <1>1 DEF Find, NoneAtList, Idle, files
  <2>. QED  BY <2>1
<1>2. ASSUME NEW s \in Submitter, NEW r \in Run, NEW here \in BOOLEAN, Create(s, r, here) PROVE Apart'
  <2>1. UNCHANGED <<files, process, stored, executor, publisher, remover, odd, history>> /\ submitter[s].at = "found"
    BY <1>2 DEF Create
  <2>2. CASE \E a \in ToSet(submitter[s].list) : row[a] \in Pending
    <3>1. submitter' = [submitter EXCEPT ![s] = Idle] /\ row' = row
      BY <1>2, <2>2 DEF Create
    <3>. QED  BY <2>1, <3>1 DEF Idle, files, runs, history
  <2>3. CASE ~(\E a \in ToSet(submitter[s].list) : row[a] \in Pending)
    <3>. DEFINE new == [Idle EXCEPT !.at = "created", !.run = r, !.here = here]
    <3>1. /\ submitter' = [submitter EXCEPT ![s] = new]
          /\ row' = [row EXCEPT ![r] = "queued"] /\ row[r] = "none"
      BY <1>2, <2>3 DEF Create
    <3>2. new.at = "created" /\ new.run = r /\ new.here = here /\ new.list = <<>>
      BY DEF Idle
    <3>. HIDE DEF new
    <3>. QED  BY <2>1, <2>3, <3>1, <3>2 DEF Idle, files, runs, history
  <2>. QED  BY <2>2, <2>3
<1>3. ASSUME NEW s \in Submitter, AddRead(s) PROVE Apart'
  <2>1. submitter[s].at = "created" /\ UNCHANGED <<files, executor, muddled>> /\ (~raced' => ~raced)
    BY <1>3 DEF AddRead
  <2>2. CASE folder
    <3>. HIDE DEF Typed, Worker
    <3>1. /\ \A t \in Submitter : t # s => submitter'[t] = submitter[t]
          /\ submitter'[s].at = "adding" /\ submitter'[s].list = listed
      BY <1>3, <2>2, AddReadIs
    <3>. QED  BY <2>1, <2>2, <3>1 DEF files
  <2>3. CASE ~folder
    BY <1>3, <2>1, <2>3 DEF AddRead, Idle, files
  <2>. QED  BY <2>2, <2>3
<1>4. ASSUME NEW s \in Submitter, AddWrite(s) PROVE Apart'
  <2>1. submitter[s].at = "adding" /\ UNCHANGED <<folder, executor, muddled, raced>>
    BY <1>4 DEF AddWrite, history
  <2>2. CASE folder
    <3>. HIDE DEF Typed, Worker
    <3>1. /\ \A t \in Submitter : t # s => submitter'[t] = submitter[t]
          /\ submitter'[s].at \in {"waiting", "idle"}
      BY <1>4, <2>2, AddWriteIs
    <3>. QED  BY <2>1, <2>2, <3>1
  <2>3. CASE ~folder
    BY <1>4, <2>1, <2>3
  <2>. QED  BY <2>2, <2>3
<1>5. ASSUME NEW s \in Submitter, Return(s) PROVE Apart'
  BY <1>5 DEF Return, NoneAtList, Idle, Resting, Over, Odd, Publisher, files, runs, history
<1>6. ASSUME NEW s \in Submitter, Dies(s) PROVE Apart'
  <2>1. /\ UNCHANGED <<files, runs, stored, executor, publisher, remover, raced, cut>>
        /\ submitter[s].at \in {"found", "created", "adding", "waiting"}
        /\ muddled' = (muddled \/ submitter[s].at \in {"created", "adding"})
    BY <1>6 DEF Dies
  <2>2. CASE submitter[s].here /\ row[submitter[s].run] = "queued"
    <3>1. submitter' = [submitter EXCEPT ![s] = [submitter[s] EXCEPT !.at = "gone", !.list = <<>>]]
      BY <1>6, <2>2 DEF Dies, Typed
    <3>. QED  BY <2>1, <2>2, <3>1 DEF Idle, Resting, Over, Odd, Publisher, files, runs, history
  <2>3. CASE ~(submitter[s].here /\ row[submitter[s].run] = "queued")
    <3>1. submitter' = [submitter EXCEPT ![s] = Idle]
      BY <1>6, <2>3 DEF Dies, Typed
    <3>. QED  BY <2>1, <3>1 DEF Idle, Resting, Over, Odd, Publisher, files, runs, history
  <2>. QED  BY <2>2, <2>3
<1>7. ASSUME NEW s \in Submitter, Drop(s) PROVE Apart'
  BY <1>7 DEF Drop, NoneAtList, Idle, Resting, Over, Odd, Publisher, files, runs, history
<1>8. ASSUME NEW r \in Run, Start(r) PROVE Apart'
  BY <1>8 DEF Start, NoneAtList, Idle, Resting, Over, Odd, Publisher, files, runs, history
<1>9. ASSUME NEW r \in Run, Exit(r) PROVE Apart'
  BY <1>9 DEF Exit, NoneAtList, Idle, Resting, Over, Odd, Publisher, files, runs, history
<1>10. ASSUME NEW r \in Run, Reconcile(r) PROVE Apart'
  BY <1>10 DEF Reconcile, NoneAtList, Idle, Resting, Over, Odd, Publisher, files, runs, history
<1>11. CASE Launch
  BY <1>11 DEF Launch, NoneAtList, Idle, Resting, Over, Odd, Publisher, files, runs, history
<1>12. CASE End
  BY <1>12 DEF End, NoneAtList, Idle, Resting, Over, Odd, Publisher, files, runs, history
<1>13. CASE Look
  <2>1. UNCHANGED <<files, submitter, raced>> /\ executor.at = "ended"
    BY <1>13 DEF Look
  <2>2. CASE folder /\ executor.run \notin ToSet(listed)
    <3>1. ~muddled' => ~muddled /\ \A t \in Submitter : ~AtList(t)
      BY <1>13, <2>2 DEF Look, NoneAtList
    <3>. QED  BY <1>13, <2>1, <2>2, <3>1 DEF Waits, Submits, files
  <2>3. CASE ~(folder /\ executor.run \notin ToSet(listed))
    <3>1. executor'.at \in {"idle", "copying"} /\ muddled' = muddled
      BY <1>13, <2>3 DEF Look, Idle
    <3>. QED  BY <2>1, <3>1 DEF files
  <2>. QED  BY <2>2, <2>3
<1>14. CASE ListRead
  BY <1>14 DEF ListRead, NoneAtList, Idle, Resting, Over, Odd, Publisher, files, runs, history
<1>15. CASE ListWrite
  BY <1>15 DEF ListWrite, NoneAtList, Idle, Resting, Over, Odd, Publisher, files, runs, history
<1>16. CASE Copy
  <2>1. UNCHANGED <<folder, listed, submitter, muddled, raced>> /\ executor'.at \in {"idle", "publishing"}
    BY <1>16 DEF Copy, history, Idle
  <2>. QED  BY <2>1
<1>17. CASE Finalized
  BY <1>17 DEF Finalized, NoneAtList, Idle, Resting, Over, Odd, Publisher, files, runs, history
<1>18. CASE Crash
  BY <1>18 DEF Crash, NoneAtList, Idle, Resting, Over, Odd, Publisher, files, runs, history
<1>19. CASE Cancel
  BY <1>19 DEF Cancel, NoneAtList, Idle, Resting, Over, Odd, Publisher, files, runs, history
<1>20. ASSUME NEW p \in Publisher, Stage(p) PROVE Apart'
  BY <1>20 DEF Stage, NoneAtList, Idle, Resting, Over, Odd, Publisher, files, runs, history
<1>21. ASSUME NEW p \in Publisher, Delete(p) PROVE Apart'
  BY <1>21 DEF Delete, NoneAtList, Idle, Resting, Over, Odd, Publisher, files, runs, history
<1>22. ASSUME NEW p \in Publisher, Upload(p) PROVE Apart'
  <2>1. Over(p) /\ UNCHANGED <<files, submitter, muddled, raced>>
    BY <1>22 DEF Upload, history
  <2>. QED  BY <2>1, OverIs DEF files
<1>23. ASSUME NEW p \in Publisher, PublishFails(p) PROVE Apart'
  <2>1. Over(p) /\ UNCHANGED <<files, submitter, muddled, raced>>
    BY <1>23 DEF PublishFails, history
  <2>. QED  BY <2>1, OverIs DEF files
<1>24. CASE RemoveAsk
  BY <1>24 DEF RemoveAsk, NoneAtList, Idle, Resting, Over, Odd, Publisher, files, runs, history
<1>25. CASE RemoveStored
  BY <1>25 DEF RemoveStored, NoneAtList, Idle, Resting, Over, Odd, Publisher, files, runs, history
<1>26. CASE RemoveFolder
  <2>1. /\ UNCHANGED <<submitter, executor>> /\ (~raced' => ~raced)
        /\ ~muddled' => ~muddled /\ \A t \in Submitter : ~AtList(t)
    BY <1>26 DEF RemoveFolder, NoneAtList
  <2>. QED  BY <2>1
<1>27. CASE Pull
  <2>1. /\ UNCHANGED <<submitter, executor>> /\ (~raced' => ~raced)
        /\ ~muddled' => ~muddled /\ \A t \in Submitter : ~AtList(t)
    BY <1>27 DEF Pull, NoneAtList
  <2>. QED  BY <2>1
<1>28. CASE UNCHANGED vars
  BY <1>28 DEF vars, files, runs, history
<1>. HIDE DEF Typed, Worker, Apart, AtList
<1>. QED
  BY <1>1, <1>2, <1>3, <1>4, <1>5, <1>6, <1>7, <1>8, <1>9, <1>10, <1>11, <1>12, <1>13, <1>14, <1>15,
     <1>16, <1>17, <1>18, <1>19, <1>20, <1>21, <1>22, <1>23, <1>24, <1>25, <1>26, <1>27, <1>28 DEF
     Next, Submitting, Executing, Publishing

\* Unless it is known otherwise what is pending is listed last.
LEMMA WaitsStep ==
  ASSUME Typed, Holding, Created, Final, Apart, Waits, [Next]_vars
  PROVE  Waits'
<1>. USE DEF Typed, Holding, Worker, Submits, Pending, Active, Waits
<1>1. ASSUME NEW s \in Submitter, Find(s) PROVE Waits'
  <2>1. /\ submitter' = [submitter EXCEPT ![s] = submitter'[s]] /\ submitter'[s].at = "found"
        /\ UNCHANGED <<listed, executor, row, raced>>
        /\ ~muddled' => ~muddled /\ \A t \in Submitter : ~AtList(t)
    BY <1>1 DEF Find, NoneAtList, AtList, SubmitterAt, Idle, files, runs
  <2>. QED  BY <2>1 DEF AtList
<1>2. ASSUME NEW s \in Submitter, NEW r \in Run, NEW here \in BOOLEAN, Create(s, r, here) PROVE Waits'
  <2>1. UNCHANGED <<listed, executor, muddled, raced>> /\ submitter[s].at = "found"
    BY <1>2 DEF Create, files, history
  <2>2. CASE \E a \in ToSet(submitter[s].list) : row[a] \in Pending
    <3>1. submitter' = [submitter EXCEPT ![s] = Idle] /\ row' = row
      BY <1>2, <2>2 DEF Create
    <3>. QED  BY <2>1, <3>1 DEF Idle
  <2>3. CASE ~\E a \in ToSet(submitter[s].list) : row[a] \in Pending
    <3>. DEFINE new == [Idle EXCEPT !.at = "created", !.run = r, !.here = here]
    <3>1. submitter' = [submitter EXCEPT ![s] = new] /\ row' = [row EXCEPT ![r] = "queued"] /\ row[r] = "none"
      BY <1>2, <2>3 DEF Create
    <3>2. new.at = "created" /\ new.run = r
      BY DEF Idle
    <3>. HIDE DEF new
    <3>3. (\A t \in Submitter : t # s => submitter'[t] = submitter[t]) /\ submitter'[s].at = "created" /\ submitter'[s].run = r
      BY <3>1, <3>2
    <3>. SUFFICES ASSUME ~muddled, ~raced
                  PROVE  Waits'
      BY <2>1
    <3>4. submitter[s].list = listed /\ \A t \in Submitter : t # s => ~AtList(t)
      BY <2>1 DEF Apart, AtList
    <3>5. \A t \in Submitter : ~Submits(t)
      BY <2>1, <3>4 DEF AtList
    <3>6. \A q \in Run : row[q] \notin Pending
      BY <2>3, <3>4, <3>5, ListedIs
    <3>7. r \notin ToSet(listed)
      BY <3>1 DEF Created, Made
    <3>8. \A t \in Submitter : Submits(t)' <=> t = s
      BY <3>3, <3>5
    <3>9. \A q \in Run : row'[q] \in Pending <=> q = r
      BY <3>1, <3>6
    <3>10. executor.at # "waiting"
      BY <3>6
    <3>. HIDE DEF Typed, Holding, Worker, Submits, Pending
    <3>. QED  BY <2>1, <3>3, <3>5, <3>7, <3>8, <3>9, <3>10
  <2>. QED  BY <2>2, <2>3
<1>3. ASSUME NEW s \in Submitter, AddRead(s) PROVE Waits'
  <2>1. submitter[s].at = "created" /\ UNCHANGED <<listed, executor, row, muddled>> /\ (~raced' => ~raced)
    BY <1>3 DEF AddRead, files, runs
  <2>2. CASE folder
    <3>. HIDE DEF Typed, Worker
    <3>1. /\ \A t \in Submitter : t # s => submitter'[t] = submitter[t]
          /\ submitter'[s].at = "adding" /\ submitter'[s].run = submitter[s].run
      BY <1>3, <2>2, AddReadIs
    <3>. QED  BY <2>1, <2>2, <3>1 DEF files
  <2>3. CASE ~folder
    BY <1>3, <2>1, <2>3 DEF Apart, AtList
  <2>. QED  BY <2>2, <2>3
<1>4. ASSUME NEW s \in Submitter, AddWrite(s) PROVE Waits'
  <2>1. submitter[s].at = "adding" /\ UNCHANGED <<folder, executor, row, muddled, raced>>
    BY <1>4 DEF AddWrite, runs, history
  <2>. SUFFICES ASSUME ~muddled, ~raced
                PROVE  Waits'
    BY <2>1
  <2>2. folder /\ submitter[s].list = listed /\ \A t \in Submitter : t # s => ~Submits(t)
    BY <2>1 DEF Apart, AtList
  <2>3. submitter[s].list \in Seq(Run) /\ submitter[s].run \in Run
    BY <2>1
  <2>4. Submits(s) /\ submitter[s].run \notin ToSet(listed)
    BY <2>1
  <2>5. /\ \A t \in Submitter : t # s => submitter'[t] = submitter[t]
        /\ submitter'[s].at \in {"waiting", "idle"}
        /\ listed' # <<>> /\ Last(listed') = submitter[s].run
        /\ ToSet(listed') = ToSet(listed) \cup {submitter[s].run}
    <3>. HIDE DEF Typed, Holding, Worker, Submits
    <3>1. /\ \A t \in Submitter : t # s => submitter'[t] = submitter[t]
          /\ submitter'[s].at \in {"waiting", "idle"}
          /\ listed' = Added(submitter[s].list, submitter[s].run)
      BY <1>4, <2>2, AddWriteIs
    <3>. QED  BY <2>2, <2>3, <3>1, AddedIs
  <2>6. \A t \in Submitter : ~Submits(t)'
    BY <2>2, <2>5
  <2>7. \A q \in Run : row[q] \in Pending => q = submitter[s].run
    BY <2>4
  <2>8. executor.at # "idle" => executor.run \in ToSet(listed')
    BY <2>2, <2>5
  <2>. HIDE DEF Typed, Holding, Worker, Submits, Pending
  <2>. QED  BY <2>1, <2>5, <2>6, <2>7, <2>8
<1>5. ASSUME NEW s \in Submitter, Return(s) PROVE Waits'
  BY <1>5 DEF Return, Ended, Idle, Resting, Over, Odd, Publisher, files, runs, history
<1>6. ASSUME NEW s \in Submitter, Dies(s) PROVE Waits'
  <2>1. /\ UNCHANGED <<files, runs, stored, executor, publisher, remover, raced, cut>>
        /\ submitter[s].at \in {"found", "created", "adding", "waiting"}
        /\ muddled' = (muddled \/ submitter[s].at \in {"created", "adding"})
    BY <1>6 DEF Dies
  <2>2. CASE submitter[s].here /\ row[submitter[s].run] = "queued"
    <3>1. submitter' = [submitter EXCEPT ![s] = [submitter[s] EXCEPT !.at = "gone", !.list = <<>>]]
      BY <1>6, <2>2 DEF Dies, Typed
    <3>. QED  BY <2>1, <2>2, <3>1 DEF Idle, Resting, Over, Odd, Publisher, files, runs, history
  <2>3. CASE ~(submitter[s].here /\ row[submitter[s].run] = "queued")
    <3>1. submitter' = [submitter EXCEPT ![s] = Idle]
      BY <1>6, <2>3 DEF Dies, Typed
    <3>. QED  BY <2>1, <3>1 DEF Idle, Resting, Over, Odd, Publisher, files, runs, history
  <2>. QED  BY <2>2, <2>3
<1>7. ASSUME NEW s \in Submitter, Drop(s) PROVE Waits'
  BY <1>7 DEF Drop, Ended, Idle, Resting, Over, Odd, Publisher, files, runs, history
<1>8. ASSUME NEW r \in Run, Start(r) PROVE Waits'
  <2>1. /\ executor'.at = "waiting" /\ executor'.run = r /\ row[r] = "queued" /\ row' = [row EXCEPT ![r] = "staging"]
        /\ UNCHANGED <<listed, submitter, muddled, raced>>
    BY <1>8 DEF Start, Idle, files, history
  <2>2. \A q \in Run : row'[q] \in Pending <=> row[q] \in Pending
    BY <2>1
  <2>. SUFFICES ASSUME ~muddled, ~raced
                PROVE  Waits'
    BY <2>1
  <2>3. r \in ToSet(listed) \/ \E s \in Submitter : Submits(s) /\ submitter[s].run = r
    BY <2>1, ListedIs
  <2>. QED  BY <2>1, <2>2, <2>3
<1>9. ASSUME NEW r \in Run, Exit(r) PROVE Waits'
  BY <1>9 DEF Exit, Ended, Idle, Resting, Over, Odd, Publisher, files, runs, history
<1>10. ASSUME NEW r \in Run, Reconcile(r) PROVE Waits'
  BY <1>10 DEF Reconcile, Ended, Idle, Resting, Over, Odd, Publisher, files, runs, history
<1>11. CASE Launch
  BY <1>11 DEF Launch, Ended, Idle, Resting, Over, Odd, Publisher, files, runs, history
<1>12. CASE End
  BY <1>12 DEF End, Ended, Idle, Resting, Over, Odd, Publisher, files, runs, history
<1>13. CASE Look
  BY <1>13 DEF Look, Ended, Idle, Resting, Over, Odd, Publisher, files, runs, history
<1>14. CASE ListRead
  BY <1>14 DEF ListRead, Ended, Idle, Resting, Over, Odd, Publisher, files, runs, history
<1>15. CASE ListWrite
  <2>1. executor.at = "adding" /\ UNCHANGED <<muddled, raced>>
    BY <1>15 DEF ListWrite, history
  <2>. QED  BY <2>1 DEF Apart
<1>16. CASE Copy
  <2>1. UNCHANGED <<listed, row, submitter, muddled, raced>> /\ executor.at = "copying"
    BY <1>16 DEF Copy, history, runs
  <2>2. executor' = Idle \/ (executor'.at = "publishing" /\ executor'.run = executor.run)
    BY <1>16 DEF Copy
  <2>. QED  BY <2>1, <2>2 DEF Idle
<1>17. CASE Finalized
  BY <1>17 DEF Finalized, Ended, Idle, Resting, Over, Odd, Publisher, files, runs, history
<1>18. CASE Crash
  BY <1>18 DEF Crash, Ended, Idle, Resting, Over, Odd, Publisher, files, runs, history
<1>19. CASE Cancel
  BY <1>19 DEF Cancel, Ended, Idle, Resting, Over, Odd, Publisher, files, runs, history
<1>20. ASSUME NEW p \in Publisher, Stage(p) PROVE Waits'
  BY <1>20 DEF Stage, Ended, Idle, Resting, Over, Odd, Publisher, files, runs, history
<1>21. ASSUME NEW p \in Publisher, Delete(p) PROVE Waits'
  BY <1>21 DEF Delete, Ended, Idle, Resting, Over, Odd, Publisher, files, runs, history
<1>22. ASSUME NEW p \in Publisher, Upload(p) PROVE Waits'
  <2>1. Over(p) /\ UNCHANGED <<listed, row, submitter, muddled, raced>> /\ (p = "executor" => executor.at = "publishing")
    BY <1>22 DEF Upload, history, files, runs
  <2>. QED  BY <2>1, OverIs
<1>23. ASSUME NEW p \in Publisher, PublishFails(p) PROVE Waits'
  <2>1. Over(p) /\ UNCHANGED <<listed, row, submitter, muddled, raced>> /\ (p = "executor" => executor.at = "publishing")
    BY <1>23 DEF PublishFails, history, files, runs
  <2>. QED  BY <2>1, OverIs
<1>24. CASE RemoveAsk
  BY <1>24 DEF RemoveAsk, Ended, Idle, Resting, Over, Odd, Publisher, files, runs, history
<1>25. CASE RemoveStored
  BY <1>25 DEF RemoveStored, Ended, Idle, Resting, Over, Odd, Publisher, files, runs, history
<1>26. CASE RemoveFolder
  <2>1. /\ UNCHANGED <<submitter, executor, row>> /\ (~raced' => ~raced /\ executor.at = "idle")
        /\ ~muddled' => ~muddled /\ (\A t \in Submitter : ~AtList(t)) /\ \A r \in Run : row[r] \notin Pending
    BY <1>26 DEF RemoveFolder, NoneAtList, AtList, SubmitterAt, runs
  <2>. QED  BY <2>1 DEF AtList
<1>27. CASE Pull
  <2>1. /\ UNCHANGED <<submitter, executor, row>> /\ (~raced' => ~raced)
        /\ ~muddled' => /\ ~muddled /\ (\A t \in Submitter : ~AtList(t)) /\ \A r \in Run : row[r] \notin Pending
                        /\ \A r \in Run : r \in ToSet(listed) => r \in ToSet(listed')
    BY <1>27 DEF Pull, NoneAtList, AtList, SubmitterAt, runs
  <2>. QED  BY <2>1 DEF AtList
<1>28. CASE UNCHANGED vars
  BY <1>28 DEF vars, files, runs, history
<1>. HIDE DEF Typed, Holding, Worker, Submits, Pending, Active, Waits
<1>. QED
  BY <1>1, <1>2, <1>3, <1>4, <1>5, <1>6, <1>7, <1>8, <1>9, <1>10, <1>11, <1>12, <1>13, <1>14, <1>15,
     <1>16, <1>17, <1>18, <1>19, <1>20, <1>21, <1>22, <1>23, <1>24, <1>25, <1>26, <1>27, <1>28 DEF
     Next, Submitting, Executing, Publishing

\* Unless it is known otherwise no run is listed twice.
LEMMA OnceStep ==
  ASSUME Typed, Holding, Apart, Waits, Once, [Next]_vars
  PROVE  Once'
<1>. USE EmptyList DEF Typed, Holding, Worker, Stored, Once
<1>1. ASSUME NEW s \in Submitter, Find(s) PROVE Once'
  BY <1>1 DEF Find, Snapshot, Nothing, Idle, Resting, Over, Odd, Publisher, files, runs, history
<1>2. ASSUME NEW s \in Submitter, NEW r \in Run, NEW here \in BOOLEAN, Create(s, r, here) PROVE Once'
  BY <1>2 DEF Create, Snapshot, Nothing, Idle, Resting, Over, Odd, Publisher, files, runs, history
<1>3. ASSUME NEW s \in Submitter, AddRead(s) PROVE Once'
  BY <1>3 DEF AddRead, Snapshot, Nothing, Idle, Resting, Over, Odd, Publisher, files, runs, history
<1>4. ASSUME NEW s \in Submitter, AddWrite(s) PROVE Once'
  <2>1. UNCHANGED <<stored, publisher, muddled, raced>> /\ submitter[s].at = "adding"
    BY <1>4 DEF AddWrite, history
  <2>2. CASE folder
    <3>1. submitter[s].list \in Seq(Run) /\ submitter[s].run \in Run
      BY <2>1
    <3>2. ~muddled /\ ~raced => submitter[s].list = listed /\ submitter[s].run \notin ToSet(listed)
      BY <2>1 DEF Apart, Waits, Submits
    <3>. HIDE DEF Typed, Holding, Worker
    <3>. QED  BY <1>4, <2>1, <2>2, <3>1, <3>2, AddWriteIs, AddedIs
  <2>3. CASE ~folder
    BY <1>4, <2>1, <2>3 DEF AddWrite
  <2>. QED  BY <2>2, <2>3
<1>5. ASSUME NEW s \in Submitter, Return(s) PROVE Once'
  BY <1>5 DEF Return, Snapshot, Nothing, Idle, Resting, Over, Odd, Publisher, files, runs, history
<1>6. ASSUME NEW s \in Submitter, Dies(s) PROVE Once'
  BY <1>6 DEF Dies, Snapshot, Nothing, Idle, Resting, Over, Odd, Publisher, files, runs, history
<1>7. ASSUME NEW s \in Submitter, Drop(s) PROVE Once'
  BY <1>7 DEF Drop, Snapshot, Nothing, Idle, Resting, Over, Odd, Publisher, files, runs, history
<1>8. ASSUME NEW r \in Run, Start(r) PROVE Once'
  BY <1>8 DEF Start, Snapshot, Nothing, Idle, Resting, Over, Odd, Publisher, files, runs, history
<1>9. ASSUME NEW r \in Run, Exit(r) PROVE Once'
  BY <1>9 DEF Exit, Snapshot, Nothing, Idle, Resting, Over, Odd, Publisher, files, runs, history
<1>10. ASSUME NEW r \in Run, Reconcile(r) PROVE Once'
  BY <1>10 DEF Reconcile, Snapshot, Nothing, Idle, Resting, Over, Odd, Publisher, files, runs,
     history
<1>11. CASE Launch
  BY <1>11 DEF Launch, Snapshot, Nothing, Idle, Resting, Over, Odd, Publisher, files, runs, history
<1>12. CASE End
  BY <1>12 DEF End, Snapshot, Nothing, Idle, Resting, Over, Odd, Publisher, files, runs, history
<1>13. CASE Look
  BY <1>13 DEF Look, Snapshot, Nothing, Idle, Resting, Over, Odd, Publisher, files, runs, history
<1>14. CASE ListRead
  BY <1>14 DEF ListRead, Snapshot, Nothing, Idle, Resting, Over, Odd, Publisher, files, runs,
     history
<1>15. CASE ListWrite
  <2>1. executor.at = "adding" /\ UNCHANGED <<muddled, raced>>
    BY <1>15 DEF ListWrite, history
  <2>. QED  BY <2>1 DEF Apart
<1>16. CASE Copy
  BY <1>16 DEF Copy, Snapshot, Nothing, Idle, Resting, Over, Odd, Publisher, files, runs, history
<1>17. CASE Finalized
  BY <1>17 DEF Finalized, Snapshot, Nothing, Idle, Resting, Over, Odd, Publisher, files, runs,
     history
<1>18. CASE Crash
  BY <1>18 DEF Crash, Snapshot, Nothing, Idle, Resting, Over, Odd, Publisher, files, runs, history
<1>19. CASE Cancel
  BY <1>19 DEF Cancel, Snapshot, Nothing, Idle, Resting, Over, Odd, Publisher, files, runs, history
<1>20. ASSUME NEW p \in Publisher, Stage(p) PROVE Once'
  BY <1>20 DEF Stage, Snapshot, Nothing, Idle, Resting, Over, Odd, Publisher, files, runs, history
<1>21. ASSUME NEW p \in Publisher, Delete(p) PROVE Once'
  BY <1>21 DEF Delete, Snapshot, Nothing, Idle, Resting, Over, Odd, Publisher, files, runs, history
<1>22. ASSUME NEW p \in Publisher, Upload(p) PROVE Once'
  <2>1. Over(p) /\ UNCHANGED <<listed, muddled, raced>> /\ stored' \in {stored, publisher[p].snapshot}
    BY <1>22 DEF Upload, history, files
  <2>2. IsInjective(Resting.snapshot.listed)
    BY EmptyList DEF Resting, Nothing
  <2>. QED  BY <2>1, <2>2, OverIs
<1>23. ASSUME NEW p \in Publisher, PublishFails(p) PROVE Once'
  <2>1. Over(p) /\ UNCHANGED <<listed, muddled, raced>> /\ stored' \in {stored, publisher[p].snapshot}
    BY <1>23 DEF PublishFails, history, files
  <2>2. IsInjective(Resting.snapshot.listed)
    BY EmptyList DEF Resting, Nothing
  <2>. QED  BY <2>1, <2>2, OverIs
<1>24. CASE RemoveAsk
  BY <1>24 DEF RemoveAsk, Snapshot, Nothing, Idle, Resting, Over, Odd, Publisher, files, runs,
     history
<1>25. CASE RemoveStored
  BY <1>25 DEF RemoveStored, Snapshot, Nothing, Idle, Resting, Over, Odd, Publisher, files, runs,
     history
<1>26. CASE RemoveFolder
  BY <1>26 DEF RemoveFolder, Snapshot, Nothing, Idle, Resting, Over, Odd, Publisher, files, runs,
     history
<1>27. CASE Pull
  BY <1>27 DEF Pull, Snapshot, Nothing, Idle, Resting, Over, Odd, Publisher, files, runs, history
<1>28. CASE UNCHANGED vars
  BY <1>28 DEF vars, files, runs, history
<1>. HIDE DEF Typed, Holding, Worker, Stored, Once
<1>. QED
  BY <1>1, <1>2, <1>3, <1>4, <1>5, <1>6, <1>7, <1>8, <1>9, <1>10, <1>11, <1>12, <1>13, <1>14, <1>15,
     <1>16, <1>17, <1>18, <1>19, <1>20, <1>21, <1>22, <1>23, <1>24, <1>25, <1>26, <1>27, <1>28 DEF
     Next, Submitting, Executing, Publishing

\* What touches neither the folder's copies nor the store nor a publishing leaves the store as good.
LEMMA StoresSame ==
  ASSUME Stores, UNCHANGED <<folder, copy, stored, publisher, raced, cut>>,
         \A r \in Run : Own(r)' <=> Own(r)
  PROVE  Stores'
BY DEF Stores, Has, Publishes

\* Unless a publishing is disturbed the store keeps up with the folder.
LEMMA StoresStep ==
  ASSUME Typed, Holding, Final, Absent, Finished, Stores, [Next]_vars
  PROVE  Stores'
<1>. USE DEF Typed, Holding, Worker, Stored, Publisher, Publishes, Stores
<1>1. ASSUME NEW s \in Submitter, Find(s) PROVE Stores'
  BY <1>1 DEF Find, Own, Idle, Resting, Over, Odd, Publisher, files, runs, history
<1>2. ASSUME NEW s \in Submitter, NEW r \in Run, NEW here \in BOOLEAN, Create(s, r, here) PROVE Stores'
  BY <1>2 DEF Create, Own, Idle, Resting, Over, Odd, Publisher, files, runs, history
<1>3. ASSUME NEW s \in Submitter, AddRead(s) PROVE Stores'
  BY <1>3 DEF AddRead, Own, Idle, Resting, Over, Odd, Publisher, files, runs, history
<1>4. ASSUME NEW s \in Submitter, AddWrite(s) PROVE Stores'
  <2>1. UNCHANGED <<folder, copy, stored, executor, publisher, raced, cut>>
    BY <1>4 DEF AddWrite, history
  <2>2. \A r \in Run : Own(r)' <=> Own(r)
    BY <2>1 DEF Own
  <2>. QED  BY <2>1, <2>2, StoresSame
<1>5. ASSUME NEW s \in Submitter, Return(s) PROVE Stores'
  BY <1>5 DEF Return, Own, Idle, Resting, Over, Odd, Publisher, files, runs, history
<1>6. ASSUME NEW s \in Submitter, Dies(s) PROVE Stores'
  BY <1>6 DEF Dies, Own, Idle, Resting, Over, Odd, Publisher, files, runs, history
<1>7. ASSUME NEW s \in Submitter, Drop(s) PROVE Stores'
  BY <1>7 DEF Drop, Own, Idle, Resting, Over, Odd, Publisher, files, runs, history
<1>8. ASSUME NEW r \in Run, Start(r) PROVE Stores'
  BY <1>8 DEF Start, Own, Idle, Resting, Over, Odd, Publisher, files, runs, history
<1>9. ASSUME NEW r \in Run, Exit(r) PROVE Stores'
  BY <1>9 DEF Exit, Own, Idle, Resting, Over, Odd, Publisher, files, runs, history
<1>10. ASSUME NEW r \in Run, Reconcile(r) PROVE Stores'
  BY <1>10 DEF Reconcile, Own, Idle, Resting, Over, Odd, Publisher, files, runs, history
<1>11. CASE Launch
  BY <1>11 DEF Launch, Own, Idle, Resting, Over, Odd, Publisher, files, runs, history
<1>12. CASE End
  BY <1>12 DEF End, Own, Idle, Resting, Over, Odd, Publisher, files, runs, history
<1>13. CASE Look
  BY <1>13 DEF Look, Own, Idle, Resting, Over, Odd, Publisher, files, runs, history
<1>14. CASE ListRead
  BY <1>14 DEF ListRead, Own, Idle, Resting, Over, Odd, Publisher, files, runs, history
<1>15. CASE ListWrite
  <2>1. UNCHANGED <<folder, copy, stored, publisher, raced, cut>> /\ executor.at = "adding"
    BY <1>15 DEF ListWrite, history
  <2>2. executor'.at # "publishing"
    <3>1. CASE folder
      BY <1>15, <3>1, ListWriteIs
    <3>2. CASE ~folder
      BY <1>15, <3>2 DEF ListWrite, Idle
    <3>. QED  BY <3>1, <3>2
  <2>3. \A r \in Run : Own(r)' <=> Own(r)
    BY <2>1, <2>2 DEF Own
  <2>. QED  BY <2>1, <2>3, StoresSame
<1>16. CASE Copy
  <2>1. UNCHANGED <<folder, stored, publisher, raced, cut>> /\ executor.at = "copying"
    BY <1>16 DEF Copy, history
  <2>2. \A r \in Run : ~Own(r)
    BY <2>1 DEF Own
  <2>3. CASE folder
    <3>1. /\ executor'.at = "publishing" /\ executor'.run = executor.run
          /\ copy' = [copy EXCEPT ![executor.run] = row[executor.run]]
      BY <1>16, <2>3, CopyIs
    <3>2. ~Publishes("executor") /\ executor.run \in Run /\ row[executor.run] # "none"
      BY <2>1 DEF Final, Ended
    <3>3. \A r \in Run : (r # executor.run => copy'[r] = copy[r]) /\ (copy[r] # "none" => copy'[r] # "none")
      BY <3>1, <3>2
    <3>4. Own(executor.run)'
      BY <3>1 DEF Own
    <3>5. \A q \in Publisher : Publishes(q)' <=> Publishes(q)
      BY <2>1
    <3>. HIDE DEF Typed, Holding, Worker, Stored, Publishes, Own
    <3>. QED  BY <2>1, <2>2, <2>3, <3>2, <3>3, <3>4, <3>5, <3>1
  <2>4. CASE ~folder
    <3>1. executor' = Idle
      BY <1>16, <2>4 DEF Copy
    <3>2. \A r \in Run : ~Own(r)'
      BY <3>1 DEF Own, Idle
    <3>. HIDE DEF Own
    <3>. QED  BY <2>1, <2>2, <2>4, <3>2
  <2>. QED  BY <2>3, <2>4
<1>17. CASE Finalized
  BY <1>17 DEF Finalized, Own, Idle, Resting, Over, Odd, Publisher, files, runs, history
<1>18. CASE Crash
  <2>1. UNCHANGED <<folder, copy, stored, raced>> /\ executor' = Idle /\ (~cut' => ~cut /\ executor.at = "waiting")
    BY <1>18 DEF Crash, files
  <2>2. publisher'["hand"] = publisher["hand"] /\ publisher'["executor"] = Resting
    BY <1>18 DEF Crash
  <2>. SUFFICES ASSUME ~cut, executor.at = "waiting"
                PROVE  Stores'
    BY <2>1
  <2>3. ~Publishes("executor") /\ ~Publishes("executor")'
    BY <2>2 DEF Resting
  <2>4. \A r \in Run : ~Own(r) /\ ~Own(r)'
    BY <2>1 DEF Own, Idle
  <2>5. Publishes("hand")' <=> Publishes("hand")
    BY <2>2
  <2>6. publisher["executor"].at = "idle" /\ publisher'["executor"].at = "idle"
    BY <2>3
  <2>. HIDE DEF Typed, Holding, Worker, Stored, Own, Publishes
  <2>. QED  BY <2>1, <2>2, <2>3, <2>4, <2>5, <2>6
<1>19. CASE Cancel
  BY <1>19 DEF Cancel, Own, Idle, Resting, Over, Odd, Publisher, files, runs, history
<1>20. ASSUME NEW p \in Publisher, Stage(p) PROVE Stores'
  <2>1. /\ UNCHANGED <<files, executor, stored, raced>> /\ publisher[p].at = "idle" /\ folder
        /\ publisher' = [publisher EXCEPT ![p] = [at |-> "staged", snapshot |-> Snapshot]]
        /\ ~cut' => ~cut /\ \A q \in Publisher : ~Publishes(q)
    BY <1>20 DEF Stage
  <2>. SUFFICES ASSUME ~cut, ~raced, \A q \in Publisher : ~Publishes(q)
                PROVE  Stores'
    BY <2>1
  <2>2. \A r \in Run : copy[r] # "none" => Has(Snapshot, r)
    BY <2>1 DEF Finished, Gathered, Has, Snapshot
  <2>3. /\ publisher'[p].at = "staged" /\ publisher'[p].snapshot = Snapshot
        /\ \A q \in Publisher : q # p => publisher'[q] = publisher[q]
    BY <2>1
  <2>4. Publishes(p)' /\ \A q \in Publisher : q # p => ~Publishes(q)' /\ publisher'[q].at = "idle"
    BY <2>3
  <2>5. Snapshot.copy = copy
    BY DEF Snapshot
  <2>6. \A r \in Run : Own(r)' <=> Own(r)
    BY <2>1 DEF Own
  <2>7. UNCHANGED <<folder, copy>>
    BY <2>1 DEF files
  <2>. HIDE DEF Typed, Holding, Worker, Stored, Own, Publishes, Snapshot
  <2>8. \A r \in Run : stored.copy[r] # "none" => copy[r] # "none"
    BY <2>1
  <2>9. \A r \in Run : copy[r] # "none" => stored.copy[r] # "none" \/ Own(r)
    BY <2>1 DEF Has
  <2>. QED  BY <2>1, <2>2, <2>3, <2>4, <2>5, <2>6, <2>7, <2>8, <2>9
<1>21. ASSUME NEW p \in Publisher, Delete(p) PROVE Stores'
  <2>1. /\ UNCHANGED <<folder, copy, executor, raced, cut>> /\ publisher[p].at = "staged" /\ stored' = Nothing
        /\ publisher' = [publisher EXCEPT ![p].at = "deleted"]
    BY <1>21 DEF Delete, files, history
  <2>. SUFFICES ASSUME ~cut, ~raced
                PROVE  Stores'
    BY <2>1
  <2>2. Publishes(p) /\ \A q \in Publisher : q # p => ~Publishes(q)
    BY <2>1
  <2>3. /\ publisher'[p].at = "deleted" /\ publisher'[p].snapshot = publisher[p].snapshot
        /\ \A q \in Publisher : q # p => publisher'[q] = publisher[q]
    BY <2>1
  <2>4. Publishes(p)' /\ \A q \in Publisher : q # p => ~Publishes(q)' /\ publisher'[q].at = "idle"
    BY <2>2, <2>3
  <2>5. \A r \in Run : stored'.copy[r] = "none"
    BY <2>1 DEF Nothing
  <2>6. \A r \in Run : Own(r)' <=> Own(r)
    BY <2>1 DEF Own
  <2>. HIDE DEF Typed, Holding, Worker, Stored, Own, Publishes, Nothing
  <2>. QED  BY <2>1, <2>2, <2>3, <2>4, <2>5, <2>6
<1>22. ASSUME NEW p \in Publisher, Upload(p) PROVE Stores'
  <2>1. UNCHANGED <<folder, copy, raced, cut>> /\ publisher[p].at = "deleted" /\ stored' = publisher[p].snapshot /\ Over(p)
    BY <1>22 DEF Upload, files, history
  <2>. SUFFICES ASSUME ~cut, ~raced
                PROVE  Stores'
    BY <2>1
  <2>2. Publishes(p) /\ \A q \in Publisher : q # p => ~Publishes(q)
    BY <2>1
  <2>3. \A q \in Publisher : publisher'[q].at = "idle"
    BY <2>1, <2>2, OverIs DEF Resting
  <2>4. \A q \in Publisher : ~Publishes(q)'
    BY <2>3
  <2>5. p # "executor" => \A r \in Run : Own(r)' <=> Own(r)
    BY <2>1, OverIs DEF Own
  <2>. HIDE DEF Typed, Holding, Worker, Stored, Own, Publishes, Publisher
  <2>6. folder => \A r \in Run : copy[r] # "none" => (Own(r) /\ p # "executor") \/ Has(publisher[p].snapshot, r)
    BY <2>1, <2>2
  <2>7. folder => \A r \in Run : publisher[p].snapshot.copy[r] # "none" => copy[r] # "none"
    BY <2>1, <2>2
  <2>8. ~Publishes("executor")' /\ ~Publishes("hand")'
    BY <2>4 DEF Publisher
  <2>9. \A r \in Run : Has(publisher[p].snapshot, r) => Has(stored', r)
    BY <2>1
  <2>. QED  BY <2>1, <2>3, <2>4, <2>5, <2>6, <2>7, <2>8, <2>9
<1>23. ASSUME NEW p \in Publisher, PublishFails(p) PROVE Stores'
  <2>1. cut'
    BY <1>23 DEF PublishFails
  <2>. QED  BY <2>1
<1>24. CASE RemoveAsk
  BY <1>24 DEF RemoveAsk, Own, Idle, Resting, Over, Odd, Publisher, files, runs, history
<1>25. CASE RemoveStored
  <2>1. cut'
    BY <1>25 DEF RemoveStored
  <2>. QED  BY <2>1
<1>26. CASE RemoveFolder
  <2>1. /\ UNCHANGED <<stored, publisher, executor>> /\ ~folder'
        /\ ~raced' => ~raced
        /\ ~cut' => ~cut
    BY <1>26 DEF RemoveFolder
  <2>2. \A r \in Run : Own(r)' <=> Own(r)
    BY <2>1 DEF Own
  <2>. HIDE DEF Typed, Holding, Worker, Stored, Own
  <2>. QED  BY <2>1, <2>2
<1>27. CASE Pull
  <2>1. /\ UNCHANGED <<stored, publisher, executor>> /\ stored.there
        /\ copy' = [r \in Run |-> IF stored.copy[r] # "none" THEN stored.copy[r] ELSE copy[r]]
        /\ ~raced' => ~raced
        /\ ~cut' => ~cut /\ executor.at = "idle"
    BY <1>27 DEF Pull
  <2>. SUFFICES ASSUME ~cut, ~raced, executor.at = "idle"
                PROVE  Stores'
    BY <2>1
  <2>2. \A r \in Run : ~Own(r) /\ ~Own(r)'
    BY <2>1 DEF Own
  <2>3. \A p \in Publisher : publisher[p].at # "deleted"
    BY <2>1 DEF Nothing
  <2>4. \A p \in Publisher : Publishes(p)' <=> Publishes(p)
    BY <2>1
  <2>5. \A p \in Publisher : Publishes(p) => publisher[p].at = "staged"
    BY <2>3
  <2>6. \A r \in Run : copy[r] # "none" => folder
    BY DEF Absent, Nothing
  <2>7. \A r \in Run : /\ stored.copy[r] # "none" => Has(stored, r) /\ \A p \in Publisher : Publishes(p) => Has(publisher[p].snapshot, r)
    BY <2>5 DEF Finished, Gathered, Has
  <2>8. \A r \in Run : copy'[r] # "none" <=> stored.copy[r] # "none" \/ copy[r] # "none"
    BY <2>1
  <2>9. ~(Publishes("executor") /\ Publishes("hand"))' /\ "executor" \in Publisher /\ "hand" \in Publisher
    BY <2>4
  <2>. HIDE DEF Typed, Holding, Worker, Stored, Own, Publishes, Publisher
  <2>10. \A r \in Run : copy'[r] # "none" =>
           \/ (\E p \in Publisher : Publishes(p)) /\ \A p \in Publisher : Publishes(p) => Has(publisher[p].snapshot, r)
           \/ (\A p \in Publisher : ~Publishes(p)) /\ Has(stored, r)
    BY <2>2, <2>6, <2>7, <2>8
  <2>11. \A p \in Publisher, r \in Run : Publishes(p) /\ publisher[p].snapshot.copy[r] # "none" => stored.copy[r] # "none"
    BY <2>2, <2>5
  <2>. QED  BY <2>1, <2>2, <2>3, <2>4, <2>8, <2>9, <2>10, <2>11 DEF Has
<1>28. CASE UNCHANGED vars
  <2>1. UNCHANGED <<folder, copy, stored, executor, publisher, raced, cut>>
    BY <1>28 DEF vars, files, runs, history
  <2>2. \A r \in Run : Own(r)' <=> Own(r)
    BY <2>1 DEF Own
  <2>. QED  BY <2>1, <2>2, StoresSame
<1>. HIDE DEF Typed, Holding, Worker, Stored, Publisher, Publishes, Stores
<1>. QED
  BY <1>1, <1>2, <1>3, <1>4, <1>5, <1>6, <1>7, <1>8, <1>9, <1>10, <1>11, <1>12, <1>13, <1>14, <1>15,
     <1>16, <1>17, <1>18, <1>19, <1>20, <1>21, <1>22, <1>23, <1>24, <1>25, <1>26, <1>27, <1>28 DEF
     Next, Submitting, Executing, Publishing

-----------------------------------------------------------------------------
(* The theorems.                                                           *)

Inv ==
  /\ Typed /\ Holding /\ Created /\ Final /\ Absent
  /\ Sole /\ Finished
  /\ Apart /\ Waits /\ Once
  /\ Stores

\* It holds when the experiment has just been composed and approved.
LEMMA InvInit == Init => Inv
<1>. SUFFICES ASSUME Init PROVE Inv
  OBVIOUS
<1>. USE DEF Init
<1>1. Typed
  <2>1. \A p \in Publisher : Resting \in [at : {"idle", "staged", "deleted"}, snapshot : Stored]
    BY EmptyList DEF Resting, Nothing, Stored
  <2>2. Nothing \in Stored
    BY EmptyList DEF Nothing, Stored
  <2>3. odd \in 0..MaxOdd
    BY AttemptsAssumption DEF AttemptsAssumption
  <2>4. submitter \in [Submitter -> Worker(SubmitterAt)] /\ executor \in Worker(ExecutorAt)
    BY IdleIs
  <2>5. publisher \in [Publisher -> [at : {"idle", "staged", "deleted"}, snapshot : Stored]]
    BY <2>1
  <2>6. row \in [Run -> State] /\ process \in [Run -> {"none", "alive", "gone"}] /\ copy \in [Run -> {"none", Ended}]
    BY DEF State
  <2>. QED  BY <2>2, <2>3, <2>4, <2>5, <2>6, EmptyList DEF Typed
<1>2. Holding
  BY DEF Holding, Idle, Resting, Publisher
<1>3. Created
  BY EmptyList DEF Created, Made, Idle, Resting, Nothing
<1>4. Final
  BY DEF Final, Idle, Resting, Nothing
<1>5. Absent
  BY DEF Absent
<1>6. Sole /\ Finished
  BY DEF Sole, Finished, Gathered, Idle, Resting, Nothing
<1>7. Apart
  BY DEF Apart, AtList, Idle
<1>8. Waits
  BY EmptyList DEF Waits, Submits, Idle, Pending, Active
<1>9. Once
  BY EmptyList DEF Once, Resting, Nothing
<1>10. Stores
  BY DEF Stores, Publishes, Resting, Nothing, Publisher
<1>. QED  BY <1>1, <1>2, <1>3, <1>4, <1>5, <1>6, <1>7, <1>8, <1>9, <1>10 DEF Inv

\* Every step keeps it.
LEMMA InvNext == Inv /\ [Next]_vars => Inv'
<1>. SUFFICES ASSUME Inv, [Next]_vars PROVE Inv'
  OBVIOUS
<1>. USE DEF Inv
<1>1. Typed'
  BY TypedStep
<1>2. Holding'
  BY HoldingStep
<1>3. Created'
  BY CreatedStep, RowsStay
<1>4. Final'
  BY FinalStep
<1>5. Absent'
  BY AbsentStep
<1>6. Sole'
  BY SoleStep
<1>7. Finished'
  BY FinishedStep
<1>8. Apart'
  BY ApartStep
<1>9. Waits'
  BY WaitsStep
<1>10. Once'
  BY OnceStep
<1>11. Stores'
  BY StoresStep
<1>. QED  BY <1>1, <1>2, <1>3, <1>4, <1>5, <1>6, <1>7, <1>8, <1>9, <1>10, <1>11 DEF Inv

LEMMA InvAlways == Spec => []Inv
BY InvInit, InvNext, PTL DEF Spec

\* Two runs that are pending are both the one that is being added to the list, or both the last in it.
LEMMA WaitsForOne ==
  ASSUME Inv
  PROVE  OnePending
<1>. SUFFICES ASSUME ~muddled, ~raced, NEW r \in Run, NEW q \in Run, row[r] \in Pending, row[q] \in Pending
              PROVE  r = q
  BY DEF OnePending
<1>1. CASE \E s \in Submitter : Submits(s)
  BY <1>1 DEF Inv, Waits
<1>2. CASE \A s \in Submitter : ~Submits(s)
  BY <1>2 DEF Inv, Waits
<1>. QED  BY <1>1, <1>2

\* A listed run that is pending is the last of the list, without a copy of an end.
LEMMA ToldRight ==
  ASSUME Inv
  PROVE  StatusTruthful
<1>. SUFFICES ASSUME folder, ~muddled, ~raced, NEW r \in ToSet(listed), row[r] \in Pending
              PROVE  Status = row[r] \/ (Status = "interrupted" /\ process[r] = "gone")
  BY DEF StatusTruthful
<1>1. r \in Run
  BY ListedIs DEF Inv, Typed
<1>2. \A s \in Submitter : ~Submits(s)
  BY <1>1 DEF Inv, Waits
<1>3. listed # <<>> /\ r = Last(listed)
  BY <1>1, <1>2 DEF Inv, Waits
<1>4. copy[r] = "none"
  BY <1>1 DEF Inv, Final, ForGood, Ended, Pending, Active
<1>. QED  BY <1>3, <1>4 DEF Status, StateOf

\* lab/cli.py:301 holds for any numbers of terminals and runs: while nobody submits who cannot
\* know of a pending run and no update of the list is lost, at most one attempt is queued or running.
THEOREM OneAttempt == Spec => []OnePending
BY WaitsForOne, InvAlways, PTL

\* The list of attempts is what report.py takes it for: every run in it was created and is in
\* it once, none that was finished and gathered is missing, and the status told from its last
\* is that of the run that is pending.
THEOREM ListTold == Spec => []ListTruthful
<1>1. Inv => TypeOK
  <2>. SUFFICES ASSUME Inv PROVE TypeOK
    OBVIOUS
  <2>1. \A r \in ToSet(listed) \cup ToSet(stored.listed) : row[r] # "none"
    BY DEF Inv, Created, Made
  <2>. QED  BY <2>1 DEF Inv, Typed, Stored, TypeOK
<1>2. Inv => FinishedListed
  BY DEF Inv, Finished, Gathered, FinishedListed
<1>3. Inv => ListedOnce
  BY DEF Inv, Once, ListedOnce
<1>4. Inv => ListTruthful
  BY <1>1, <1>2, <1>3, ToldRight DEF ListTruthful
<1>. QED  BY <1>4, InvAlways, PTL

\* finalize.py:6-16: between finalizations the store has the record of every attempt that the
\* folder has, and lists it, as long as every publishing ran to its end alone.
THEOREM StoreComplete == Spec => []StoreKeepsUp
<1>1. Inv => StoreKeepsUp
  <2>. SUFFICES ASSUME Inv, folder, ~cut, ~raced, executor.at = "idle",
                       \A p \in Publisher : publisher[p].at = "idle",
                       NEW r \in Run, copy[r] # "none"
                PROVE  stored.copy[r] = copy[r] /\ r \in ToSet(stored.listed)
    BY DEF StoreKeepsUp
  <2>1. Has(stored, r)
    BY DEF Inv, Stores, Own, Publishes
  <2>2. stored.copy[r] \in {"none", Ended} /\ copy[r] \in {"none", Ended}
    BY DEF Inv, Typed, Stored
  <2>. QED  BY <2>1, <2>2 DEF Has
<1>. QED  BY <1>1, InvAlways, PTL
==============================================================================
