------------------------------- MODULE Compare --------------------------------
(***************************************************************************)
(* Experiments measured and set side by side: what an eval depends on      *)
(* (lab/experiment.py), how a training run measures (lab/support.py), and  *)
(* what compare and the traces commands make of it while the attempts go   *)
(* on (lab/report.py, lab/cli.py).                                         *)
(***************************************************************************)
EXTENDS Integers, SequencesExt, FiniteSetsExt

CONSTANTS
  Experiment,    \* two experiments
  Plans,         \* what they may be planned as
  Eval,          \* eval blocks
  OnHeldOut,     \* those that score a held-out part of the training data
  Totals,        \* what a completion may score; <<>> if no reward function scores it
  MaxAttempts,   \* bound on the attempts of all of them
  MaxWork        \* bound on the files and the lines written by all of them

VARIABLES
  plans,      \* experiment.json of each
  attempts,   \* its attempts, oldest first: the result file of each eval in each
  traces      \* its traces: the totals of the completions of one prompt

vars == <<plans, attempts, traces>>

-----------------------------------------------------------------------------
(* Measuring.                                                              *)

\* Faulty: the data of the training is not part of it.
FingerprintOfBlock(plan, eval) ==
  [eval |-> eval, settings |-> plan.settings, template_kwargs |-> plan.template_kwargs, data |-> "none"]

\* eval_fingerprints: what an eval depends on, hashed.
Fingerprint(plan, eval) ==
  [eval |-> eval, settings |-> plan.settings, template_kwargs |-> plan.template_kwargs,
   data |-> IF eval \in OnHeldOut THEN plan.dataset ELSE "none"]

NoFile == [state |-> "none", metric |-> 0]

Results(e) == {file \in (DOMAIN attempts[e]) \X plans[e].evals : attempts[e][file[1]][file[2]] # NoFile}
Written(e) == Len(traces[e]) + Cardinality(Results(e))
Room == MapThenSumSet(Written, Experiment) < MaxWork

\* The next attempt.
Begin(e) ==
  /\ MapThenSumSet(LAMBDA x : Len(attempts[x]), Experiment) < MaxAttempts
  /\ attempts' = [attempts EXCEPT ![e] = Append(@, [eval \in plans[e].evals |-> NoFile])]
  /\ UNCHANGED <<plans, traces>>

\* evaluate_all: an eval of the attempt that runs is measured, or fails; a killed trainer may leave
\* half a file. The metric is the number of the attempt.
Evaluate(e, eval) ==
  /\ attempts[e] # <<>> /\ Room
  /\ LET n == Len(attempts[e])
     IN /\ attempts[e][n][eval] = NoFile
        /\ \E state \in {"measured", "error", "broken"} :
             attempts' = [attempts EXCEPT ![e][n][eval] = [state |-> state, metric |-> n]]
  /\ UNCHANGED <<plans, traces>>

\* A completion is traced.
Trace(e) ==
  /\ attempts[e] # <<>> /\ Room
  /\ \E total \in Totals : traces' = [traces EXCEPT ![e] = Append(@, total)]
  /\ UNCHANGED <<plans, attempts>>

-----------------------------------------------------------------------------
(* The report of an experiment.                                            *)

NoResult == [fingerprint |-> <<>>, metric |-> <<>>]

\* Faulty: the first result counts.
First(files) == CHOOSE n \in files : \A m \in files : n <= m
\* The attempt whose file counts: the last of those that can be read.
Newest(files) == CHOOSE n \in files : \A m \in files : m <= n

\* eval_results: of each eval the newest result, with its fingerprint.
eval_results(e, eval) ==
  LET files == {n \in DOMAIN attempts[e] : attempts[e][n][eval].state \in {"measured", "error"}}
  IN IF eval \notin plans[e].evals THEN NoResult
     ELSE [fingerprint |-> <<Fingerprint(plans[e], eval)>>,
           metric |-> IF files = {} THEN <<>>
                      ELSE IF attempts[e][Newest(files)][eval].state = "error" THEN <<>>
                      ELSE <<attempts[e][Newest(files)][eval].metric>>]

-----------------------------------------------------------------------------
(* compare.                                                                *)

Params == {"settings", "template_kwargs", "dataset", "template", "evals"}

\* flat_params: the parameters of an experiment under their names, <<>> for one it does not have.
flat_params(e) == [name \in Params |-> IF name = "dataset" /\ plans[e].dataset = "none" THEN <<>> ELSE <<plans[e][name]>>]

\* Faulty: what one of them does not have does not differ.
DiffersWherePresent(values) == Cardinality(values \ {<<>>}) > 1
\* _differs.
Differs(values) == Cardinality(values) > 1

\* What the experiments have for a parameter, and the fingerprints they have for an eval.
Values(name) == {flat_params(e)[name] : e \in Experiment}
Prints(eval) == {eval_results(e, eval).fingerprint : e \in Experiment} \ {<<>>}

\* The numbers of an eval, side by side: withheld or marked where it was measured differently.
compare(force) ==
  LET listed == {name \in Params : Values(name) # {<<>>}}
      unlike == {eval \in Eval : Differs(Prints(eval))}
  IN [shared |-> {name \in listed : ~Differs(Values(name))},
      warnings |-> unlike,
      results |-> [eval \in IF force THEN Eval ELSE Eval \ unlike |-> [e \in Experiment |-> eval_results(e, eval).metric]]]

-----------------------------------------------------------------------------
(* side_by_side.                                                           *)

\* Faulty: a total that is missing counts as none.
BeforeOrZero(a, b) == LET of(total) == IF total = <<>> THEN 0 ELSE total[1] IN of(a) >= of(b)
\* The key of sorted: those without a total last, the others best first.
Before(a, b) == IF a = <<>> THEN b = <<>> ELSE b = <<>> \/ a[1] >= b[1]

\* The prompt, if every experiment has it: the completions of each, sorted as they come.
side_by_side ==
  IF \E e \in Experiment : traces[e] = <<>> THEN <<>>
  ELSE [e \in Experiment |-> SortSeq(traces[e], LAMBDA a, b : Before(a, b) /\ ~Before(b, a))]

-----------------------------------------------------------------------------

Init ==
  /\ plans \in [Experiment -> Plans]
  /\ attempts = [e \in Experiment |-> <<>>]
  /\ traces = [e \in Experiment |-> <<>>]

Next == \E e \in Experiment : Begin(e) \/ Trace(e) \/ \E eval \in plans[e].evals : Evaluate(e, eval)

Spec == Init /\ [][Next]_vars

-----------------------------------------------------------------------------
(* Properties.                                                             *)

\* What a number was measured with, as far as the lab tells: the template of the prompts is left out.
Measured(e, eval) ==
  <<plans[e].settings, plans[e].template_kwargs, IF eval \in OnHeldOut THEN plans[e].dataset ELSE "any">>

\* report.py:415: numbers stand side by side, unmarked, only if they were measured with the same
\* settings on the same data; and each is the one its experiment measured last.
SideBySideFair ==
  \A force \in BOOLEAN :
    LET shown == compare(force)
    IN \A eval \in DOMAIN shown.results :
         LET row == shown.results[eval]
             with == {e \in Experiment : row[e] # <<>>}
         IN /\ eval \notin shown.warnings => \A a, b \in with : Measured(a, eval) = Measured(b, eval)
            /\ \A e \in with : \A n \in row[e][1] + 1 .. Len(attempts[e]) : attempts[e][n][eval].state \notin {"measured", "error"}

\* report.py:341: what is listed as shared every experiment has, with the same value, and
\* what is the same everywhere is listed as shared.
SharedAlike ==
  LET shared == compare(FALSE).shared
      has(e) == IF plans[e].dataset = "none" THEN Params \ {"dataset"} ELSE Params
  IN shared = {name \in Params : \A a, b \in Experiment : name \in has(a) \cap has(b) /\ plans[a][name] = plans[b][name]}

\* report.py:472: for a prompt that all have seen every completion is shown, the best first, and
\* never one that was not scored before one that was.
BestFirst ==
  side_by_side # <<>> => \A e \in Experiment :
    LET shown == side_by_side[e]
    IN /\ \A total \in Totals : Cardinality({i \in DOMAIN shown : shown[i] = total}) = Cardinality({i \in DOMAIN traces[e] : traces[e][i] = total})
       /\ \A i, j \in DOMAIN shown : i < j /\ shown[j] # <<>> => shown[i] # <<>> /\ shown[i][1] >= shown[j][1]
=============================================================================
