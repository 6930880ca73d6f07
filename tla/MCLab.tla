-------------------------------- MODULE MCLab --------------------------------
(***************************************************************************)
(* Instances for TLC of six parts of the lab that share no state:          *)
(* Checkpoint, Telemetry, Shards, Compose, Compare and Scores. A behaviour *)
(* is one of one of them; the variables of the others stay empty.          *)
(***************************************************************************)
EXTENDS Integers, FiniteSets, Sequences, TLC

CONSTANTS
  Parts,                                                     \* those that are checked
  MaxStep, Limit, MaxRuns, Unluck,                           \* Checkpoint
  Function, Members, MaxRounds, MaxPoints, MaxLines,         \* Telemetry
  Samples, Sizes, ShardSize,                                 \* Shards
  Blocks, Base, Dotted, Texts, Uses, Typings, Axes, Names,   \* Compose
  Experiment, Plans, Eval, OnHeldOut, Totals, MaxAttempts, MaxWork,  \* Compare
  Vocabularies, Answer, MaxMarks                             \* Scores

ASSUME LabAssumption ==
  /\ Parts \subseteq {"checkpoint", "telemetry", "shards", "compose", "compare", "scores"}
  /\ {MaxStep, Limit, Members, MaxLines, Samples} \cup Sizes \subseteq Nat \ {0}
  /\ {MaxRuns, MaxRounds, MaxPoints, ShardSize, MaxAttempts, MaxWork, MaxMarks} \subseteq Nat

VARIABLES
  part,   \* the one of Parts that is looked at
  dir, run, trainer, outputs, user, best, spoilt, odd,
  training, round, files, writer, points, metrics, follower, clearer, live, failed, cleared,
  corpus, packer, current, shards, tars, reader,
  presets, saved, request, sweep,
  plans, attempts, traces,
  vocabulary, completion

checkpointVars == <<dir, run, trainer, outputs, user, best, spoilt, odd>>
telemetryVars == <<training, round, files, writer, points, metrics, follower, clearer, live, failed, cleared>>
shardsVars == <<corpus, packer, current, shards, tars, reader>>
composeVars == <<presets, saved, request, sweep>>
compareVars == <<plans, attempts, traces>>
scoresVars == <<vocabulary, completion>>

K == INSTANCE Checkpoint
T == INSTANCE Telemetry WITH trainer <- training
S == INSTANCE Shards
P == INSTANCE Compose
C == INSTANCE Compare
E == INSTANCE Scores

-----------------------------------------------------------------------------
(* A library of two reward blocks and a backbone, like the one of          *)
(* lab/library; what is typed; and what experiments are planned as.        *)

Value(type, of) == [type |-> type, of |-> of]

Library ==
  [grpo |-> [slot |-> "backbone", for |-> "any", slots |-> [rewards |-> "required", dataset |-> "optional"],
             params |-> [scale |-> [kind |-> "str", default |-> Value("str", "group"), choices |-> {"group", "none"}],
                         steps |-> [kind |-> "int", default |-> [type |-> "null", of |-> "none"], choices |-> {}]]],
   exact |-> [slot |-> "rewards", for |-> "grpo", params |-> [weight |-> [kind |-> "float", default |-> Value("float", "1"), choices |-> {}]]],
   tags |-> [slot |-> "rewards", for |-> "any", params |-> [strict |-> [kind |-> "bool", default |-> Value("bool", "true"), choices |-> {}]]],
   pairs |-> [slot |-> "dataset", for |-> "dpo", params |-> <<>>]]

Preset ==
  [name |-> "llm-grpo",
   preset |-> [backbone |-> "grpo", blocks |-> [model |-> <<>>, dataset |-> <<>>, rewards |-> <<"exact">>],
               params |-> <<<<"backbone">>, "steps">> :> Value("int", "2") @@ <<<<"rewards", "exact">>, "weight">> :> Value("float", "0.5")]]

Settings == {<<"train", "scale">>, <<"train", "steps">>, <<"rewards", "exact", "weight">>, <<"rewards", "tags", "strict">>,
             <<"rewards", "weight">>, <<"train", "scael">>}
ScaleOnly == {<<"train", "scale">>}
BlockChoices == {<<>>, [rewards |-> <<"exact", "tags">>], [rewards |-> <<"tags">>], [dataset |-> <<"pairs">>], [rewards |-> <<>>]}
Words == {"group", "2", "false"}
Nones == {"none", "2"}
Typed3 == UNION {[1..n -> {"1", ",", "["}] : n \in 1..2} \cup {<<"[", "1", ",", "2", "]", ",", "2">>, <<"'", ",", "'", ",", "1">>, <<"1", ",", "2">>}
TwoSteps == {<<>>, <<[key |-> <<"train", "steps">>, values |-> <<<<"1">>, <<"2">>>>, typed |-> <<"1", ",", "2">>]>>}

Planned(evals, settings, kwargs, dataset, template) ==
  [evals |-> evals, settings |-> settings, template_kwargs |-> kwargs, dataset |-> dataset, template |-> template]
SomePlans ==
  {Planned({"heldout", "bench"}, "greedy", "unset", "d1", "chat"), Planned({"heldout", "bench"}, "greedy", "unset", "d2", "chat"),
   Planned({"heldout", "bench"}, "greedy", "set", "d1", "chat"), Planned({"bench"}, "greedy", "unset", "none", "chat"),
   Planned({"bench"}, "sampled", "unset", "none", "chat"), Planned({"heldout"}, "greedy", "unset", "d1", "tags")}
Scores == {<<>>, <<-1>>, <<1>>}
Written == {{"reason", "think", "open", "close", "7", "8", "nl"}, {"box", "{", "}", "7"}}
Seven == <<"7">>
Swap == Permutations(Experiment)

-----------------------------------------------------------------------------

Init ==
  /\ part \in Parts
  /\ IF part = "checkpoint" THEN K!Init ELSE dir = <<>> /\ run = <<>> /\ trainer = <<>> /\ outputs = <<>> /\ user = <<>> /\ best = <<>> /\ spoilt = <<>> /\ odd = <<>>
  /\ IF part = "telemetry" THEN T!Init ELSE training = <<>> /\ round = <<>> /\ files = <<>> /\ writer = <<>> /\ points = <<>> /\ metrics = <<>> /\ follower = <<>> /\ clearer = <<>> /\ live = <<>> /\ failed = <<>> /\ cleared = <<>>
  /\ IF part = "shards" THEN S!Init ELSE corpus = <<>> /\ packer = <<>> /\ current = <<>> /\ shards = <<>> /\ tars = <<>> /\ reader = <<>>
  /\ IF part = "compose" THEN P!Init ELSE presets = <<>> /\ saved = <<>> /\ request = <<>> /\ sweep = <<>>
  /\ IF part = "compare" THEN C!Init ELSE plans = <<>> /\ attempts = <<>> /\ traces = <<>>
  /\ IF part = "scores" THEN E!Init ELSE vocabulary = <<>> /\ completion = <<>>

Next ==
  \/ part = "checkpoint" /\ K!Next /\ UNCHANGED <<part, telemetryVars, shardsVars, composeVars, compareVars, scoresVars>>
  \/ part = "telemetry" /\ T!Next /\ UNCHANGED <<part, checkpointVars, shardsVars, composeVars, compareVars, scoresVars>>
  \/ part = "shards" /\ S!Next /\ UNCHANGED <<part, checkpointVars, telemetryVars, composeVars, compareVars, scoresVars>>
  \/ part = "compose" /\ P!Next /\ UNCHANGED <<part, checkpointVars, telemetryVars, shardsVars, compareVars, scoresVars>>
  \/ part = "compare" /\ C!Next /\ UNCHANGED <<part, checkpointVars, telemetryVars, shardsVars, composeVars, scoresVars>>
  \/ part = "scores" /\ E!Next /\ UNCHANGED <<part, checkpointVars, telemetryVars, shardsVars, composeVars, compareVars>>

Spec == Init /\ [][Next]_<<part, checkpointVars, telemetryVars, shardsVars, composeVars, compareVars, scoresVars>>

-----------------------------------------------------------------------------
(* The properties of the parts; their modules say what each is about.      *)

\* checkpoints.py:14, 27, 413: through deaths of the script, reboots, failed uploads, sweeps,
\* rotations and prunings the last step that was saved stays resumable until a success, --fresh
\* or --rm removes it; checkpoints of a success go only when its outputs are in the store; and
\* what a run is told to continue from is the last step saved, and can be loaded.
CheckpointsKept ==
  part = "checkpoint" => K!TypeOK /\ K!ProgressKept /\ K!DiscardedWhenPublished /\ K!ResumesLast

\* The record of a run that ends in failure names the last checkpoint (executor.py:571), and so
\* does that of a run nobody watched fail (runs.py:445).
RecordNamesLast == [][part = "checkpoint" => K!NamesLast]_checkpointVars

\* trace.py:8, 184-186, metrics.py:132: a round the metrics tell of has its completions in the
\* traces, whatever fails or is killed then, one line each, in order; who follows a run is given
\* its points as they are appended, in order, all of them and none twice.
RoundsFollowed ==
  part = "telemetry" => T!TypeOK /\ T!RoundsTraced /\ T!TracedOnce /\ T!FollowedOnce

\* shards.py:58-60, 121, 146: a shard is never over its size, but by what a file has grown while
\* it was packed; what verifies is the whole corpus, in order, and unpacking restores it,
\* whatever has happened to the shards.
PackedWhole == part = "shards" => S!TypeOK /\ S!NeverOver /\ S!VerifiedIsWhole

\* params.py:163, lab/cli.py:103, sweep.py:5: nothing that is set is ignored, it is refused or
\* planned; a saved preset plans to what the same changes plan to; and a sweep has an experiment
\* for every combination of the values that were typed, and for none twice.
PlansAsTyped == part = "compose" => P!NothingIgnored /\ P!SavedAlike /\ P!GridWhole

\* lab/cli.py:102: what is changed with --set can as well be saved with a preset.
SavedAlike == part = "compose" => P!SavedAlike

\* report.py:341, 415, 472: numbers stand side by side, unmarked, only if they were measured with
\* the same settings on the same data, each the last its experiment measured; what is listed as
\* shared is the same in every experiment; and of the completions of a prompt the best come first.
ComparedFairly == part = "compare" => C!SideBySideFair /\ C!SharedAlike /\ C!BestFirst

\* support.py:263, 305, 338: the rewards and the evals agree on what the model's answer is, where
\* the tags are used once each and in order; a boxed answer is what its own braces hold; and the
\* errors counted are the least with which one text becomes the other.
ScoresRight == part = "scores" => E!PaidIsRight /\ E!ErrorsLeast /\ E!BoxedWhole
=============================================================================
