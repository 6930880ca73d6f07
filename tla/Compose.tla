------------------------------- MODULE Compose --------------------------------
(***************************************************************************)
(* From a preset to the values an experiment runs with: presets saved as   *)
(* TOML and forked (lab/presets.py), what is typed after --use, --set and  *)
(* --vary (lab/cli.py, lab/sweep.py), declared parameters (lab/params.py), *)
(* the blocks of the library (lab/blocks.py) and how a plan is composed of *)
(* them (lab/experiment.py).                                               *)
(***************************************************************************)
EXTENDS Naturals, SequencesExt, FiniteSetsExt, Functions, TLC

CONSTANTS
  Blocks,     \* the library: block |-> [slot, for, params], params name |-> [kind, default, choices]
  Base,       \* the preset that comes with it
  Dotted,     \* what may stand left of = in --set: <<slot, name>>, <<slot, block, name>>, ...
  Texts,      \* what may stand right of it
  Uses,       \* what may stand after --use: slot |-> blocks
  Typings,    \* what may stand right of it after --vary: sequences of texts and marks
  Axes,       \* the other axes of a sweep
  Names       \* names for new presets

VARIABLES
  presets,    \* the preset files: name |-> preset
  saved,      \* history: the request each of them was saved for
  request,    \* the last request to plan or to fork, if it was the last
  sweep       \* the last sweep, if it was: its axes, and the values chosen for the experiments so far

vars == <<presets, saved, request, sweep>>

-----------------------------------------------------------------------------
(* Values.                                                                 *)

Value(type, of) == [type |-> type, of |-> of]
Null == Value("null", "none")
Refused == Value("refused", "")

\* A text the way a person means it: lower case or not, and as JSON if it is.
_parse_text(text) ==
  CASE text \in {"true", "True", "on"} -> Value("bool", "true")
    [] text \in {"false", "False", "off"} -> Value("bool", "false")
    [] text \in {"none", "None"} -> Null
    [] text \in {"1", "2"} -> Value("int", text)
    [] text = "0.5" -> Value("float", text)
    [] OTHER -> Value("str", text)

\* Python's str.
Str(value) == CASE value = Value("bool", "true") -> "True" [] value = Value("bool", "false") -> "False" [] OTHER -> value.of

\* P.coerce: to the kind of the parameter, and one of its choices.
coerce(spec, given) ==
  LET value == IF given.type = "str" /\ spec.kind # "str" THEN _parse_text(given.of) ELSE given
      kept == CASE value.type = "null" -> value
                [] spec.kind = "bool" -> IF value.type = "bool" THEN value ELSE IF value.of = "1" THEN Value("bool", "true") ELSE Refused
                [] spec.kind = "int" -> IF value.type = "int" THEN value ELSE Refused
                [] spec.kind = "float" -> IF value.type \in {"int", "float"} THEN Value("float", value.of) ELSE Refused
                [] OTHER -> Value("str", Str(value))
  IN IF kept.type \notin {"null", "refused"} /\ spec.choices # {} /\ kept.of \notin spec.choices THEN Refused ELSE kept

-----------------------------------------------------------------------------
(* Presets.                                                                *)

Slots == {"model", "dataset", "rewards"}
ListSlots == {"rewards"}

\* split_param: the key of a block's parameters, and the parameter; or nothing, refused.
split_param(dotted) ==
  LET slot == IF dotted[1] \in {"train", "trainer"} THEN "backbone" ELSE dotted[1]
  IN IF Len(dotted) < 2 \/ slot \notin Slots \cup {"backbone"} \/ (slot \in ListSlots /\ Len(dotted) < 3) THEN <<>>
     ELSE IF slot \in ListSlots THEN <<<<slot, dotted[2]>>, dotted[3]>>
     ELSE <<<<slot>>, dotted[2]>>

\* apply_uses: a list slot takes what is given, another one block or none.
apply_uses(preset, uses) ==
  [preset EXCEPT !.blocks = [slot \in Slots |->
     IF slot \notin DOMAIN uses THEN @[slot]
     ELSE IF slot \in ListSlots THEN uses[slot]
     ELSE IF uses[slot] \in {<<>>, <<"none">>} THEN <<>> ELSE <<uses[slot][1]>>]]

\* The values of --set under the names of the parameters, each as read.
Typed(sets, read(_)) == [param \in {split_param(d) : d \in DOMAIN sets} |-> read(sets[CHOOSE d \in DOMAIN sets : split_param(d) = param])]
apply_sets(preset, sets) == [preset EXCEPT !.params = Typed(sets, _parse_text) @@ @]

\* Faulty: TOML has no word for false either.
TomlTruthy(preset) == [preset EXCEPT !.params = Restrict(@, {p \in DOMAIN @ : @[p] \notin {Null, Value("bool", "false")}})]

\* to_toml and parse: TOML has no null, so what is None is not written.
Toml(preset) == [preset EXCEPT !.params = Restrict(@, {p \in DOMAIN @ : @[p] # Null})]

-----------------------------------------------------------------------------
(* resolve_plan.                                                           *)

\* The blocks of a preset under the keys of their parameters.
Chosen(preset) ==
  {<<<<"backbone">>, preset.backbone>>}
    \cup UNION {{<<IF slot \in ListSlots THEN <<slot, name>> ELSE <<slot>>, name>> :
                   name \in ToSet(preset.blocks[slot]) \cap DOMAIN Blocks} : slot \in Slots}

\* Every slot is filled as the backbone wants it, with blocks that exist and are made for it.
Fits(preset) ==
  /\ \A slot \in Slots : preset.blocks[slot] # <<>> => slot \in DOMAIN Blocks[preset.backbone].slots
  /\ \A slot \in DOMAIN Blocks[preset.backbone].slots : Blocks[preset.backbone].slots[slot] = "required" => preset.blocks[slot] # <<>>
  /\ \A slot \in Slots : \A i \in DOMAIN preset.blocks[slot] :
       LET name == preset.blocks[slot][i]
       IN name \in DOMAIN Blocks /\ Blocks[name].slot = slot /\ Blocks[name].for \in {"any", preset.backbone}

Declared(preset) == UNION {{<<chosen[1], name>> : name \in DOMAIN Blocks[chosen[2]].params} : chosen \in Chosen(preset)}
Parameter(preset, param) == Blocks[(CHOOSE c \in Chosen(preset) : c[1] = param[1])[2]].params[param[2]]

\* Faulty: what no block of the plan declares is left aside.
StrayIgnored(preset, typed) == {}

\* Parameters set for blocks that are not used, or that a block does not declare.
Stray(preset, typed) == (DOMAIN preset.params \cup DOMAIN typed) \ Declared(preset)

\* The layers over the defaults: --set over the preset.
Layers(preset, typed) == typed @@ preset.params

\* The value of every parameter the plan declares, or nothing, refused.
resolve_plan(preset, sets) ==
  LET typed == Typed(sets, LAMBDA text : Value("str", text))
      layers == Layers(preset, typed)
      values == [param \in Declared(preset) |->
                   LET spec == Parameter(preset, param)
                   IN coerce(spec, IF param \in DOMAIN layers THEN layers[param] ELSE spec.default)]
  IN IF <<>> \in DOMAIN typed \/ ~Fits(preset) \/ Stray(preset, typed) # {} THEN <<>>
     ELSE IF \E param \in DOMAIN values : values[param] = Refused THEN <<>>
     ELSE values

-----------------------------------------------------------------------------
(* Requests.                                                               *)

NoRequest == [preset |-> Base.name, sets |-> <<>>, uses |-> <<>>]
NoSweep == [at |-> "none", preset |-> Base.name, axes |-> <<>>, planned |-> <<>>]

Sets == {<<>>} \cup UNION {[{d} -> Texts] : d \in Dotted}
Understood(sets) == \A d \in DOMAIN sets : split_param(d) # <<>>

\* save_new: under a name that is not taken.
Save(name, preset, source, sets, uses) ==
  /\ name \notin DOMAIN presets
  /\ presets' = presets @@ (name :> Toml(preset))
  /\ saved' = saved @@ (name :> [source |-> source, sets |-> sets, uses |-> uses])

\* nawat preset fork: saved, and only then tried.
Fork ==
  \E source \in DOMAIN presets, name \in Names, sets \in Sets, uses \in Uses :
    /\ Understood(sets)
    /\ Save(name, apply_sets(apply_uses(presets[source], uses), sets), source, sets, uses)
    /\ UNCHANGED <<request, sweep>>

\* nawat exp plan, with --save-preset: tried, saved, and then planned from what was typed.
PlanSaved ==
  \E source \in DOMAIN presets, name \in Names, sets \in Sets, uses \in Uses :
    LET preset == apply_sets(apply_uses(presets[source], uses), sets)
    IN /\ Understood(sets) /\ resolve_plan(preset, <<>>) # <<>>
       /\ Save(name, preset, source, sets, uses)
       /\ request' = [preset |-> source, sets |-> sets, uses |-> uses]
       /\ UNCHANGED sweep

\* nawat exp plan.
PlanOne ==
  \E source \in DOMAIN presets, sets \in Sets, uses \in Uses :
    /\ request' = [preset |-> source, sets |-> sets, uses |-> uses]
    /\ UNCHANGED <<presets, saved, sweep>>

-----------------------------------------------------------------------------
(* Sweeps. What stands after --vary is a sequence of texts and marks.      *)

\* One mark after another: within brackets or quotes a comma is kept.
split_values(typed) ==
  LET step(mark, s) ==
        IF s.quoted THEN [s EXCEPT !.now = Append(@, mark), !.quoted = mark # "'"]
        ELSE IF mark = "," /\ s.depth = 0 THEN [s EXCEPT !.out = Append(@, s.now), !.now = <<>>]
        ELSE [s EXCEPT !.now = Append(@, mark), !.quoted = mark = "'",
                       !.depth = IF mark = "[" THEN @ + 1 ELSE IF mark = "]" THEN @ - 1 ELSE @]
      end == FoldLeft(LAMBDA s, mark : step(mark, s), [out |-> <<>>, depth |-> 0, quoted |-> FALSE, now |-> <<>>], typed)
  IN SelectSeq(Append(end.out, end.now), LAMBDA piece : piece # <<>>)

\* A piece of several marks is a text like no other.
TextOf(piece) == IF Len(piece) = 1 THEN piece[1] ELSE "several"

\* Faulty: the first values of the axes, then the second ones.
combosInStep(axes) ==
  LET longest == CHOOSE n \in {Len(axes[i].values) : i \in DOMAIN axes} : \A i \in DOMAIN axes : Len(axes[i].values) >= n
  IN [n \in 1..longest |-> [i \in DOMAIN axes |-> axes[i].values[n]]]

\* itertools.product of the values.
combos(axes) ==
  FoldLeft(LAMBDA grid, axis : FlattenSeq([i \in DOMAIN grid |-> [j \in DOMAIN axis.values |-> Append(grid[i], axis.values[j])]]),
           <<<<>>>>, axes)

\* nawat sweep plan: one axis as it is typed, maybe another.
Vary ==
  \E source \in DOMAIN presets, d \in Dotted, typed \in Typings, others \in Axes :
    /\ split_values(typed) # <<>> /\ \A i \in DOMAIN others : others[i].key # d
    /\ LET axes == <<[key |-> d, values |-> split_values(typed), typed |-> typed]>> \o others
       IN sweep' = [at |-> "planning", preset |-> source, axes |-> axes, planned |-> <<>>]
    /\ UNCHANGED <<presets, saved, request>>

\* The next combination becomes an experiment; one that is refused ends it, and leaves those before.
PlanNext ==
  /\ sweep.at = "planning"
  /\ LET chosen == combos(sweep.axes)[Len(sweep.planned) + 1]
         sets == [d \in {sweep.axes[i].key : i \in DOMAIN sweep.axes} |->
                    TextOf(chosen[CHOOSE i \in DOMAIN sweep.axes : sweep.axes[i].key = d])]
     IN IF resolve_plan(presets[sweep.preset], sets) = <<>> THEN sweep' = [sweep EXCEPT !.at = "refused"]
        ELSE sweep' = [sweep EXCEPT !.planned = Append(@, chosen),
                                    !.at = IF Len(sweep.planned) + 1 = Len(combos(sweep.axes)) THEN "planned" ELSE "planning"]
  /\ UNCHANGED <<presets, saved, request>>

-----------------------------------------------------------------------------

Init ==
  /\ presets = Base.name :> Base.preset
  /\ saved = <<>> /\ request = NoRequest /\ sweep = NoSweep

\* A bound: planning changes no preset, so that nothing is asked after it.
Ask == request = NoRequest /\ sweep = NoSweep /\ (Fork \/ PlanSaved \/ PlanOne \/ Vary)

Next == Ask \/ PlanNext

Spec == Init /\ [][Next]_vars

-----------------------------------------------------------------------------
(* Properties.                                                             *)

Asked == apply_uses(presets[request.preset], request.uses)
Outcome == resolve_plan(Asked, request.sets)

\* params.py:163: nothing that is set, in a preset or on the command line, is ignored: the plan
\* is refused, or the value is the one typed last, of the kind the block declares.
NothingIgnored ==
  Outcome # <<>> =>
    /\ DOMAIN Asked.params \subseteq DOMAIN Outcome
    /\ \A d \in DOMAIN request.sets :
         LET param == split_param(d)
         IN param \in DOMAIN Outcome /\ Outcome[param] = coerce(Parameter(Asked, param), Value("str", request.sets[d]))

\* lab/cli.py:103: what is changed with --set can as well be saved: a saved preset plans to what
\* the preset it came from plans to with the same changes.
SavedAlike ==
  \A name \in DOMAIN saved :
    resolve_plan(presets[name], <<>>) = resolve_plan(apply_uses(presets[saved[name].source], saved[name].uses), saved[name].sets)

\* Where the typed text is cut: at commas that no bracket and no quote holds.
Bare(typed) == {i \in DOMAIN typed : Cardinality({j \in 1..i - 1 : typed[j] = "'"}) % 2 = 0}
BareBefore(typed, i, mark) == Cardinality({j \in Bare(typed) : j < i /\ typed[j] = mark})
Cuts(typed) == {i \in Bare(typed) : typed[i] = "," /\ BareBefore(typed, i, "[") = BareBefore(typed, i, "]")}

Pieces(typed) ==
  LET between == {cuts \in (Cuts(typed) \cup {0}) \X (Cuts(typed) \cup {Len(typed) + 1}) :
                    cuts[1] < cuts[2] /\ \A c \in Cuts(typed) : c <= cuts[1] \/ c >= cuts[2]}
  IN {SubSeq(typed, cuts[1] + 1, cuts[2] - 1) : cuts \in between}

\* sweep.py:5: a sweep that was planned has an experiment for every combination of the values that
\* were typed, one after another, and for none twice.
GridWhole ==
  /\ sweep.at = "planned" =>
       /\ Len(sweep.planned) = FoldLeft(LAMBDA n, axis : n * Len(axis.values), 1, sweep.axes)
       /\ ToSet(sweep.planned) = {c \in [DOMAIN sweep.axes -> UNION {ToSet(sweep.axes[i].values) : i \in DOMAIN sweep.axes}] :
                                    \A i \in DOMAIN c : c[i] \in ToSet(sweep.axes[i].values)}
  /\ \A i \in DOMAIN sweep.axes : ToSet(sweep.axes[i].values) = Pieces(sweep.axes[i].typed) \ {<<>>}
=============================================================================
