SPECIFICATION Spec
CONSTANTS
  Parts = {"checkpoint", "telemetry", "shards", "compose", "compare", "scores"}
  MaxStep = 3
  Limit = 1
  MaxRuns = 2
  Unluck = {"reboot", "store", "user"}
  Function = {f1, f2}
  Members = 2
  MaxRounds = 2
  MaxPoints = 3
  MaxLines = 3
  Samples = 2
  Sizes = {1, 2, 4}
  ShardSize = 3
  Blocks <- Library
  Base <- Preset
  Dotted <- Settings
  Texts <- Words
  Uses <- BlockChoices
  Typings <- Typed3
  Axes <- TwoSteps
  Names = {"mine"}
  Experiment = {e1, e2}
  Plans <- SomePlans
  Eval = {"heldout", "bench"}
  OnHeldOut = {"heldout"}
  Totals <- Scores
  MaxAttempts = 3
  MaxWork = 3
  Vocabularies <- Written
  Answer <- Seven
  MaxMarks = 5
CHECK_DEADLOCK FALSE
SYMMETRY Swap
INVARIANTS  RoundsFollowed   ComparedFairly 
 
