SPECIFICATION FairSpec
CONSTANTS
  Terminal = {t1, t2}
  Worker = {}
  Server = {s1}
  Canceller = {}
  Mortal = {}
  Run = {r1, r2}
  ExperimentOf <- OwnExperiment
  Modes = {"api"}
  Faults = {}
  NoOne = NoOne
  NoRun = NoRun
CHECK_DEADLOCK FALSE
PROPERTY QueueServed
