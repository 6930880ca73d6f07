SPECIFICATION FairSpec
CONSTANTS
  Terminal = {t1}
  Worker = {w1}
  Server = {s1}
  Canceller = {}
  Mortal = {t1}
  Run = {r1, r2}
  ExperimentOf <- OwnExperiment
  Modes = {"here", "queue", "api"}
  Faults = {"script"}
  NoOne = NoOne
  NoRun = NoRun
CHECK_DEADLOCK FALSE
PROPERTIES  OneByOne
