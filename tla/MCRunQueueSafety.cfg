SPECIFICATION Spec
CONSTANTS
  Terminal = {t1, t2}
  Worker = {w1, w2}
  Server = {}
  Canceller = {c1}
  Mortal = {t1, t2, w1, w2}
  Run = {r1, r2}
  ExperimentOf <- OwnExperiment
  Modes = {"here", "queue"}
  Faults = {"script", "store"}
  NoOne = NoOne
  NoRun = NoRun
CHECK_DEADLOCK FALSE
SYMMETRY Symmetry
INVARIANTS TypeOK HoldsGpuWhileActive
PROPERTIES AbandonedNotStarted NoOvertaking DropsOnlyAbandoned
