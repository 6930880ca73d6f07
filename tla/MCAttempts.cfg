SPECIFICATION FairSpec
CONSTANTS
  Run = {r1, r2}
  NoRun = NoRun
  Submitter = {s1}
  MaxOdd = 1
INVARIANTS OnePending ListTruthful StoreKeepsUp
PROPERTIES GpuGivenBack
CHECK_DEADLOCK FALSE
