SPECIFICATION Spec
CONSTANTS
  Worker = {w1, w2}
  Key = {k1, k2}
  KeyLen <- KeyLenDef
  NumThreads = 2
  MaxRound = 2
  ReduceMode = "replica"
  NoGrad = NoGrad
INVARIANTS
  PullBookkeeping
  ChecksHold
  ReducedExactly
  ReducerUnused
PROPERTIES
  ExactUnlessOvertaken
  ImplementsPushPull
