SPECIFICATION Spec
CONSTANTS
  Worker = {w1, w2}
  Key = {k1}
  KeyLen <- KeyLenDef
  NumThreads = 1
  MaxRound = 2
  ReduceMode = "sum"
  NoGrad = NoGrad
INVARIANTS
  PullReturnsRoundSum
