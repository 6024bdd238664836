SPECIFICATION FairSpec
CONSTANTS
  Worker = {w1, w2, w3}
  Key = {k1}
  KeyLen <- KeyLenDef
  NumThreads = 1
  MaxRound = 3
  ReduceMode = "sum"
  NoGrad = NoGrad
INVARIANTS
  TypeOK
  FullInv
  RoundBarrier
  AnswerElements
PROPERTIES
  PullAnswered
  ImplementsFairPushPull
