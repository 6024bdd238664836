SPECIFICATION Spec
CONSTANTS
  w1 = w1
  w2 = w2
  Worker <- TwoWorkers
  Length = 6
  Scripts <- OneRound
INVARIANT PullsCompressedSum
