SPECIFICATION Spec
CONSTANTS
  w1 = w1
  w2 = w2
  Worker = {w1, w2}
  Scale = 2
  Root = w1
  Epochs = 4
  WarmupEpochs = 2
  Batches = 2
  BaseRate = 64
  MaxKills = 1
  Scripts <- Resuming
INVARIANT SameVariables
