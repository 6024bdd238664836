SPECIFICATION PluginsSpec
CONSTANTS
  w1 = w1
  w2 = w2
  p1 = p1
  p2 = p2
  buffer1 = buffer1
INVARIANTS
  StepAppliesAverage
  EpochsOnce
  GradientsAveraged
  SameVariables
  ForwardSeesUpdates
  NothingFails
  ReturnsOwnCall
  InFlightUntouched
  
  CallbacksAsDocumented
  ProcessesPlaced
  ErrorsPropagate
  MergesMatch
  CopiesMirrored
  OneReplicaRuns
  SumOfMembers
  GradientConserved
  TransfersDecode
  BuiltForFramework
PROPERTIES
  UpdateOfOneStep
  ScriptsEnd
