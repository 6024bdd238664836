CONSTANTS
  t1 = t1
  t2 = t2
  Peers = Peers
  LocalSize = 3
  SwitchSize = 3
  Distributed = TRUE
  Tensor = {t1}
  KeyList <- TwoParts
  KeyLen <- UnitLen
  Priority <- Rising
  Compressed = {}
  GroupSize = 2
  Credit = 0
  InPlace = FALSE
  OnCpu = FALSE
  MaxRound = 2
SPECIFICATION MachinesSpec
INVARIANTS
  MachineChecks
  MachineCallsMatch
  MachineResultIsSum
  MachineCredits
PROPERTIES
  MachinePriority
  MachineBarrier
  MachineCallbacks
