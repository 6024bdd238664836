CONSTANTS
  t1 = t1
  t2 = t2
  Peers = Peers
  LocalSize = 2
  SwitchSize = 2
  Distributed = TRUE
  Tensor = {t1}
  KeyList <- OnePart
  KeyLen <- UnitLen
  Priority <- Rising
  Compressed = {}
  GroupSize = 1
  Credit = 0
  InPlace = FALSE
  OnCpu = TRUE
  MaxRound = 1
SPECIFICATION Spec
INVARIANTS
  ResultIsSum
