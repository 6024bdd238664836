SPECIFICATION Spec
CONSTANTS
  w1 = w1
  w2 = w2
  p1 = p1
  p2 = p2
  Worker = {w1, w2}
  Scale = 4
  Param = {p1, p2}
  Buffer = buffer1
  Root = w1
  Scripts <- BranchScripts
INVARIANT
  GradientsAveraged
