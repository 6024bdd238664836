SPECIFICATION Spec
CONSTANTS
  Worker = {w1, w2}
  Scale = 4
  Param = {1, 2}
  Root = w1
  Scripts <- ResumedScripts
INVARIANT
  SameStart
