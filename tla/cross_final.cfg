SPECIFICATION Spec
CONSTANTS
  Param = {p1}
  FinalStep = 1
  Passes = 1
  NoParam = NoParam
INVARIANT FinalStepComplete
