\* Two calls that may save to the same path, on every tree; one fault.
CONSTANTS
  c1 = c1
  c2 = c2
  Calls = {c1, c2}
  Paths <- DeepPaths
  Asks <- AskAny
  Size <- Sizes
  MaxFaults = 1
SPECIFICATION Spec
INVARIANTS
  IInv
  NothingEscapes
  FailureHasCause
  SavedHeadWhole
  RefusalLeavesNoEmptyDir
