\* Two saves to the same path.
CONSTANTS
  c1 = c1
  c2 = c2
  Calls = {c1, c2}
  Paths <- DeepPaths
  Asks <- AskOne
  Size <- Sizes
  MaxFaults = 0
SPECIFICATION Spec
INVARIANTS
  ReplacedByOneImage
