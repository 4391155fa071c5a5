\* Two calls with paths of their own below shared directories; two faults.
CONSTANTS
  c1 = c1
  c2 = c2
  Calls = {c1, c2}
  Paths <- DeepPaths
  Asks <- AskOwn
  Size <- Sizes
  MaxFaults = 2
SPECIFICATION Spec
INVARIANTS
  SavedFileWhole
  BrokenFilesAccounted
PROPERTY
  SavesAsPromised
