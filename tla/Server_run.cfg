SPECIFICATION Spec
CONSTANTS
  Segments <- MCSegments
  Replacement = "?"
  MaxPathComponents = 3
  PngNames = {"a.png"}
  Allowlist = {"HOME", "DISPLAY"}
  RawNames = {"RAWNAME"}
  DefaultMaxChars = 3
  RawName = "RAW"
  Environments <- MCEnvironments
  Given <- MCGiven
  Texts <- MCTexts
  Cwd <- MCCwd
  Elsewhere <- MCElsewhere
  MaxCharsArgs <- MCMaxCharsArgs
  Pages <- MCPages
INVARIANTS
  IInv
  CheckAgreesWithSave
  ReplyReadsBack
  NamesStayInside
  DefaultIsPerUser
  ChildSeesOnlyAllowed
  CapHonoured
PROPERTIES
  RefusalTouchesNothing
  AllowlistedReach
