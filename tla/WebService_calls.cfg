\* Every request on every configuration, on pages that go where they like.
CONSTANTS
  Urls <- CallUrls
  Site <- CallSite
  Answers <- MCAnswers
  Requests <- CallRequests
SPECIFICATION TimerSpec
INVARIANTS
  IInv
  BadPathCostsNothing
  PartsOfCheckedPages
  PartsFromPublicHosts
  BlockedHasCause
  FaultsCounted
PROPERTIES
  NavigationEnds
