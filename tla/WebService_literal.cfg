\* A host that is an IPv6 literal.
CONSTANTS
  Urls <- MCUrls
  Site <- MCSite
  Answers <- MCAnswers
  Requests <- MCRequests
SPECIFICATION Spec
INVARIANTS
  LiteralNotLookedUp
