\* A page that leads somewhere that cannot be opened.
CONSTANTS
  Urls <- MCUrls
  Site <- MCSite
  Answers <- MCAnswers
  Requests <- MCRequests
SPECIFICATION Spec
INVARIANTS
  InvalidIsTheCallers
