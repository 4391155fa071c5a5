\* Nothing is assumed of the work on a page: a stuck page must hurt nobody.
CONSTANTS
  Slots = {c1, c2}
  MaxFaults = 2
SPECIFICATION TabSpec
PROPERTIES
  QueuedGetsTab
  DeadBrowserReplaced
  EveryCallReturns
