\* Three calls in flight, two faults: every race for a launch with a bystander.
CONSTANTS
  Slots = {c1, c2, c3}
  MaxFaults = 2
SYMMETRY SlotSymmetry
SPECIFICATION Spec
INVARIANTS
  TypeOK
  IInv
  OneBrowser
  LaunchPerFault
  StrayTabsAccounted
PROPERTIES
  TabsSpared
  TabsAsPromised
