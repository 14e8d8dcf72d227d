\* Three ports and two slots, four starts and any ends, two calls too early.
SPECIFICATION FairSpec
CONSTANTS
  MaxLoops = 2
  Ports = {1, 2, 3}
  MaxStarts = 4
  MaxHasty = 2
CHECK_DEADLOCK FALSE
INVARIANTS
  TypeOK
  ActiveServed
  OverrunOnlyWhenFull
  SlotsApart
PROPERTIES
  EndStops
