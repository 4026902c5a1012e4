SPECIFICATION FairSpec
CONSTANTS
  CodeMax = 127
  PerCell = 2
  Slack = 1
  CountMax = 3
  Radix = 2
  Tile = 3
  LocalizeMin = 6
  Inputs <- MCInputs
INVARIANTS
  TypeOK
  CyclesSound
  AssertsHold
  TasksApart
  GroupedLargestFirst
PROPERTIES
  Termination
