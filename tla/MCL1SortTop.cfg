SPECIFICATION Spec
CONSTANTS
  CodeMax = 127
  PerCell = 5
  Slack = 16
  CountMax = 4
  Radix = 16
  Tile = 4
  LocalizeMin = 6
  Inputs <- MCInputs
INVARIANTS
  AssertsHold
