SPECIFICATION Spec
CONSTANTS
  a = a
  b = b
  None = None
  Device = {a, b}
  Pruner = {a}
  Ahead <- SecondAhead
  Quota <- OneOne
  Threshold = 1
  BatchSize = 1
  Named = {}
  MaxFaults = 0
ACTION_CONSTRAINT OwnStepsFirst
CHECK_DEADLOCK FALSE
INVARIANT RetainedSnapshotsCover
