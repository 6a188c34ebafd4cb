SPECIFICATION LiveSpec
CONSTANTS
  a = a
  b = b
  None = None
  Device = {a, b}
  Pruner = {}
  Ahead <- FirstAhead
  Quota <- OneOne
  Threshold = 1
  BatchSize = 1
  Named = {}
  MaxFaults = 1
ACTION_CONSTRAINT OwnStepsFirst
CHECK_DEADLOCK FALSE
PROPERTY CapturedIsPublished
