SPECIFICATION LiveSpec
CONSTANTS
  d1 = d1
  d2 = d2
  b1 = b1
  b2 = b2
  None = None
  Device = {d1, d2}
  Blob = {}
  Binds <- NoBlobs
  Quota <- OneOne
  MaxSegment = 1
  MaxInterrupts = 1
  MaxRemovals = 0
PROPERTY EveryChangeArrives
