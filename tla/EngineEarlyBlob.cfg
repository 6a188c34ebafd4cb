SPECIFICATION Spec
CONSTANTS
  d1 = d1
  d2 = d2
  b1 = b1
  b2 = b2
  None = None
  Device = {d1, d2}
  Blob = {b1, b2}
  Binds <- TwoImages
  Quota <- TwoNone
  MaxSegment = 1
  MaxInterrupts = 0
  MaxRemovals = 0
INVARIANT InboxDurable
