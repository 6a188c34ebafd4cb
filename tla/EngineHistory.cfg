SPECIFICATION Spec
CONSTANTS
  d1 = d1
  d2 = d2
  b1 = b1
  b2 = b2
  None = None
  Device = {d1, d2}
  Blob = {}
  Binds <- NoBlobs
  Quota <- TwoOne
  MaxSegment = 2
  MaxInterrupts = 1
  MaxRemovals = 1
INVARIANT TypeOK
INVARIANT CursorNeverSkips
INVARIANT ReceiptsAreTrue
INVARIANT HonestSegmentsAccepted
INVARIANT ConvergedDevicesAgree
INVARIANT LossBlocks
PROPERTY ImplementsJournal
CONSTRAINT FewFaults
CHECK_DEADLOCK FALSE
