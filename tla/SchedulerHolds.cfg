SPECIFICATION LiveSpec
CONSTANTS
  g1 = g1
  g2 = g2
  None = None
  Generation = {g1}
  Position <- Alone
  Debounce = 1
  ActivePoll = 2
  WarmPoll = 3
  IdlePoll = 4
  ActiveWindow = 2
  WarmWindow = 4
  Delay = {0, 3}
  Holder = {h1, h2}
  MaxReloads = 1
INVARIANT HoldExcludesCycles
INVARIANT SuspensionIsOwned
PROPERTY HoldsAreGranted
