SPECIFICATION Spec
CONSTANTS
  g1 = g1
  g2 = g2
  None = None
  Generation = {g1}
  Position <- Alone
  Debounce = 1
  ActivePoll = 2
  WarmPoll = 2
  IdlePoll = 2
  ActiveWindow = 0
  WarmWindow = 0
  Delay = {0, 2}
  Holder = {h1}
  MaxReloads = 1
PROPERTY HoldDrains
