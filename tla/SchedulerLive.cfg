SPECIFICATION LiveSpec
CONSTANTS
  g1 = g1
  g2 = g2
  None = None
  Generation = {g1, g2}
  Position <- InOrder
  Debounce = 1
  ActivePoll = 2
  WarmPoll = 2
  IdlePoll = 2
  ActiveWindow = 0
  WarmWindow = 0
  Delay = {0, 3}
  Holder = {}
  MaxReloads = 0
INVARIANT TypeOK
INVARIANT WakeArmed
INVARIANT QuietInBackground
INVARIANT RetryAfterIsAFloor
PROPERTY RequestsAreServed
PROPERTY PollsGoOn
