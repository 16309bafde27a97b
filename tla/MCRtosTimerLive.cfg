SPECIFICATION FairSpec
CONSTANTS
  Ids = {i1, i2}
  MaxTimers = 2
  Handles = {h1, h2}
  Callbacks = {w1, w2}
  ReuseInFlight = FALSE
  MaxBacklog = 1
  Lua = Lua
  None = None
PROPERTIES RunningOnlyStoppedByLua CallsReturn ExpiredFreed
