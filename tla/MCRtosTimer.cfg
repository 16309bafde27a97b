SPECIFICATION Spec
CONSTANTS
  Ids = {i1, i2, i3}
  MaxTimers = 2
  Handles = {h1, h2, h3}
  Callbacks = {w1, w2}
  ReuseInFlight = TRUE
  MaxBacklog = 2
  Lua = Lua
  None = None
SYMMETRY Symmetry
INVARIANTS TypeOK MutualExclusion TableSound NoLeak
