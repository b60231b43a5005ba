SPECIFICATION Spec
CONSTANTS
  Channels = {a, b}
  Delays = {1, 999}
  MaxTimers = 1
  MaxId = 2
  Start = {1000}
  MaxWakes = 2
  Late = {0}
  Early = {998}
  WholeContext = TRUE
INVARIANT SleepSafe

