SPECIFICATION MCSpec
CONSTANTS
  Threads = {t1, t2, t3}
  NoThread = NoThread
  Calls = {"process_oob_events", "disconnect_call"}
  Polite = TRUE
  Mask = {"OOB", "MF"}
  UserReads = TRUE
  MaxEvents = 2
  MaxFrames = 2
  Buffers = 2
  DtmfBuffers = 2
  Faults = {}
  Lengths = {1, 3, 4}
  BlockSize = 4
  Blocks = 4
  Events = FALSE
  Breaks = TRUE
  Groups <- TestGroups
  TestFaults = {"context", "thread"}
  Spurious = FALSE
INVARIANTS
  SeenInOrder
  QuietInAlarm
  WritesTheBuffer
  CallersAfterListeners
PROPERTIES
  CallsReturn
  StartsCallers
\* r2test and the threads of a run come to an end.
CHECK_DEADLOCK FALSE
