SPECIFICATION Spec
CONSTANTS
  Threads = {t1, t2}
  NoThread = NoThread
  Calls = {"process_oob_events", "process_cas_signaling"}
  Polite = TRUE
INVARIANT SeenInOrder
