SPECIFICATION Spec
CONSTANTS
  MaxDigits = 3
  PastDnis <- OneByte
  Ctx <- ItuShort
  MaxTimers = 10
  Reentrant = {}
  LinePatterns <- cas_r2_bits
  FwdTones = {1}
  BackTones = {1, 3}
  Calls <- OneCall
  Modes = {"WITH_CHARGE"}
  Causes = {"BUSY_NUMBER", "FORCED_RELEASE"}
  Faults = {}
  ResetInCall = FALSE
  AnswerEarly = TRUE
  MaxIndex = 4
  MaxRx = 2
  PendingBound = 3
INVARIANTS
  DnisLeft
