SPECIFICATION FairSpec
CONSTANTS
  MaxDigits = 3
  PastDnis <- OneByte
  Ctx <- ItuDetectDtmf
  MaxTimers = 10
  Reentrant <- R2testUser
  LinePatterns <- cas_r2_bits
  FwdTones = {1}
  BackTones = {3, 6}
  Calls <- OneCall
  Modes = {"WITH_CHARGE"}
  Causes = {"BUSY_NUMBER", "FORCED_RELEASE"}
  Faults = {"io"}
  ResetInCall = FALSE
  AnswerEarly = FALSE
  MaxIndex = 2
  MaxRx = 2
  PendingBound = 3
PROPERTIES
  HangUpEnds
