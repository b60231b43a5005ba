SPECIFICATION MCSpec
CONSTANTS
  MaxDigits = 4
  PastDnis <- OneByte
  Ctx <- Itu
  MaxTimers = 10
  Reentrant = {"clear_on_disconnect"}
  AnswerEarly = FALSE
  Callers = {"a", "b"}
  Numbers <- AnyLength
  Causes = {"BUSY_NUMBER"}
  EarlyClear = {}
  Alarms = {"a", "b"}
  Prompt = TRUE
INVARIANTS
  TypeOK
  CursorsInNumber
  NumberDelivered
  PeerAnswered
  SeizureIsCall
  ClearForwardToCome
PROPERTIES
  PromptEndsAgree
  EarlyReleaseEnds
  R2testDialEnds
  AlarmReachesPeer
