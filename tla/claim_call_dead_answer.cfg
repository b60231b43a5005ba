SPECIFICATION Spec
CONSTANTS
  MaxDigits = 4
  PastDnis <- OneByte
  Ctx <- Itu
  MaxTimers = 10
  Reentrant = {}
  AnswerEarly = FALSE
  Callers = {"a"}
  Numbers <- FullNumbers
  Causes = {"BUSY_NUMBER"}
  EarlyClear = {}
  Alarms = {}
  Prompt = TRUE
INVARIANTS
  ClearForwardToCome
