SPECIFICATION Spec
CONSTANT MaxDigits = 3
INVARIANTS
  Supervised
  Coherent
  AniExpected
PROPERTIES
  EndReported
  HangUpIsFinal
  AnsweredIsAnswered
