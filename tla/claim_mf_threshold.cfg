SPECIFICATION Spec
CONSTANTS
  Tones = {"2", "0"}
  Fwd = FALSE
  Cuts = {0, 80}
  Hold = 2
  mf_threshold = 60
  Start = 38
  MaxFrames = 24
  Long = 11
PROPERTY
  ThresholdRespected
\* The frames come to an end.
CHECK_DEADLOCK FALSE
