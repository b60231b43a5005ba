SPECIFICATION MCSpec
CONSTANTS
  Channels = {"a"}
  Delays = {1, 999, 1000}
  MaxTimers = 3
  MaxId = 3
  Start = {1000, 998500, 999999}
  MaxWakes = 3
  Late = {0, 700}
  Early = {998}
  WholeContext = FALSE
  Cap = 4
  Byte <- Bytes
  ReadAtomic = FALSE
  WriteAtomic = FALSE
  Writes <- Blocks
  Singles <- None
  Messages <- None
  ReadLens = {1, 3}
  ViewLens = {5}
  MsgLens <- None
  ByteReads = FALSE
  OneWritePerInit = FALSE
INVARIANTS
  DialsTheNumber
  OncePerPress
  OfferedAsDialled
  FollowsLine
  SignalHeard
  TimersServed
  NoOverlap
  BodyAvailable
PROPERTIES
  BurstIgnored
  IsFifo
\* The numbers, the frames, the samples and the sleeps come to an end.
CHECK_DEADLOCK FALSE
