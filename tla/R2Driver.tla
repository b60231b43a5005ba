------------------------------ MODULE R2Driver ------------------------------
(***************************************************************************)
(* The calls that hold the lock of a channel while they loop,              *)
(* openr2_chan_process and openr2_chan_write, and the threads of r2test,   *)
(* side by side, with what is claimed of each.                             *)
(***************************************************************************)
EXTENDS Integers, Sequences

CONSTANTS
  Mask, UserReads, MaxEvents, MaxFrames, Buffers, DtmfBuffers, Faults, \* of R2Process
  Lengths, BlockSize, Blocks, Events, Breaks,                          \* of R2Write
  Groups, TestFaults, Spurious                                         \* of R2Test

VARIABLES
  dev, line_chan, turn, did,                          \* of R2Process
  speech_dev, speech, taken, told,                    \* of R2Write
  main, mf_iface, tx_mf_state, context, test_chan,    \* of R2Test
  test_thread, test_lock, listener_count, signalled

Process == INSTANCE R2Process WITH chan <- line_chan, call <- turn
Write == INSTANCE R2Write WITH dev <- speech_dev, call <- speech
Test == INSTANCE R2Test WITH chan <- test_chan, thread <- test_thread, lock <- test_lock,
                             Faults <- TestFaults

-----------------------------------------------------------------------------
\* No tone is sent or heard in alarm: R2Process!QuietInAlarm.
QuietInAlarm == Process!QuietInAlarm

\* A buffer of at most a block reaches the driver once: R2Write!WritesTheBuffer.
WritesTheBuffer == Write!WritesTheBuffer

\* r2test calls only when its listeners are ready, and uses no channel that was
\* not made: R2Test!CallersAfterListeners, NeverCrashes.
CallersAfterListeners == Test!CallersAfterListeners /\ Test!NeverCrashes
=============================================================================
