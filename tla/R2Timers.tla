------------------------------ MODULE R2Timers ------------------------------
(***************************************************************************)
(* What is claimed of the timers, for a user of one channel and for one of *)
(* a context.  The part says which of them a behaviour is about.           *)
(***************************************************************************)
EXTENDS Integers, Sequences

CONSTANTS Channels, Delays, MaxTimers, MaxId, Start, MaxWakes, Late, Early, WholeContext

VARIABLES part, now, chanlist, sched_timers, timer_id, to_dispatch, user, wakes, idle

Time == INSTANCE R2Sched

\* Timers are called in order and on time, no sleep that the library proposes
\* misses one, and nobody is woken for nothing again and again: R2Sched!Sorted,
\* Punctual, SleepSafe, NoSpin, and SleepSafeIfAllArmed for a whole context.
TimersServed ==
  /\ part = "timers" => Time!Sorted /\ Time!Punctual /\ Time!SleepSafe /\ Time!NoSpin
  /\ part = "context" => Time!SleepSafeIfAllArmed
=============================================================================
