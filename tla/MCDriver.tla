------------------------------ MODULE MCDriver ------------------------------
(***************************************************************************)
(* Threads for TLC: who holds the lock of a channel, and the calls that    *)
(* hold it while they loop, openr2_chan_process and openr2_chan_write; and *)
(* the threads of r2test.  A behaviour runs one of these modules, the      *)
(* part, and the others stay in their initial state.                       *)
(***************************************************************************)
EXTENDS R2Locks, R2Driver

VARIABLE part                                         \* the module that runs

processVars == <<dev, line_chan, turn, did>>
writeVars == <<speech_dev, speech, taken, told>>
testVars == <<main, mf_iface, tx_mf_state, context, test_chan,
              test_thread, test_lock, listener_count, signalled>>
allVars == <<part, vars, processVars, writeVars, testVars>>

(***************************************************************************)
(* A turn of openr2_chan_process on a healthy line (Process), and on one   *)
(* that fails.                                                             *)
(***************************************************************************)
Faulty == INSTANCE R2Process WITH
  chan <- line_chan, call <- turn, Buffers <- 1, DtmfBuffers <- 1,
  Faults <- {"wait", "event", "read", "write", "generate"}

\* Buffers of at most a block, without events (Write) and with them.
Interrupted == INSTANCE R2Write WITH dev <- speech_dev, call <- speech, Events <- TRUE

(***************************************************************************)
(* Three channels that receive and two that call; contexts and threads may *)
(* fail to be made.                                                        *)
(***************************************************************************)
TestGroups == << [caller |-> FALSE, chans |-> 3, dahdi |-> FALSE],
                 [caller |-> TRUE, chans |-> 2, dahdi |-> FALSE] >>

ASSUME /\ Process!ProcessAssumption /\ Faulty!ProcessAssumption
       /\ Write!WriteAssumption /\ Interrupted!WriteAssumption
       /\ Test!TestAssumption

-----------------------------------------------------------------------------
MCInit ==
  /\ part \in {"locks", "process", "faulty", "write", "interrupted", "test"}
  /\ Init /\ Test!Init
  /\ IF part = "faulty" THEN Faulty!Init ELSE Process!Init
  /\ part \in {"process", "faulty"} \/ line_chan.mode = "off"
  /\ Write!Init

InLocks(A) == part = "locks" /\ A /\ UNCHANGED <<part, processVars, writeVars, testVars>>

\* A on the healthy line, or B on the one that fails.
InProcess(A, B) ==
  /\ \/ part = "process" /\ A
     \/ part = "faulty" /\ B
  /\ UNCHANGED <<part, vars, writeVars, testVars>>

\* A without events, or B with them.
InWrite(A, B) ==
  /\ \/ part = "write" /\ A
     \/ part = "interrupted" /\ B
  /\ UNCHANGED <<part, vars, processVars, testVars>>

InTest(A) == part = "test" /\ A /\ UNCHANGED <<part, vars, processVars, writeVars>>

MCNext ==
  \/ InLocks(Next)
  \/ InProcess(Process!Next, Faulty!Next)
  \/ InWrite(Write!Next, Interrupted!Next)
  \/ InTest(Test!Next)

\* The fairness of each module's own specification.
MCSpec ==
  /\ MCInit /\ [][MCNext]_allVars
  /\ \A t \in Threads : WF_allVars(InLocks(Step(t)))
  /\ WF_allVars(InProcess(Process!Process, Faulty!Process))
  /\ WF_allVars(InProcess(Process!Step, Faulty!Step))
  /\ WF_allVars(InWrite(Write!LineSends, Interrupted!LineSends))
  /\ WF_allVars(InWrite(Write!Attempt, Interrupted!Attempt))
  /\ WF_allVars(InWrite(Write!TakeEvent, Interrupted!TakeEvent))
  /\ WF_allVars(InTest(Test!Main))
  /\ \A c \in Test!Chans : WF_allVars(InTest(Test!Thread(c)))

-----------------------------------------------------------------------------
(***************************************************************************)
(* Every call that takes the lock of a channel gives it up again: no       *)
(* thread waits for itself in a callback (R2Locks!LockReleased), the loop  *)
(* of openr2_chan_process runs out of work and takes every event           *)
(* (R2Process!CallReturns, EventServed), and that of openr2_chan_write     *)
(* ends too if no event is pending (R2Write!WriteReturns).                 *)
(***************************************************************************)
CallsReturn ==
  /\ (part = "locks") => LockReleased
  /\ (part = "process") => Process!CallReturns /\ Process!EventServed
  /\ (part = "write") => Write!WriteReturns

\* r2test starts to call, or gives up in order: R2Test!StartsCallers.
StartsCallers == (part = "test") => Test!StartsCallers
=============================================================================
