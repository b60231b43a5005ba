------------------------------- MODULE R2Test -------------------------------
(***************************************************************************)
(* The threads of r2test: main creates a context per group of channels and *)
(* the channels, starts a thread for every channel that receives calls,    *)
(* waits until these are ready and then starts the threads that call.      *)
(* What a thread does with its channel is the subject of R2Line.           *)
(***************************************************************************)
EXTENDS Integers, Sequences, FiniteSets

CONSTANTS Groups,     \* the groups of the configuration file, in order: whether
                      \* they call, how many channels, whether they use DAHDI tones
          Faults,     \* what may fail: "context" or "channel" creation, the start
                      \* of a "thread", an "os_error" on a channel
          Spurious    \* pthread_cond_wait may return without a signal

\* The place for channels in a group.
MAX_CHANS == 30

TestAssumption ==
  /\ Groups \in Seq([caller : BOOLEAN, chans : 1 .. MAX_CHANS, dahdi : BOOLEAN])
  /\ Groups # <<>>
  /\ Faults \subseteq {"context", "channel", "thread", "os_error"}
  /\ Spurious \in BOOLEAN

G == 1 .. Len(Groups)
Chans == UNION { {g} \X (1 .. Groups[g].chans) : g \in G }
Listeners == { c \in Chans : ~Groups[c[1]].caller }
Callers == Chans \ Listeners

VARIABLES main,             \* where main is, and the group and channel it is at
          mf_iface,         \* main's local variables of these names: NULL, or the
          tx_mf_state,      \*   DAHDI interface, or the DAHDI state of a channel
          context,          \* per group: not made, deleted, or its MF library
          chan,             \* per channel: not made, or its MF handle
          thread,           \* per channel, the state of its thread
          lock,             \* listener_count_lock: who has it
          listener_count,
          signalled         \* listener_threads_done was signalled while main waits

vars == <<main, mf_iface, tx_mf_state, context, chan, thread, lock, listener_count, signalled>>
setup == <<mf_iface, tx_mf_state, context, chan>>
sync == <<lock, listener_count, signalled>>

MayFail(what) == what \in Faults
At(pc) == main.pc = pc
Goto(pc) == main' = [pc |-> pc, g |-> 1, k |-> 1]
-----------------------------------------------------------------------------
(* main: contexts and channels. *)

\* The functions of r2test's DAHDI interface, and those that a context asks for.
g_mf_dahdi_iface == {"mf_write_init", "mf_generate_tone", "mf_select_tone", "mf_want_generate"}
RequiredOfMflib == g_mf_dahdi_iface \cup {"mf_read_init", "mf_detect_tone"}

\* The MF library of a new context after openr2_context_set_mflib_interface, whose
\* result is ignored.
set_mflib_interface(iface) ==
  IF iface = "dahdi" /\ RequiredOfMflib \subseteq g_mf_dahdi_iface THEN "dahdi" ELSE "default"

\* With the DAHDI interface, a context that was not made is written to.
SetMflibCrashes(made, iface) == ~made /\ iface = "dahdi"

NextIface == IF Groups[main.g].dahdi THEN "dahdi" ELSE mf_iface

MakeContext ==
  /\ At("contexts")
  /\ mf_iface' = NextIface
  /\ \E made \in {TRUE} \cup (IF MayFail("context") THEN {FALSE} ELSE {}) :
       IF SetMflibCrashes(made, mf_iface') THEN Goto("crashed") /\ UNCHANGED context
       ELSE IF ~made
            THEN /\ context' = [g \in G |-> IF g < main.g THEN "deleted" ELSE context[g]]
                 /\ Goto("aborted")
            ELSE /\ context' = [context EXCEPT ![main.g] = set_mflib_interface(mf_iface')]
                 /\ IF main.g = Len(Groups) THEN Goto("channels")
                    ELSE main' = [main EXCEPT !.g = @ + 1]
  /\ UNCHANGED <<tx_mf_state, chan, thread>> /\ UNCHANGED sync

\* The channel after main.g, main.k in the order of the file.
NextChannel(pc) ==
  IF main.k < Groups[main.g].chans THEN main' = [main EXCEPT !.k = @ + 1]
  ELSE IF main.g < Len(Groups) THEN main' = [main EXCEPT !.g = @ + 1, !.k = 1]
  ELSE Goto(pc)

\* openr2_chan_set_mflib_handles locks the channel before main looks at whether
\* openr2_chan_new made one; a handle of NULL leaves the default.
MakeChannel ==
  /\ At("channels")
  /\ tx_mf_state' = IF Groups[main.g].dahdi THEN "dahdi" ELSE tx_mf_state
  /\ \/ MayFail("channel") /\ Goto("crashed") /\ UNCHANGED chan
     \/ /\ chan' = [chan EXCEPT ![<<main.g, main.k>>] = tx_mf_state']
        /\ NextChannel("listeners")
  /\ UNCHANGED <<mf_iface, context, thread>> /\ UNCHANGED sync
-----------------------------------------------------------------------------
(* main: threads. *)

LockListeners ==
  /\ At("listeners") /\ lock = "free"
  /\ lock' = "main"
  /\ listener_count' = 0
  /\ Goto("launch")
  /\ UNCHANGED <<thread, signalled>> /\ UNCHANGED setup

\* pthread_create for the channel main is at, if it is one of these; a thread that
\* cannot be started is left out.
Launch(pc, which, next) ==
  /\ At(pc)
  /\ NextChannel(next)
  /\ \E ok \in {TRUE} \cup (IF MayFail("thread") THEN {FALSE} ELSE {}) :
       thread' = [thread EXCEPT ![<<main.g, main.k>>] =
                    IF <<main.g, main.k>> \in which /\ ok THEN "started" ELSE @]
  /\ UNCHANGED setup

\* Mutant: a thread that could not be started is counted.
LaunchListener_counts_failed ==
  /\ Launch("launch", Listeners, "wait")
  /\ listener_count' = listener_count + (IF <<main.g, main.k>> \in Listeners THEN 1 ELSE 0)
  /\ UNCHANGED <<lock, signalled>>

LaunchListener ==
  /\ Launch("launch", Listeners, "wait")
  /\ listener_count' = listener_count + (IF thread' # thread THEN 1 ELSE 0)
  /\ UNCHANGED <<lock, signalled>>

\* pthread_cond_wait gives the lock up; without listeners it is just unlocked.
Wait ==
  /\ At("wait")
  /\ lock' = "free" /\ signalled' = FALSE
  /\ Goto(IF listener_count > 0 THEN "waiting" ELSE "callers")
  /\ UNCHANGED <<thread, listener_count>> /\ UNCHANGED setup

\* The lock is taken again and never released.
Woken ==
  /\ At("waiting") /\ lock = "free"
  /\ signalled \/ Spurious
  /\ lock' = "main"
  /\ Goto("callers")
  /\ UNCHANGED <<thread, listener_count, signalled>> /\ UNCHANGED setup

LaunchCaller == Launch("callers", Callers, "join") /\ UNCHANGED sync

Main == MakeContext \/ MakeChannel \/ LockListeners \/ LaunchListener \/ Wait \/ Woken \/ LaunchCaller
-----------------------------------------------------------------------------
(* The threads. *)

\* wait_call and make_call: the channel is set idle and its bits are looked at; an
\* error of the line ends the thread (on_os_error).
Begin(c) ==
  /\ thread[c] = "started"
  /\ \E s \in {IF c \in Listeners THEN "count" ELSE "running"} \cup
              (IF MayFail("os_error") THEN {"exited"} ELSE {}) :
       thread' = [thread EXCEPT ![c] = s]
  /\ UNCHANGED <<main>> /\ UNCHANGED setup /\ UNCHANGED sync

\* Mutant: the last but one listener signals.
CountDown_early(c) ==
  /\ thread[c] = "count" /\ lock = "free"
  /\ listener_count' = listener_count - 1
  /\ signalled' = (signalled \/ (listener_count' <= 1 /\ At("waiting")))
  /\ thread' = [thread EXCEPT ![c] = "running"]
  /\ UNCHANGED <<main, lock>> /\ UNCHANGED setup

\* The first turn of the loop: under the lock, the last listener signals main.  A
\* signal is lost if main does not wait.
CountDown(c) ==
  /\ thread[c] = "count" /\ lock = "free"
  /\ listener_count' = listener_count - 1
  /\ signalled' = (signalled \/ (listener_count' = 0 /\ At("waiting")))
  /\ thread' = [thread EXCEPT ![c] = "running"]
  /\ UNCHANGED <<main, lock>> /\ UNCHANGED setup

\* A protocol error or an error of the line ends the thread of a channel.
Exit(c) ==
  /\ thread[c] = "running"
  /\ thread' = [thread EXCEPT ![c] = "exited"]
  /\ UNCHANGED <<main>> /\ UNCHANGED setup /\ UNCHANGED sync

Thread(c) == Begin(c) \/ CountDown(c)
-----------------------------------------------------------------------------
Init ==
  /\ main = [pc |-> "contexts", g |-> 1, k |-> 1]
  /\ mf_iface = "NULL" /\ tx_mf_state = "default"
  /\ context = [g \in G |-> "none"]
  /\ chan = [c \in Chans |-> "none"]
  /\ thread = [c \in Chans |-> "none"]
  /\ lock = "free" /\ listener_count = 0 /\ signalled = FALSE

Next == Main \/ \E c \in Chans : Thread(c) \/ Exit(c)

\* The threads are scheduled.
Spec == Init /\ [][Next]_vars /\ WF_vars(Main) /\ \A c \in Chans : WF_vars(Thread(c))
-----------------------------------------------------------------------------
TypeOK ==
  /\ main.pc \in {"contexts", "channels", "listeners", "launch", "wait", "waiting", "callers",
                  "join", "aborted", "crashed"}
  /\ main.g \in G /\ <<main.g, main.k>> \in Chans
  /\ \A g \in G : context[g] \in {"none", "default", "dahdi", "deleted"}
  /\ \A c \in Chans : chan[c] \in {"none", "default", "dahdi"}
  /\ \A c \in Chans : thread[c] \in {"none", "started", "count", "running", "exited"}
  /\ listener_count \in 0 .. Cardinality(Listeners)

\* No call is made before every thread that waits for calls is in its loop ("wait
\* until the listener threads are ready").
CallersAfterListeners ==
  (\E c \in Callers : thread[c] # "none") =>
    \A c \in Listeners : thread[c] \in {"none", "running", "exited"}

\* main gets to start the calling threads, or gives up: the listeners' signal is
\* not lost and the last one to be ready does signal.
StartsCallers == <>(main.pc \in {"join", "aborted"})

\* r2test gives up in order when a context cannot be made; when a channel cannot,
\* openr2_chan_set_mflib_handles is given NULL.
NeverCrashes == main.pc # "crashed"

\* A channel sends its tones the way its group is configured (usedahdimf): not
\* so, mf_iface and tx_mf_state of one group carry over to the next.
MfAsConfigured ==
  At("join") => \A c \in Chans :
    /\ (context[c[1]] = "dahdi") = Groups[c[1]].dahdi
    /\ (chan[c] = "dahdi") = Groups[c[1]].dahdi
=============================================================================
