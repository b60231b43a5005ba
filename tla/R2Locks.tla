------------------------------- MODULE R2Locks -------------------------------
(***************************************************************************)
(* Threads of the application that share a channel.  Every API call takes  *)
(* the recursive lock of the channel, except                               *)
(* openr2_chan_process_cas_signaling, which runs openr2_proto_handle_cas   *)
(* as it is.  The module follows received calls, without tones or answer:  *)
(* the handler's reads and writes are steps of their own, so that what a   *)
(* thread read may be stale when it uses it.                               *)
(***************************************************************************)
EXTENDS Naturals

CONSTANTS Threads, NoThread,
          Calls,      \* the API calls that the threads make
          Polite      \* the far end keeps to the protocol

ASSUME LocksAssumption ==
  /\ NoThread \notin Threads
  /\ Calls \subseteq {"process_oob_events", "process_cas_signaling", "disconnect_call"}
  /\ Polite \in BOOLEAN

VARIABLES line,       \* the bits received: "IDLE" (also a clear forward), "SEIZE" or "other"
          tx,         \* the bits sent: "IDLE", "SEIZE_ACK" or "CLEAR_BACK"
          event,      \* the interface has a CAS change to report
          cas_read, r2_state,   \* of the channel
          lock,       \* the channel's mutex: owner and depth
          thread,     \* per thread: the call it is in, where, and its variable cas
          user,       \* what the callbacks told the application
          error       \* on_protocol_error was called

chan == <<cas_read, r2_state, tx>>
vars == <<line, event, chan, lock, thread, user, error>>

Idle == [call |-> "none", pc |-> "none", cas |-> "IDLE", nested |-> FALSE]
At(t, pc) == thread[t].pc = pc
Goto(t, pc) == thread' = [thread EXCEPT ![t].pc = pc]
-----------------------------------------------------------------------------
(* The recursive mutex. *)

\* Mutant: a lock that another thread holds is passed.
Lock_passed(t) ==
  lock' = IF lock.owner \in {NoThread, t} THEN [owner |-> t, depth |-> lock.depth + 1] ELSE lock

\* Mutant: a thread waits for itself.
Lock_once(t) ==
  /\ lock.owner = NoThread
  /\ lock' = [owner |-> t, depth |-> lock.depth + 1]

Lock(t) ==
  /\ lock.owner \in {NoThread, t}
  /\ lock' = [owner |-> t, depth |-> lock.depth + 1]

Unlock(t) ==
  lock' = IF lock.owner # t THEN lock
          ELSE [owner |-> IF lock.depth = 1 THEN NoThread ELSE t, depth |-> lock.depth - 1]
-----------------------------------------------------------------------------
(* The API. *)

\* A thread calls; disconnect_call is called when the application knows of a call.
Call(t, call) ==
  /\ At(t, "none")
  /\ call = "disconnect_call" => user # "none"
  /\ thread' = [thread EXCEPT ![t] =
       [call |-> call, pc |-> IF call = "process_cas_signaling" THEN "get_cas" ELSE "lock",
        cas |-> "IDLE", nested |-> FALSE]]
  /\ UNCHANGED <<line, event, chan, lock, user, error>>

Enter(t) ==
  /\ At(t, "lock") /\ Lock(t)
  /\ Goto(t, IF thread[t].call = "disconnect_call" \/ thread[t].nested THEN "disconnect" ELSE "event")
  /\ UNCHANGED <<line, event, chan, user, error>>

\* openr2_io_get_oob_event: a CAS change is handled once.
GetEvent(t) ==
  /\ At(t, "event")
  /\ event' = FALSE
  /\ Goto(t, IF event THEN "get_cas" ELSE "unlock")
  /\ UNCHANGED <<line, chan, lock, user, error>>

Leave(t) ==
  /\ At(t, "unlock") /\ Unlock(t)
  /\ thread' = [thread EXCEPT ![t] =
       IF thread[t].nested THEN [@ EXCEPT !.nested = FALSE, !.pc = "return"] ELSE Idle]
  /\ UNCHANGED <<line, event, chan, user, error>>

\* The end of openr2_proto_handle_cas.
Return(t) ==
  /\ At(t, "return")
  /\ thread' = [thread EXCEPT ![t] =
       IF @.call = "process_cas_signaling" THEN Idle ELSE [@ EXCEPT !.pc = "unlock"]]
  /\ UNCHANGED <<line, event, chan, lock, user, error>>
-----------------------------------------------------------------------------
(* openr2_proto_handle_cas. *)

GetCas(t) ==
  /\ At(t, "get_cas")
  /\ thread' = [thread EXCEPT ![t].cas = line, ![t].pc = "compare"]
  /\ UNCHANGED <<line, event, chan, lock, user, error>>

Compare(t) ==
  /\ At(t, "compare")
  /\ Goto(t, IF cas_read = thread[t].cas THEN "return" ELSE "store")
  /\ UNCHANGED <<line, event, chan, lock, user, error>>

Store(t) ==
  /\ At(t, "store")
  /\ cas_read' = thread[t].cas
  /\ Goto(t, "switch")
  /\ UNCHANGED <<line, event, r2_state, tx, lock, user, error>>

Switch(t) ==
  /\ At(t, "switch")
  /\ Goto(t, CASE r2_state = "IDLE" /\ thread[t].cas = "IDLE" -> "return"    \* on_line_idle
               [] r2_state = "IDLE" /\ thread[t].cas = "SEIZE" -> "incoming"
               [] r2_state = "SEIZE_ACK_TXD" /\ thread[t].cas = "IDLE" -> "clear_forward"
               [] r2_state = "CLEAR_BACK_TXD" /\ thread[t].cas = "IDLE" -> "call_end"
               [] OTHER -> "protocol_error")
  /\ UNCHANGED <<line, event, chan, lock, user, error>>

\* handle_incoming_call: on_call_init, and the seizure is acknowledged.
Incoming(t) ==
  /\ At(t, "incoming")
  /\ r2_state' = "SEIZE_ACK_TXD" /\ tx' = "SEIZE_ACK"
  /\ user' = IF user = "none" THEN "call" ELSE "confused"
  /\ Goto(t, "return")
  /\ UNCHANGED <<line, event, cas_read, lock, error>>

\* on_call_disconnect, from which the application may clear the call at once.
ClearForward(t) ==
  /\ At(t, "clear_forward")
  /\ r2_state' = "CLEAR_FWD_RXD"
  /\ user' = IF user = "call" THEN "disconnected" ELSE "confused"
  /\ \/ Goto(t, "return")
     \/ /\ "disconnect_call" \in Calls
        /\ thread' = [thread EXCEPT ![t].pc = "lock", ![t].nested = TRUE]
  /\ UNCHANGED <<line, event, cas_read, tx, lock, error>>

\* handle_protocol_error makes the channel idle and reports.
ProtocolError(t) ==
  /\ At(t, "protocol_error")
  /\ r2_state' = "IDLE" /\ tx' = "IDLE" /\ error' = TRUE
  /\ user' = "none"
  /\ Goto(t, "return")
  /\ UNCHANGED <<line, event, cas_read, lock>>

\* report_call_end: the channel is idle, on_call_end.
ReportCallEnd ==
  /\ r2_state' = "IDLE" /\ tx' = "IDLE"
  /\ user' = IF user \in {"call", "disconnected"} THEN "none" ELSE "confused"

CallEnd(t) ==
  /\ At(t, "call_end") /\ ReportCallEnd
  /\ Goto(t, "return")
  /\ UNCHANGED <<line, event, cas_read, lock, error>>

\* openr2_proto_disconnect_call: refused without a call; a call that the far end
\* has cleared ends, another is cleared backward.
Disconnect(t) ==
  /\ At(t, "disconnect")
  /\ Goto(t, "unlock")
  /\ CASE r2_state = "IDLE" -> UNCHANGED <<r2_state, tx, user>>
       [] r2_state = "CLEAR_FWD_RXD" -> ReportCallEnd
       [] OTHER -> r2_state' = "CLEAR_BACK_TXD" /\ tx' = "CLEAR_BACK" /\ UNCHANGED user
  /\ UNCHANGED <<line, event, cas_read, lock, error>>

Step(t) ==
  \/ Enter(t) \/ GetEvent(t) \/ Leave(t) \/ Return(t)
  \/ GetCas(t) \/ Compare(t) \/ Store(t) \/ Switch(t)
  \/ Incoming(t) \/ ClearForward(t) \/ ProtocolError(t) \/ CallEnd(t) \/ Disconnect(t)

\* The far end seizes an idle line and clears what it seized, or does as it likes.
FarEnd ==
  /\ \/ line = "IDLE" /\ tx = "IDLE" /\ line' = "SEIZE"
     \/ line = "SEIZE" /\ line' = "IDLE"
     \/ ~Polite /\ line' \in {"IDLE", "SEIZE", "other"} \ {line}
  /\ event' = TRUE
  /\ UNCHANGED <<chan, lock, thread, user, error>>
-----------------------------------------------------------------------------
\* The channel was set idle and has seen an idle line.
Init ==
  /\ line = "IDLE" /\ tx = "IDLE" /\ event = FALSE
  /\ cas_read = "IDLE" /\ r2_state = "IDLE"
  /\ lock = [owner |-> NoThread, depth |-> 0]
  /\ thread = [t \in Threads |-> Idle]
  /\ user = "none" /\ error = FALSE

Next == FarEnd \/ \E t \in Threads : Step(t) \/ \E call \in Calls : Call(t, call)

\* Threads run.
Spec == Init /\ [][Next]_vars /\ \A t \in Threads : WF_vars(Step(t))
-----------------------------------------------------------------------------
TypeOK ==
  /\ line \in {"IDLE", "SEIZE", "other"} /\ tx \in {"IDLE", "SEIZE_ACK", "CLEAR_BACK"} /\ event \in BOOLEAN
  /\ cas_read \in {"IDLE", "SEIZE", "other"}
  /\ r2_state \in {"IDLE", "SEIZE_ACK_TXD", "CLEAR_FWD_RXD", "CLEAR_BACK_TXD"}
  /\ lock.owner \in Threads \cup {NoThread} /\ lock.depth \in 0 .. 2
  /\ user \in {"none", "call", "disconnected", "confused"} /\ error \in BOOLEAN

\* A far end that keeps to the protocol is never reported as breaking it, and the
\* callbacks come in an order that makes sense to the application: no call starts
\* while another is there, none is disconnected or ends that did not start.
SeenInOrder == ~error /\ user # "confused"

\* The lock is released again: no thread goes away with it, or waits for itself in
\* a callback that calls the API.
LockReleased == lock.owner # NoThread ~> lock.owner = NoThread
=============================================================================
