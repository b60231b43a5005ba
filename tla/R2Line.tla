------------------------------- MODULE R2Line -------------------------------
(***************************************************************************)
(* One openr2 channel between an arbitrary far end and an arbitrary user.  *)
(*                                                                         *)
(* The far end may put any pattern on the line at any time and send any    *)
(* tone; the user may call any function of the API in any state.  Each     *)
(* action is one call that takes the channel lock: a line event, a media   *)
(* frame, an expired timer, an API call.                                   *)
(***************************************************************************)
EXTENDS R2Cas, FiniteSets

CONSTANTS
  LinePatterns, \* patterns the far end uses
  FwdTones,     \* tones a forward far end sends
  BackTones,    \* tones a backward far end sends
  Calls,        \* what the user dials: records [ani, known, dnis, numeric, restricted]
  Modes,        \* modes the user accepts a call with
  Causes,       \* causes the user disconnects with
  Faults,       \* layers that may fail: subset of {"io", "mf"}
  ResetInCall,  \* the user may call set_idle and set_blocked during a call
  MaxIndex,     \* bound on dnis_index, which the far end can drive up for ever
  MaxRx,        \* bound on the ANI (or DTMF) digits received in a call, which the
                \* code lacks
  PendingBound  \* the far end and the user pause while so many timers pend

ASSUME LineAssumption ==
  /\ LinePatterns \subseteq cas_r2_bits
  /\ FwdTones \subseteq Tone \ {0} /\ BackTones \subseteq Tone \ {0}
  /\ Calls \subseteq [ani : Seq(Digit), known : BOOLEAN, dnis : Seq(Digit),
                      numeric : BOOLEAN, restricted : BOOLEAN]
  /\ Modes \subseteq Mode /\ Causes \subseteq Cause
  /\ Faults \subseteq {"io", "mf"} /\ ResetInCall \in BOOLEAN
  /\ MaxIndex \in Nat /\ MaxRx \in Nat /\ PendingBound \in Nat

VARIABLES
  chan,   \* the channel
  line    \* the pattern the far end is sending

vars == <<chan, line>>

-----------------------------------------------------------------------------
Fresh == [chan EXCEPT !.ev = <<>>]
Room == Len(chan.sched) < PendingBound

(***************************************************************************)
(* The far end and the line.                                               *)
(***************************************************************************)
LineChanges ==
  /\ \E bits \in LinePatterns \ {line} : line' = bits
  /\ chan' = Fresh

\* openr2_chan_process_cas_signaling, or a CAS event of the line
CasEvent ==
  /\ Room
  /\ chan' = handle_cas(Fresh, line)
  /\ UNCHANGED line

\* openr2_chan_process polls nothing but events while in alarm.
Listening ==
  /\ Room
  /\ ~chan.inalarm
  /\ chan.mf_state # "OFF"

FarEndTones == IF chan.direction = "BACKWARD" THEN FwdTones ELSE BackTones

ToneStarts ==
  /\ Listening /\ ~chan.detecting_dtmf
  /\ chan.direction = "BACKWARD" => Len(chan.ani) < MaxRx
  /\ \E tone \in FarEndTones, more \in BOOLEAN :
       /\ tone # chan.mf_read_tone
       /\ chan' = handle_mf_tone(Fresh, tone, more)
  /\ UNCHANGED line

ToneStops ==
  /\ Listening /\ ~chan.detecting_dtmf
  /\ chan.mf_read_tone # 0
  /\ chan.dnis_index < MaxIndex
  /\ chan' = handle_mf_tone(Fresh, 0, FALSE)
  /\ UNCHANGED line

DtmfDigit ==
  /\ Listening /\ chan.detecting_dtmf
  /\ Len(chan.dnis) < MaxRx
  /\ \E more \in BOOLEAN : chan' = on_dtmf_received(Fresh, 1, more)
  /\ UNCHANGED line

\* The digits to dial have been generated, or the far end has been silent for
\* OR2_DTMF_MAX_SILENCE_SAMPLES.
DtmfEnd ==
  /\ Listening /\ (chan.detecting_dtmf \/ chan.dialing_dtmf)
  /\ chan' = handle_dtmf_end(Fresh)
  /\ UNCHANGED line

AlarmChanges ==
  /\ chan' = handle_alarm_event(Fresh, ~chan.inalarm, line)
  /\ UNCHANGED line

FaultChanges ==
  /\ \E f \in SUBSET Faults : f # chan.fault /\ chan' = [Fresh EXCEPT !.fault = f]
  /\ UNCHANGED line

\* openr2_chan_handle_timers finds one expired timer.
TimerExpires(name) ==
  /\ \E i \in 1..Len(chan.sched) :
       /\ chan.sched[i].name = name
       /\ MayExpire(chan.sched, i)
       /\ chan' = expire_one(Fresh, i, line)
  /\ UNCHANGED line

(***************************************************************************)
(* The user.                                                               *)
(***************************************************************************)
MakeCall ==
  /\ Room
  /\ \E call \in Calls :
       chan' = make_call(Fresh, call.ani, call.known, call.dnis, call.numeric,
                         call.restricted)
  /\ UNCHANGED line

AcceptCall ==
  /\ Room
  /\ \E mode \in Modes : chan' = accept_call(Fresh, mode)
  /\ UNCHANGED line

\* openr2_chan_answer_call decides by the context, answer_call_with_mode by
\* its argument.
AnswerCall ==
  /\ Room
  /\ AnswerEarly \/ chan.call_state \in {"OFFERED", "ACCEPTED"}
  /\ \E double \in BOOLEAN : chan' = answer_call(Fresh, double)
  /\ UNCHANGED line

DisconnectCall ==
  /\ Room
  /\ \E cause \in Causes : chan' = disconnect_call(Fresh, cause)
  /\ UNCHANGED line

\* Only a user that has switched OR2_AUTO_SEIZE_ACK off has a use for it.
AckCall ==
  /\ Room
  /\ ~Ctx.auto_seize_ack
  /\ chan' = ack_call(Fresh)
  /\ UNCHANGED line

MayReset == ResetInCall \/ chan.call_state = "IDLE"

SetIdle == MayReset /\ chan' = set_idle(Fresh) /\ UNCHANGED line

SetBlocked == MayReset /\ chan' = set_blocked(Fresh) /\ UNCHANGED line

-----------------------------------------------------------------------------
(***************************************************************************)
(* A channel is created with the line in or out of alarm.                  *)
(***************************************************************************)
Init ==
  /\ line \in LinePatterns
  /\ chan \in {chan_new, handle_alarm_state([chan_new EXCEPT !.inalarm = TRUE], line)}

FarEnd == LineChanges \/ ToneStarts \/ ToneStops \/ DtmfDigit

User == \/ MakeCall \/ AcceptCall \/ AnswerCall \/ DisconnectCall \/ AckCall
        \/ SetIdle \/ SetBlocked

Timers == \E name \in TimerName : TimerExpires(name)

Next == \/ FarEnd \/ User \/ Timers
        \/ CasEvent \/ AlarmChanges \/ FaultChanges \/ DtmfEnd

Spec == Init /\ [][Next]_vars

(***************************************************************************)
(* The application keeps calling openr2_chan_process or run_schedule, so   *)
(* that every timer which stays due is served.                             *)
(***************************************************************************)
FairSpec == Spec /\ \A name \in TimerName : WF_vars(TimerExpires(name))

-----------------------------------------------------------------------------
(***************************************************************************)
(* Every field of the channel keeps its type.  The DNIS, dialled or        *)
(* received with MF tones, fits its array; the cursor never falls below    *)
(* its first digit, whatever the far end asks for.  Above, the code has no bound to state: what the cursor and the    *)
(* ANI do there is the subject of R2LineClaims.                            *)
(***************************************************************************)
TypeOK == chan \in Chan /\ line \in cas_r2_bits

ForwardStates ==
  {"SEIZE_TXD", "SEIZE_ACK_RXD", "CLEAR_BACK_TONE_RXD", "ACCEPT_RXD",
   "ANSWER_RXD", "CLEAR_BACK_RXD", "ANSWER_RXD_MF_PENDING", "CLEAR_FWD_TXD",
   "FORCED_RELEASE_RXD", "CLEAR_BACK_AFTER_CLEAR_FWD_RXD",
   "SEIZE_TXD_CLEAR_FWD_PENDING", "DOUBLE_SEIZURE_CLEAR_FWD_PENDING",
   "DOUBLE_SEIZURE"}
BackwardStates ==
  {"SEIZE_ACK_TXD", "ANSWER_TXD", "CLEAR_BACK_TXD", "EXECUTING_DOUBLE_ANSWER",
   "FORCED_RELEASE_TXD"}

(***************************************************************************)
(* The three machines of a channel (CAS, call, MF) tell the same story.    *)
(* No call means no direction, a CAS state at rest, a silent and released  *)
(* MF engine and no timer left over from the last call: nothing of a call  *)
(* can reach into the next one.  openr2_proto_init is what must see to it. *)
(***************************************************************************)
IdleIsClean ==
  /\ chan.call_state = "IDLE" <=> chan.direction = "STOPPED"
  /\ chan.call_state = "IDLE" <=> chan.r2_state \in IdleStates
  /\ chan.call_state = "IDLE" =>
       /\ chan.mf_state \in {"OFF", "ZERO"} /\ chan.mf_group = "NO_GROUP"
       /\ chan.mf_state = "ZERO" => chan.r2_state = "INIT"
       /\ chan.mf_write_tone = 0 /\ chan.mf_read_tone = 0
       /\ ~chan.answered /\ ~chan.dialing_dtmf /\ ~chan.detecting_dtmf
       /\ \A i \in 1..Len(chan.sched) : chan.sched[i].name = "cas_persistence_check"

(***************************************************************************)
(* A channel never mixes the two roles: a state of the forward side is     *)
(* only met in a call it dialled, one of the backward side in a call it    *)
(* received, whatever tones, patterns, timers and API calls arrive.  Only  *)
(* CLEAR_FWD_RXD belongs to both, because of glare.                        *)
(***************************************************************************)
RolesAgree ==
  /\ chan.r2_state \in ForwardStates => chan.direction = "FORWARD"
  /\ chan.r2_state \in BackwardStates => chan.direction = "BACKWARD"
  /\ chan.direction = "FORWARD" =>
       /\ chan.call_state \in {"DIALING", "ANSWERED", "DISCONNECTED"}
       /\ chan.mf_group \in {"FWD_INIT", "GI", "GII", "GIII", "DTMF_FWD_INIT", "NO_GROUP"}
  /\ chan.direction = "BACKWARD" =>
       /\ chan.call_state \in {"COLLECTING", "OFFERED", "ACCEPTED", "ANSWERED",
                               "DISCONNECTED"}
       /\ chan.mf_group \in {"BACK_INIT", "GA", "GB", "GC", "DTMF_BACK_INIT"}

\* A line in alarm carries no call: handle_alarm_state drops the one there was,
\* and neither make_call nor handle_cas starts one.
AlarmDropsCalls == chan.inalarm => chan.call_state = "IDLE"

(***************************************************************************)
(* What the far end sees agrees with the state the channel is in.          *)
(***************************************************************************)
OnWire(state) ==
  CASE state \in {"IDLE"} -> {CAS.IDLE}
    [] state \in {"BLOCKED"} -> {CAS.BLOCK}
    [] state \in {"CLEAR_FWD_TXD", "CLEAR_BACK_AFTER_CLEAR_FWD_RXD"} ->
         {CAS.CLEAR_FORWARD}
    [] state \in ForwardStates \ {"CLEAR_FWD_TXD", "CLEAR_BACK_AFTER_CLEAR_FWD_RXD"} ->
         {CAS.SEIZE}
    [] state = "SEIZE_ACK_TXD" ->
         {CAS.SEIZE_ACK} \cup (IF Ctx.auto_seize_ack THEN {} ELSE {CAS.IDLE})
    [] state = "ANSWER_TXD" -> {CAS.ANSWER}
    [] state \in {"CLEAR_BACK_TXD", "EXECUTING_DOUBLE_ANSWER"} -> {CAS.CLEAR_BACK}
    [] state = "FORCED_RELEASE_TXD" -> {CAS.FORCED_RELEASE}
    [] OTHER -> cas_r2_bits

\* While writes to the line succeed, the bits on the line are the ones that
\* the CAS state stands for; in particular a line at rest is never left seized.
WireAgrees == chan.wire \in OnWire(chan.r2_state)

(***************************************************************************)
(* Supervision: in every state in which the channel waits for the far end  *)
(* to acknowledge something, the timer that ends the wait is pending; and  *)
(* the two timers that would destroy a healthy call are pending in no      *)
(* other state.                                                            *)
(***************************************************************************)
Seizing == {"SEIZE_TXD", "SEIZE_TXD_CLEAR_FWD_PENDING"}
Clearing == {"CLEAR_FWD_TXD", "CLEAR_BACK_AFTER_CLEAR_FWD_RXD"}

CasSupervised ==
  /\ chan.r2_state \in Seizing => Pending(chan.sched, "r2_seize")
  /\ Pending(chan.sched, "r2_seize") => chan.r2_state \in Seizing \cup Clearing
  /\ chan.r2_state \in Clearing <=> Pending(chan.sched, "r2_set_call_down")
  /\ chan.r2_state = "DOUBLE_SEIZURE_CLEAR_FWD_PENDING"
       => Pending(chan.sched, "r2_seize_persist")

\* A backward side that has asked for a signal, and a forward side that has
\* nothing left to send, do not wait for ever.
MfSupervised ==
  /\ (/\ chan.call_state = "COLLECTING"
      /\ chan.mf_state \in {"DNIS_RQ_TXD", "CATEGORY_RQ_TXD", "ANI_RQ_TXD", "CHG_GII_TXD"})
       => Pending(chan.sched, "mf_back_cycle")
  /\ (/\ chan.mf_state = "WAITING_TIMEOUT" /\ chan.mf_read_tone = 0
      /\ chan.r2_state = "SEIZE_ACK_RXD")
       => Pending(chan.sched, "mf_fwd_safety")

(***************************************************************************)
(* The persistence check: the id says whether a check is running, a        *)
(* running check has exactly one timer, and that timer can be cancelled.   *)
(***************************************************************************)
PersistTimers == {i \in 1..Len(chan.sched) :
                    chan.sched[i].name = "cas_persistence_check"}

PersistenceTimer ==
  /\ Cardinality(PersistTimers) = (IF chan.persist_id THEN 1 ELSE 0)
  /\ \A i \in PersistTimers : chan.sched[i].ref
  /\ chan.persist_id => chan.persist # NoPattern

(***************************************************************************)
(* The called side asks for no more ANI digits than the context expects    *)
(* ("how much ANI to expect", doc/r2test.conf:49), however the far end     *)
(* answers: nothing else keeps them within ani[].  So it is while the ANI  *)
(* is asked for once, which is when get_ani_first is off.                  *)
(***************************************************************************)
AniExpected == chan.direction = "BACKWARD" => Len(chan.ani) <= Ctx.max_ani

-----------------------------------------------------------------------------
Told(cb) == {i \in 1..Len(chan'.ev) : chan'.ev[i].cb = cb}

CallEnds == chan.call_state # "IDLE" /\ chan'.call_state = "IDLE"

(***************************************************************************)
(* The user learns of the end of every call exactly once, by on_call_end   *)
(* or on_protocol_error, and on_call_end is never called for a call that   *)
(* is already over.  Only a user that resets the line itself is not told.  *)
(***************************************************************************)
EndsOnce ==
  /\ CallEnds => \/ Cardinality(Told("on_call_end") \cup Told("on_protocol_error")) = 1
                 \/ ResetInCall /\ chan'.ev = <<>>
  /\ Told("on_call_end") # {} => CallEnds

EndReportedOnce == [][EndsOnce]_vars

(***************************************************************************)
(* When the layers below fail a handler may report more than one error,    *)
(* but a call still never ends in silence, and on_call_end is still never  *)
(* called for a call that goes on or that is already over.                 *)
(***************************************************************************)
EndsReported ==
  /\ CallEnds => \/ Told("on_call_end") \cup Told("on_protocol_error") # {}
                 \/ ResetInCall /\ chan'.ev = <<>>
  /\ Told("on_call_end") # {} => CallEnds

\* A call that was reported disconnected is never offered, accepted or
\* answered afterwards.
StaysDown ==
  chan.call_state = "DISCONNECTED" => chan'.call_state \in {"DISCONNECTED", "IDLE"}

\* A change back to ANSWER is billed only while the user has not been told
\* that the call is over.
BillsInCall ==
  Told("on_billing_pulse_received") # {} => chan.call_state # "DISCONNECTED"

\* on_call_answered is called for a call that is answered, not for one that the
\* user has cleared from within on_call_accepted a moment before.
AnswersTheLiving ==
  Told("on_call_answered") # {}
    => /\ chan'.r2_state = "ANSWER_RXD" /\ chan'.call_state = "ANSWERED"
       /\ chan'.wire = CAS.SEIZE

(***************************************************************************)
(* A dialled call that the user has hung up always comes to rest, even if  *)
(* the far end never answers: r2_seize, r2_seize_persist and               *)
(* r2_set_call_down see to it.                                             *)
(***************************************************************************)
HungUp == chan.r2_state \in {"SEIZE_TXD_CLEAR_FWD_PENDING", "CLEAR_FWD_TXD",
                             "DOUBLE_SEIZURE_CLEAR_FWD_PENDING",
                             "CLEAR_BACK_AFTER_CLEAR_FWD_RXD"}

HangUpEnds == HungUp ~> chan.call_state = "IDLE"
=============================================================================
