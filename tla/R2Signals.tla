----------------------------- MODULE R2Signals -----------------------------
(***************************************************************************)
(* The vocabulary of the MFC/R2 protocol stack: the ABCD bit patterns of   *)
(* the CAS signals, the MF tones, and the enumerations that the channel    *)
(* structure of openr2 keeps its state in.                                 *)
(*                                                                         *)
(* Enumerators keep their names without the OR2_, OR2_MF_ and OR2_CALL_    *)
(* prefixes.                                                               *)
(***************************************************************************)
EXTENDS Integers, Sequences

(***************************************************************************)
(* CAS: only the A and B bits carry R2 signals, so a received pattern is   *)
(* one of four values.  Several signals share a pattern: SEIZE_ACK, BLOCK  *)
(* and CLEAR_BACK cannot be told apart on the wire, nor SEIZE and          *)
(* FORCED_RELEASE, nor IDLE and CLEAR_FORWARD.                             *)
(***************************************************************************)
cas_r2_bits == {0, 4, 8, 12}

CAS == [IDLE           |-> 8,
        BLOCK          |-> 12,
        SEIZE          |-> 0,
        SEIZE_ACK      |-> 12,
        CLEAR_BACK     |-> 12,
        FORCED_RELEASE |-> 0,
        CLEAR_FORWARD  |-> 8,
        ANSWER         |-> 4]

\* A pattern held for a persistence check, or -1 when there is none.
NoPattern == -1

(***************************************************************************)
(* MF tones: OR2_MF_TONE_n is n, and 0 is both OR2_MF_TONE_INVALID (the    *)
(* variant has no such signal) and silence.  Tones 1 to 10 are digits.     *)
(***************************************************************************)
Tone == 0..15
Digit == 1..10

R2State ==
  {"INIT", "IDLE", "BLOCKED",
   "SEIZE_ACK_TXD", "ANSWER_TXD", "CLEAR_BACK_TXD", "CLEAR_FWD_RXD",
   "EXECUTING_DOUBLE_ANSWER", "FORCED_RELEASE_TXD",
   "SEIZE_TXD", "SEIZE_ACK_RXD", "CLEAR_BACK_TONE_RXD", "ACCEPT_RXD",
   "ANSWER_RXD", "CLEAR_BACK_RXD", "ANSWER_RXD_MF_PENDING", "CLEAR_FWD_TXD",
   "FORCED_RELEASE_RXD", "CLEAR_BACK_AFTER_CLEAR_FWD_RXD",
   "SEIZE_TXD_CLEAR_FWD_PENDING", "DOUBLE_SEIZURE_CLEAR_FWD_PENDING",
   "DOUBLE_SEIZURE"}

CallState == {"IDLE", "COLLECTING", "DIALING", "OFFERED", "ACCEPTED",
              "ANSWERED", "DISCONNECTED"}

\* "ZERO" is the value calloc leaves before the first openr2_proto_init:
\* OR2_MF_OFF_STATE is 100, so a channel that was just created is not off.
MfState == {"ZERO", "OFF",
            "SEIZE_ACK_TXD", "CATEGORY_RQ_TXD", "DNIS_RQ_TXD", "ANI_RQ_TXD",
            "CHG_GII_TXD", "ACCEPTED_TXD", "DISCONNECT_TXD",
            "CATEGORY_TXD", "DNIS_TXD", "DNIS_END_TXD", "ANI_TXD",
            "ANI_END_TXD", "WAITING_TIMEOUT",
            "DIALING_DTMF", "DETECTING_DTMF"}

MfGroup == {"NO_GROUP", "BACK_INIT", "GA", "GB", "GC", "FWD_INIT", "GI",
            "GII", "GIII", "DTMF_FWD_INIT", "DTMF_BACK_INIT"}

Direction == {"STOPPED", "FORWARD", "BACKWARD"}

Cause == {"BUSY_NUMBER", "NETWORK_CONGESTION", "UNALLOCATED_NUMBER",
          "OUT_OF_ORDER", "UNSPECIFIED", "NO_ANSWER", "NORMAL_CLEARING",
          "FORCED_RELEASE", "NUMBER_CHANGED", "GLARE"}

ProtocolError ==
  {"INVALID_CAS_BITS", "INVALID_MF_TONE", "BACK_MF_TIMEOUT", "SEIZE_TIMEOUT",
   "FWD_SAFETY_TIMEOUT", "BROKEN_MF_SEQUENCE", "ANSWER_TIMEOUT",
   "INVALID_R2_STATE", "INVALID_MF_STATE", "INVALID_MF_GROUP", "LIBRARY_BUG",
   "INTERNAL_ERROR", "ALARM_RAISED"}

Mode == {"WITH_CHARGE", "NO_CHARGE", "SPECIAL", "UNKNOWN"}

\* The timers a channel schedules, by the name openr2_chan_add_timer is given.
TimerName == {"mf_fwd_safety", "r2_seize", "r2_seize_persist", "r2_answer",
              "r2_metering_pulse", "r2_double_answer", "mf_back_resume_cycle",
              "mf_back_cycle", "r2_answer_delay", "r2_set_call_down",
              "cas_persistence_check", "dtmf_start_dial"}

(***************************************************************************)
(* What the user can observe: the callbacks of openr2_event_interface_t,   *)
(* and two error messages that say the library is in trouble.              *)
(***************************************************************************)
Callback == {"on_call_init", "on_call_proceed", "on_call_offered",
             "on_call_accepted", "on_call_answered", "on_call_disconnect",
             "on_call_end", "on_hardware_alarm", "on_protocol_error",
             "on_line_blocked", "on_line_idle", "on_dnis_digit_received",
             "on_ani_digit_received", "on_billing_pulse_received",
             "no_time_slots", "library_bug"}

Event == [cb : Callback,
          arg : {""} \cup Cause \cup ProtocolError \cup Mode \cup TimerName]
=============================================================================
