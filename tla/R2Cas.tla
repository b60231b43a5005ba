------------------------------- MODULE R2Cas -------------------------------
(***************************************************************************)
(* The CAS state machine: what a channel does when the ABCD bits of the    *)
(* line change, when the line goes in and out of alarm, when it dials, and *)
(* when its timers expire.                                                 *)
(***************************************************************************)
EXTENDS R2Mf

(***************************************************************************)
(* The stable pattern cas has been read: one operator per r2_state.        *)
(***************************************************************************)
invalid_bits(c) == handle_protocol_error(c, "INVALID_CAS_BITS")

handle_incoming_call(c) ==
  LET mfc == [c EXCEPT !.mf_state = "SEIZE_ACK_TXD", !.mf_group = "BACK_INIT"]
      dtmf == [c EXCEPT !.mf_state = "DETECTING_DTMF",
                        !.mf_group = "DTMF_BACK_INIT", !.detecting_dtmf = TRUE]
      call == Emit([(IF Ctx.detect_dtmf THEN dtmf ELSE mfc) EXCEPT
                      !.r2_state = "SEIZE_ACK_TXD", !.call_state = "COLLECTING",
                      !.direction = "BACKWARD"],
                   "on_call_init", "")
  IN  IF MfFails(c) THEN handle_protocol_error(c, "INTERNAL_ERROR")
      ELSE IF Ctx.auto_seize_ack THEN ack_call(call) ELSE call

cas_in_idle(c, cas) ==
  CASE cas = CAS.BLOCK -> Emit(c, "on_line_blocked", "")
    [] cas = CAS.IDLE  -> Emit(c, "on_line_idle", "")
    [] cas = CAS.SEIZE -> handle_incoming_call(c)
    [] OTHER           -> invalid_bits(c)

\* SEIZE_ACK_TXD, ANSWER_TXD and EXECUTING_DOUBLE_ANSWER
cas_in_received_call(c, cas) ==
  IF cas = CAS.CLEAR_FORWARD
  THEN report_call_disconnection([c EXCEPT !.r2_state = "CLEAR_FWD_RXD"],
                                 "NORMAL_CLEARING")
  ELSE invalid_bits(c)

start_dialling(c) ==
  IF ~Ctx.dial_with_dtmf THEN mf_send_dnis([c EXCEPT !.mf_group = "GI"], 0)
  ELSE add_timer(add_timer(c, "dtmf_start_dial"), "r2_answer")

seize_acked(c) ==
  IF c.r2_state = "SEIZE_TXD_CLEAR_FWD_PENDING" THEN send_clear_forward(c)
  ELSE Emit(start_dialling([c EXCEPT !.r2_state = "SEIZE_ACK_RXD"]),
            "on_call_proceed", "")

\* Fault: the user is not told.
glare_silent(c) == [c EXCEPT !.r2_state = "DOUBLE_SEIZURE"]

glare(c) == report_call_disconnection([c EXCEPT !.r2_state = "DOUBLE_SEIZURE"], "GLARE")

\* Fault: r2_seize goes on running.
cas_in_seize_txd_keeps_timer(c, cas) ==
  CASE cas = CAS.SEIZE_ACK -> seize_acked(c)
    [] cas = CAS.SEIZE     -> glare(c)
    [] OTHER               -> invalid_bits(c)

\* SEIZE_TXD and SEIZE_TXD_CLEAR_FWD_PENDING
cas_in_seize_txd(c, cas) ==
  CASE cas = CAS.SEIZE_ACK -> seize_acked(cancel_timer(c, "r2_seize"))
    [] cas = CAS.SEIZE     -> glare(cancel_timer(c, "r2_seize"))
    [] OTHER               -> invalid_bits(c)

\* DOUBLE_SEIZURE and DOUBLE_SEIZURE_CLEAR_FWD_PENDING
cas_in_double_seizure(c, cas) ==
  IF cas # CAS.CLEAR_FORWARD THEN invalid_bits(c)
  ELSE IF c.r2_state = "DOUBLE_SEIZURE" THEN [c EXCEPT !.r2_state = "CLEAR_FWD_RXD"]
  ELSE report_call_end(c)

\* Fault: the end of the call is not reported.
cas_in_cleared_backward_silent(c, cas) ==
  IF cas = CAS.CLEAR_FORWARD THEN c ELSE invalid_bits(c)

\* CLEAR_BACK_TXD and FORCED_RELEASE_TXD
cas_in_cleared_backward(c, cas) ==
  IF cas = CAS.CLEAR_FORWARD THEN report_call_end(c) ELSE invalid_bits(c)

is_backward_disconnection(cas) == cas \in {CAS.CLEAR_BACK, CAS.FORCED_RELEASE}

disconnection_state(cas) ==
  IF cas = CAS.CLEAR_BACK THEN "CLEAR_BACK_RXD" ELSE "FORCED_RELEASE_RXD"

disconnection_cause(cas) ==
  IF cas = CAS.CLEAR_BACK THEN "NORMAL_CLEARING" ELSE "FORCED_RELEASE"

cleared_by_far_end(c, cas) ==
  report_call_disconnection([c EXCEPT !.r2_state = disconnection_state(cas)],
                            disconnection_cause(cas))

answered_by_far_end(c) ==
  Emit([cancel_timer(c, "r2_answer") EXCEPT !.r2_state = "ANSWER_RXD",
          !.call_state = "ANSWERED", !.answered = TRUE],
       "on_call_answered", "")

cas_in_accept_rxd(c, cas) ==
  CASE cas = CAS.ANSWER -> answered_by_far_end(turn_off_mf_engine(c))
    [] is_backward_disconnection(cas) -> cleared_by_far_end(c, cas)
    [] OTHER -> invalid_bits(c)

cas_in_seize_ack_rxd(c, cas) ==
  CASE cas = CAS.ANSWER ->
         IF Ctx.dial_with_dtmf THEN answered_by_far_end(c)
         ELSE [c EXCEPT !.r2_state = "ANSWER_RXD_MF_PENDING"]
    [] is_backward_disconnection(cas) -> cleared_by_far_end(c, cas)
    [] OTHER -> invalid_bits(c)

\* ANSWER_RXD and ANSWER_RXD_MF_PENDING.  With metering pulses a clear back or
\* forced release may only be a pulse.
cas_in_answer_rxd(c, cas) ==
  CASE is_backward_disconnection(cas) ->
         IF Ctx.timers["r2_metering_pulse"] = 0 THEN cleared_by_far_end(c, cas)
         ELSE add_timer([c EXCEPT !.r2_state = disconnection_state(cas)],
                        "r2_metering_pulse")
    [] IS_DTMF_R2 /\ cas = CAS.CLEAR_FORWARD ->
         report_call_disconnection([c EXCEPT !.r2_state = "CLEAR_FWD_RXD"],
                                   "NORMAL_CLEARING")
    [] OTHER -> invalid_bits(c)

\* CLEAR_BACK_TONE_RXD and CLEAR_BACK_AFTER_CLEAR_FWD_RXD
cas_waiting_idle(c, cas) ==
  IF cas = CAS.IDLE THEN report_call_end(c) ELSE invalid_bits(c)

cas_in_clear_fwd_txd(c, cas) ==
  CASE cas = CAS.IDLE -> report_call_end(c)
    [] is_backward_disconnection(cas) ->
         [c EXCEPT !.r2_state = "CLEAR_BACK_AFTER_CLEAR_FWD_RXD"]
    [] OTHER -> invalid_bits(c)

\* CLEAR_BACK_RXD and FORCED_RELEASE_RXD
cas_in_disconnection_rxd(c, cas) ==
  IF Ctx.timers["r2_metering_pulse"] # 0 /\ cas = CAS.ANSWER
  THEN Emit([cancel_timer(c, "r2_metering_pulse") EXCEPT !.r2_state = "ANSWER_RXD"],
            "on_billing_pulse_received", "")
  ELSE invalid_bits(c)

cas_in_blocked(c, cas) ==
  IF cas = CAS.IDLE THEN Emit(c, "on_line_idle", "") ELSE c

cas_in_init(c, cas) ==
  CASE cas = CAS.IDLE  -> Emit(c, "on_line_idle", "")
    [] cas = CAS.BLOCK -> Emit(c, "on_line_blocked", "")
    [] OTHER -> handle_protocol_error(c, "INVALID_R2_STATE")

\* The part of openr2_proto_handle_cas after the label handlecas.
handle_pattern(c0, cas) ==
  LET c == [c0 EXCEPT !.cas_read = cas]
      in(states) == c.r2_state \in states
  IN  CASE c0.inalarm -> c0
        [] ~c0.inalarm /\ in({"IDLE"}) -> cas_in_idle(c, cas)
        [] ~c0.inalarm /\ in({"SEIZE_ACK_TXD", "ANSWER_TXD", "EXECUTING_DOUBLE_ANSWER"}) ->
             cas_in_received_call(c, cas)
        [] ~c0.inalarm /\ in({"SEIZE_TXD", "SEIZE_TXD_CLEAR_FWD_PENDING"}) ->
             cas_in_seize_txd(c, cas)
        [] ~c0.inalarm /\ in({"DOUBLE_SEIZURE", "DOUBLE_SEIZURE_CLEAR_FWD_PENDING"}) ->
             cas_in_double_seizure(c, cas)
        [] ~c0.inalarm /\ in({"CLEAR_BACK_TXD", "FORCED_RELEASE_TXD"}) ->
             cas_in_cleared_backward(c, cas)
        [] ~c0.inalarm /\ in({"ACCEPT_RXD"}) -> cas_in_accept_rxd(c, cas)
        [] ~c0.inalarm /\ in({"SEIZE_ACK_RXD"}) -> cas_in_seize_ack_rxd(c, cas)
        [] ~c0.inalarm /\ in({"ANSWER_RXD", "ANSWER_RXD_MF_PENDING"}) ->
             cas_in_answer_rxd(c, cas)
        [] ~c0.inalarm /\ in({"CLEAR_BACK_TONE_RXD", "CLEAR_BACK_AFTER_CLEAR_FWD_RXD"}) ->
             cas_waiting_idle(c, cas)
        [] ~c0.inalarm /\ in({"CLEAR_FWD_TXD"}) -> cas_in_clear_fwd_txd(c, cas)
        [] ~c0.inalarm /\ in({"CLEAR_BACK_RXD", "FORCED_RELEASE_RXD"}) ->
             cas_in_disconnection_rxd(c, cas)
        [] ~c0.inalarm /\ in({"BLOCKED"}) -> cas_in_blocked(c, cas)
        [] ~c0.inalarm /\ in({"INIT"}) -> cas_in_init(c, cas)
        [] ~c0.inalarm /\ in({"CLEAR_FWD_RXD"}) ->
             handle_protocol_error(c, "INVALID_R2_STATE")

-----------------------------------------------------------------------------
(***************************************************************************)
(* Reading the line, with or without a persistence check.                  *)
(***************************************************************************)
start_persistence_check(c, cas) ==
  [add_timer([c EXCEPT !.persist = cas], "cas_persistence_check")
     EXCEPT !.persist_id = TRUE]

\* Fault: the running check is not cancelled.
cancel_persistence_check_not(c) == c

\* The id becomes 0 only if the timer is found.
cancel_persistence_check(c) ==
  [cancel_timer(c, "cas_persistence_check") EXCEPT
     !.persist_id = @ /\ \A i \in 1..Len(c.sched) :
                            ~Owned(c.sched, "cas_persistence_check", i)]

\* A pattern being checked whose timer id is 0 is taken to have persisted.
persisted(c) == c.persist # NoPattern /\ ~c.persist_id

handle_cas(c, line) ==
  IF \/ persisted(c)
     \/ ~IoFails(c) /\ c.cas_read # line /\ Ctx.timers["cas_persistence_check"] = 0
  THEN handle_pattern([c EXCEPT !.persist = IF persisted(c) THEN NoPattern ELSE @],
                      IF persisted(c) THEN c.persist ELSE line)
  ELSE IF IoFails(c) THEN c
  ELSE IF c.cas_read # line
  THEN start_persistence_check(cancel_persistence_check(c), line)
  ELSE IF c.persist_id THEN [cancel_persistence_check(c) EXCEPT !.persist = NoPattern]
  ELSE c

persistence_check_expired(c0, line) ==
  LET c == [c0 EXCEPT !.persist_id = FALSE]
  IN  IF IoFails(c) THEN c
      ELSE IF c.persist = line THEN handle_cas(c, line)
      ELSE IF c.cas_read # line THEN start_persistence_check(c, line)
      ELSE [c EXCEPT !.persist = NoPattern]

(***************************************************************************)
(* Alarms.                                                                 *)
(***************************************************************************)
\* Fault: only an established call is dropped.
handle_alarm_state_answered_only(c, line) ==
  IF c.inalarm
  THEN [(IF c.call_state = "ANSWERED" THEN handle_protocol_error(c, "ALARM_RAISED")
                                      ELSE c)
          EXCEPT !.cas_read = 0, !.cas_write = 0]
  ELSE handle_cas(IF c.r2_state # "BLOCKED" THEN set_idle(c) ELSE set_blocked(c),
                  line)

\* Fault: the user is not told.
handle_alarm_state_silent(c, line) ==
  IF c.inalarm THEN [set_idle(c) EXCEPT !.cas_read = 0, !.cas_write = 0]
  ELSE handle_cas(IF c.r2_state # "BLOCKED" THEN set_idle(c) ELSE set_blocked(c),
                  line)

handle_alarm_state(c, line) ==
  IF c.inalarm
  THEN [(IF c.call_state # "IDLE" THEN handle_protocol_error(c, "ALARM_RAISED")
                                  ELSE c)
          EXCEPT !.cas_read = 0, !.cas_write = 0]
  ELSE handle_cas(IF c.r2_state # "BLOCKED" THEN set_idle(c) ELSE set_blocked(c),
                  line)

handle_alarm_event(c, on, line) ==
  handle_alarm_state(Emit([c EXCEPT !.inalarm = on], "on_hardware_alarm", ""), line)

(***************************************************************************)
(* Dialling.  ani and dnis are the digits of the strings the user gave,    *)
(* known and numeric whether they are copied (copy_ani, copy_dnis): an ANI *)
(* that is missing or not numeric is unknown, a DNIS that is not numeric   *)
(* is dialled as the empty string.  strncpy keeps what fits and fills the  *)
(* rest of the array with zeros; clearing writes the first cell only.      *)
(***************************************************************************)
stored(digits) ==
  SubSeq(digits, 1, IF Len(digits) < MaxDigits THEN Len(digits) ELSE MaxDigits - 1)

may_dial(c) ==
  /\ ~c.inalarm
  /\ c.call_state = "IDLE"
  /\ c.cas_read = CAS.IDLE

\* Fault: the index is left one before the first digit.
make_call_before_first(c, ani, known, dnis, numeric, restricted) ==
  IF ~may_dial(c) \/ IoFails(c) THEN c
  ELSE [add_timer([set_cas_signal(c, "SEIZE") EXCEPT !.r2_state = "SEIZE_TXD"],
                  "r2_seize") EXCEPT
          !.ani = IF known THEN stored(ani) ELSE <<>>, !.ani_ptr = IF known THEN 1 ELSE 0,
          !.caller_ani_is_restricted = restricted,
          !.dnis = IF numeric THEN stored(dnis) ELSE <<>>,
          !.dnis_old = IF numeric THEN <<>> ELSE @, !.dnis_index = -1,
          !.call_state = "DIALING", !.direction = "FORWARD",
          !.caller_category = Ctx.g2.national_subscriber, !.mf_group = "FWD_INIT"]

make_call(c, ani, known, dnis, numeric, restricted) ==
  LET seized == set_cas_signal(c, "SEIZE")
      call == [add_timer([seized EXCEPT !.r2_state = "SEIZE_TXD"], "r2_seize") EXCEPT
                 !.ani = IF known THEN stored(ani) ELSE <<>>,
                 !.ani_ptr = IF known THEN 1 ELSE 0,
                 !.caller_ani_is_restricted = restricted,
                 !.dnis = IF numeric THEN stored(dnis) ELSE <<>>,
                 !.dnis_old = IF numeric THEN <<>> ELSE @, !.dnis_index = 0,
                 !.call_state = "DIALING", !.direction = "FORWARD",
                 !.caller_category = Ctx.g2.national_subscriber]
  IN  IF ~may_dial(c) THEN c
      ELSE IF IoFails(c) THEN seized
      ELSE IF ~Ctx.dial_with_dtmf THEN [call EXCEPT !.mf_group = "FWD_INIT"]
      ELSE IF MfFails(c) THEN call            \* the DTMF generator fails
      ELSE [call EXCEPT !.mf_group = "DTMF_FWD_INIT"]

(***************************************************************************)
(* DTMF in place of MF tones.                                              *)
(***************************************************************************)
start_dialing_dtmf(c) == [c EXCEPT !.dialing_dtmf = TRUE, !.mf_state = "DIALING_DTMF"]

handle_dtmf_end(c) ==
  LET off == turn_off_mf_engine(c)
  IN  IF c.direction = "FORWARD" THEN on_call_accepted(off, "UNKNOWN")
      ELSE OFFER_CALL([off EXCEPT !.caller_category = Ctx.g2.national_subscriber])

\* more is what on_dnis_digit_received returns.
on_dtmf_received(c, digit, more) ==
  IF ~c.dnis_callback THEN c
  ELSE [Emit([c EXCEPT !.dnis = Append(@, digit)], "on_dnis_digit_received", "")
          EXCEPT !.dnis_callback = more]

-----------------------------------------------------------------------------
(***************************************************************************)
(* Timer callbacks.                                                        *)
(***************************************************************************)
seize_timeout_expired(c) == handle_protocol_error(c, "SEIZE_TIMEOUT")

\* Fault: the seizure is held for ever.
r2_seize_persist_expired_holds(c) == schedule(c, "r2_seize_persist", FALSE)

r2_seize_persist_expired(c) == send_clear_forward(c)

r2_answer_timeout_expired(c) == report_call_disconnection(c, "NO_ANSWER")

r2_set_call_down(c) == report_call_end(c)

r2_metering_pulse(c) ==
  report_call_disconnection(c, IF c.r2_state = "FORCED_RELEASE_RXD"
                               THEN "FORCED_RELEASE" ELSE "NORMAL_CLEARING")

double_answer_handler(c) ==
  CASE c.r2_state = "ANSWER_TXD" ->
         IF IoFails(c) THEN send_clear_backward(c)
         ELSE add_timer([send_clear_backward(c) EXCEPT
                           !.r2_state = "EXECUTING_DOUBLE_ANSWER"],
                        "r2_double_answer")
    [] c.r2_state = "EXECUTING_DOUBLE_ANSWER" ->
         IF IoFails(c) THEN set_cas_signal(c, "ANSWER")
         ELSE [set_cas_signal(c, "ANSWER") EXCEPT !.r2_state = "ANSWER_TXD"]
    [] OTHER -> Emit(c, "library_bug", "r2_double_answer")

run_timer(c, name, line) ==
  CASE name = "mf_fwd_safety"         -> mf_fwd_safety_timeout_expired(c)
    [] name = "r2_seize"              -> seize_timeout_expired(c)
    [] name = "r2_seize_persist"      -> r2_seize_persist_expired(c)
    [] name = "r2_answer"             -> r2_answer_timeout_expired(c)
    [] name = "r2_metering_pulse"     -> r2_metering_pulse(c)
    [] name = "r2_double_answer"      -> double_answer_handler(c)
    [] name = "mf_back_resume_cycle"  -> mf_back_resume_cycle(c)
    [] name = "mf_back_cycle"         -> mf_back_cycle_timeout_expired(c)
    [] name = "r2_answer_delay"       -> r2_answer_delay_expired(c)
    [] name = "r2_set_call_down"      -> r2_set_call_down(c)
    [] name = "cas_persistence_check" -> persistence_check_expired(c, line)
    [] name = "dtmf_start_dial"       -> start_dialing_dtmf(c)

(***************************************************************************)
(* openr2_chan_handle_timers: take every expired timer off the list, then  *)
(* call their callbacks in order.                                          *)
(***************************************************************************)
expire_one(c, i, line) ==
  run_timer([c EXCEPT !.sched = RemoveTimer(@, i)], c.sched[i].name, line)

\* Two timers have expired since the list was last looked at: i, and then j of
\* what is left.  Both are off the list before either callback runs.
expire_two(c, i, j, line) ==
  LET rest == RemoveTimer(c.sched, i)
      taken == [c EXCEPT !.sched = RemoveTimer(rest, j)]
  IN  run_timer(run_timer(taken, c.sched[i].name, line), rest[j].name, line)
=============================================================================
