-------------------------------- MODULE R2Mf --------------------------------
(***************************************************************************)
(* The MF dialogue: the compelled exchange of tones in which the backward  *)
(* side asks for the called number (DNIS), the caller's category and the   *)
(* caller's number (ANI), and the forward side answers each request.       *)
(*                                                                         *)
(* A backward side acts when it detects a tone and mutes its own when the  *)
(* tone stops; a forward side mutes its own when it detects a tone and     *)
(* acts when the tone stops.                                               *)
(***************************************************************************)
EXTENDS R2Chan

\* Fault: one digit too many is asked for.
DNIS_COMPLETE_one_more(c) == Len(c.dnis) > Ctx.max_dnis

DNIS_COMPLETE(c) == Len(c.dnis) >= Ctx.max_dnis

(***************************************************************************)
(* The backward side: what it asks for next.                               *)
(***************************************************************************)
request_calling_party_category(c) ==
  LET plain == Ctx.ga.request_category # 0
  IN  prepare_mf_tone(
        [c EXCEPT !.mf_group = IF plain THEN "GA" ELSE "GC",
                  !.mf_state = "CATEGORY_RQ_TXD"],
        IF plain THEN Ctx.ga.request_category
                 ELSE Ctx.ga.request_category_and_change_to_gc)

\* Accept in group A, without the group B and II signals.
bypass_change_to_g2(c) ==
  OFFER_CALL(prepare_mf_tone([c EXCEPT !.mf_state = "ACCEPTED_TXD"],
                             Ctx.ga.address_complete_charge_setup))

request_change_to_g2(c) ==
  prepare_mf_tone([c EXCEPT !.mf_group = "GB", !.mf_state = "CHG_GII_TXD"],
                  IF c.mf_group = "GC" THEN Ctx.gc.request_change_to_g2
                                       ELSE Ctx.ga.request_change_to_g2)

try_change_to_g2(c) ==
  IF Ctx.immediate_accept THEN bypass_change_to_g2(c) ELSE request_change_to_g2(c)

try_request_calling_party_category(c) ==
  IF Ctx.skip_category THEN try_change_to_g2(c)
  ELSE request_calling_party_category(c)

request_next_dnis_digit(c) ==
  prepare_mf_tone([c EXCEPT !.mf_group = "GA", !.mf_state = "DNIS_RQ_TXD"],
                  IF c.mf_group = "GC"
                  THEN Ctx.gc.request_next_dnis_digit_and_change_to_ga
                  ELSE Ctx.ga.request_next_dnis_digit)

keep_dnis_digit(c, tone) ==
  Emit(IF Len(c.dnis) = MaxDigits - 1 THEN c ELSE [c EXCEPT !.dnis = Append(@, tone)],
       "on_dnis_digit_received", "")

\* What follows a digit of the DNIS, or its end.  The category is asked for
\* after the last digit or, with get_ani_first, after the first one; asked is
\* that it has been.
after_dnis_digit(c, last, asked) ==
  IF ~asked /\ (last \/ Ctx.get_ani_first) THEN try_request_calling_party_category(c)
  ELSE IF last THEN try_change_to_g2(c)
  ELSE request_next_dnis_digit(c)

category_asked(c, first) == Ctx.get_ani_first /\ Len(c.dnis) # first

dnis_digit_received(c, more) ==
  after_dnis_digit(c, DNIS_COMPLETE(c) \/ ~more, category_asked(c, 1))

\* Fault: the end of a number of one digit asks for the category again.
mf_receive_expected_dnis_again(c, tone, more) ==
  IF tone \in Digit THEN dnis_digit_received(keep_dnis_digit(c, tone), more)
  ELSE IF tone = Ctx.g1.no_more_dnis_available
  THEN after_dnis_digit(c, TRUE, category_asked(c, 1))
  ELSE handle_protocol_error(c, "INVALID_MF_TONE")

\* more is what on_dnis_digit_received returns.
mf_receive_expected_dnis(c, tone, more) ==
  IF tone \in Digit THEN dnis_digit_received(keep_dnis_digit(c, tone), more)
  ELSE IF tone = Ctx.g1.no_more_dnis_available
  THEN after_dnis_digit(c, TRUE, category_asked(c, 0))
  ELSE handle_protocol_error(c, "INVALID_MF_TONE")

done_getting_ani(c) ==
  IF ~Ctx.get_ani_first \/ DNIS_COMPLETE(c) THEN try_change_to_g2(c)
  ELSE request_next_dnis_digit(c)

request_next_ani_digit(c) ==
  prepare_mf_tone([c EXCEPT !.mf_state = "ANI_RQ_TXD"],
                  IF Ctx.gc.request_next_ani_digit # 0
                  THEN Ctx.gc.request_next_ani_digit
                  ELSE Ctx.ga.request_next_ani_digit)

\* Fault: one digit too many is asked for.
ani_digit_received_one_more(c) ==
  IF ~Ctx.force_use_max_ani /\ Ctx.max_ani >= Len(c.ani) THEN request_next_ani_digit(c)
  ELSE done_getting_ani(c)

ani_digit_received(c) ==
  IF ~Ctx.force_use_max_ani /\ Ctx.max_ani > Len(c.ani) THEN request_next_ani_digit(c)
  ELSE done_getting_ani(c)

\* Tone 0 asks for the first ANI digit.  Nothing bounds ani[]: a digit past its
\* end falls on ani_ptr, which only a caller uses, and then on ani_len.
mf_receive_expected_ani(c, tone) ==
  IF tone = 0 THEN request_next_ani_digit(c)
  ELSE IF tone \in Digit
  THEN ani_digit_received(Emit([c EXCEPT !.ani = Append(@, tone)],
                               "on_ani_digit_received", ""))
  ELSE IF tone \in {Ctx.g1.caller_ani_is_restricted, Ctx.g1.no_more_ani_available}
  THEN done_getting_ani([c EXCEPT !.caller_ani_is_restricted =
                           @ \/ tone = Ctx.g1.caller_ani_is_restricted])
  ELSE handle_protocol_error(c, "INVALID_MF_TONE")

\* Group C has no by-pass.
category_received(c) ==
  IF Ctx.max_ani > 0 THEN request_next_ani_digit(c)
  ELSE IF c.mf_group = "GC" THEN request_change_to_g2(c)
  ELSE try_change_to_g2(c)

receive_category(c, tone) == category_received([c EXCEPT !.caller_category = tone])

(***************************************************************************)
(* The backward side: a tone starts, a tone stops, a cycle times out.      *)
(***************************************************************************)
expects_dnis(c) ==
  \/ /\ c.mf_group = "BACK_INIT" /\ c.mf_state = "SEIZE_ACK_TXD"
     /\ ~(Ctx.get_ani_first /\ Ctx.ani_can_come_first)
  \/ c.mf_group = "GA" /\ c.mf_state = "DNIS_RQ_TXD"

expects_ani(c) ==
  \/ /\ c.mf_group = "BACK_INIT" /\ c.mf_state = "SEIZE_ACK_TXD"
     /\ Ctx.get_ani_first /\ Ctx.ani_can_come_first
  \/ c.mf_group \in {"GA", "GC"} /\ c.mf_state = "ANI_RQ_TXD"

forward_mf_tone(c, tone, more) ==
  CASE expects_dnis(c) -> mf_receive_expected_dnis(c, tone, more)
    [] expects_ani(c)  -> mf_receive_expected_ani(c, tone)
    [] c.mf_group \in {"GA", "GC"} /\ c.mf_state = "CATEGORY_RQ_TXD" ->
         receive_category(c, tone)
    [] c.mf_group = "GB" /\ c.mf_state = "CHG_GII_TXD" -> OFFER_CALL(c)
    [] OTHER ->
         handle_protocol_error(c, IF c.mf_group \in {"BACK_INIT", "GA", "GB", "GC"}
                                  THEN "INVALID_MF_STATE" ELSE "INVALID_MF_GROUP")

handle_forward_mf_tone(c, tone, more) ==
  forward_mf_tone(cancel_timer(c, "mf_back_cycle"), tone, more)

mf_accepted(c) ==
  add_timer([turn_off_mf_engine(c) EXCEPT !.call_state = "ACCEPTED"],
            "r2_answer_delay")

\* ready_to_answer
r2_answer_delay_expired(c) == on_call_accepted(c, "UNKNOWN")

forward_mf_silence(c) ==
  CASE c.mf_group \in {"GA", "GB"} /\ c.mf_state = "ACCEPTED_TXD" -> mf_accepted(c)
    [] c.mf_group = "GB" /\ c.mf_state = "DISCONNECT_TXD" -> cancel_all_timers(c)
    [] \/ c.mf_group = "GA" /\ c.mf_state # "ACCEPTED_TXD"
       \/ c.mf_group = "GB" /\ c.mf_state = "CHG_GII_TXD"
       \/ c.mf_group = "GC" -> c
    [] OTHER ->
         handle_protocol_error(c, IF c.mf_group = "GB" THEN "INVALID_MF_STATE"
                                  ELSE "INVALID_MF_GROUP")

handle_forward_mf_silence(c) == forward_mf_silence(set_silence(c))

\* Fault: the tone that resumes the cycle is never muted.
mf_back_cycle_timeout_expired_no_pulse(c) ==
  IF /\ Ctx.g1.no_more_dnis_available = 0
     /\ c.mf_group = "GA"
     /\ c.mf_state \in {"DNIS_RQ_TXD", "ANI_RQ_TXD"}
  THEN after_dnis_digit(c, TRUE, Ctx.ani_can_come_first \/ Ctx.get_ani_first)
  ELSE handle_protocol_error(c, "BACK_MF_TIMEOUT")

\* Without a tone for the end of the DNIS, a forward side that has run out of
\* digits stays silent and the backward side goes on by itself.
mf_back_cycle_timeout_expired(c) ==
  IF /\ Ctx.g1.no_more_dnis_available = 0
     /\ c.mf_group = "GA"
     /\ c.mf_state \in {"DNIS_RQ_TXD", "ANI_RQ_TXD"}
  THEN after_dnis_digit(add_timer(c, "mf_back_resume_cycle"), TRUE,
                        Ctx.ani_can_come_first \/ Ctx.get_ani_first)
  ELSE handle_protocol_error(c, "BACK_MF_TIMEOUT")

mf_back_resume_cycle(c) == set_silence(c)

-----------------------------------------------------------------------------
(***************************************************************************)
(* The forward side: answering a request.                                  *)
(***************************************************************************)
wait_for_timeout(c) ==
  add_timer([c EXCEPT !.mf_state = "WAITING_TIMEOUT"], "mf_fwd_safety")

mf_fwd_safety_timeout_expired(c) == handle_protocol_error(c, "FWD_SAFETY_TIMEOUT")

\* dnis[i], for any i: a digit of the number, the zero that ends it, what an
\* earlier number left behind it and, past the array, the memory that follows.
dnis_cell(c, i) ==
  IF i < Len(c.dnis) THEN c.dnis[i + 1]
  ELSE IF i > Len(c.dnis) /\ i <= Len(c.dnis_old) THEN c.dnis_old[i]
  ELSE IF i >= MaxDigits /\ i - MaxDigits < Len(PastDnis) THEN PastDnis[i - MaxDigits + 1]
  ELSE 0

\* The only test is that of the cell.
send_dnis_at(c) ==
  IF dnis_cell(c, c.dnis_index) # 0
  THEN prepare_mf_tone([c EXCEPT !.mf_state = "DNIS_TXD"], dnis_cell(c, c.dnis_index))
  ELSE IF /\ Ctx.g1.no_more_dnis_available # 0
          /\ c.mf_state \notin {"DNIS_END_TXD", "WAITING_TIMEOUT"}
  THEN prepare_mf_tone([c EXCEPT !.mf_state = "DNIS_END_TXD"],
                       Ctx.g1.no_more_dnis_available)
  ELSE wait_for_timeout(c)

\* Fault: asking for a digit before the first one is not clamped.
mf_send_dnis_unclamped(c, offset) ==
  IF c.dnis_index + offset < 0
  THEN wait_for_timeout([c EXCEPT !.dnis_index = @ + offset])
  ELSE send_dnis_at([c EXCEPT !.dnis_index = @ + offset])

mf_send_dnis(c, offset) ==
  send_dnis_at([c EXCEPT !.dnis_index = IF @ + offset < 0 THEN 0 ELSE @ + offset])

mf_send_category(c) ==
  prepare_mf_tone([c EXCEPT !.mf_state = "CATEGORY_TXD", !.category_sent = TRUE],
                  c.caller_category)

send_end_of_ani(c, tone) ==
  prepare_mf_tone([c EXCEPT !.mf_state = "ANI_END_TXD"], tone)

mf_send_ani(c) ==
  LET restricted == Ctx.g1.caller_ani_is_restricted
      no_more == Ctx.g1.no_more_ani_available
  IN  IF /\ c.mf_state = "ANI_END_TXD"
         /\ Ctx.ga.request_next_dnis_digit \in {Ctx.ga.request_next_ani_digit,
                                                Ctx.gc.request_next_ani_digit}
      THEN mf_send_dnis([c EXCEPT !.mf_group = "GI"], 1)
      ELSE IF c.ani_ptr \in 1..Len(c.ani)
      THEN [prepare_mf_tone([c EXCEPT !.mf_state = "ANI_TXD"], c.ani[c.ani_ptr])
              EXCEPT !.ani_ptr = @ + 1]
      ELSE IF c.ani_ptr = 0 \/ c.caller_ani_is_restricted \/ no_more # 0
      THEN send_end_of_ani(c, IF c.ani_ptr = 0 \/ c.caller_ani_is_restricted
                              THEN restricted ELSE no_more)
      ELSE wait_for_timeout(c)

\* Any tone but the first makes get_mode_from_tone report NO_CHARGE when the
\* variant has that tone: the other tests compare with nothing.
get_mode_from_tone(tone) ==
  IF tone = Ctx.gb.accept_call_with_charge THEN "WITH_CHARGE"
  ELSE IF Ctx.gb.accept_call_no_charge # 0 THEN "NO_CHARGE"
  ELSE IF Ctx.gb.special_info_tone # 0 THEN "SPECIAL"
  ELSE "UNKNOWN"

answered_after_accept(c) ==
  Emit([turn_off_mf_engine(cancel_timer(c, "r2_answer")) EXCEPT
          !.r2_state = "ANSWER_RXD", !.call_state = "ANSWERED", !.answered = TRUE],
       "on_call_answered", "")

\* Fault: what the user did in on_call_accepted is not looked at.
answer_was_pending_unchecked(c, told) == answered_after_accept(told)

\* The answer came before the accept tone.  told is the channel when
\* on_call_accepted returns, c the channel before: the user may have acted.
answer_was_pending(c, told) ==
  IF \/ told.r2_state # "ACCEPT_RXD"
     \/ told.mf_state # c.mf_state
     \/ told.call_state # c.call_state
  THEN told
  ELSE answered_after_accept(told)

\* Fault: every accepted call is taken for an answered one.
handle_accept_tone_answers(c, mode) ==
  answer_was_pending(c, on_call_accepted([c EXCEPT !.r2_state = "ACCEPT_RXD"], mode))

handle_accept_tone(c, mode) ==
  IF c.r2_state # "ANSWER_RXD_MF_PENDING"
  THEN on_call_accepted(add_timer([c EXCEPT !.r2_state = "ACCEPT_RXD"], "r2_answer"),
                        mode)
  ELSE answer_was_pending(c, on_call_accepted([c EXCEPT !.r2_state = "ACCEPT_RXD"],
                                              mode))

clear_back_tone(c, cause) ==
  report_call_disconnection([c EXCEPT !.r2_state = "CLEAR_BACK_TONE_RXD"], cause)

\* Which digit, from the one last sent; request_all_dnis_again rewinds.
handle_dnis_request(c, tone) ==
  mf_send_dnis(c, IF tone = Ctx.ga.request_next_dnis_digit THEN 1
                  ELSE IF tone = Ctx.ga.request_dnis_minus_1 THEN -1
                  ELSE IF tone = Ctx.ga.request_dnis_minus_2 THEN -2
                  ELSE IF tone = Ctx.ga.request_dnis_minus_3 THEN -3
                  ELSE -c.dnis_index)

is_dnis_request(tone) ==
  tone \in {Ctx.ga.request_next_dnis_digit, Ctx.ga.request_dnis_minus_1,
            Ctx.ga.request_dnis_minus_2, Ctx.ga.request_dnis_minus_3,
            Ctx.ga.request_all_dnis_again}

handle_group_a_request(c, tone) ==
  LET ga == Ctx.ga
      to_gc == ga.request_category = 0 \/
               ga.request_category = ga.request_category_and_change_to_gc
      category == IF ga.request_category # 0 THEN ga.request_category
                  ELSE ga.request_category_and_change_to_gc
  IN  IF is_dnis_request(tone) THEN handle_dnis_request(c, tone)
      ELSE IF c.category_sent /\ tone = ga.request_next_ani_digit THEN mf_send_ani(c)
      ELSE IF tone = category
      THEN mf_send_category(IF to_gc THEN [c EXCEPT !.mf_group = "GIII"] ELSE c)
      ELSE IF tone = ga.request_change_to_g2
      THEN mf_send_category([c EXCEPT !.mf_group = "GII"])
      ELSE IF tone = ga.address_complete_charge_setup
      THEN handle_accept_tone(c, "WITH_CHARGE")
      ELSE IF tone = ga.network_congestion
      THEN clear_back_tone(c, "NETWORK_CONGESTION")
      ELSE handle_protocol_error(c, "INVALID_MF_TONE")

handle_group_c_request(c, tone) ==
  LET gc == Ctx.gc
  IN  IF tone = gc.request_next_ani_digit THEN mf_send_ani(c)
      ELSE IF tone = gc.request_change_to_g2
      THEN mf_send_category([c EXCEPT !.mf_group = "GII"])
      ELSE IF tone = gc.request_next_dnis_digit_and_change_to_ga
      THEN mf_send_dnis([c EXCEPT !.mf_group = "GI"], 1)
      ELSE IF tone = gc.network_congestion
      THEN clear_back_tone(c, "NETWORK_CONGESTION")
      ELSE handle_protocol_error(c, "INVALID_MF_TONE")

group_b_cause(tone) ==
  IF tone = Ctx.gb.busy_number THEN "BUSY_NUMBER"
  ELSE IF tone = Ctx.gb.network_congestion THEN "NETWORK_CONGESTION"
  ELSE IF tone = Ctx.gb.unallocated_number THEN "UNALLOCATED_NUMBER"
  ELSE IF tone = Ctx.gb.number_changed THEN "NUMBER_CHANGED"
  ELSE "OUT_OF_ORDER"

handle_group_b_request(c, tone) ==
  LET gb == Ctx.gb
  IN  IF tone \in {gb.accept_call_with_charge, gb.accept_call_no_charge,
                   gb.special_info_tone}
      THEN handle_accept_tone(c, get_mode_from_tone(tone))
      ELSE IF tone \in {gb.busy_number, gb.network_congestion, gb.unallocated_number,
                        gb.number_changed, gb.line_out_of_order}
      THEN clear_back_tone(c, group_b_cause(tone))
      ELSE handle_protocol_error(c, "INVALID_MF_TONE")

handle_backward_mf_silence(c, tone) ==
  CASE c.mf_group = "GI"   -> handle_group_a_request(c, tone)
    [] c.mf_group = "GII"  -> handle_group_b_request(c, tone)
    [] c.mf_group = "GIII" -> handle_group_c_request(c, tone)
    [] OTHER -> handle_protocol_error(c, "INVALID_MF_GROUP")

handle_backward_mf_tone(c) == set_silence(cancel_timer(c, "mf_fwd_safety"))

-----------------------------------------------------------------------------
(***************************************************************************)
(* The detector reports a tone (or 0 for silence).  Tones that             *)
(* check_threshold ignores are tones not yet detected.                     *)
(***************************************************************************)
mf_tone_on(c0, tone, more) ==
  LET c == [c0 EXCEPT !.mf_read_tone = tone]
  IN  IF c0.mf_read_tone # 0 THEN handle_protocol_error(c0, "BROKEN_MF_SEQUENCE")
      ELSE CASE c.direction = "BACKWARD" -> handle_forward_mf_tone(c, tone, more)
             [] c.direction = "FORWARD"  -> handle_backward_mf_tone(c)
             [] OTHER -> handle_protocol_error(c, "LIBRARY_BUG")

mf_tone_off(c) ==
  LET done == CASE c.direction = "BACKWARD" -> handle_forward_mf_silence(c)
                [] c.direction = "FORWARD"  ->
                     handle_backward_mf_silence(c, c.mf_read_tone)
                [] OTHER -> handle_protocol_error(c, "LIBRARY_BUG")
  IN  [done EXCEPT !.mf_read_tone = 0]

handle_mf_tone(c, tone, more) ==
  IF tone = c.mf_read_tone THEN c
  ELSE IF tone # 0 THEN mf_tone_on(c, tone, more) ELSE mf_tone_off(c)
=============================================================================
