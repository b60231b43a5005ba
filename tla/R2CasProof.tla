----------------------------- MODULE R2CasProof -----------------------------
(***************************************************************************)
(* The MF dialogue, the CAS machine and the timers: whatever a channel is  *)
(* given (a pattern, a tone, an expired timer, an alarm, a call of the     *)
(* API), it goes from a calm channel to a calm channel.                    *)
(***************************************************************************)
EXTENDS R2ChanProof

(***************************************************************************)
(* The MF dialogue: for every tone, in every group and MF state.           *)
(***************************************************************************)
\* mf_request_calling_party_category.
LEMMA RequestCategory ==
  ASSUME NEW c \in Live
  PROVE  request_calling_party_category(c) \in Calm
<1> DEFINE plain == Ctx.ga.request_category # 0
           g == IF plain THEN "GA" ELSE "GC"
           t == IF plain THEN Ctx.ga.request_category
                ELSE Ctx.ga.request_category_and_change_to_gc
<1>1. g \in MfGroup /\ t \in Tone /\ "CATEGORY_RQ_TXD" \in MfState \ {"OFF"}
  BY GroupATones DEF MfGroup, MfState
<1>2. request_calling_party_category(c)
        = prepare_mf_tone([c EXCEPT !.mf_group = g, !.mf_state = "CATEGORY_RQ_TXD"], t)
  BY DEF request_calling_party_category
<1> HIDE DEF g, t
<1> QED BY <1>1, <1>2, LiveGroupMf, PrepareTone

\* Offering a call that was accepted in group A.
LEMMA BypassG2 ==
  ASSUME NEW c \in Live
  PROVE  bypass_change_to_g2(c) \in Calm
<1>1. "ACCEPTED_TXD" \in MfState \ {"OFF"} BY DEF MfState
<1> QED BY <1>1, GroupATones, LiveMf, PrepareTone, OfferCall DEF bypass_change_to_g2

\* mf_request_change_to_g2.
LEMMA RequestG2 ==
  ASSUME NEW c \in Live
  PROVE  request_change_to_g2(c) \in Calm
<1>1. "GB" \in MfGroup /\ "CHG_GII_TXD" \in MfState \ {"OFF"} BY DEF MfGroup, MfState
<1>2. [c EXCEPT !.mf_group = "GB", !.mf_state = "CHG_GII_TXD"] \in Live
  BY <1>1, LiveGroupMf
<1> QED BY <1>2, GroupATones, GroupCTones, PrepareTone DEF request_change_to_g2

\* The two ways on from a complete DNIS.
LEMMA TryG2 ==
  ASSUME NEW c \in Live
  PROVE  /\ try_change_to_g2(c) \in Calm
         /\ try_request_calling_party_category(c) \in Calm
BY BypassG2, RequestG2, RequestCategory
   DEF try_change_to_g2, try_request_calling_party_category

\* request_next_dnis_digit.
LEMMA RequestDnis ==
  ASSUME NEW c \in Live
  PROVE  request_next_dnis_digit(c) \in Calm
<1>1. "GA" \in MfGroup /\ "DNIS_RQ_TXD" \in MfState \ {"OFF"} BY DEF MfGroup, MfState
<1>2. [c EXCEPT !.mf_group = "GA", !.mf_state = "DNIS_RQ_TXD"] \in Live
  BY <1>1, LiveGroupMf
<1> QED BY <1>2, GroupATones, GroupCTones, PrepareTone DEF request_next_dnis_digit

\* A call may collect any digits that fit.
LEMMA LiveDigits ==
  ASSUME NEW c \in Live
  PROVE  /\ \A q \in Number : [c EXCEPT !.dnis = q] \in Live
         /\ \A q \in Seq(Digit) : [c EXCEPT !.ani = q] \in Live
BY ZenonT(40) DEF Live, Loose, Chan

\* mf_receive_expected_dnis appends a digit only where the array has room for
\* it (r2proto.c:1798): the DNIS of an MF call never outgrows dnis[].
LEMMA DnisFits ==
  ASSUME NEW c \in Live, NEW digit \in Digit, Len(c.dnis) # MaxDigits - 1
  PROVE  Append(c.dnis, digit) \in Number
<1>1. c.dnis \in Number BY Kinds DEF Chan
<1> DEFINE q == Append(c.dnis, digit)
<1>2. q \in Seq(Digit) /\ Len(q) = Len(c.dnis) + 1 BY <1>1 DEF Number
<1>3. Ctx.detect_dtmf \/ Len(q) < MaxDigits
  <2>1. Ctx.detect_dtmf \/ Len(c.dnis) < MaxDigits BY <1>1 DEF Number
  <2>2. Len(c.dnis) \in Nat BY <1>1 DEF Number
  <2> QED BY <1>2, <2>1, <2>2, MaxDigitsAssumption
<1> HIDE DEF q
<1>4. q \in Number BY <1>2, <1>3 DEF Number
<1> QED BY <1>4 DEF q

\* Whatever follows a digit of the DNIS, or its end, is calm.
LEMMA AfterDnisDigit ==
  ASSUME NEW c \in Live, NEW last, NEW asked
  PROVE  after_dnis_digit(c, last, asked) \in Calm
BY TryG2, RequestDnis DEF after_dnis_digit

\* mf_receive_expected_dnis, for every tone and every answer of the user.
LEMMA ReceiveDnis ==
  ASSUME NEW c \in Live, NEW tone \in Tone, NEW more
  PROVE  mf_receive_expected_dnis(c, tone, more) \in Calm
<1>1. CASE tone \in Digit
  <2> DEFINE kept == IF Len(c.dnis) = MaxDigits - 1 THEN c
                     ELSE [c EXCEPT !.dnis = Append(@, tone)]
  <2>2. kept \in Live BY <1>1, DnisFits, LiveDigits
  <2> HIDE DEF kept
  <2>3. "on_dnis_digit_received" \in Callback /\ "" \in Arg BY DEF Callback, Arg
  <2>5. Emit(kept, "on_dnis_digit_received", "") \in Live
    BY <2>2, <2>3, EmitType, Kinds
  <2>4. keep_dnis_digit(c, tone) \in Live BY <2>5 DEF keep_dnis_digit, kept
  <2> QED BY <1>1, <2>4, AfterDnisDigit DEF mf_receive_expected_dnis, dnis_digit_received
<1>2. CASE tone \notin Digit
  <2>1. handle_protocol_error(c, "INVALID_MF_TONE") \in Calm
    BY ProtocolErrorRests, Kinds DEF ProtocolError
  <2> QED BY <1>2, <2>1, AfterDnisDigit DEF mf_receive_expected_dnis
<1> QED BY <1>1, <1>2

\* done_getting_ani.
LEMMA DoneAni ==
  ASSUME NEW c \in Live
  PROVE  done_getting_ani(c) \in Calm
BY TryG2, RequestDnis DEF done_getting_ani

\* Asking for an ANI digit.
LEMMA RequestAni ==
  ASSUME NEW c \in Live
  PROVE  request_next_ani_digit(c) \in Calm
<1>1. "ANI_RQ_TXD" \in MfState \ {"OFF"} BY DEF MfState
<1>2. [c EXCEPT !.mf_state = "ANI_RQ_TXD"] \in Live BY <1>1, LiveMf
<1> QED BY <1>2, GroupATones, GroupCTones, PrepareTone DEF request_next_ani_digit

\* mf_receive_expected_ani, for every tone.
LEMMA ReceiveAni ==
  ASSUME NEW c \in Live, NEW tone \in Tone
  PROVE  mf_receive_expected_ani(c, tone) \in Calm
<1>1. CASE tone \in Digit
  <2> DEFINE told == Emit([c EXCEPT !.ani = Append(@, tone)], "on_ani_digit_received", "")
  <2>1. Append(c.ani, tone) \in Seq(Digit)
    <3>1. c.ani \in Seq(Digit) BY Kinds DEF Chan
    <3> QED BY <1>1, <3>1, AppendType
  <2>2. "on_ani_digit_received" \in Callback /\ "" \in Arg BY DEF Callback, Arg
  <2>3. told \in Live BY <2>1, <2>2, LiveDigits, EmitType, Kinds
  <2>4. \/ mf_receive_expected_ani(c, tone) = request_next_ani_digit(c)
        \/ mf_receive_expected_ani(c, tone) = ani_digit_received(told)
    BY <1>1 DEF mf_receive_expected_ani
  <2> HIDE DEF told
  <2>5. ani_digit_received(told) \in Calm
    BY <2>3, RequestAni, DoneAni DEF ani_digit_received
  <2> QED BY <2>4, <2>5, RequestAni
<1>2. CASE tone \notin Digit
  <2> DEFINE r == c.caller_ani_is_restricted \/ tone = Ctx.g1.caller_ani_is_restricted
             over == [c EXCEPT !.caller_ani_is_restricted = r]
  <2>1. over \in Live
    <3>1. r \in BOOLEAN OBVIOUS
    <3> HIDE DEF r
    <3> QED BY <3>1, ZenonT(40) DEF Live, Loose, Chan
  <2>2. handle_protocol_error(c, "INVALID_MF_TONE") \in Calm
    BY ProtocolErrorRests, Kinds DEF ProtocolError
  <2>3. \/ mf_receive_expected_ani(c, tone) = request_next_ani_digit(c)
        \/ mf_receive_expected_ani(c, tone) = done_getting_ani(over)
        \/ mf_receive_expected_ani(c, tone) = handle_protocol_error(c, "INVALID_MF_TONE")
    BY <1>2 DEF mf_receive_expected_ani
  <2> HIDE DEF over
  <2> QED BY <2>1, <2>2, <2>3, RequestAni, DoneAni
<1> QED BY <1>1, <1>2

\* Receiving the category in group A or C.
LEMMA ReceiveCategory ==
  ASSUME NEW c \in Live, NEW tone \in Tone
  PROVE  receive_category(c, tone) \in Calm
<1>1. [c EXCEPT !.caller_category = tone] \in Live BY DEF Live, Loose, Chan
<1> QED BY <1>1, RequestAni, RequestG2, TryG2 DEF receive_category, category_received

\* handle_forward_mf_tone, in every group and MF state.
LEMMA ForwardTone ==
  ASSUME NEW c0 \in Live, NEW tone \in Tone, NEW more
  PROVE  handle_forward_mf_tone(c0, tone, more) \in Calm
<1>1. ASSUME NEW c \in Live
      PROVE  forward_mf_tone(c, tone, more) \in Calm
  <2>1. handle_protocol_error(c, "INVALID_MF_STATE") \in Calm
        /\ handle_protocol_error(c, "INVALID_MF_GROUP") \in Calm
    BY ProtocolErrorRests, Kinds DEF ProtocolError
  <2>2. /\ mf_receive_expected_ani(c, tone) \in Calm
        /\ mf_receive_expected_dnis(c, tone, more) \in Calm
        /\ receive_category(c, tone) \in Calm
        /\ OFFER_CALL(c) \in Calm
    BY ReceiveAni, ReceiveDnis, ReceiveCategory, OfferCall, Kinds
  <2>3. \/ forward_mf_tone(c, tone, more) = mf_receive_expected_ani(c, tone)
        \/ forward_mf_tone(c, tone, more) = mf_receive_expected_dnis(c, tone, more)
        \/ forward_mf_tone(c, tone, more) = receive_category(c, tone)
        \/ forward_mf_tone(c, tone, more) = OFFER_CALL(c)
        \/ forward_mf_tone(c, tone, more) = handle_protocol_error(c, "INVALID_MF_STATE")
        \/ forward_mf_tone(c, tone, more) = handle_protocol_error(c, "INVALID_MF_GROUP")
    BY DEF forward_mf_tone
  <2> QED BY <2>1, <2>2, <2>3
<1>2. cancel_timer(c0, "mf_back_cycle") \in Live BY CancelTimerCalm, Kinds DEF TimerName
<1> QED BY <1>1, <1>2 DEF handle_forward_mf_tone

\* mf_accepted.
LEMMA MfAccepted ==
  ASSUME NEW c \in Live
  PROVE  mf_accepted(c) \in Live
<1>1. "ACCEPTED" \in CallState \ {"IDLE"} BY DEF CallState
<1>2. [turn_off_mf_engine(c) EXCEPT !.call_state = "ACCEPTED"] \in Live
  BY <1>1, TurnOffLive, LiveCall
<1> QED BY <1>2, AddTimerLive DEF mf_accepted, TimerName

\* handle_forward_mf_silence: muting may have failed the call, and only a
\* call that is left goes on.
LEMMA ForwardSilence ==
  ASSUME NEW c0 \in Live
  PROVE  handle_forward_mf_silence(c0) \in Calm
<1>1. ASSUME NEW c \in Calm
      PROVE  forward_mf_silence(c) \in Calm
  <2>1. handle_protocol_error(c, "INVALID_MF_STATE") \in Calm
        /\ handle_protocol_error(c, "INVALID_MF_GROUP") \in Calm
    BY ProtocolErrorRests, Kinds DEF ProtocolError
  <2>2. \/ c.mf_group \in {"GA", "GB"} /\ forward_mf_silence(c) = mf_accepted(c)
        \/ c.mf_group = "GB" /\ forward_mf_silence(c) = cancel_all_timers(c)
        \/ forward_mf_silence(c) = c
        \/ forward_mf_silence(c) = handle_protocol_error(c, "INVALID_MF_STATE")
        \/ forward_mf_silence(c) = handle_protocol_error(c, "INVALID_MF_GROUP")
    BY DEF forward_mf_silence
  <2>3. c.mf_group \in {"GA", "GB"} => c \in Live BY DEF Calm, AtRest
  <2> QED BY <2>1, <2>2, <2>3, MfAccepted, CancelAllLive, Kinds
<1>2. set_silence(c0) \in Calm BY SetSilence
<1> QED BY <1>1, <1>2 DEF handle_forward_mf_silence

\* mf_back_cycle_timeout_expired.
LEMMA BackCycleTimeout ==
  ASSUME NEW c \in Live
  PROVE  mf_back_cycle_timeout_expired(c) \in Calm
<1>1. add_timer(c, "mf_back_resume_cycle") \in Live BY AddTimerLive DEF TimerName
<1> QED BY <1>1, AfterDnisDigit, ProtocolErrorRests, Kinds
        DEF mf_back_cycle_timeout_expired, ProtocolError

-----------------------------------------------------------------------------
\* A forward side with nothing to send waits.
LEMMA WaitForTimeout ==
  ASSUME NEW c \in Live
  PROVE  wait_for_timeout(c) \in Live
<1>1. "WAITING_TIMEOUT" \in MfState \ {"OFF"} BY DEF MfState
<1>2. [c EXCEPT !.mf_state = "WAITING_TIMEOUT"] \in Live BY <1>1, LiveMf
<1> QED BY <1>2, AddTimerLive DEF wait_for_timeout, TimerName

\* Whatever cell of dnis[] is read, what is there is a digit, the byte of a
\* tone or zero.
LEMMA CellType ==
  ASSUME NEW c \in Live, NEW i \in Nat
  PROVE  dnis_cell(c, i) \in Tone
<1>1. c.dnis \in Seq(Tone) /\ c.dnis_old \in Seq(Tone)
  <2>1. c.dnis \in Seq(Digit) /\ c.dnis_old \in Seq(Tone) BY Kinds DEF Chan, Number
  <2> QED BY <2>1 DEF Digit, Tone
<1>2. i < Len(c.dnis) => c.dnis[i + 1] \in Tone BY <1>1
<1>3. i > Len(c.dnis) /\ i <= Len(c.dnis_old) => c.dnis_old[i] \in Tone BY <1>1
<1>4. i >= MaxDigits /\ i - MaxDigits < Len(PastDnis)
        => PastDnis[i - MaxDigits + 1] \in Tone
  BY PastDnisAssumption, MaxDigitsAssumption
<1>5. 0 \in Tone BY DEF Tone
<1> QED BY <1>2, <1>3, <1>4, <1>5 DEF dnis_cell

\* mf_send_dnis, for every offset, wherever in or behind the number that
\* leads: the cursor does not fall below the first digit, and what is sent is
\* the tone of whatever cell it reaches.
LEMMA SendDnis ==
  ASSUME NEW c0 \in Live, NEW offset \in Int
  PROVE  mf_send_dnis(c0, offset) \in Calm
<1> DEFINE back == IF c0.dnis_index + offset < 0 THEN 0 ELSE c0.dnis_index + offset
<1>1. ASSUME NEW c \in Live
      PROVE  send_dnis_at(c) \in Calm
  <2>1. {"DNIS_TXD", "DNIS_END_TXD"} \subseteq MfState \ {"OFF"} BY DEF MfState
  <2>2. [c EXCEPT !.mf_state = "DNIS_TXD"] \in Live
        /\ [c EXCEPT !.mf_state = "DNIS_END_TXD"] \in Live
    BY <2>1, LiveMf
  <2>3. dnis_cell(c, c.dnis_index) \in Tone
    <3>1. c.dnis_index \in Nat BY Kinds DEF Chan
    <3> QED BY <3>1, CellType
  <2> QED BY <2>2, <2>3, PrepareTone, WaitForTimeout, ForwardTones, Kinds
          DEF send_dnis_at
<1>2. back \in Nat
  <2>1. c0.dnis_index \in Nat BY Kinds DEF Chan
  <2> QED BY <2>1
<1>3. mf_send_dnis(c0, offset) = send_dnis_at([c0 EXCEPT !.dnis_index = back])
  BY DEF mf_send_dnis
<1> HIDE DEF back
<1>4. [c0 EXCEPT !.dnis_index = back] \in Live BY <1>2 DEF Live, Loose, Chan
<1> QED BY <1>1, <1>3, <1>4

\* mf_send_category.
LEMMA SendCategory ==
  ASSUME NEW c \in Live
  PROVE  mf_send_category(c) \in Calm
<1>1. "CATEGORY_TXD" \in MfState \ {"OFF"} /\ c.caller_category \in Tone
  BY Kinds DEF MfState, Chan
<1>2. [c EXCEPT !.mf_state = "CATEGORY_TXD", !.category_sent = TRUE] \in Live
  BY <1>1 DEF Live, Loose, Chan
<1> QED BY <1>1, <1>2, PrepareTone DEF mf_send_category

\* Sending the end of the ANI.
LEMMA EndOfAni ==
  ASSUME NEW c \in Live, NEW tone \in Tone
  PROVE  send_end_of_ani(c, tone) \in Calm
<1>1. "ANI_END_TXD" \in MfState \ {"OFF"} BY DEF MfState
<1> QED BY <1>1, LiveMf, PrepareTone DEF send_end_of_ani

\* The next ANI digit has no bearing on whether there is a call.
LEMMA AniPtrCalm ==
  ASSUME NEW c \in Calm, NEW n \in Nat
  PROVE  [c EXCEPT !.ani_ptr = n] \in Calm
<1>4. c \in Chan BY Kinds
<1>1. [c EXCEPT !.ani_ptr = n] \in Chan BY <1>4 DEF Chan
<1>2. c \in Live => [c EXCEPT !.ani_ptr = n] \in Live BY <1>1 DEF Live, Loose, Chan
<1>3. c \in AtRest => [c EXCEPT !.ani_ptr = n] \in AtRest BY <1>1 DEF AtRest, Loose, Chan
<1> QED BY <1>2, <1>3 DEF Calm

\* mf_send_ani: ani_ptr is followed only while it points into the number.
LEMMA SendAni ==
  ASSUME NEW c \in Live
  PROVE  mf_send_ani(c) \in Calm
<1> DEFINE restricted == Ctx.g1.caller_ani_is_restricted
           next == prepare_mf_tone([c EXCEPT !.mf_state = "ANI_TXD"], c.ani[c.ani_ptr])
           more == c.ani_ptr # 0 /\ c.ani_ptr <= Len(c.ani)
<1>1. c.ani \in Seq(Digit) /\ c.ani_ptr \in Nat BY Kinds DEF Chan
<1>2. more => c.ani[c.ani_ptr] \in Tone
  <2>1. more => c.ani[c.ani_ptr] \in Digit BY <1>1
  <2> QED BY <2>1 DEF Digit, Tone
<1>3. "ANI_TXD" \in MfState \ {"OFF"} /\ "GI" \in MfGroup BY DEF MfState, MfGroup
<1>4. more => next \in Calm BY <1>2, <1>3, LiveMf, PrepareTone
<1>5. more => [next EXCEPT !.ani_ptr = @ + 1] \in Calm
  <2>1. next \in Calm => next.ani_ptr \in Nat BY Kinds DEF Chan
  <2> HIDE DEF next
  <2> QED BY <1>4, <2>1, AniPtrCalm
<1>6. mf_send_dnis([c EXCEPT !.mf_group = "GI"], 1) \in Calm
  BY <1>3, LiveGroup, SendDnis
<1>7. /\ send_end_of_ani(c, restricted) \in Calm
      /\ send_end_of_ani(c, Ctx.g1.no_more_ani_available) \in Calm
      /\ wait_for_timeout(c) \in Calm
  BY EndOfAni, ForwardTones, WaitForTimeout, Kinds
<1>8. \/ mf_send_ani(c) = mf_send_dnis([c EXCEPT !.mf_group = "GI"], 1)
      \/ mf_send_ani(c) = send_end_of_ani(c, restricted)
      \/ more /\ mf_send_ani(c) = [next EXCEPT !.ani_ptr = @ + 1]
      \/ mf_send_ani(c) = send_end_of_ani(c, Ctx.g1.no_more_ani_available)
      \/ mf_send_ani(c) = wait_for_timeout(c)
  BY DEF mf_send_ani
<1> HIDE DEF restricted, next, more
<1> QED BY <1>5, <1>6, <1>7, <1>8

-----------------------------------------------------------------------------
\* The early answer of a call that survived on_call_accepted belongs to that
\* call.
LEMMA AnsweredAfterAccept ==
  ASSUME NEW c \in Live
  PROVE  answered_after_accept(c) \in Calm
<1> DEFINE off == turn_off_mf_engine(cancel_timer(c, "r2_answer"))
           answered == [off EXCEPT !.r2_state = "ANSWER_RXD",
                                   !.call_state = "ANSWERED", !.answered = TRUE]
<1>1. off \in Live BY CancelTimerCalm, TurnOffLive, Kinds DEF TimerName
<1>2. "ANSWER_RXD" \in R2State \ IdleStates BY DEF R2State, IdleStates
<1>3. "on_call_answered" \in Callback /\ "" \in Arg BY DEF Callback, Arg
<1>4. answered_after_accept(c) = Emit(answered, "on_call_answered", "")
  BY DEF answered_after_accept
<1> HIDE DEF off
<1>5. answered \in Live BY <1>1, <1>2, LiveAnswered
<1> HIDE DEF answered
<1> QED BY <1>3, <1>4, <1>5, EmitType, Kinds

\* handle_accept_tone: the answer that came early is reported only if the
\* call survived on_call_accepted.
LEMMA AcceptTone ==
  ASSUME NEW c \in Live, NEW mode \in Mode
  PROVE  handle_accept_tone(c, mode) \in Calm
<1> DEFINE accept == [c EXCEPT !.r2_state = "ACCEPT_RXD"]
<1>1. "ACCEPT_RXD" \in R2State \ IdleStates BY DEF R2State, IdleStates
<1>2. accept \in Live BY <1>1, LiveR2
<1>3. ASSUME NEW told \in Calm
      PROVE  answer_was_pending(c, told) \in Calm
  <2>1. told.call_state = c.call_state => told \in Live BY DEF Calm, AtRest, Live
  <2> QED BY <2>1, AnsweredAfterAccept DEF answer_was_pending
<1> HIDE DEF accept
<1>4. on_call_accepted(accept, mode) \in Calm
      /\ on_call_accepted(add_timer(accept, "r2_answer"), mode) \in Calm
  BY <1>2, AddTimerLive, CallAccepted DEF TimerName
<1> QED BY <1>3, <1>4 DEF handle_accept_tone, accept

\* A rejection by tone.
LEMMA ClearBackTone ==
  ASSUME NEW c \in Live, NEW cause \in Cause
  PROVE  clear_back_tone(c, cause) \in Calm
<1>1. "CLEAR_BACK_TONE_RXD" \in R2State \ IdleStates BY DEF R2State, IdleStates
<1> QED BY <1>1, LiveR2, ReportDisconnection DEF clear_back_tone

\* A request for some digit of the DNIS.
LEMMA DnisRequest ==
  ASSUME NEW c \in Live, NEW tone
  PROVE  handle_dnis_request(c, tone) \in Calm
<1>1. c.dnis_index \in Nat BY Kinds DEF Chan
<1>2. -c.dnis_index \in Int BY <1>1
<1> QED BY <1>2, SendDnis DEF handle_dnis_request

\* handle_group_a_request, for every tone.
LEMMA GroupARequest ==
  ASSUME NEW c \in Live, NEW tone
  PROVE  handle_group_a_request(c, tone) \in Calm
<1>1. {"GII", "GIII"} \subseteq MfGroup BY DEF MfGroup
<1>2. [c EXCEPT !.mf_group = "GII"] \in Live /\ [c EXCEPT !.mf_group = "GIII"] \in Live
  BY <1>1, LiveGroup
<1>3. "WITH_CHARGE" \in Mode /\ "NETWORK_CONGESTION" \in Cause
      /\ "INVALID_MF_TONE" \in ProtocolError
  BY DEF Mode, Cause, ProtocolError
<1>4. handle_protocol_error(c, "INVALID_MF_TONE") \in Calm BY <1>3, ProtocolErrorRests, Kinds
<1>5. /\ handle_dnis_request(c, tone) \in Calm /\ mf_send_ani(c) \in Calm
      /\ mf_send_category(c) \in Calm
      /\ mf_send_category([c EXCEPT !.mf_group = "GII"]) \in Calm
      /\ mf_send_category([c EXCEPT !.mf_group = "GIII"]) \in Calm
      /\ handle_accept_tone(c, "WITH_CHARGE") \in Calm
      /\ clear_back_tone(c, "NETWORK_CONGESTION") \in Calm
  BY <1>2, <1>3, DnisRequest, SendAni, SendCategory, AcceptTone, ClearBackTone
<1> QED BY <1>4, <1>5 DEF handle_group_a_request

\* handle_group_c_request, for every tone.
LEMMA GroupCRequest ==
  ASSUME NEW c \in Live, NEW tone
  PROVE  handle_group_c_request(c, tone) \in Calm
<1>1. {"GII", "GI"} \subseteq MfGroup BY DEF MfGroup
<1>2. [c EXCEPT !.mf_group = "GII"] \in Live /\ [c EXCEPT !.mf_group = "GI"] \in Live
  BY <1>1, LiveGroup
<1>3. "NETWORK_CONGESTION" \in Cause /\ "INVALID_MF_TONE" \in ProtocolError
  BY DEF Cause, ProtocolError
<1>4. handle_protocol_error(c, "INVALID_MF_TONE") \in Calm BY <1>3, ProtocolErrorRests, Kinds
<1>5. /\ mf_send_ani(c) \in Calm
      /\ mf_send_category([c EXCEPT !.mf_group = "GII"]) \in Calm
      /\ mf_send_dnis([c EXCEPT !.mf_group = "GI"], 1) \in Calm
      /\ clear_back_tone(c, "NETWORK_CONGESTION") \in Calm
  BY <1>2, <1>3, SendAni, SendCategory, SendDnis, ClearBackTone
<1> QED BY <1>4, <1>5 DEF handle_group_c_request

\* handle_group_b_request, for every tone.
LEMMA GroupBRequest ==
  ASSUME NEW c \in Live, NEW tone
  PROVE  handle_group_b_request(c, tone) \in Calm
<1>1. get_mode_from_tone(tone) \in Mode BY DEF get_mode_from_tone, Mode
<1>2. group_b_cause(tone) \in Cause BY DEF group_b_cause, Cause
<1>3. handle_protocol_error(c, "INVALID_MF_TONE") \in Calm
  BY ProtocolErrorRests, Kinds DEF ProtocolError
<1> QED BY <1>1, <1>2, <1>3, AcceptTone, ClearBackTone DEF handle_group_b_request

\* handle_backward_mf_silence, in every group.
LEMMA BackwardSilence ==
  ASSUME NEW c \in Live, NEW tone
  PROVE  handle_backward_mf_silence(c, tone) \in Calm
<1>1. handle_protocol_error(c, "INVALID_MF_GROUP") \in Calm
  BY ProtocolErrorRests, Kinds DEF ProtocolError
<1> QED BY <1>1, GroupARequest, GroupBRequest, GroupCRequest DEF handle_backward_mf_silence

\* handle_backward_mf_tone.
LEMMA BackwardTone ==
  ASSUME NEW c \in Live
  PROVE  handle_backward_mf_tone(c) \in Calm
<1>1. cancel_timer(c, "mf_fwd_safety") \in Live BY CancelTimerCalm, Kinds DEF TimerName
<1> QED BY <1>1, SetSilence DEF handle_backward_mf_tone

\* A tone starts; on a channel that has no call it is an error.
LEMMA ToneOn ==
  ASSUME NEW c0 \in Calm, NEW tone \in Tone, NEW more
  PROVE  mf_tone_on(c0, tone, more) \in Calm
<1> DEFINE c == [c0 EXCEPT !.mf_read_tone = tone]
<1>1. handle_protocol_error(c0, "BROKEN_MF_SEQUENCE") \in Calm
  BY ProtocolErrorRests, Kinds DEF ProtocolError
<1>2. c \in Loose /\ c.direction = c0.direction
  <2>1. c0 \in Loose BY Kinds
  <2> QED BY <2>1 DEF Loose, Chan
<1>3. handle_protocol_error(c, "LIBRARY_BUG") \in Calm
  <2> HIDE DEF c
  <2> QED BY <1>2, ProtocolErrorRests, Kinds DEF ProtocolError
<1>4. c0 \in Live => c \in Live BY <1>2 DEF Live, Loose, Chan
<1>5. c0 \in AtRest => c.direction = "STOPPED" BY <1>2 DEF AtRest
<1>6. c0 \in Live => handle_forward_mf_tone(c, tone, more) \in Calm
                     /\ handle_backward_mf_tone(c) \in Calm
  <2> HIDE DEF c
  <2> QED BY <1>4, ForwardTone, BackwardTone
<1>7. \/ mf_tone_on(c0, tone, more) = handle_protocol_error(c0, "BROKEN_MF_SEQUENCE")
      \/ c.direction # "STOPPED"
         /\ mf_tone_on(c0, tone, more) = handle_forward_mf_tone(c, tone, more)
      \/ c.direction # "STOPPED"
         /\ mf_tone_on(c0, tone, more) = handle_backward_mf_tone(c)
      \/ mf_tone_on(c0, tone, more) = handle_protocol_error(c, "LIBRARY_BUG")
  BY DEF mf_tone_on
<1> HIDE DEF c
<1> QED BY <1>1, <1>3, <1>5, <1>6, <1>7 DEF Calm

\* A tone stops during a call.
LEMMA ToneOff ==
  ASSUME NEW c \in Live
  PROVE  mf_tone_off(c) \in Calm
<1>1. handle_protocol_error(c, "LIBRARY_BUG") \in Calm
  BY ProtocolErrorRests, Kinds DEF ProtocolError
<1> QED BY <1>1, ForwardSilence, BackwardSilence, MuteCalm DEF mf_tone_off

\* handle_mf_tone: at rest no tone is being received, so none can stop.
LEMMA MfTone ==
  ASSUME NEW c \in Calm, NEW tone \in Tone, NEW more
  PROVE  handle_mf_tone(c, tone, more) \in Calm
<1>1. tone # 0 => handle_mf_tone(c, tone, more) \in Calm
  BY ToneOn DEF handle_mf_tone
<1>2. tone = 0 /\ c \in AtRest => handle_mf_tone(c, tone, more) = c
  BY DEF handle_mf_tone, AtRest
<1>3. tone = 0 /\ c \in Live => handle_mf_tone(c, tone, more) \in Calm
  BY ToneOff DEF handle_mf_tone
<1> QED BY <1>1, <1>2, <1>3 DEF Calm

-----------------------------------------------------------------------------
(***************************************************************************)
(* The CAS machine.                                                        *)
(***************************************************************************)
\* An unexpected pattern.
LEMMA InvalidBits ==
  ASSUME NEW c \in Loose
  PROVE  invalid_bits(c) \in Calm
BY ProtocolErrorRests, Kinds DEF invalid_bits, ProtocolError

\* A seizure on an idle line out of alarm starts a call, or is refused.
LEMMA IncomingCall ==
  ASSUME NEW c \in AtRest, ~c.inalarm
  PROVE  handle_incoming_call(c) \in Calm
<1> DEFINE mfc == [c EXCEPT !.mf_state = "SEIZE_ACK_TXD", !.mf_group = "BACK_INIT"]
           dtmf == [c EXCEPT !.mf_state = "DETECTING_DTMF",
                             !.mf_group = "DTMF_BACK_INIT", !.detecting_dtmf = TRUE]
           pick == IF Ctx.detect_dtmf THEN dtmf ELSE mfc
           begun == [pick EXCEPT !.r2_state = "SEIZE_ACK_TXD",
                                 !.call_state = "COLLECTING", !.direction = "BACKWARD"]
           call == Emit(begun, "on_call_init", "")
<1>1. /\ "SEIZE_ACK_TXD" \in MfState \ {"OFF"} /\ "DETECTING_DTMF" \in MfState \ {"OFF"}
      /\ "BACK_INIT" \in MfGroup /\ "DTMF_BACK_INIT" \in MfGroup
  BY DEF MfState, MfGroup
<1>2. /\ "SEIZE_ACK_TXD" \in R2State \ IdleStates /\ "COLLECTING" \in CallState \ {"IDLE"}
      /\ "BACKWARD" \in Direction
  BY DEF R2State, IdleStates, CallState, Direction
<1>3. c \in Chan BY Kinds
<1>4. mfc \in Chan /\ mfc.mf_state # "OFF" /\ ~mfc.inalarm BY <1>1, <1>3 DEF Chan
<1>5. Ctx.detect_dtmf => dtmf \in Chan /\ dtmf.mf_state # "OFF" /\ ~dtmf.inalarm
  BY <1>1, <1>3 DEF Chan
<1> HIDE DEF mfc, dtmf
<1>6. pick \in Chan /\ pick.mf_state # "OFF" /\ ~pick.inalarm BY <1>4, <1>5
<1> HIDE DEF pick
<1>7. begun \in Chan BY <1>2, <1>6 DEF Chan
<1>8. begun \in Live BY <1>2, <1>6, <1>7 DEF Live, Loose, Chan
<1> HIDE DEF begun
<1>9. "on_call_init" \in Callback /\ "" \in Arg BY DEF Callback, Arg
<1>10. call \in Live BY <1>8, <1>9, EmitType, Kinds
<1>11. \/ handle_incoming_call(c) = handle_protocol_error(c, "INTERNAL_ERROR")
       \/ handle_incoming_call(c) = ack_call(call)
       \/ handle_incoming_call(c) = call
  BY DEF handle_incoming_call, mfc, dtmf, pick, begun
<1> HIDE DEF call
<1> QED BY <1>10, <1>11, AckCalm, ProtocolErrorRests, Kinds DEF ProtocolError

\* on_line_blocked and on_line_idle.
LEMMA LineCallbacks ==
  ASSUME NEW c \in Calm
  PROVE  Emit(c, "on_line_blocked", "") \in Calm /\ Emit(c, "on_line_idle", "") \in Calm
<1>1. {"on_line_blocked", "on_line_idle"} \subseteq Callback /\ "" \in Arg
  BY DEF Callback, Arg
<1> QED BY <1>1, EmitType, Kinds

\* A pattern read in IDLE.
LEMMA CasIdle ==
  ASSUME NEW c \in AtRest, ~c.inalarm, NEW cas
  PROVE  cas_in_idle(c, cas) \in Calm
<1>1. c \in Calm /\ c \in Loose BY Kinds
<1> QED BY <1>1, LineCallbacks, IncomingCall, InvalidBits DEF cas_in_idle

\* A pattern read in INIT or BLOCKED starts no call.
LEMMA CasInit ==
  ASSUME NEW c \in AtRest, NEW cas
  PROVE  cas_in_init(c, cas) \in Calm /\ cas_in_blocked(c, cas) \in Calm
<1>1. c \in Calm /\ handle_protocol_error(c, "INVALID_R2_STATE") \in Calm
  BY ProtocolErrorRests, Kinds DEF ProtocolError
<1> QED BY <1>1, LineCallbacks DEF cas_in_init, cas_in_blocked

\* The far end clears.
LEMMA FarEndClears ==
  ASSUME NEW c \in Live, NEW s \in R2State \ IdleStates, NEW cause \in Cause
  PROVE  report_call_disconnection([c EXCEPT !.r2_state = s], cause) \in Calm
BY LiveR2, ReportDisconnection

\* A pattern read while a received call is up.
LEMMA CasReceived ==
  ASSUME NEW c \in Live, NEW cas
  PROVE  cas_in_received_call(c, cas) \in Calm
<1>1. "CLEAR_FWD_RXD" \in R2State \ IdleStates /\ "NORMAL_CLEARING" \in Cause
  BY DEF R2State, IdleStates, Cause
<1> QED BY <1>1, FarEndClears, InvalidBits, Kinds DEF cas_in_received_call

\* The first digit goes out, or the DTMF dialling timer starts.
LEMMA StartDialling ==
  ASSUME NEW c \in Live
  PROVE  start_dialling(c) \in Calm
<1>1. "GI" \in MfGroup BY DEF MfGroup
<1>2. [c EXCEPT !.mf_group = "GI"] \in Live BY <1>1, LiveGroup
<1>3. add_timer(add_timer(c, "dtmf_start_dial"), "r2_answer") \in Live
  BY AddTimerLive DEF TimerName
<1> QED BY <1>2, <1>3, SendDnis, Kinds DEF start_dialling

\* A pattern read while the seizure is not acknowledged, glare included.
LEMMA CasSeizeTxd ==
  ASSUME NEW c0 \in Live, NEW cas
  PROVE  cas_in_seize_txd(c0, cas) \in Calm
<1>1. {"SEIZE_ACK_RXD", "DOUBLE_SEIZURE"} \subseteq R2State \ IdleStates
      /\ "GLARE" \in Cause
  BY DEF R2State, IdleStates, Cause
<1>2. ASSUME NEW c \in Live
      PROVE  seize_acked(c) \in Calm
  <2>1. "on_call_proceed" \in Callback /\ "" \in Arg BY DEF Callback, Arg
  <2>2. start_dialling([c EXCEPT !.r2_state = "SEIZE_ACK_RXD"]) \in Calm
    BY <1>1, LiveR2, StartDialling
  <2>3. send_clear_forward(c) \in Calm BY SendClearForward, Kinds
  <2> QED BY <2>1, <2>2, <2>3, EmitType, Kinds DEF seize_acked
<1>3. ASSUME NEW c \in Live
      PROVE  glare(c) \in Calm
  BY <1>1, FarEndClears DEF glare
<1>4. cancel_timer(c0, "r2_seize") \in Live BY CancelTimerCalm, Kinds DEF TimerName
<1>5. invalid_bits(c0) \in Calm BY InvalidBits, Kinds
<1> QED BY <1>2, <1>3, <1>4, <1>5 DEF cas_in_seize_txd

\* A pattern read after glare.
LEMMA CasDoubleSeizure ==
  ASSUME NEW c \in Live, NEW cas
  PROVE  cas_in_double_seizure(c, cas) \in Calm
<1>1. "CLEAR_FWD_RXD" \in R2State \ IdleStates BY DEF R2State, IdleStates
<1>2. [c EXCEPT !.r2_state = "CLEAR_FWD_RXD"] \in Live BY <1>1, LiveR2
<1> QED BY <1>2, CallEndRests, InvalidBits, Kinds DEF cas_in_double_seizure

\* A pattern read while waiting for the last signal of the call.
LEMMA CasCleared ==
  ASSUME NEW c \in Live, NEW cas
  PROVE  cas_in_cleared_backward(c, cas) \in Calm /\ cas_waiting_idle(c, cas) \in Calm
BY CallEndRests, InvalidBits, Kinds DEF cas_in_cleared_backward, cas_waiting_idle

\* Clear back and forced release.
LEMMA ClearedByFarEnd ==
  ASSUME NEW c \in Live, NEW cas
  PROVE  /\ cleared_by_far_end(c, cas) \in Calm
         /\ [c EXCEPT !.r2_state = disconnection_state(cas)] \in Live
<1>1. disconnection_state(cas) \in R2State \ IdleStates
  BY DEF R2State, IdleStates, disconnection_state
<1>2. disconnection_cause(cas) \in Cause BY DEF Cause, disconnection_cause
<1> QED BY <1>1, <1>2, LiveR2, ReportDisconnection DEF cleared_by_far_end

\* The far end answers.
LEMMA AnsweredByFarEnd ==
  ASSUME NEW c \in Live
  PROVE  answered_by_far_end(c) \in Live
<1> DEFINE d == cancel_timer(c, "r2_answer")
<1>1. d \in Live BY CancelTimerCalm, Kinds DEF TimerName
<1>2. "ANSWER_RXD" \in R2State \ IdleStates BY DEF R2State, IdleStates
<1>3. "on_call_answered" \in Callback /\ "" \in Arg BY DEF Callback, Arg
<1>4. answered_by_far_end(c) =
        Emit([d EXCEPT !.r2_state = "ANSWER_RXD", !.call_state = "ANSWERED",
                       !.answered = TRUE], "on_call_answered", "")
  BY DEF answered_by_far_end
<1> HIDE DEF d
<1>5. [d EXCEPT !.r2_state = "ANSWER_RXD", !.call_state = "ANSWERED",
                !.answered = TRUE] \in Live
  BY <1>1, <1>2, LiveAnswered
<1> DEFINE e == [d EXCEPT !.r2_state = "ANSWER_RXD", !.call_state = "ANSWERED",
                          !.answered = TRUE]
<1>6. e \in Live /\ e \in Chan BY <1>5, Kinds
<1>7. answered_by_far_end(c) = Emit(e, "on_call_answered", "") BY <1>4
<1> HIDE DEF e
<1>8. Emit(e, "on_call_answered", "") \in Live BY <1>3, <1>6, EmitType
<1> QED BY <1>7, <1>8

\* A pattern read before the answer.
LEMMA CasAccept ==
  ASSUME NEW c \in Live, NEW cas
  PROVE  cas_in_accept_rxd(c, cas) \in Calm /\ cas_in_seize_ack_rxd(c, cas) \in Calm
<1>1. "ANSWER_RXD_MF_PENDING" \in R2State \ IdleStates BY DEF R2State, IdleStates
<1>2. [c EXCEPT !.r2_state = "ANSWER_RXD_MF_PENDING"] \in Calm BY <1>1, LiveR2, Kinds
<1>3. answered_by_far_end(turn_off_mf_engine(c)) \in Calm /\ answered_by_far_end(c) \in Calm
  BY TurnOffLive, AnsweredByFarEnd, Kinds
<1>4. cleared_by_far_end(c, cas) \in Calm /\ invalid_bits(c) \in Calm
  BY ClearedByFarEnd, InvalidBits, Kinds
<1> QED BY <1>2, <1>3, <1>4 DEF cas_in_accept_rxd, cas_in_seize_ack_rxd

\* A pattern read during the conversation.
LEMMA CasAnswer ==
  ASSUME NEW c \in Live, NEW cas
  PROVE  cas_in_answer_rxd(c, cas) \in Calm
<1> DEFINE cleared == report_call_disconnection([c EXCEPT !.r2_state = "CLEAR_FWD_RXD"],
                                                "NORMAL_CLEARING")
           pulse == add_timer([c EXCEPT !.r2_state = disconnection_state(cas)],
                              "r2_metering_pulse")
<1>1. "CLEAR_FWD_RXD" \in R2State \ IdleStates /\ "NORMAL_CLEARING" \in Cause
  BY DEF R2State, IdleStates, Cause
<1>2. cleared \in Calm BY <1>1, FarEndClears
<1>3. pulse \in Calm BY ClearedByFarEnd, AddTimerLive, Kinds DEF TimerName
<1>4. cleared_by_far_end(c, cas) \in Calm /\ invalid_bits(c) \in Calm
  BY ClearedByFarEnd, InvalidBits, Kinds
<1>5. \/ cas_in_answer_rxd(c, cas) = cleared \/ cas_in_answer_rxd(c, cas) = pulse
      \/ cas_in_answer_rxd(c, cas) = cleared_by_far_end(c, cas)
      \/ cas_in_answer_rxd(c, cas) = invalid_bits(c)
  BY DEF cas_in_answer_rxd
<1> HIDE DEF cleared, pulse
<1> QED BY <1>2, <1>3, <1>4, <1>5

\* A pattern read after clear forward was sent.
LEMMA CasClearFwdTxd ==
  ASSUME NEW c \in Live, NEW cas
  PROVE  cas_in_clear_fwd_txd(c, cas) \in Calm
<1>1. "CLEAR_BACK_AFTER_CLEAR_FWD_RXD" \in R2State \ IdleStates BY DEF R2State, IdleStates
<1>2. [c EXCEPT !.r2_state = "CLEAR_BACK_AFTER_CLEAR_FWD_RXD"] \in Calm
  BY <1>1, LiveR2, Kinds
<1>3. report_call_end(c) \in Calm /\ invalid_bits(c) \in Calm BY CallEndRests, InvalidBits, Kinds
<1> QED BY <1>2, <1>3 DEF cas_in_clear_fwd_txd

\* A pattern read while a metering pulse may be under way.
LEMMA CasDisconnection ==
  ASSUME NEW c \in Live, NEW cas
  PROVE  cas_in_disconnection_rxd(c, cas) \in Calm
<1> DEFINE d == cancel_timer(c, "r2_metering_pulse")
           e == [d EXCEPT !.r2_state = "ANSWER_RXD"]
<1>1. d \in Live BY CancelTimerCalm, Kinds DEF TimerName
<1>2. "ANSWER_RXD" \in R2State \ IdleStates BY DEF R2State, IdleStates
<1>3. "on_billing_pulse_received" \in Callback /\ "" \in Arg BY DEF Callback, Arg
<1>4. e \in Live BY <1>1, <1>2, LiveR2
<1>5. Emit(e, "on_billing_pulse_received", "") \in Calm BY <1>3, <1>4, EmitType, Kinds
<1>6. \/ cas_in_disconnection_rxd(c, cas) = Emit(e, "on_billing_pulse_received", "")
      \/ cas_in_disconnection_rxd(c, cas) = invalid_bits(c)
  BY DEF cas_in_disconnection_rxd
<1> HIDE DEF d, e
<1> QED BY <1>5, <1>6, InvalidBits, Kinds

\* Storing the pattern read.
LEMMA ReadBits ==
  ASSUME NEW c \in Calm, NEW cas \in cas_r2_bits
  PROVE  LET d == [c EXCEPT !.cas_read = cas]
         IN  /\ c \in Live => d \in Live
             /\ c \in AtRest => d \in AtRest
             /\ d.r2_state = c.r2_state /\ d.inalarm = c.inalarm
<1> DEFINE d == [c EXCEPT !.cas_read = cas]
<1>1. c \in Chan BY Kinds
<1>2. d \in Chan BY <1>1 DEF Chan
<1>3. c \in Live => d \in Live BY <1>2 DEF Live, Loose, Chan
<1>4. c \in AtRest => d \in AtRest BY <1>2 DEF AtRest, Loose, Chan
<1> QED BY <1>1, <1>3, <1>4 DEF Chan

\* openr2_proto_handle_cas from the label handlecas on: every state of the
\* channel, every pattern.
LEMMA Pattern ==
  ASSUME NEW c0 \in Calm, NEW cas \in cas_r2_bits
  PROVE  handle_pattern(c0, cas) \in Calm
<1> DEFINE c == [c0 EXCEPT !.cas_read = cas]
<1>1. CASE c0.inalarm BY <1>1 DEF handle_pattern
<1>2. CASE ~c0.inalarm
  <2>1. /\ c0 \in Live => c \in Live
        /\ c0 \in AtRest => c \in AtRest
        /\ c.r2_state = c0.r2_state /\ c.inalarm = c0.inalarm
    BY ReadBits
  <2>2. c.r2_state \in R2State
    <3>1. c0 \in Chan BY Kinds
    <3> QED BY <2>1, <3>1 DEF Chan
  <2>3. \/ c.r2_state = "IDLE" /\ handle_pattern(c0, cas) = cas_in_idle(c, cas)
        \/ c.r2_state = "BLOCKED" /\ handle_pattern(c0, cas) = cas_in_blocked(c, cas)
        \/ c.r2_state = "INIT" /\ handle_pattern(c0, cas) = cas_in_init(c, cas)
        \/ /\ c.r2_state \notin IdleStates
           /\ \/ handle_pattern(c0, cas) = cas_in_received_call(c, cas)
              \/ handle_pattern(c0, cas) = cas_in_seize_txd(c, cas)
              \/ handle_pattern(c0, cas) = cas_in_double_seizure(c, cas)
              \/ handle_pattern(c0, cas) = cas_in_cleared_backward(c, cas)
              \/ handle_pattern(c0, cas) = cas_in_accept_rxd(c, cas)
              \/ handle_pattern(c0, cas) = cas_in_seize_ack_rxd(c, cas)
              \/ handle_pattern(c0, cas) = cas_in_answer_rxd(c, cas)
              \/ handle_pattern(c0, cas) = cas_waiting_idle(c, cas)
              \/ handle_pattern(c0, cas) = cas_in_clear_fwd_txd(c, cas)
              \/ handle_pattern(c0, cas) = cas_in_disconnection_rxd(c, cas)
              \/ handle_pattern(c0, cas) = handle_protocol_error(c, "INVALID_R2_STATE")
    <3> HIDE DEF c
    <3> QED BY <1>2, <2>2, ZenonT(40) DEF handle_pattern, R2State, IdleStates, c
  <2> HIDE DEF c
  <2>4. CASE c0 \in AtRest
    <3>1. c \in AtRest /\ ~c.inalarm /\ c.r2_state \in IdleStates
      BY <1>2, <2>1, <2>4 DEF AtRest
    <3>2. cas_in_idle(c, cas) \in Calm /\ cas_in_blocked(c, cas) \in Calm
          /\ cas_in_init(c, cas) \in Calm
      BY <3>1, CasIdle, CasInit
    <3> QED BY <2>3, <3>1, <3>2
  <2>5. CASE c0 \in Live
    <3>1. c \in Live /\ c.r2_state \notin IdleStates BY <2>1, <2>5 DEF Live
    <3>2. c.r2_state \notin {"IDLE", "BLOCKED", "INIT"} BY <3>1 DEF IdleStates
    <3>3. /\ cas_in_received_call(c, cas) \in Calm
          /\ cas_in_seize_txd(c, cas) \in Calm
          /\ cas_in_double_seizure(c, cas) \in Calm
          /\ cas_in_cleared_backward(c, cas) \in Calm
          /\ cas_in_accept_rxd(c, cas) \in Calm
          /\ cas_in_seize_ack_rxd(c, cas) \in Calm
          /\ cas_in_answer_rxd(c, cas) \in Calm
          /\ cas_waiting_idle(c, cas) \in Calm
          /\ cas_in_clear_fwd_txd(c, cas) \in Calm
          /\ cas_in_disconnection_rxd(c, cas) \in Calm
      BY <3>1, CasReceived, CasSeizeTxd, CasDoubleSeizure, CasCleared, CasAccept,
         CasAnswer, CasClearFwdTxd, CasDisconnection
    <3>4. handle_protocol_error(c, "INVALID_R2_STATE") \in Calm
      BY <3>1, ProtocolErrorRests, Kinds DEF ProtocolError
    <3> QED BY <2>3, <3>2, <3>3, <3>4
  <2> QED BY <2>4, <2>5 DEF Calm
<1> QED BY <1>1, <1>2

-----------------------------------------------------------------------------
\* The pattern being checked has no bearing on whether there is a call.
LEMMA PersistCalm ==
  ASSUME NEW c \in Calm, NEW p \in cas_r2_bits \cup {NoPattern}, NEW b \in BOOLEAN
  PROVE  [c EXCEPT !.persist = p] \in Calm /\ [c EXCEPT !.persist_id = b] \in Calm
<1> DEFINE d == [c EXCEPT !.persist = p]
           e == [c EXCEPT !.persist_id = b]
<1>1. c \in Chan BY Kinds
<1>2. d \in Chan /\ e \in Chan BY <1>1 DEF Chan
<1>3. c \in Live => d \in Live /\ e \in Live BY <1>2 DEF Live, Loose, Chan
<1>4. c \in AtRest => d \in AtRest /\ e \in AtRest BY <1>2, ZenonT(40) DEF AtRest, Loose, Chan
<1> HIDE DEF d, e
<1>5. d \in Calm /\ e \in Calm BY <1>3, <1>4 DEF Calm
<1> QED BY <1>5 DEF d, e

\* Starting a persistence check.
LEMMA StartCheck ==
  ASSUME NEW c \in Calm, NEW cas \in cas_r2_bits
  PROVE  start_persistence_check(c, cas) \in Calm
<1> DEFINE d == [c EXCEPT !.persist = cas]
           e == add_timer(d, "cas_persistence_check")
<1>1. d \in Calm BY PersistCalm
<1>2. start_persistence_check(c, cas) = [e EXCEPT !.persist_id = TRUE]
  BY DEF start_persistence_check
<1> HIDE DEF d
<1>3. e \in Calm BY <1>1, AddTimerLive, AddTimerAtRest DEF Calm, TimerName
<1> HIDE DEF e
<1> QED BY <1>2, <1>3, PersistCalm

\* Cancelling a persistence check.
LEMMA CancelCheck ==
  ASSUME NEW c \in Calm
  PROVE  cancel_persistence_check(c) \in Calm
<1> DEFINE d == cancel_timer(c, "cas_persistence_check")
           b == /\ d.persist_id
                /\ \A i \in 1..Len(c.sched) : ~Owned(c.sched, "cas_persistence_check", i)
<1>1. d \in Calm BY CancelTimerCalm DEF Calm, TimerName
<1>2. b \in BOOLEAN OBVIOUS
<1>3. cancel_persistence_check(c) = [d EXCEPT !.persist_id = b]
  BY DEF cancel_persistence_check
<1> HIDE DEF d, b
<1> QED BY <1>1, <1>2, <1>3, PersistCalm

\* openr2_proto_handle_cas.
LEMMA HandleCas ==
  ASSUME NEW c \in Calm, NEW l \in cas_r2_bits
  PROVE  handle_cas(c, l) \in Calm
<1> DEFINE p == IF persisted(c) THEN NoPattern ELSE c.persist
           cas == IF persisted(c) THEN c.persist ELSE l
           started == start_persistence_check(cancel_persistence_check(c), l)
           dropped == [cancel_persistence_check(c) EXCEPT !.persist = NoPattern]
<1>1. c.persist \in cas_r2_bits \cup {NoPattern}
  <2>1. c \in Chan BY Kinds
  <2> QED BY <2>1 DEF Chan
<1>2. p \in cas_r2_bits \cup {NoPattern} /\ cas \in cas_r2_bits
  BY <1>1 DEF persisted
<1>3. \/ handle_cas(c, l) = handle_pattern([c EXCEPT !.persist = p], cas)
      \/ handle_cas(c, l) = started
      \/ handle_cas(c, l) = dropped
      \/ handle_cas(c, l) = c
  BY DEF handle_cas
<1> HIDE DEF p, cas
<1>4. handle_pattern([c EXCEPT !.persist = p], cas) \in Calm
  BY <1>2, PersistCalm, Pattern
<1>5. cancel_persistence_check(c) \in Calm BY CancelCheck
<1>6. started \in Calm /\ dropped \in Calm BY <1>5, StartCheck, PersistCalm
<1> HIDE DEF started, dropped
<1> QED BY <1>3, <1>4, <1>6

\* persistence_check_expired.
LEMMA CheckExpired ==
  ASSUME NEW c0 \in Calm, NEW l \in cas_r2_bits
  PROVE  persistence_check_expired(c0, l) \in Calm
<1> DEFINE c == [c0 EXCEPT !.persist_id = FALSE]
<1>1. c \in Calm BY PersistCalm
<1>2. \/ persistence_check_expired(c0, l) = c
      \/ persistence_check_expired(c0, l) = handle_cas(c, l)
      \/ persistence_check_expired(c0, l) = start_persistence_check(c, l)
      \/ persistence_check_expired(c0, l) = [c EXCEPT !.persist = NoPattern]
  BY DEF persistence_check_expired
<1> HIDE DEF c
<1>3. [c EXCEPT !.persist = NoPattern] \in Calm BY <1>1, PersistCalm
<1> QED BY <1>1, <1>2, <1>3, HandleCas, StartCheck

-----------------------------------------------------------------------------
\* openr2_proto_handle_alarm_state, where the alarm flag is already set but
\* the call is not yet dropped.
LEMMA AlarmState ==
  ASSUME NEW c \in Loose, NEW l \in cas_r2_bits,
         c.call_state = "IDLE" => c \in AtRest
  PROVE  handle_alarm_state(c, l) \in Calm
<1>1. CASE c.inalarm
  <2> DEFINE d == IF c.call_state # "IDLE" THEN handle_protocol_error(c, "ALARM_RAISED")
                  ELSE c
  <2>1. d \in AtRest BY ProtocolErrorRests DEF ProtocolError
  <2>2. handle_alarm_state(c, l) = [d EXCEPT !.cas_read = 0, !.cas_write = 0]
    BY <1>1 DEF handle_alarm_state
  <2> HIDE DEF d
  <2>3. 0 \in cas_r2_bits BY DEF cas_r2_bits
  <2>4. d \in Chan BY <2>1, Kinds
  <2>5. [d EXCEPT !.cas_read = 0, !.cas_write = 0] \in Chan BY <2>3, <2>4 DEF Chan
  <2>6. [d EXCEPT !.cas_read = 0, !.cas_write = 0] \in AtRest
    BY <2>1, <2>5 DEF AtRest, Loose, Chan
  <2> QED BY <2>2, <2>6, Kinds
<1>2. CASE ~c.inalarm
  <2>1. set_idle(c) \in Calm /\ set_blocked(c) \in Calm BY SetIdleRests, SetBlockedRests, Kinds
  <2>2. handle_cas(set_idle(c), l) \in Calm /\ handle_cas(set_blocked(c), l) \in Calm
    BY <2>1, HandleCas
  <2> QED BY <1>2, <2>2 DEF handle_alarm_state
<1> QED BY <1>1, <1>2

\* An alarm raised or cleared, in any state.
LEMMA AlarmEvent ==
  ASSUME NEW c \in Calm, NEW on \in BOOLEAN, NEW l \in cas_r2_bits
  PROVE  handle_alarm_event(c, on, l) \in Calm
<1> DEFINE d == [c EXCEPT !.inalarm = on]
           e == Emit(d, "on_hardware_alarm", "")
<1>1. c \in Loose BY Kinds
<1>2. c \in Chan BY Kinds
<1>3. d \in Chan BY <1>2 DEF Chan
<1>4. d \in Loose /\ d.call_state = c.call_state BY <1>1, <1>3 DEF Loose, Chan
<1>5. c \in AtRest => d \in AtRest BY <1>3 DEF AtRest, Loose, Chan
<1>6. d.call_state = "IDLE" => c \in AtRest BY <1>4 DEF Calm, Live
<1> HIDE DEF d
<1>7. "on_hardware_alarm" \in Callback /\ "" \in Arg BY DEF Callback, Arg
<1>8. e \in Chan /\ (d \in AtRest => e \in AtRest) BY <1>3, <1>7, EmitType
<1>9. e \in Loose /\ e.call_state = d.call_state
  BY <1>4, <1>8 DEF Loose, Chan, Emit
<1> HIDE DEF e
<1>10. e.call_state = "IDLE" => e \in AtRest BY <1>5, <1>6, <1>8, <1>9
<1>11. handle_alarm_event(c, on, l) = handle_alarm_state(e, l)
  BY DEF handle_alarm_event, d, e
<1> QED BY <1>9, <1>10, <1>11, AlarmState

\* openr2_chan_add_timer on a channel that is between rest and a call.
LEMMA AddTimerLoose ==
  ASSUME NEW c \in Loose, NEW name \in TimerName
  PROVE  /\ add_timer(c, name) \in Loose
         /\ add_timer(c, name).inalarm = c.inalarm
         /\ add_timer(c, name).r2_state = c.r2_state
<1> DEFINE q == Disown(c.sched, name)
           d == [c EXCEPT !.sched = q]
           t == [name |-> name, ref |-> TRUE]
           a == Append(d.sched, t)
           e == Append(d.ev, [cb |-> "no_time_slots", arg |-> name])
<1>1. c \in Chan BY Kinds
<1>2. q \in Seq(Timer) BY <1>1, SchedSeq, DisownType
<1>3. \/ add_timer(c, name) = [d EXCEPT !.ev = e]
      \/ add_timer(c, name) = [d EXCEPT !.sched = a]
  BY DEF add_timer, schedule, Emit
<1> HIDE DEF q
<1>4. d \in Chan BY <1>1, <1>2, SchedType
<1>5. d \in Loose /\ d.inalarm = c.inalarm /\ d.r2_state = c.r2_state
  BY <1>1, <1>4 DEF Loose, Chan
<1> HIDE DEF d
<1>6. t \in Timer BY DEF Timer
<1>7. a \in Seq(Timer) BY <1>4, <1>6, SchedSeq, AppendType
<1>8. e \in Seq(Event)
  <2>1. [cb |-> "no_time_slots", arg |-> name] \in Event BY DEF Event, Callback
  <2>2. d.ev \in Seq(Event) BY <1>4 DEF Chan
  <2> QED BY <2>1, <2>2, AppendType
<1> HIDE DEF t, a, e
<1>9. [d EXCEPT !.ev = e] \in Chan /\ [d EXCEPT !.sched = a] \in Chan
  BY <1>4, <1>7, <1>8 DEF Chan
<1>10. [d EXCEPT !.ev = e] \in Loose /\ [d EXCEPT !.ev = e].inalarm = d.inalarm
       /\ [d EXCEPT !.ev = e].r2_state = d.r2_state
  BY <1>5, <1>9 DEF Loose, Chan
<1>11. [d EXCEPT !.sched = a] \in Loose /\ [d EXCEPT !.sched = a].inalarm = d.inalarm
       /\ [d EXCEPT !.sched = a].r2_state = d.r2_state
  BY <1>5, <1>9 DEF Loose, Chan
<1> QED BY <1>3, <1>5, <1>10, <1>11

\* What openr2_proto_make_call copies of a number fits its array.
LEMMA StoredFits ==
  ASSUME NEW digits \in Seq(Digit)
  PROVE  stored(digits) \in Seq(Digit) /\ stored(digits) \in Number
<1> DEFINE n == IF Len(digits) < MaxDigits THEN Len(digits) ELSE MaxDigits - 1
<1>1. n \in Nat /\ n <= Len(digits) /\ n < MaxDigits BY MaxDigitsAssumption
<1>2. stored(digits) = SubSeq(digits, 1, n) BY DEF stored
<1> HIDE DEF n
<1>3. SubSeq(digits, 1, n) \in Seq(Digit) /\ Len(SubSeq(digits, 1, n)) = n BY <1>1
<1> QED BY <1>1, <1>2, <1>3 DEF Number

\* openr2_proto_make_call, with its failures, a DNIS that is no number among
\* them.
LEMMA Dial ==
  ASSUME NEW c \in Calm, NEW ani \in Seq(Digit), NEW known, NEW dnis \in Seq(Digit),
         NEW numeric, NEW restricted \in BOOLEAN
  PROVE  make_call(c, ani, known, dnis, numeric, restricted) \in Calm
<1> DEFINE seized == set_cas_signal(c, "SEIZE")
           taken == [seized EXCEPT !.r2_state = "SEIZE_TXD"]
           timed == add_timer(taken, "r2_seize")
           ptr == IF known THEN 1 ELSE 0
           cat == Ctx.g2.national_subscriber
           from == IF known THEN stored(ani) ELSE <<>>
           to == IF numeric THEN stored(dnis) ELSE <<>>
           old == IF numeric THEN <<>> ELSE timed.dnis_old
           call == [timed EXCEPT
                      !.ani = from, !.ani_ptr = ptr,
                      !.caller_ani_is_restricted = restricted,
                      !.dnis = to, !.dnis_old = old, !.dnis_index = 0,
                      !.call_state = "DIALING", !.direction = "FORWARD",
                      !.caller_category = cat]
           m == make_call(c, ani, known, dnis, numeric, restricted)
<1>1. CASE ~may_dial(c) BY <1>1 DEF make_call
<1>2. CASE may_dial(c)
  <2>1. c \in AtRest /\ ~c.inalarm BY <1>2 DEF may_dial, Calm, Live
  <2>2. seized \in AtRest /\ seized.inalarm = c.inalarm
    <3>1. c \in Chan BY Kinds
    <3>2. seized \in AtRest BY <2>1, SetCas, Kinds DEF CasSignal
    <3>3. seized.inalarm = c.inalarm BY <3>1 DEF set_cas_signal, Chan
    <3> QED BY <3>2, <3>3
  <2>3. \/ m = seized \/ m = call
        \/ m = [call EXCEPT !.mf_group = "FWD_INIT"]
        \/ m = [call EXCEPT !.mf_group = "DTMF_FWD_INIT"]
    BY <1>2 DEF make_call
  <2> HIDE DEF m, seized
  <2>4. "SEIZE_TXD" \in R2State \ IdleStates /\ "DIALING" \in CallState
        /\ "FORWARD" \in Direction /\ "FWD_INIT" \in MfGroup /\ "DTMF_FWD_INIT" \in MfGroup
    BY DEF R2State, IdleStates, CallState, Direction, MfGroup
  <2>5. seized \in Chan BY <2>2, Kinds
  <2>6. taken \in Chan /\ taken.inalarm = FALSE /\ taken.r2_state = "SEIZE_TXD"
        /\ taken \in Loose
    BY <2>1, <2>2, <2>4, <2>5, ZenonT(40) DEF AtRest, Loose, Chan
  <2> HIDE DEF taken
  <2>7. timed \in Chan /\ timed.inalarm = FALSE /\ timed.r2_state = "SEIZE_TXD"
        /\ timed \in Loose
    BY <2>6, AddTimerLoose, Kinds DEF TimerName
  <2> HIDE DEF timed
  <2>8. ptr \in Nat /\ cat \in Tone /\ 0 \in Nat BY ForwardTones
  <2>12. from \in Seq(Digit) /\ to \in Number
    <3>1. <<>> \in Number BY MaxDigitsAssumption DEF Number
    <3>2. stored(ani) \in Seq(Digit) /\ stored(dnis) \in Number BY StoredFits
    <3> QED BY <3>1, <3>2
  <2>13. old \in Seq(Tone) BY <2>7 DEF Chan
  <2> HIDE DEF ptr, cat, from, to, old
  <2>9. call \in Chan BY <2>4, <2>7, <2>8, <2>12, <2>13 DEF Chan
  <2>10. call \in Live BY <2>4, <2>7, <2>9, ZenonT(40) DEF Live, Loose, Chan
  <2> HIDE DEF call
  <2>11. m \in Calm BY <2>2, <2>3, <2>4, <2>10, LiveGroup, Kinds
  <2> QED BY <2>11 DEF m
<1> QED BY <1>1, <1>2

-----------------------------------------------------------------------------
\* handle_dtmf_end.
LEMMA DtmfEnds ==
  ASSUME NEW c \in Live
  PROVE  handle_dtmf_end(c) \in Calm
<1>1. turn_off_mf_engine(c) \in Live BY TurnOffLive
<1>2. ASSUME NEW d \in Live
      PROVE  [d EXCEPT !.caller_category = Ctx.g2.national_subscriber] \in Live
  BY ForwardTones, ZenonT(40) DEF Live, Loose, Chan
<1>3. "UNKNOWN" \in Mode BY DEF Mode
<1> QED BY <1>1, <1>2, <1>3, CallAccepted, OfferCall, Kinds DEF handle_dtmf_end

\* on_dtmf_received, whatever the digits so far: nothing bounds them.
LEMMA DtmfReceived ==
  ASSUME NEW c \in Live, c.detecting_dtmf, NEW digit \in Digit, NEW more \in BOOLEAN
  PROVE  on_dtmf_received(c, digit, more) \in Live
<1> DEFINE q == Append(c.dnis, digit)
           d == [c EXCEPT !.dnis = q]
           e == Emit(d, "on_dnis_digit_received", "")
<1>1. c.dnis \in Seq(Digit) /\ Ctx.detect_dtmf BY Kinds DEF Chan, Number
<1>2. q \in Number BY <1>1, AppendType DEF Number
<1>3. on_dtmf_received(c, digit, more) \in {c, [e EXCEPT !.dnis_callback = more]}
  BY DEF on_dtmf_received
<1> HIDE DEF q
<1>4. d \in Live BY <1>2, LiveDigits
<1> HIDE DEF d
<1>5. "on_dnis_digit_received" \in Callback /\ "" \in Arg BY DEF Callback, Arg
<1>6. e \in Live BY <1>4, <1>5, EmitType, Kinds
<1> HIDE DEF e
<1>7. [e EXCEPT !.dnis_callback = more] \in Live BY <1>6, ZenonT(40) DEF Live, Loose, Chan
<1> QED BY <1>3, <1>7

\* double_answer_handler.
LEMMA DoubleAnswer ==
  ASSUME NEW c \in Live
  PROVE  double_answer_handler(c) \in Live
<1>1. send_clear_backward(c) \in Live /\ set_cas_signal(c, "ANSWER") \in Live
  BY SendClearBackward, SetCas, Kinds DEF CasSignal
<1>2. {"EXECUTING_DOUBLE_ANSWER", "ANSWER_TXD"} \subseteq R2State \ IdleStates
  BY DEF R2State, IdleStates
<1>3. [send_clear_backward(c) EXCEPT !.r2_state = "EXECUTING_DOUBLE_ANSWER"] \in Live
      /\ [set_cas_signal(c, "ANSWER") EXCEPT !.r2_state = "ANSWER_TXD"] \in Live
  BY <1>1, <1>2, LiveR2
<1>4. add_timer([send_clear_backward(c) EXCEPT !.r2_state = "EXECUTING_DOUBLE_ANSWER"],
                "r2_double_answer") \in Live
  BY <1>3, AddTimerLive DEF TimerName
<1>5. "library_bug" \in Callback /\ "r2_double_answer" \in Arg
  BY DEF Callback, Arg, TimerName
<1>6. Emit(c, "library_bug", "r2_double_answer") \in Live BY <1>5, EmitType, Kinds
<1> QED BY <1>1, <1>3, <1>4, <1>6 DEF double_answer_handler

\* start_dialing_dtmf.
LEMMA StartDtmf ==
  ASSUME NEW c \in Live
  PROVE  start_dialing_dtmf(c) \in Live
<1>1. "DIALING_DTMF" \in MfState \ {"OFF"} BY DEF MfState
<1> QED BY <1>1 DEF start_dialing_dtmf, Live, Loose, Chan

\* Every timer callback, a persistence check on a channel at rest included.
LEMMA RunTimer ==
  ASSUME NEW c \in Calm, NEW name \in TimerName, NEW l \in cas_r2_bits,
         c \in AtRest => name = "cas_persistence_check"
  PROVE  run_timer(c, name, l) \in Calm
<1>1. CASE name = "cas_persistence_check"
  BY <1>1, CheckExpired DEF run_timer
<1>2. CASE name # "cas_persistence_check"
  <2>1. c \in Live /\ c \in Loose BY <1>2, Kinds DEF Calm
  <2>2. {"SEIZE_TIMEOUT", "FWD_SAFETY_TIMEOUT"} \subseteq ProtocolError BY DEF ProtocolError
  <2>3. {"NO_ANSWER", "FORCED_RELEASE", "NORMAL_CLEARING"} \subseteq Cause BY DEF Cause
  <2>4. "UNKNOWN" \in Mode BY DEF Mode
  <2>5. mf_fwd_safety_timeout_expired(c) \in Calm /\ seize_timeout_expired(c) \in Calm
    BY <2>1, <2>2, ProtocolErrorRests, Kinds
       DEF mf_fwd_safety_timeout_expired, seize_timeout_expired
  <2>6. r2_seize_persist_expired(c) \in Calm /\ r2_set_call_down(c) \in Calm
    BY <2>1, SendClearForward, CallEndRests, Kinds DEF r2_seize_persist_expired, r2_set_call_down
  <2>7. r2_answer_timeout_expired(c) \in Calm /\ r2_metering_pulse(c) \in Calm
    BY <2>1, <2>3, ReportDisconnection DEF r2_answer_timeout_expired, r2_metering_pulse
  <2>8. double_answer_handler(c) \in Calm /\ start_dialing_dtmf(c) \in Calm
    BY <2>1, DoubleAnswer, StartDtmf, Kinds
  <2>9. mf_back_resume_cycle(c) \in Calm /\ mf_back_cycle_timeout_expired(c) \in Calm
    BY <2>1, SetSilence, BackCycleTimeout DEF mf_back_resume_cycle
  <2>10. r2_answer_delay_expired(c) \in Calm
    BY <2>1, <2>4, CallAccepted DEF r2_answer_delay_expired
  <2> QED BY <1>2, <2>5, <2>6, <2>7, <2>8, <2>9, <2>10 DEF run_timer, TimerName
<1> QED BY <1>1, <1>2

\* openr2_chan_handle_timers with one expired timer.
LEMMA ExpireOne ==
  ASSUME NEW c \in Calm, NEW i \in 1..Len(c.sched), NEW l \in cas_r2_bits
  PROVE  expire_one(c, i, l) \in Calm
<1> DEFINE r == RemoveTimer(c.sched, i)
           d == [c EXCEPT !.sched = r]
           name == c.sched[i].name
<1>1. c.sched \in Seq(Timer) BY Kinds, SchedSeq
<1>2. r \in Seq(Timer) BY <1>1, RemoveTimerType
<1>3. c \in AtRest => OnlyPersistence(c.sched) BY DEF AtRest
<1>4. c \in AtRest => OnlyPersistence(r) BY <1>1, <1>3, RemoveOnly
<1>5. name \in TimerName
  <2>1. c.sched[i] \in Timer BY <1>1
  <2> QED BY <2>1 DEF Timer
<1>6. c \in AtRest => name = "cas_persistence_check" BY <1>3 DEF OnlyPersistence
<1>7. expire_one(c, i, l) = run_timer(d, name, l) BY DEF expire_one
<1> HIDE DEF r, name
<1>8. (c \in Live => d \in Live) /\ (c \in AtRest => d \in AtRest)
  BY <1>2, <1>4, LiveSched, AtRestSched
<1>9. d.call_state = c.call_state
  <2>1. c \in Chan BY Kinds
  <2> QED BY <2>1 DEF Chan
<1> HIDE DEF d
<1>10. d \in Calm /\ (d \in AtRest => c \in AtRest)
  BY <1>8, <1>9 DEF Calm, AtRest, Live
<1> QED BY <1>5, <1>6, <1>7, <1>10, RunTimer

\* A channel just created is at rest.
LEMMA NewRests ==
  /\ chan_new \in AtRest
  /\ [chan_new EXCEPT !.inalarm = TRUE] \in AtRest
<1>1. /\ "INIT" \in R2State /\ "IDLE" \in CallState /\ "ZERO" \in MfState
      /\ "NO_GROUP" \in MfGroup /\ "STOPPED" \in Direction /\ 0 \in cas_r2_bits
      /\ 0 \in Tone /\ 0 \in Nat
  BY DEF R2State, CallState, MfState, MfGroup, Direction, cas_r2_bits, Tone
<1>2. <<>> \in Seq(Digit) /\ <<>> \in Seq(Timer) /\ <<>> \in Seq(Event)
      /\ <<>> \in Seq(Tone) /\ <<>> \in Number /\ {} \in SUBSET {"io", "mf"}
  BY MaxDigitsAssumption DEF Number
<1>3. chan_new \in Chan /\ [chan_new EXCEPT !.inalarm = TRUE] \in Chan
  BY <1>1, <1>2 DEF chan_new, Chan
<1>4. OnlyPersistence(<<>>) BY DEF OnlyPersistence
<1> QED BY <1>3, <1>4 DEF chan_new, AtRest, Loose, IdleStates
=============================================================================
