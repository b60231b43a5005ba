------------------------------- MODULE R2Chan -------------------------------
(***************************************************************************)
(* A channel of openr2: the state openr2_chan_t keeps, its timer list, and *)
(* the operations every handler is built from (initialisation, CAS output, *)
(* reporting, clearing).                                                   *)
(*                                                                         *)
(* A channel is a record and a C function is an operator from a channel to *)
(* a channel, so a handler that calls others is written as their           *)
(* composition.  A handler runs with the channel lock held and so is       *)
(* atomic; openr2_chan_process_cas_signaling does not take the lock and is *)
(* assumed to be called from the thread that calls openr2_chan_process.    *)
(* What a handler takes from its environment (the pattern on the line, a   *)
(* detected tone, a value the user returns) is a parameter.                *)
(***************************************************************************)
EXTENDS R2Context

CONSTANTS
  Ctx,          \* the protocol description of the channel's context
  MaxTimers,    \* OR2_MAX_SCHED_TIMERS
  Reentrant,    \* what the user does inside its callbacks, see below
  AnswerEarly,  \* the user may answer a call that was not offered to it
  PastDnis      \* what memory holds behind dnis[OR2_MAX_DNIS], see dnis_cell

ASSUME CtxAssumption ==
  /\ Ctx \in Context
  \* every built-in variant has this tone; mf_send_ani relies on it before
  \* it dereferences ani_ptr
  /\ Ctx.g1.caller_ani_is_restricted # 0

ASSUME MaxTimersAssumption == MaxTimers \in Nat \ {0}
ASSUME AnswerAssumption == AnswerEarly \in BOOLEAN
ASSUME PastDnisAssumption == PastDnis \in Seq(Tone)

(***************************************************************************)
(* Callbacks run with the (recursive) channel lock held and may call the   *)
(* API again.  Reentrant says which callbacks of this user do:             *)
(*   "clear_on_disconnect"  on_call_disconnect calls disconnect_call       *)
(*   "accept_on_offer"      on_call_offered calls accept_call              *)
(*   "answer_on_accept"     on_call_accepted of a received call answers it *)
(*   "clear_on_accept"      on_call_accepted of a dialled call clears it   *)
(* r2test.c does the first three.                                          *)
(***************************************************************************)
ASSUME ReentrantAssumption ==
  Reentrant \subseteq {"clear_on_disconnect", "accept_on_offer",
                       "answer_on_accept", "clear_on_accept"}

IS_DTMF_R2 == Ctx.dial_with_dtmf \/ Ctx.detect_dtmf

-----------------------------------------------------------------------------
(***************************************************************************)
(* The channel.                                                            *)
(*   sched    pending timers in the order they were scheduled; ref says    *)
(*            that timer_ids still holds this timer's id, so that it can   *)
(*            be cancelled                                                 *)
(*   wire     the bits the line really carries, where cas_write is what    *)
(*            the channel believes it sent                                 *)
(*   ani_ptr  0 for NULL, else the position of the next ANI digit          *)
(*   dnis     the string in the array dnis[]; where MF digits are appended *)
(*            the code sees to it that it fits, where DTMF digits are, not *)
(*   dnis_old what the cells of dnis[] from the second on hold behind that *)
(*            string: ending a call clears the first cell only             *)
(*   dnis_index  moves at the far end's request; nothing in the code       *)
(*            bounds it above                                              *)
(*   persist, persist_id  cas_persistence_check_signal, and whether        *)
(*            timer_ids.cas_persistence_check is nonzero                   *)
(*   fault    which layers below currently fail: "io" the line interface,  *)
(*            "mf" the tone engine                                         *)
(*   ev       the callbacks made during the current step                   *)
(***************************************************************************)
Timer == [name : TimerName, ref : BOOLEAN]

\* A string that dnis[] has room for, the terminating zero included.
Number == {s \in Seq(Digit) : Ctx.detect_dtmf \/ Len(s) < MaxDigits}

Chan == [r2_state : R2State, call_state : CallState,
         mf_state : MfState, mf_group : MfGroup, direction : Direction,
         cas_read : cas_r2_bits, cas_write : cas_r2_bits, wire : cas_r2_bits,
         persist : cas_r2_bits \cup {NoPattern}, persist_id : BOOLEAN,
         inalarm : BOOLEAN, answered : BOOLEAN, category_sent : BOOLEAN,
         mf_write_tone : Tone, mf_read_tone : Tone,
         ani : Seq(Digit), ani_ptr : Nat,
         dnis : Number, dnis_old : Seq(Tone), dnis_index : Nat,
         caller_ani_is_restricted : BOOLEAN, caller_category : Tone,
         dialing_dtmf : BOOLEAN,
         detecting_dtmf : {d \in BOOLEAN : d => Ctx.detect_dtmf},
         dnis_callback : BOOLEAN,
         sched : Seq(Timer), fault : SUBSET {"io", "mf"}, ev : Seq(Event)]

\* The CAS states of a channel without a call.
IdleStates == {"INIT", "IDLE", "BLOCKED"}

\* __openr2_chan_new: calloc, so every pattern reads as 0, which is SEIZE.
chan_new ==
  [r2_state |-> "INIT", call_state |-> "IDLE", mf_state |-> "ZERO",
   mf_group |-> "NO_GROUP", direction |-> "STOPPED",
   cas_read |-> 0, cas_write |-> 0, wire |-> 0,
   persist |-> NoPattern, persist_id |-> FALSE,
   inalarm |-> FALSE, answered |-> FALSE, category_sent |-> FALSE,
   mf_write_tone |-> 0, mf_read_tone |-> 0,
   ani |-> <<>>, ani_ptr |-> 0, dnis |-> <<>>, dnis_old |-> <<>>, dnis_index |-> 0,
   caller_ani_is_restricted |-> FALSE, caller_category |-> 0,
   dialing_dtmf |-> FALSE, detecting_dtmf |-> FALSE, dnis_callback |-> FALSE,
   sched |-> <<>>, fault |-> {}, ev |-> <<>>]

IoFails(c) == "io" \in c.fault
MfFails(c) == "mf" \in c.fault

Emit(c, cb, arg) == [c EXCEPT !.ev = Append(@, [cb |-> cb, arg |-> arg])]

-----------------------------------------------------------------------------
(***************************************************************************)
(* Timers.  timer_ids holds one id per kind of timer.  Scheduling another  *)
(* timer of that kind overwrites the id and orphans the earlier timer: it  *)
(* stays pending and cannot be cancelled any more.  A full list makes      *)
(* openr2_chan_add_timer return -1, which is stored as the id.             *)
(***************************************************************************)
Pending(s, name) == \E i \in 1..Len(s) : s[i].name = name
Owned(s, name, i) == s[i].name = name /\ s[i].ref

RemoveTimer(s, i) == SubSeq(s, 1, i - 1) \o SubSeq(s, i + 1, Len(s))

Disown(s, name) ==
  [i \in 1..Len(s) |-> [name |-> s[i].name, ref |-> s[i].ref /\ s[i].name # name]]

schedule(c, name, ref) ==
  IF Len(c.sched) = MaxTimers
  THEN Emit(c, "no_time_slots", name)
  ELSE [c EXCEPT !.sched = Append(@, [name |-> name, ref |-> ref])]

\* timer_ids.<name> = openr2_chan_add_timer(...)
add_timer(c, name) ==
  schedule([c EXCEPT !.sched = Disown(@, name)], name, TRUE)

\* openr2_chan_cancel_timer(&timer_ids.<name>)
cancel_timer(c, name) ==
  IF \E i \in 1..Len(c.sched) : Owned(c.sched, name, i)
  THEN LET i == CHOOSE k \in 1..Len(c.sched) : Owned(c.sched, name, k)
       IN  [c EXCEPT !.sched = RemoveTimer(@, i)]
  ELSE c

cancel_all_timers(c) == [c EXCEPT !.sched = <<>>, !.persist_id = FALSE]

(***************************************************************************)
(* sched_timers is kept in order of expiry.  A timer scheduled earlier     *)
(* with no longer a duration expires no later; with a longer one it may    *)
(* expire before or after, depending on when the second was scheduled.     *)
(***************************************************************************)
MayExpire(s, i) ==
  /\ i \in 1..Len(s)
  /\ \A j \in 1..(i - 1) : Ctx.timers[s[j].name] > Ctx.timers[s[i].name]

-----------------------------------------------------------------------------
(***************************************************************************)
(* Initialisation, CAS output and the ends of a call.                      *)
(***************************************************************************)
\* Fault: the flags of the DTMF engine are left set.
turn_off_keeps_dtmf(c) ==
  IF c.mf_state = "OFF" THEN c
  ELSE [cancel_timer(c, "mf_back_cycle") EXCEPT !.mf_state = "OFF"]

turn_off_mf_engine(c) ==
  IF c.mf_state = "OFF" THEN c
  ELSE [cancel_timer(c, "mf_back_cycle") EXCEPT
          !.dialing_dtmf = FALSE, !.detecting_dtmf = FALSE, !.mf_state = "OFF"]

\* cas_write is recorded before the write that may fail.
set_cas_signal(c, signal) ==
  [c EXCEPT !.cas_write = CAS[signal],
            !.wire = IF IoFails(c) THEN @ ELSE CAS[signal]]

\* The cells behind the first once that one is cleared: the digits that were
\* there, the zero that ended them, and what lies behind it.
leftover(c) ==
  IF c.dnis = <<>> THEN c.dnis_old
  ELSE Tail(c.dnis) \o (IF Len(c.dnis_old) <= Len(c.dnis) THEN <<>>
                        ELSE <<0>> \o SubSeq(c.dnis_old, Len(c.dnis) + 1, Len(c.dnis_old)))

\* Fault: pending timers survive.
proto_init_keeps_timers(c) ==
  [turn_off_mf_engine(c) EXCEPT
     !.ani = <<>>, !.ani_ptr = 0, !.dnis = <<>>, !.dnis_old = leftover(c),
     !.dnis_index = 0,
     !.caller_ani_is_restricted = FALSE, !.caller_category = 0,
     !.r2_state = "IDLE", !.mf_group = "NO_GROUP", !.call_state = "IDLE",
     !.direction = "STOPPED", !.answered = FALSE, !.category_sent = FALSE,
     !.mf_write_tone = 0, !.mf_read_tone = 0, !.dnis_callback = TRUE]

\* The persistence check in progress loses its timer but keeps its pattern.
proto_init(c) ==
  [turn_off_mf_engine(cancel_all_timers(c)) EXCEPT
     !.ani = <<>>, !.ani_ptr = 0, !.dnis = <<>>, !.dnis_old = leftover(c),
     !.dnis_index = 0,
     !.caller_ani_is_restricted = FALSE, !.caller_category = 0,
     !.r2_state = "IDLE", !.mf_group = "NO_GROUP", !.call_state = "IDLE",
     !.direction = "STOPPED", !.answered = FALSE, !.category_sent = FALSE,
     !.mf_write_tone = 0, !.mf_read_tone = 0, !.dnis_callback = TRUE]

\* Fault: nothing is reset when the line cannot be written.
set_idle_if_written(c) ==
  IF IoFails(c) THEN set_cas_signal(c, "IDLE")
  ELSE set_cas_signal(proto_init(c), "IDLE")

set_idle(c) == set_cas_signal(proto_init(c), "IDLE")

set_blocked(c) ==
  set_cas_signal([proto_init(c) EXCEPT !.r2_state = "BLOCKED"], "BLOCK")

\* Fault: the line is left as it was.
handle_protocol_error_keeps_line(c, reason) ==
  Emit(proto_init(c), "on_protocol_error", reason)

handle_protocol_error(c, reason) ==
  Emit(set_idle(c), "on_protocol_error", reason)

report_call_end(c) == Emit(set_idle(c), "on_call_end", "")

-----------------------------------------------------------------------------
(***************************************************************************)
(* Tone output.  Only the backward side supervises the compelled cycle.    *)
(***************************************************************************)
\* Fault: the compelled cycle is not supervised.
prepare_mf_tone_unsupervised(c, tone) ==
  IF c.mf_write_tone = tone \/ IoFails(c) THEN c
  ELSE IF MfFails(c) THEN handle_protocol_error(c, "INTERNAL_ERROR")
  ELSE [c EXCEPT !.mf_write_tone = tone]

start_cycle(c, tone) ==
  IF tone # 0 /\ c.direction = "BACKWARD" THEN add_timer(c, "mf_back_cycle") ELSE c

\* The first samples of a tone are written when its timer is already running.
prepare_mf_tone(c, tone) ==
  IF \/ c.mf_write_tone = tone
     \/ tone = 0 /\ IoFails(c)           \* the flush fails first
  THEN c
  ELSE IF MfFails(c) THEN handle_protocol_error(c, "INTERNAL_ERROR")
  ELSE [start_cycle(c, tone) EXCEPT
          !.mf_write_tone = IF tone # 0 /\ IoFails(c) THEN @ ELSE tone]

set_silence(c) == [prepare_mf_tone(c, 0) EXCEPT !.mf_write_tone = 0]

-----------------------------------------------------------------------------
(***************************************************************************)
(* Clearing a call.                                                        *)
(***************************************************************************)
\* Fault: the MF engine is left on.
send_clear_forward_mf_on(c) ==
  set_cas_signal(
    [schedule(c, "r2_set_call_down", FALSE) EXCEPT !.r2_state = "CLEAR_FWD_TXD"],
    "CLEAR_FORWARD")

\* Fault: nothing brings the channel back to idle.
send_clear_forward_no_timer(c) ==
  set_cas_signal(turn_off_mf_engine([c EXCEPT !.r2_state = "CLEAR_FWD_TXD"]),
                 "CLEAR_FORWARD")

\* The id of this timer is not kept, so nothing but cancel_all removes it.
send_clear_forward(c) ==
  set_cas_signal(
    turn_off_mf_engine(
      [schedule(c, "r2_set_call_down", FALSE) EXCEPT !.r2_state = "CLEAR_FWD_TXD"]),
    "CLEAR_FORWARD")

\* Fault: the pattern of a forced release, which is that of a seizure.
send_clear_backward_forced(c) ==
  set_cas_signal(turn_off_mf_engine([c EXCEPT !.r2_state = "CLEAR_BACK_TXD"]),
                 "FORCED_RELEASE")

send_clear_backward(c) ==
  set_cas_signal(turn_off_mf_engine([c EXCEPT !.r2_state = "CLEAR_BACK_TXD"]),
                 "CLEAR_BACK")

send_forced_release(c) ==
  set_cas_signal(turn_off_mf_engine([c EXCEPT !.r2_state = "FORCED_RELEASE_TXD"]),
                 "FORCED_RELEASE")

disconnect_tone(cause) ==
  LET gb == Ctx.gb
      t == CASE cause = "BUSY_NUMBER"        -> gb.busy_number
             [] cause = "UNALLOCATED_NUMBER" -> gb.unallocated_number
             [] cause = "NUMBER_CHANGED"     -> IF gb.number_changed # 0
                                                THEN gb.number_changed
                                                ELSE gb.unallocated_number
             [] cause = "OUT_OF_ORDER"       -> gb.line_out_of_order
             [] OTHER                        -> gb.network_congestion
  IN  IF t = 0 THEN gb.network_congestion ELSE t

send_disconnect(c, cause) ==
  prepare_mf_tone([c EXCEPT !.mf_state = "DISCONNECT_TXD"], disconnect_tone(cause))

disconnect_backward(c, cause) ==
  IF c.call_state = "OFFERED" /\ ~Ctx.detect_dtmf THEN send_disconnect(c, cause)
  ELSE IF c.r2_state = "CLEAR_FWD_RXD" THEN report_call_end(c)
  ELSE IF cause = "FORCED_RELEASE" /\ ~Ctx.detect_dtmf THEN send_forced_release(c)
  ELSE send_clear_backward(c)

disconnect_forward(c) ==
  CASE c.r2_state = "SEIZE_TXD" ->
         [c EXCEPT !.r2_state = "SEIZE_TXD_CLEAR_FWD_PENDING"]
    [] c.r2_state = "DOUBLE_SEIZURE" ->
         add_timer([c EXCEPT !.r2_state = "DOUBLE_SEIZURE_CLEAR_FWD_PENDING"],
                   "r2_seize_persist")
    [] c.r2_state = "CLEAR_FWD_RXD" -> report_call_end(c)
    [] OTHER -> send_clear_forward(c)

disconnect_call(c, cause) ==
  IF c.call_state = "IDLE" THEN c
  ELSE IF c.direction = "BACKWARD" THEN disconnect_backward(c, cause)
  ELSE disconnect_forward(c)

report_call_disconnection(c, cause) ==
  LET told == Emit([c EXCEPT !.call_state = "DISCONNECTED"],
                   "on_call_disconnect", cause)
  IN  IF "clear_on_disconnect" \in Reentrant
      THEN disconnect_call(told, "NORMAL_CLEARING")
      ELSE told

-----------------------------------------------------------------------------
(***************************************************************************)
(* Answering and accepting.                                                *)
(***************************************************************************)
\* openr2_proto_do_answer; double is what the caller decides from the
\* context (answer_call) or from the mode (answer_call_with_mode)
answer_call(c, double) ==
  LET sent == set_cas_signal(c, "ANSWER")
      done == [sent EXCEPT !.call_state = "ANSWERED", !.r2_state = "ANSWER_TXD",
                           !.answered = TRUE]
  IN  IF ~IS_DTMF_R2 /\ c.call_state # "ACCEPTED" THEN c
      ELSE IF IoFails(c) THEN sent
      ELSE IF double THEN add_timer(done, "r2_double_answer")
      ELSE done

on_call_accepted(c, mode) ==
  LET told == Emit(c, "on_call_accepted", mode)
  IN  IF "answer_on_accept" \in Reentrant /\ c.direction = "BACKWARD"
      THEN answer_call(told, Ctx.double_answer)
      ELSE IF "clear_on_accept" \in Reentrant /\ c.direction = "FORWARD"
      THEN disconnect_call(told, "NORMAL_CLEARING")
      ELSE told

get_tone_from_mode(mode) ==
  CASE mode = "WITH_CHARGE" -> Ctx.gb.accept_call_with_charge
    [] mode = "SPECIAL"     -> Ctx.gb.special_info_tone
    [] OTHER                -> Ctx.gb.accept_call_no_charge

accept_call(c, mode) ==
  IF c.call_state # "OFFERED" THEN c
  ELSE IF Ctx.detect_dtmf THEN on_call_accepted(c, "UNKNOWN")
  ELSE prepare_mf_tone([c EXCEPT !.mf_state = "ACCEPTED_TXD"],
                       get_tone_from_mode(mode))

OFFER_CALL(c) ==
  LET told == Emit([c EXCEPT !.call_state = "OFFERED"], "on_call_offered", "")
  IN  IF c.call_state # "COLLECTING"
      THEN handle_protocol_error(c, "INVALID_R2_STATE")
      ELSE IF "accept_on_offer" \in Reentrant
      THEN accept_call(told, "WITH_CHARGE")
      ELSE told

ack_call(c) ==
  LET sent == set_cas_signal(c, "SEIZE_ACK")
  IN  IF IoFails(c) THEN handle_protocol_error(sent, "INTERNAL_ERROR") ELSE sent
=============================================================================
