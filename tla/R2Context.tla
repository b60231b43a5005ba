----------------------------- MODULE R2Context -----------------------------
(***************************************************************************)
(* The protocol description a context holds: the MF tone of every group,   *)
(* the timer durations and the flags.  openr2_proto_configure_context      *)
(* fills it in as ITU and then lets the country's function alter it.       *)
(***************************************************************************)
EXTENDS R2Signals

CONSTANT MaxDigits   \* OR2_MAX_ANI and OR2_MAX_DNIS, the size of both arrays (80)

ASSUME MaxDigitsAssumption == MaxDigits \in Nat \ {0}

(***************************************************************************)
(* The shape of a protocol description.  ga, gb and gc are the backward    *)
(* groups A, B and C, g1 and g2 the forward groups I and II.               *)
(***************************************************************************)
GroupA == [request_next_dnis_digit : Tone, request_dnis_minus_1 : Tone,
           request_dnis_minus_2 : Tone, request_dnis_minus_3 : Tone,
           request_all_dnis_again : Tone, request_next_ani_digit : Tone,
           request_category : Tone, request_category_and_change_to_gc : Tone,
           request_change_to_g2 : Tone, address_complete_charge_setup : Tone,
           network_congestion : Tone]
GroupB == [accept_call_with_charge : Tone, accept_call_no_charge : Tone,
           busy_number : Tone, network_congestion : Tone,
           unallocated_number : Tone, line_out_of_order : Tone,
           special_info_tone : Tone, number_changed : Tone]
GroupC == [request_next_ani_digit : Tone, request_change_to_g2 : Tone,
           request_next_dnis_digit_and_change_to_ga : Tone,
           network_congestion : Tone]
GroupI == [no_more_dnis_available : Tone, no_more_ani_available : Tone,
           caller_ani_is_restricted : Tone]
GroupII == [national_subscriber : Tone, national_priority_subscriber : Tone,
            test_equipment : Tone, international_subscriber : Tone,
            international_priority_subscriber : Tone, collect_call : Tone,
            pay_phone : Tone]

Context == [ga : GroupA, gb : GroupB, gc : GroupC, g1 : GroupI, g2 : GroupII,
            timers : [TimerName -> Nat],
            max_ani : Nat, max_dnis : Nat,
            get_ani_first : BOOLEAN, immediate_accept : BOOLEAN,
            skip_category : BOOLEAN, double_answer : BOOLEAN,
            dial_with_dtmf : BOOLEAN, detect_dtmf : BOOLEAN,
            auto_seize_ack : BOOLEAN, ani_can_come_first : BOOLEAN,
            force_use_max_ani : BOOLEAN]

\* Durations in milliseconds; 0 switches a supervision off.
DefaultTimers ==
  [mf_back_cycle |-> 2000, mf_back_resume_cycle |-> 150,
   mf_fwd_safety |-> 30000, r2_seize |-> 2000, r2_seize_persist |-> 150,
   r2_answer |-> 60000, r2_metering_pulse |-> 0, r2_answer_delay |-> 150,
   r2_double_answer |-> 400, r2_set_call_down |-> 3000,
   dtmf_start_dial |-> 500, cas_persistence_check |-> 0]

itu(max_ani, max_dnis) ==
  [ga |-> [request_next_dnis_digit |-> 1, request_dnis_minus_1 |-> 2,
           request_dnis_minus_2 |-> 7, request_dnis_minus_3 |-> 8,
           request_all_dnis_again |-> 0, request_next_ani_digit |-> 5,
           request_category |-> 5, request_category_and_change_to_gc |-> 0,
           request_change_to_g2 |-> 3, address_complete_charge_setup |-> 6,
           network_congestion |-> 4],
   gb |-> [accept_call_with_charge |-> 6, accept_call_no_charge |-> 7,
           busy_number |-> 3, network_congestion |-> 4,
           unallocated_number |-> 5, line_out_of_order |-> 8,
           special_info_tone |-> 2, number_changed |-> 0],
   gc |-> [request_next_ani_digit |-> 0, request_change_to_g2 |-> 0,
           request_next_dnis_digit_and_change_to_ga |-> 0,
           network_congestion |-> 0],
   g1 |-> [no_more_dnis_available |-> 15, no_more_ani_available |-> 15,
           caller_ani_is_restricted |-> 12],
   g2 |-> [national_subscriber |-> 1, national_priority_subscriber |-> 2,
           test_equipment |-> 3, international_subscriber |-> 7,
           international_priority_subscriber |-> 9, collect_call |-> 0,
           pay_phone |-> 0],
   timers |-> DefaultTimers,
   max_ani |-> IF max_ani >= MaxDigits THEN MaxDigits - 1 ELSE max_ani,
   max_dnis |-> IF max_dnis >= MaxDigits THEN MaxDigits - 1 ELSE max_dnis,
   get_ani_first |-> TRUE, immediate_accept |-> FALSE,
   skip_category |-> FALSE, double_answer |-> FALSE,
   dial_with_dtmf |-> FALSE, detect_dtmf |-> FALSE,
   auto_seize_ack |-> TRUE, ani_can_come_first |-> FALSE,
   force_use_max_ani |-> FALSE]

argentina(x) ==
  [x EXCEPT !.g1 = [no_more_dnis_available |-> 0, no_more_ani_available |-> 12,
                    caller_ani_is_restricted |-> 15],
            !.g2.pay_phone = 4,
            !.timers.r2_metering_pulse = 400]

brazil(x) ==
  [x EXCEPT !.g1.no_more_dnis_available = 0, !.g1.caller_ani_is_restricted = 12,
            !.g2.collect_call = 8,
            !.ga.address_complete_charge_setup = 0,
            !.ga.request_dnis_minus_1 = 9, !.ga.request_all_dnis_again = 2,
            !.gb.accept_call_with_charge = 1, !.gb.busy_number = 2,
            !.gb.accept_call_no_charge = 5, !.gb.special_info_tone = 6,
            !.gb.number_changed = 3, !.gb.unallocated_number = 7]

china(x) ==
  [x EXCEPT !.ga.request_next_ani_digit = 1, !.ga.request_category = 6,
            !.ga.address_complete_charge_setup = 0,
            !.gb.accept_call_with_charge = 1, !.gb.busy_number = 2,
            !.gb.special_info_tone = 0,
            !.g1.no_more_dnis_available = 0,
            !.ani_can_come_first = TRUE, !.force_use_max_ani = TRUE,
            !.max_ani = MaxDigits]

mexico(x) ==
  [x EXCEPT !.get_ani_first = FALSE,
            !.ga.request_category = 0,
            !.ga.request_category_and_change_to_gc = 6,
            !.ga.address_complete_charge_setup = 0,
            !.ga.request_next_ani_digit = 0,
            !.gb.accept_call_with_charge = 1, !.gb.accept_call_no_charge = 5,
            !.gb.busy_number = 2, !.gb.unallocated_number = 2,
            !.gb.special_info_tone = 0,
            !.gc = [request_next_ani_digit |-> 1, request_change_to_g2 |-> 3,
                    request_next_dnis_digit_and_change_to_ga |-> 5,
                    network_congestion |-> 4],
            !.g1.no_more_dnis_available = 0, !.g1.caller_ani_is_restricted = 15]

venezuela(x) ==
  [x EXCEPT !.ga.request_next_ani_digit = 9,
            !.g1.caller_ani_is_restricted = 12, !.g1.no_more_dnis_available = 0]

colombia(x) ==
  [x EXCEPT !.g1.caller_ani_is_restricted = 12,
            !.gb.accept_call_with_charge = 1, !.gb.busy_number = 2,
            !.gb.accept_call_no_charge = 5, !.gb.unallocated_number = 6]

Variant == {"AR", "BR", "CN", "CZ", "CO", "EC", "ITU", "MX", "PH", "VE"}

configure_context(variant, max_ani, max_dnis) ==
  LET x == itu(max_ani, max_dnis)
  IN  CASE variant = "AR" -> argentina(x)
        [] variant = "BR" -> brazil(x)
        [] variant = "CN" -> china(x)
        [] variant = "CO" -> colombia(x)
        [] variant = "MX" -> mexico(x)
        [] variant = "VE" -> venezuela(x)
        [] OTHER          -> x
=============================================================================
