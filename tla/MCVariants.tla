----------------------------- MODULE MCVariants -----------------------------
(***************************************************************************)
(* R2Line once more, with five other configurations of the context, of the *)
(* user and of the layers below.  A behaviour picks one of them, Setups,   *)
(* and stays with it.                                                      *)
(***************************************************************************)
EXTENDS R2Context

VARIABLES
  setup,  \* the configuration of this behaviour
  chan,   \* of R2Line
  line    \* of R2Line

vars == <<setup, chan, line>>

\* The user of r2test: it accepts, answers and clears from within callbacks.
R2testUser == {"clear_on_disconnect", "accept_on_offer", "answer_on_accept"}

OneCall == {[ani |-> <<2>>, known |-> TRUE, dnis |-> <<1>>, numeric |-> TRUE,
             restricted |-> FALSE]}

Plain ==
  [ctx |-> configure_context("ITU", 1, 1), timers |-> 10, reentrant |-> {},
   fwd |-> {1, 12, 15}, back |-> 1..8, causes |-> {"BUSY_NUMBER", "FORCED_RELEASE"},
   faults |-> {}, reset |-> FALSE, early |-> TRUE, index |-> 2]

Setups ==
  [mexico |->
     [Plain EXCEPT !.ctx = configure_context("MX", 1, 1), !.reentrant = R2testUser,
                   !.fwd = {1, 15}, !.back = 1..6, !.index = 3],
   \* double answer, and a CAS pattern counts only after 100 ms
   argentina |->
     [Plain EXCEPT !.ctx = [configure_context("AR", 1, 1) EXCEPT !.double_answer = TRUE,
                              !.timers.cas_persistence_check = 100],
                   !.reentrant = R2testUser, !.fwd = {1}, !.back = {1, 3, 6}],
   \* the layers below fail, the timer list is too short, the user resets the line
   degraded |->
     [Plain EXCEPT !.timers = 2, !.fwd = {1}, !.back = {1, 3, 6},
                   !.causes = {"BUSY_NUMBER"}, !.faults = {"io", "mf"}, !.reset = TRUE, !.index = 1],
   dtmf |->
     [Plain EXCEPT !.ctx = [configure_context("ITU", 0, 1) EXCEPT !.dial_with_dtmf = TRUE,
                              !.detect_dtmf = TRUE],
                   !.early = FALSE],
   \* immediate accept, no category, the ANI last, and the user acknowledges the
   \* seizure itself
   immediate |->
     [Plain EXCEPT !.ctx = [configure_context("ITU", 1, 2) EXCEPT !.immediate_accept = TRUE,
                              !.skip_category = TRUE, !.get_ani_first = FALSE,
                              !.auto_seize_ack = FALSE],
                   !.reentrant = {"clear_on_accept"}]]

ASSUME \A v \in Variant : configure_context(v, 1, 1) \in Context

Line(s) == INSTANCE R2Line WITH
  Ctx <- Setups[s].ctx, MaxTimers <- Setups[s].timers, Reentrant <- Setups[s].reentrant,
  AnswerEarly <- Setups[s].early, LinePatterns <- cas_r2_bits, FwdTones <- Setups[s].fwd,
  BackTones <- Setups[s].back, Calls <- OneCall, Modes <- {"WITH_CHARGE"},
  Causes <- Setups[s].causes, Faults <- Setups[s].faults, ResetInCall <- Setups[s].reset,
  MaxIndex <- Setups[s].index, MaxRx <- 2, PendingBound <- 3,
  PastDnis <- <<4>>

Init == \E s \in DOMAIN Setups : setup = s /\ Line(s)!Init

Next == \E s \in DOMAIN Setups : setup = s /\ Line(s)!Next /\ UNCHANGED setup

Spec == Init /\ [][Next]_vars

-----------------------------------------------------------------------------
AllSetups == DOMAIN Setups
Healthy == AllSetups \ {"degraded"}

In(setups, P(_)) == \A s \in setups : setup = s => P(s)

(***************************************************************************)
(* The supervision of R2Line, where the timer list holds all the timers of *)
(* a call; and everywhere, a persistence check that runs has its timer.    *)
(***************************************************************************)
Supervised ==
  /\ In(Healthy, LAMBDA s : Line(s)!CasSupervised)
  /\ In(Healthy, LAMBDA s : Line(s)!MfSupervised)
  /\ In(Healthy, LAMBDA s : Line(s)!PersistenceTimer)

(***************************************************************************)
(* The machines of the channel agree with each other and with the line: at *)
(* rest nothing of a call is left, whatever fails (IdleIsClean); neither   *)
(* role is mixed with the other; and the bits are those of the state,      *)
(* unless writes fail or the user acknowledges seizures itself.            *)
(***************************************************************************)
Coherent ==
  /\ In(AllSetups, LAMBDA s : Line(s)!IdleIsClean)
  /\ In(Healthy, LAMBDA s : Line(s)!RolesAgree)
  /\ In(Healthy \ {"immediate"}, LAMBDA s : Line(s)!WireAgrees)

(***************************************************************************)
(* Where the ANI is asked for last (Mexico, and the setup immediate), no   *)
(* far end gets the called side to take more digits of it than expected:   *)
(* R2Line!AniExpected.                                                     *)
(***************************************************************************)
AniExpected == In({"mexico", "immediate"}, LAMBDA s : Line(s)!AniExpected)

\* Every call that ends is reported, whatever fails: R2Line!EndsReported.
EndReported == [][In(AllSetups, LAMBDA s : Line(s)!EndsReported)]_vars

(***************************************************************************)
(* After the end of a call nothing of it comes back: a call that was       *)
(* reported disconnected is not accepted or answered any more              *)
(* (R2Line!StaysDown, for a user that accepts and answers at once; the     *)
(* claims of R2Line have another), and no pulse is billed to it            *)
(* (R2Line!BillsInCall).                                                   *)
(***************************************************************************)
HangUpIsFinal ==
  [][/\ In({"mexico", "argentina"}, LAMBDA s : Line(s)!StaysDown)
     /\ In(AllSetups, LAMBDA s : Line(s)!BillsInCall)]_vars

\* on_call_answered is for a call that is up: R2Line!AnswersTheLiving.
AnsweredIsAnswered == [][In(AllSetups, LAMBDA s : Line(s)!AnswersTheLiving)]_vars
=============================================================================
