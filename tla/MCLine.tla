------------------------------- MODULE MCLine -------------------------------
(***************************************************************************)
(* Instances of R2Line for TLC: the contexts, the tones of the far end and *)
(* the calls of the user that the configurations choose from.              *)
(***************************************************************************)
EXTENDS R2Line

(***************************************************************************)
(* One digit is enough for every branch that compares a number of digits   *)
(* with the maximum: the far end may send more (MaxRx).                    *)
(***************************************************************************)
ItuShort == configure_context("ITU", 1, 1)

\* MF to dial, DTMF to receive, and the user acknowledges seizures itself.
ItuDetectDtmf == [configure_context("ITU", 1, 1) EXCEPT !.detect_dtmf = TRUE,
                                                        !.auto_seize_ack = FALSE]

(***************************************************************************)
(* The far end.                                                            *)
(***************************************************************************)
ItuFwdTones == {1, 12, 15}
ItuBackTones == 1..8

(***************************************************************************)
(* The user.                                                               *)
(***************************************************************************)
OneCall == {[ani |-> <<2>>, known |-> TRUE, dnis |-> <<1>>, numeric |-> TRUE,
             restricted |-> FALSE]}

\* A number that just fits the array, and one that is not numeric, which leaves
\* the other's digits behind the first cell.
TwoCalls ==
  {[ani |-> <<2>>, known |-> TRUE, dnis |-> <<1, 3>>, numeric |-> TRUE, restricted |-> FALSE],
   [ani |-> <<>>, known |-> FALSE, dnis |-> <<>>, numeric |-> FALSE, restricted |-> TRUE]}

\* Behind the array: one byte that passes for a digit, then zeros.
OneByte == <<4>>
R2testUser == {"clear_on_disconnect", "accept_on_offer", "answer_on_accept"}
=============================================================================
