------------------------------- MODULE MCCall -------------------------------
(***************************************************************************)
(* Instances of R2Call for TLC.                                            *)
(***************************************************************************)
EXTENDS R2Call

Itu == configure_context("ITU", 2, 2)

Dial(ani, dnis) ==
  [ani |-> ani, known |-> ani # <<>>, dnis |-> dnis, numeric |-> TRUE,
   restricted |-> ani = <<>>]

\* As many digits as the context wants, fewer, more, and no ANI.
AnyLength == {Dial(<<3, 4>>, <<1, 2>>), Dial(<<3>>, <<1>>),
              Dial(<<3, 4, 5>>, <<1, 2, 3>>), Dial(<<>>, <<1, 1>>)}
FullNumbers == {Dial(<<3, 4>>, <<1, 2>>)}

\* A number, and a string that is not numeric.
SomeNumber == {Dial(<<3>>, <<1, 2>>), [Dial(<<3>>, <<>>) EXCEPT !.numeric = FALSE]}

\* Behind dnis[]: one byte that passes for a digit, then zeros.
OneByte == <<4>>
=============================================================================
