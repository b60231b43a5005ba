------------------------------- MODULE R2Alaw -------------------------------
(***************************************************************************)
(* The A-law conversion of r2engine-pvt.h, through which every sample goes *)
(* between the line and the tone engines.                                  *)
(***************************************************************************)
EXTENDS Integers, Bitwise

CONSTANTS Lowest, Highest    \* the samples of a sweep, at most those of int16_t

VARIABLES sample,   \* a sample of the sweep
          heard     \* what is left of it after both conversions

OR2_ALAW_AMI_MASK == 85
SIGN == 128

openr2_top_bit(n) == CHOOSE k \in 0 .. 30 : 2 ^ k <= n /\ n < 2 ^ (k + 1)

\* The segment of a magnitude: linear | 0xFF has its top bit at 7 or above.
Segment(m) == (IF m < 256 THEN 7 ELSE openr2_top_bit(m)) - 7

\* The magnitude and the sign bit of a sample: below zero, -1 is the smallest.
Magnitude(x) == IF x >= 0 THEN x ELSE -x - 1
SignBit(x) == IF x >= 0 THEN SIGN ELSE 0

openr2_linear_to_alaw(x) ==
  LET m == Magnitude(x)
      seg == Segment(m)
      step == (m \div 2 ^ (IF seg = 0 THEN 4 ELSE seg + 3)) % 16
  IN IF seg >= 8 THEN 127 ^^ (OR2_ALAW_AMI_MASK + SignBit(x))
     ELSE (seg * 16 + step) ^^ (OR2_ALAW_AMI_MASK + SignBit(x))

\* Mutant: the sample is the lower edge of its interval, not the middle.
openr2_alaw_to_linear_floor(code) ==
  LET a == code ^^ OR2_ALAW_AMI_MASK
      seg == (a % SIGN) \div 16
      i == (a % 16) * 16
      v == IF seg = 0 THEN i ELSE (i + 256) * 2 ^ (seg - 1)
  IN IF a >= SIGN THEN v ELSE -v

openr2_alaw_to_linear(code) ==
  LET a == code ^^ OR2_ALAW_AMI_MASK
      seg == (a % SIGN) \div 16
      i == (a % 16) * 16
      v == IF seg = 0 THEN i + 8 ELSE (i + 264) * 2 ^ (seg - 1)
  IN IF a >= SIGN THEN v ELSE -v
-----------------------------------------------------------------------------
Heard(s) == openr2_alaw_to_linear(openr2_linear_to_alaw(s))

Init == sample = Lowest /\ heard = Heard(Lowest)

Next ==
  /\ sample < Highest
  /\ sample' = sample + 1
  /\ heard' = Heard(sample')

Spec == Init /\ [][Next]_<<sample, heard>>
-----------------------------------------------------------------------------
Distance(a, b) == IF a < b THEN b - a ELSE a - b

\* The error allowed to a magnitude: half the interval of its segment.
Half(m) == 2 ^ (IF Segment(m) < 2 THEN 3 ELSE Segment(m) + 2)

\* A sample comes back within half an interval (one part in 32, or 8 near zero),
\* so that a tone keeps its level to the detector, and what came back is sent
\* again unchanged (openr2_linear_to_alaw and openr2_alaw_to_linear).
SampleKept == Distance(sample, heard) <= Half(Magnitude(sample)) /\ Heard(heard) = heard
=============================================================================
