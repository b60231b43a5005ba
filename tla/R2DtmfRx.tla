------------------------------ MODULE R2DtmfRx ------------------------------
(***************************************************************************)
(* The DTMF detector of r2engine.c.  It looks at blocks of 102 samples:    *)
(* the energies of the eight filters make each block a hit of one digit or *)
(* of none, and successive hits are debounced into digits.                 *)
(***************************************************************************)
EXTENDS Integers, Sequences

None == "none"    \* no digit: 0 in the code

BLOCK == 102

\* dtmf_positions, by row and column.
dtmf_positions == << "1", "2", "3", "A", "4", "5", "6", "B",
                     "7", "8", "9", "C", "*", "0", "#", "D" >>

\* The decision of a block: the energies of the row and column filters and the
\* whole energy, in units of a tenth of DTMF_THRESHOLD; the factors 2.5 and 6.3
\* are written in tenths.
THRESHOLD == 10
NORMAL_TWIST == 63
REVERSE_TWIST == 25
RELATIVE_PEAK == 63
TO_TOTAL_ENERGY == 42

\* The first of the largest energies.
Peak(e) == CHOOSE i \in 1 .. 4 : /\ \A j \in 1 .. 4 : e[j] <= e[i]
                                 /\ \A j \in 1 .. i - 1 : e[j] < e[i]

BlockHit(row, col, energy) ==
  LET r == Peak(row)
      c == Peak(col)
      level == row[r] >= THRESHOLD /\ col[c] >= THRESHOLD
      twist == col[c] * 10 < row[r] * REVERSE_TWIST /\ col[c] * NORMAL_TWIST > row[r] * 10
      peak  == \A i \in 1 .. 4 : /\ i # c => col[i] * RELATIVE_PEAK <= col[c] * 10
                                 /\ i # r => row[i] * RELATIVE_PEAK <= row[r] * 10
  IN IF level /\ twist /\ peak /\ row[r] + col[c] > TO_TOTAL_ENERGY * energy
     THEN dtmf_positions[(r - 1) * 4 + c] ELSE None

openr2_dtmf_rx_init == [in_digit |-> None, last_hit |-> None, new |-> None]

\* Mutant: two blocks that differ from the digit start one, agreeing or not.
Debounce_any_two(s, hit) ==
  IF hit # s.in_digit /\ s.last_hit # s.in_digit
  THEN [in_digit |-> hit, last_hit |-> hit, new |-> hit]
  ELSE [in_digit |-> s.in_digit, last_hit |-> hit, new |-> None]

\* The end of a block in openr2_dtmf_rx: "new" is the digit given to the
\* callback, if any.
Debounce(s, hit) ==
  IF hit # s.in_digit /\ s.last_hit # s.in_digit
  THEN LET h == IF hit = s.last_hit THEN hit ELSE None
       IN [in_digit |-> h, last_hit |-> h, new |-> h]
  ELSE [in_digit |-> s.in_digit, last_hit |-> hit, new |-> None]

\* openr2_dtmf_rx_status: a digit, a digit that may be starting, or nothing.
openr2_dtmf_rx_status(s) ==
  IF s.in_digit # None THEN s.in_digit ELSE IF s.last_hit # None THEN "x" ELSE None
=============================================================================
