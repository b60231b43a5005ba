----------------------------- MODULE R2MfEngine -----------------------------
(***************************************************************************)
(* The MF tone generator and detector of r2engine.c: which two frequencies *)
(* a signal sounds, and which signal a block of 133 samples is taken for.  *)
(***************************************************************************)
EXTENDS Integers, Sequences, FiniteSets

None == "none"    \* silence: 0 in the code

BLOCK == 133      \* R2_MF_SAMPLES_PER_BLOCK

r2_mf_tone_codes == << "1", "2", "3", "4", "5", "6", "7", "8", "9", "0", "B", "C", "D", "E", "F" >>

\* The pairs of frequencies, in the order of the codes.
r2_mf_fwd_tones ==
  << <<1380, 1500>>, <<1380, 1620>>, <<1500, 1620>>, <<1380, 1740>>, <<1500, 1740>>,
     <<1620, 1740>>, <<1380, 1860>>, <<1500, 1860>>, <<1620, 1860>>, <<1740, 1860>>,
     <<1380, 1980>>, <<1500, 1980>>, <<1620, 1980>>, <<1740, 1980>>, <<1860, 1980>> >>
r2_mf_back_tones ==
  << <<1140, 1020>>, <<1140, 900>>, <<1020, 900>>, <<1140, 780>>, <<1020, 780>>,
     <<900, 780>>, <<1140, 660>>, <<1020, 660>>, <<900, 660>>, <<780, 660>>,
     <<1140, 540>>, <<1020, 540>>, <<900, 540>>, <<780, 540>>, <<660, 540>> >>

\* The detector's filters.
r2_mf_fwd_frequencies  == << 1380, 1500, 1620, 1740, 1860, 1980 >>
r2_mf_back_frequencies == << 1140, 1020, 900, 780, 660, 540 >>

\* The codes by pair of filters; "-" where no pair leads.
r2_mf_positions ==
  << "1", "2", "4", "7", "B", "-", "3", "5", "8", "C", "-", "-", "6", "9", "D",
     "-", "-", "-", "0", "E", "-", "-", "-", "-", "F" >>

Index(s, x) == CHOOSE i \in 1 .. Len(s) : s[i] = x

\* openr2_mf_tx_put and openr2_mf_tx: the frequencies a generator sounds.
Sounds(fwd, code) ==
  IF code = None THEN {}
  ELSE LET pair == (IF fwd THEN r2_mf_fwd_tones ELSE r2_mf_back_tones)[Index(r2_mf_tone_codes, code)]
       IN { pair[1], pair[2] }
-----------------------------------------------------------------------------
\* Energies in tenths of R2_MF_THRESHOLD; R2_MF_TWIST is 5 and
\* R2_MF_RELATIVE_PEAK is written in tenths.
THRESHOLD == 10
TWIST == 5
RELATIVE_PEAK == 126

\* Mutant: a filter between the two best is not the second best.
Keep_best_only(e, best, i) == IF e[i] >= e[best[1]] THEN <<i, best[1]>> ELSE best

\* The loop over the filters: it keeps the two largest energies so far, the
\* later filter first when two are equal.
First(e) == IF e[1] > e[2] THEN <<1, 2>> ELSE <<2, 1>>
Keep(e, best, i) ==
  IF e[i] >= e[best[1]] THEN <<i, best[1]>>
  ELSE IF e[i] >= e[best[2]] THEN <<best[1], i>> ELSE best

BestTwo(e) == Keep(e, Keep(e, Keep(e, Keep(e, First(e), 3), 4), 5), 6)

Clear(e, b, s) ==
  /\ e[b] >= THRESHOLD /\ e[s] >= THRESHOLD
  /\ e[b] < e[s] * TWIST /\ e[b] * TWIST > e[s]
  /\ \A i \in 1 .. 6 \ {b, s} : e[i] * RELATIVE_PEAK < e[s] * 10

\* The pair in ascending order gives the place in r2_mf_positions.
Position(b, s) == LET lo == IF s < b THEN s ELSE b
                      hi == IF s < b THEN b ELSE s
                  IN (lo - 1) * 5 + (hi - 1)

\* The end of a block in openr2_mf_rx.
BlockHit(e) ==
  LET best == BestTwo(e)
  IN IF Clear(e, best[1], best[2]) THEN r2_mf_positions[Position(best[1], best[2])] ELSE None

\* The filters at work on a block that carries one signal from end to end.
BlockEnergy(fwd, freqs) ==
  [i \in 1 .. 6 |->
     IF (IF fwd THEN r2_mf_fwd_frequencies ELSE r2_mf_back_frequencies)[i] \in freqs
     THEN 3000 ELSE 0]

ToneHit(fwd, code) == BlockHit(BlockEnergy(fwd, Sounds(fwd, code)))
=============================================================================
