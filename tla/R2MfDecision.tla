---------------------------- MODULE R2MfDecision ----------------------------
(***************************************************************************)
(* The MF detector's decision on every combination of filter energies.     *)
(***************************************************************************)
EXTENDS R2MfEngine

CONSTANT Levels    \* energies of a filter, in tenths of R2_MF_THRESHOLD

LevelsAssumption == Levels \subseteq Nat

VARIABLE energy    \* of the last block

Init == energy = [i \in 1 .. 6 |-> 0]

\* From one block to the next the level in one band changes.
Next == \E i \in 1 .. 6, x \in Levels : energy' = [energy EXCEPT ![i] = x]

Spec == Init /\ [][Next]_energy
-----------------------------------------------------------------------------
Codes == { r2_mf_tone_codes[k] : k \in 1 .. 15 }

\* The two bands of a signal: Clear, whichever of the two is the stronger.
StandsOut(b, s) == Clear(energy, b, s) /\ Clear(energy, s, b)

\* A block is taken for a signal exactly when two bands stand out from the four
\* others and from the threshold, and the signal is the one whose generator
\* sounds these two bands, forward or backward (openr2_mf_rx against the tables
\* of openr2_mf_tx_init).  The filter that comes first in the scan makes no
\* difference, and no pair leads to a place of r2_mf_positions without a signal.
DecisionExact ==
  /\ BlockHit(energy) \in Codes \cup {None}
  /\ \A fwd \in BOOLEAN, code \in Codes :
       BlockHit(energy) = code <=>
         \E b, s \in 1 .. 6 :
           /\ b # s /\ StandsOut(b, s)
           /\ Sounds(fwd, code) =
                { (IF fwd THEN r2_mf_fwd_frequencies ELSE r2_mf_back_frequencies)[i] : i \in {b, s} }
=============================================================================
