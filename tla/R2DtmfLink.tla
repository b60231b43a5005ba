----------------------------- MODULE R2DtmfLink -----------------------------
(***************************************************************************)
(* A DTMF call from the dialler's line to the DNIS of the channel that     *)
(* answers it: the samples of R2DtmfTx cut into frames and blocks, the     *)
(* detector of R2DtmfRx, and the counter of silence that ends the number   *)
(* in openr2_chan_handle_media.  Time is counted in samples of 125 us.     *)
(***************************************************************************)
EXTENDS R2DtmfRx, FiniteSets, SequencesExt

CONSTANTS Numbers,     \* the numbers dialled
          On, Off,     \* how long a digit and the gap after it last
          Leads,       \* the silence between the seizure and the first digit
          MaxCalls     \* calls on the same channel, one after the other

DtmfLinkAssumption ==
  /\ On \in Nat \ {0} /\ Off \in Nat \ {0}
  /\ Leads \subseteq Nat
  /\ MaxCalls \in Nat \ {0}
  /\ \A n \in Numbers : n # <<>> /\ \A k \in 1 .. Len(n) : \E p \in 1 .. 16 : dtmf_positions[p] = n[k]

OR2_CHAN_READ_SIZE == 160
OR2_DTMF_MAX_SILENCE_SAMPLES == 4000

VARIABLES call,       \* the far end: what it dials, how late, and the sample reached
          rx,         \* the detector
          block,      \* the block being filled: samples and symbols in it
          left,       \* samples of the frame not yet given to the detector
          chan,       \* the channel: phase of the call, DNIS and dtmf_silence_samples
          quiet,      \* silence heard since detection started or the last digit
          calls

vars == <<call, rx, block, left, chan, quiet, calls>>

NoBlock == [n |-> 0, heard |-> {}]
-----------------------------------------------------------------------------
\* What the far end sends at sample u: the digits one after the other, each
\* followed by its gap.
Symbol(u) ==
  LET v == u - call.lead
      k == v \div (On + Off) + 1
  IN IF v >= 0 /\ k <= Len(call.number) /\ v % (On + Off) < On THEN call.number[k] ELSE None

Symbols(u, n) == { Symbol(x) : x \in u .. u + n - 1 }

\* dtmf_tx_initialise: the digit at row r and column c sounds these two
\* frequencies at the same level.  Over a block of N samples of amplitude A the
\* filters of both give (AN/2)^2 and the whole energy is NA^2.
Place(d) == CHOOSE p \in 1 .. 16 : dtmf_positions[p] = d
Energy(i) == [j \in 1 .. 4 |-> IF i = j THEN 10 * (BLOCK \div 2) ELSE 0]
ToneHit(d) ==
  BlockHit(Energy((Place(d) - 1) \div 4 + 1), Energy(((Place(d) - 1) % 4) + 1), 20)

\* What a block may be taken for: a block with one symbol for that symbol, a
\* block with several for any of them or for nothing.
Hits(heard) ==
  IF Cardinality(heard) = 1
  THEN { IF d = None THEN None ELSE ToneHit(d) : d \in heard }
  ELSE heard \cup {None}
-----------------------------------------------------------------------------
Init ==
  /\ call = [number |-> <<>>, lead |-> 0, t |-> 0]
  /\ rx = openr2_dtmf_rx_init /\ block = NoBlock /\ left = 0
  /\ chan = [phase |-> "idle", dnis |-> <<>>, silence |-> 0]
  /\ quiet = 0 /\ calls = 0

\* The seizure is answered and detection starts: handle_incoming_call.  The
\* counter of silence is left as the last call left it.
handle_incoming_call(number, lead) ==
  /\ chan.phase = "idle" /\ calls < MaxCalls
  /\ call' = [number |-> number, lead |-> lead, t |-> 0]
  /\ rx' = openr2_dtmf_rx_init /\ block' = NoBlock
  /\ chan' = [chan EXCEPT !.phase = "detecting", !.dnis = <<>>]
  /\ quiet' = 0 /\ calls' = calls + 1
  /\ UNCHANGED left

\* openr2_chan_process reads a frame.
ReadFrame ==
  /\ chan.phase = "detecting" /\ left = 0
  /\ left' = OR2_CHAN_READ_SIZE
  /\ chan' = [chan EXCEPT !.phase = "frame"]
  /\ UNCHANGED <<call, rx, block, quiet, calls>>

\* on_dtmf_received, for a user that always wants more digits.
on_dtmf_received(c, digit) ==
  IF digit = None THEN c ELSE [c EXCEPT !.silence = 0, !.dnis = Append(@, digit)]

\* Mutant: the samples of a block that the frame cut are forgotten.
openr2_dtmf_rx_frame_bound ==
  /\ chan.phase = "frame" /\ left > 0
  /\ LET n == IF left < BLOCK - block.n THEN left ELSE BLOCK - block.n
         heard == block.heard \cup Symbols(call.t, n)
     IN
     /\ left' = left - n
     /\ call' = [call EXCEPT !.t = @ + n]
     /\ IF block.n + n < BLOCK
        THEN /\ block' = NoBlock
             /\ UNCHANGED <<rx, chan, quiet>>
        ELSE \E hit \in Hits(heard) :
               /\ rx' = Debounce(rx, hit)
               /\ block' = NoBlock
               /\ chan' = on_dtmf_received(chan, rx'.new)
               /\ quiet' = IF rx'.new = None THEN quiet ELSE 0
  /\ UNCHANGED calls

\* One pass of the loop of openr2_dtmf_rx: up to the end of the block or of the
\* frame.
openr2_dtmf_rx ==
  /\ chan.phase = "frame" /\ left > 0
  /\ LET n == IF left < BLOCK - block.n THEN left ELSE BLOCK - block.n
         heard == block.heard \cup Symbols(call.t, n)
     IN
     /\ left' = left - n
     /\ call' = [call EXCEPT !.t = @ + n]
     /\ IF block.n + n < BLOCK
        THEN /\ block' = [n |-> block.n + n, heard |-> heard]
             /\ UNCHANGED <<rx, chan, quiet>>
        ELSE \E hit \in Hits(heard) :
               /\ rx' = Debounce(rx, hit)
               /\ block' = NoBlock
               /\ chan' = on_dtmf_received(chan, rx'.new)
               /\ quiet' = IF rx'.new = None THEN quiet ELSE 0
  /\ UNCHANGED calls

\* The rest of openr2_chan_handle_media: a frame that ends without a digit
\* counts as silence, and openr2_proto_handle_dtmf_end offers the call when the
\* counter is exactly half a second.
CountSilence ==
  LET silent == openr2_dtmf_rx_status(rx) = None
      silence == chan.silence + IF silent THEN OR2_CHAN_READ_SIZE ELSE 0
      ended == silent /\ silence = OR2_DTMF_MAX_SILENCE_SAMPLES
  IN
  /\ chan.phase = "frame" /\ left = 0
  /\ chan' = [chan EXCEPT !.silence = silence,
                          !.phase = IF ended THEN "offered" ELSE "detecting"]
  /\ quiet' = IF silent THEN quiet + OR2_CHAN_READ_SIZE ELSE quiet
  /\ UNCHANGED <<call, rx, block, left, calls>>

\* The call is cleared, by either side, while dialling or after.
Clear ==
  /\ chan.phase \in {"detecting", "offered"}
  /\ chan' = [chan EXCEPT !.phase = "idle"]
  /\ UNCHANGED <<call, rx, block, left, quiet, calls>>

HandleMedia == ReadFrame \/ openr2_dtmf_rx \/ CountSilence

Next ==
  \/ \E n \in Numbers, lead \in Leads : handle_incoming_call(n, lead)
  \/ HandleMedia
  \/ Clear

Spec == Init /\ [][Next]_vars /\ WF_vars(HandleMedia)
-----------------------------------------------------------------------------
\* The types.
TypeOK ==
  /\ block.n \in 0 .. BLOCK
  /\ left \in 0 .. OR2_CHAN_READ_SIZE
  /\ chan.phase \in {"idle", "detecting", "frame", "offered"}
  /\ quiet \in Nat /\ calls \in 0 .. MaxCalls

\* No digit is lost, repeated or invented on the way: the DNIS is always what
\* the caller has dialled so far, and all of it when the call is offered,
\* wherever the digits fall between frames and blocks and whatever the detector
\* makes of the blocks they share with silence.
DnisIsDialled ==
  /\ IsPrefix(chan.dnis, call.number)
  /\ chan.phase = "offered" => chan.dnis = call.number

\* Half a second of silence, no more and no less, ends the number
\* (r2chan-pvt.h:45).
HalfSecondEnds ==
  /\ chan.phase = "offered" => quiet = OR2_DTMF_MAX_SILENCE_SAMPLES
  /\ chan.phase = "detecting" => quiet < OR2_DTMF_MAX_SILENCE_SAMPLES
=============================================================================
