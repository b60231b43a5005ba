------------------------------ MODULE R2DtmfTx ------------------------------
(***************************************************************************)
(* The DTMF dialler: the tone generator of r2engine.c, its digit queue and *)
(* the part of openr2_chan_process that writes its samples to the line.    *)
(*                                                                         *)
(* The line carries symbols: a digit while its two frequencies sound, and  *)
(* Silence.  What was written is kept as runs of equal samples.            *)
(***************************************************************************)
EXTENDS Integers, Sequences, SequencesExt

CONSTANTS Keys,         \* the digits that dtmf_positions has
          Numbers,      \* the numbers dialled, as sequences of characters
          MaxDigits,    \* OR2_MAX_DTMF_DIGITS
          Timings,      \* pairs of times given to openr2_dtmf_tx_set_timing
          BufSize       \* io_buf_size of the channel

DtmfTxAssumption ==
  /\ MaxDigits \in Nat \ {0} /\ BufSize \in Nat \ {0}
  /\ \A n \in Numbers : n \in Seq(STRING) /\ n # <<>>
  /\ Timings \subseteq Int \X Int
  /\ \A t \in Timings : t[1] # 0 /\ t[2] # 0   \* openr2_context_set_dtmf_dialing

VARIABLES tx,       \* openr2_dtmf_tx_state_t
          dialing,  \* "no", "yes" (dialing_dtmf) or "done" (openr2_proto_handle_dtmf_end)
          buf,      \* the buffer being filled: the room left in it and its runs
          wire,     \* the runs written since the call started
          number    \* what the call dials

vars == <<tx, dialing, buf, wire, number>>

Silence == "silence"
PER_MS  == 8                   \* SAMPLE_RATE / 1000
DEFAULT_DTMF_TX_ON_TIME  == 50
DEFAULT_DTMF_TX_OFF_TIME == 55

\* n samples of a symbol after the runs w.
AddRun(w, sym, n) ==
  IF n = 0 THEN w
  ELSE IF w # <<>> /\ Last(w).sym = sym
       THEN Append(Front(w), [sym |-> sym, n |-> Last(w).n + n])
       ELSE Append(w, [sym |-> sym, n |-> n])

\* The runs v after the runs w.
AddRuns(w, v) == IF v = <<>> THEN w ELSE AddRun(w, Head(v).sym, Head(v).n) \o Tail(v)
-----------------------------------------------------------------------------
\* A digit's descriptor has two sections, the tone and the gap; the third has no
\* duration and ends it.  Section -1 is a generator that has nothing to play.
duration(section) == IF section = 0 THEN tx.on ELSE IF section = 1 THEN tx.off ELSE 0

tone_gen_init(s, digit) == [s EXCEPT !.digit = digit, !.section = 0, !.position = 0]

openr2_dtmf_tx_set_timing(s, on, off) ==
  [s EXCEPT !.on  = (IF on >= 0 THEN on ELSE DEFAULT_DTMF_TX_ON_TIME) * PER_MS,
            !.off = (IF off >= 0 THEN off ELSE DEFAULT_DTMF_TX_OFF_TIME) * PER_MS]

\* Mutant: a tone cut short by a hang-up is still in the generator.
openr2_dtmf_tx_init_keeps_tone(s) ==
  LET t == openr2_dtmf_tx_set_timing(s, -1, -1) IN [t EXCEPT !.queue = <<>>]

openr2_dtmf_tx_init(s) ==
  LET t == openr2_dtmf_tx_set_timing(s, -1, -1)
  IN [t EXCEPT !.queue = <<>>, !.section = -1, !.position = 0]

\* All the digits go into the queue, or none.
Fits(s, digits) == Len(digits) <= MaxDigits - Len(s.queue)
openr2_dtmf_tx_put(s, digits) ==
  IF Fits(s, digits) THEN [s EXCEPT !.queue = @ \o digits] ELSE s
-----------------------------------------------------------------------------
NewTx == [digit |-> Silence, section |-> -1, position |-> 0, queue |-> <<>>, on |-> 0, off |-> 0]
NoBuf == [room |-> 0, out |-> <<>>, filling |-> FALSE]

Init == tx = NewTx /\ dialing = "no" /\ buf = NoBuf /\ wire = <<>> /\ number = <<>>

\* openr2_proto_make_call on a context that dials with DTMF, and the timer that
\* starts the dialling.  A number that does not fit makes the call fail.
make_call(n, t) ==
  LET s == openr2_dtmf_tx_set_timing(openr2_dtmf_tx_init(tx), t[1], t[2]) IN
  /\ dialing # "yes"
  /\ tx' = openr2_dtmf_tx_put(s, n)
  /\ dialing' = IF Fits(s, n) THEN "yes" ELSE "no"
  /\ number' = n
  /\ wire' = <<>>
  /\ UNCHANGED buf

\* openr2_chan_process finds the line ready for output and calls openr2_dtmf_tx.
StartBuffer ==
  /\ dialing = "yes" /\ ~buf.filling
  /\ buf' = [room |-> BufSize, out |-> <<>>, filling |-> TRUE]
  /\ UNCHANGED <<tx, dialing, wire, number>>

\* One pass of the loop of tone_gen: the rest of the section or of the room.
\* After the last section of a tone that does not repeat there is none.
tone_gen ==
  LET left == duration(tx.section) - tx.position
      n == IF left > buf.room THEN buf.room ELSE left
      next == IF duration(tx.section + 1) = 0 THEN -1 ELSE tx.section + 1
  IN
  /\ buf.filling /\ tx.section >= 0 /\ buf.room > 0
  /\ tx' = IF n = left THEN [tx EXCEPT !.section = next, !.position = 0]
                       ELSE [tx EXCEPT !.position = @ + n]
  /\ buf' = [buf EXCEPT !.room = @ - n,
                        !.out = AddRun(@, IF tx.section = 1 THEN Silence ELSE tx.digit, n)]
  /\ UNCHANGED <<dialing, wire, number>>

\* openr2_dtmf_tx takes the next digit while there is room; a character that is
\* no key is skipped.
NextDigit ==
  /\ buf.filling /\ tx.section < 0 /\ buf.room > 0 /\ tx.queue # <<>>
  /\ LET s == [tx EXCEPT !.queue = Tail(@)]
     IN tx' = IF Head(tx.queue) \in Keys THEN tone_gen_init(s, Head(tx.queue)) ELSE s
  /\ UNCHANGED <<dialing, buf, wire, number>>

\* Back in openr2_chan_process: the samples, possibly few, are written; none at
\* all is the end of the dialling.
WriteBuffer ==
  /\ buf.filling /\ (buf.room = 0 \/ (tx.section < 0 /\ tx.queue = <<>>))
  /\ dialing' = IF buf.room = BufSize THEN "done" ELSE dialing
  /\ wire' = AddRuns(wire, buf.out)
  /\ buf' = NoBuf
  /\ UNCHANGED <<tx, number>>

\* The call is cleared: turn_off_mf_engine, the generator keeps its state.
HangUp ==
  /\ dialing = "yes" /\ ~buf.filling
  /\ dialing' = "no"
  /\ UNCHANGED <<tx, buf, wire, number>>

Process == StartBuffer \/ tone_gen \/ NextDigit \/ WriteBuffer

Next ==
  \/ \E n \in Numbers, t \in Timings : make_call(n, t)
  \/ Process
  \/ HangUp

Spec == Init /\ [][Next]_vars /\ WF_vars(Process)
-----------------------------------------------------------------------------
\* The types.
TypeOK ==
  /\ dialing \in {"no", "yes", "done"}
  /\ tx.section \in {-1, 0, 1}
  /\ tx.position \in Nat
  /\ Len(tx.queue) <= MaxDigits
  /\ \A k \in 1 .. Len(wire) : wire[k].n > 0

\* What a number sounds like: each key for the on time, then the gap.
Sound(n) ==
  LET keys == SelectSeq(n, LAMBDA d : d \in Keys)
  IN [k \in 1 .. 2 * Len(keys) |-> IF k % 2 = 1 THEN [sym |-> keys[(k + 1) \div 2], n |-> tx.on]
                                   ELSE [sym |-> Silence, n |-> tx.off]]

\* v is the beginning of w, sample for sample.
RunPrefix(v, w) ==
  \/ v = <<>>
  \/ /\ Len(v) <= Len(w)
     /\ \A k \in 1 .. Len(v) - 1 : v[k] = w[k]
     /\ Last(v).sym = w[Len(v)].sym /\ Last(v).n <= w[Len(v)].n

\* The line carries the digits of this call and no others, in order, each for
\* its time and followed by its gap, however the buffers cut them: nothing of a
\* number that was abandoned is heard (openr2_dtmf_tx and openr2_dtmf_tx_init).
DialsTheNumber == RunPrefix(wire, Sound(number))

\* The end of dialling, which openr2_proto_handle_dtmf_end reports as call
\* accepted, comes only after the last sample of the last gap.
DoneIsComplete == dialing = "done" => wire = Sound(number)
=============================================================================
