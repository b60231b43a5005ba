------------------------------ MODULE R2MfLink ------------------------------
(***************************************************************************)
(* One direction of the MF signalling, from the far end's generator to the *)
(* mf_read_tone of the channel: frames of 160 samples, blocks of 133, and  *)
(* the threshold of openr2_proto_handle_mf_tone.  A frame takes 20 ms.     *)
(***************************************************************************)
EXTENDS R2MfEngine

CONSTANTS Tones,         \* the signals the far end uses
          Fwd,           \* the direction
          Cuts,          \* the places in a frame where it changes its signal
          Hold,          \* frames it keeps a signal at least
          mf_threshold,  \* of the context, in ms
          Start, MaxFrames,  \* the frames of the run; a second has fifty
          Long           \* durations are counted up to this many frames

FRAME == 160             \* OR2_CHAN_READ_SIZE
FRAME_MS == 20

MfLinkAssumption ==
  /\ Tones \subseteq { r2_mf_tone_codes[k] : k \in 1 .. 15 }
  /\ Fwd \in BOOLEAN
  /\ Cuts \subseteq 0 .. 159
  /\ Hold \in Nat /\ mf_threshold \in Nat
  /\ Start \in Nat /\ MaxFrames \in Nat
  /\ Long \in Nat /\ Long > Hold + 3 /\ Long * FRAME_MS > mf_threshold + 80

VARIABLES line,          \* the signal on the line and the samples it has lasted
          rx,            \* openr2_mf_rx_state_t: current_sample and the signals in the block
          result,        \* what the last call of openr2_mf_rx returned, for how many frames
          chan,          \* mf_read_tone, mf_threshold_tone and mf_threshold_time
          broken,        \* OR2_BROKEN_MF_SEQUENCE was raised
          now,           \* in frames
          since          \* for BurstIgnored: see Since

vars == <<line, rx, result, chan, broken, now, since>>

AtMost(n, max) == IF n > max THEN max ELSE n
-----------------------------------------------------------------------------
Sec(f) == f \div 50
Ms(f) == (f % 50) * FRAME_MS

\* The time between two moments, in ms.  Seconds further apart than one are taken
\* for one.  A frame never arrives in the first microsecond of a second.
timediff(f, g) == IF Sec(f) = Sec(g) THEN Ms(f) - Ms(g) ELSE Ms(f) + (1000 - Ms(g))

\* Mutant: the clock of the last tone goes on.
Watched_old_clock(c, tone) == [c EXCEPT !.threshold_tone = tone]

\* check_threshold: how long ago was this tone, or the silence, first seen.
Watched(c, tone) ==
  IF mf_threshold # 0 /\ c.threshold_tone # tone
  THEN [c EXCEPT !.threshold_tone = tone, !.threshold_time = now] ELSE c
check_threshold(c) ==
  mf_threshold # 0 /\ timediff(now, c.threshold_time) < mf_threshold

\* openr2_proto_handle_mf_tone, up to the calls that R2Mf models.
handle_mf_tone(c, tone) ==
  IF tone = c.read_tone THEN [chan |-> c, broken |-> FALSE]
  ELSE IF tone # None /\ c.read_tone # None THEN [chan |-> c, broken |-> TRUE]
  ELSE LET d == Watched(c, tone)
       IN [chan |-> IF check_threshold(d) THEN d ELSE [d EXCEPT !.read_tone = tone],
           broken |-> FALSE]
-----------------------------------------------------------------------------
\* The signals in the samples from .. to of a frame whose signal changes at cut.
Heard(old, new, cut, from, to) ==
  (IF from < cut THEN {old} ELSE {}) \cup (IF to >= cut THEN {new} ELSE {})

\* A block with one signal is taken for it, a block with several for any of
\* them or for silence.
Hits(heard) ==
  IF Cardinality(heard) = 1 THEN { ToneHit(Fwd, code) : code \in heard }
  ELSE heard \cup {None}

\* Mutant: the block is not started afresh after a decision.
openr2_mf_rx_keeps(new, cut) ==
  LET end1 == BLOCK - rx.n
      two  == end1 + BLOCK <= FRAME
      end  == IF two THEN end1 + BLOCK ELSE end1
      heard1 == rx.heard \cup Heard(line.tone, new, cut, 0, end1 - 1)
  IN [from |-> IF two THEN heard1 \cup Heard(line.tone, new, cut, end1, end - 1) ELSE heard1,
      rx |-> [n |-> FRAME - end, heard |-> heard1]]

\* openr2_mf_rx on a frame: one block is completed, or two when little was
\* missing from the first; the last one decides.
openr2_mf_rx(new, cut) ==
  LET end1 == BLOCK - rx.n
      two  == end1 + BLOCK <= FRAME
      end  == IF two THEN end1 + BLOCK ELSE end1
      heard1 == rx.heard \cup Heard(line.tone, new, cut, 0, end1 - 1)
  IN [from |-> IF two THEN Heard(line.tone, new, cut, end1, end - 1) ELSE heard1,
      rx |-> [n |-> FRAME - end,
              heard |-> IF end = FRAME THEN {} ELSE Heard(line.tone, new, cut, end, FRAME - 1)]]

Init ==
  /\ line = [tone |-> None, n |-> Hold * FRAME]
  /\ rx = [n |-> 0, heard |-> {}]
  /\ result = [tone |-> None, n |-> 0]
  /\ chan = [read_tone |-> None, threshold_tone |-> None, threshold_time |-> Start]
  /\ broken = FALSE
  /\ now = Start
  /\ since = [tone |-> None, n |-> 0]

(***************************************************************************)
(* The last signal detected other than the one read, and the frames since  *)
(* it was first, with nothing but these two in between.  Followed where    *)
(* there is a threshold, afresh after each signal handled.                 *)
(***************************************************************************)
Since(hit, read_tone) ==
  CASE mf_threshold = 0 -> since
    [] read_tone # chan.read_tone -> [tone |-> read_tone, n |-> 0]
    [] hit \in {chan.read_tone, since.tone} -> [since EXCEPT !.n = AtMost(@ + 1, Long)]
    [] OTHER -> [tone |-> hit, n |-> 0]

\* openr2_chan_handle_media on a frame in which the far end's signal becomes new
\* at sample cut: a tone after silence, or silence after a tone.
Frame(new, cut) ==
  LET b == openr2_mf_rx(new, cut) IN
  /\ ~broken /\ now < Start + MaxFrames
  /\ new = line.tone => cut = 0
  /\ new # line.tone => (new = None \/ line.tone = None) /\ line.n + cut >= Hold * FRAME
  /\ line' = [tone |-> new, n |-> IF new = line.tone THEN AtMost(line.n + FRAME, Long * FRAME)
                                 ELSE FRAME - cut]
  /\ rx' = b.rx
  /\ \E hit \in Hits(b.from) :
       LET h == handle_mf_tone(chan, hit) IN
       /\ result' = [tone |-> hit, n |-> IF hit = result.tone THEN AtMost(result.n + 1, Long) ELSE 1]
       /\ chan' = h.chan
       /\ broken' = h.broken
       /\ since' = Since(hit, h.chan.read_tone)
  /\ now' = now + 1

Next == \E new \in Tones \cup {None}, cut \in Cuts : Frame(new, cut)

Spec == Init /\ [][Next]_vars
-----------------------------------------------------------------------------
\* How long a signal may take to be seen: the block that it shares with the one
\* before, its own first block, and the frame that ends after it.
Settled == line.n >= 2 * BLOCK + FRAME + 8 * mf_threshold + (IF mf_threshold = 0 THEN 0 ELSE FRAME)

\* A signal that has lasted is what the channel has read, and stays so to its
\* end: no frame drops it, although a frame is not a whole number of blocks.
FollowsLine == Settled => chan.read_tone = line.tone

\* A far end that keeps every tone and every silence for Hold frames never makes
\* the channel give up with a broken MF sequence.
SequenceUnbroken == ~broken

(***************************************************************************)
(* The first burst of a signal never gets through if it is shorter than    *)
(* the threshold, wherever it falls in blocks, frames and seconds, and     *)
(* whatever bursts came before: a signal is handled only if it is detected *)
(* now and was detected a threshold ago, with nothing but it and the one   *)
(* read in between.  That it lasted the code does not see to: a frame that *)
(* shows the signal read returns before check_threshold (r2proto.c:2394,   *)
(* 2427), and the clock of the burst goes on.                              *)
(***************************************************************************)
HandledWhenAround ==
  chan'.read_tone # chan.read_tone =>
    /\ since.tone = chan'.read_tone /\ result'.tone = chan'.read_tone
    /\ (since.n + 1) * FRAME_MS >= mf_threshold

BurstIgnored == [][HandledWhenAround]_vars

\* "This is the amount of time a R2 MF signal is required to be ON or OFF after
\* has been detected to be handled" (doc/r2test.conf:65): a signal is handled
\* only if it was detected without interruption for the threshold.
HandledWhenLasted ==
  chan'.read_tone # chan.read_tone => (result'.n - 1) * FRAME_MS >= mf_threshold

ThresholdRespected == [][HandledWhenLasted]_vars
=============================================================================
