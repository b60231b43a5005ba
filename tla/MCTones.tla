------------------------------ MODULE MCTones -------------------------------
(***************************************************************************)
(* Tones and timers for TLC: the DTMF dialler and the queue that the       *)
(* engine keeps its digits in, the two detectors, the way of their results *)
(* to the channel, the conversion of samples, and the timer lists with the *)
(* clock that the frames and the sleeps go by.                             *)
(* These modules share nothing.  A behaviour runs one of them, the part,   *)
(* and the others stay in their initial state.                             *)
(***************************************************************************)
EXTENDS R2Timers, MCQueue

VARIABLES
  tx, dialing, buf, wire, number,                      \* of R2DtmfTx
  hits_rx, hist, reports,                              \* of R2DtmfDebounce
  call, dtmf_rx, block, left, dtmf_chan, quiet, calls, \* of R2DtmfLink
  line, mf_rx, result, mf_chan, broken, frame_no, since, \* of R2MfLink
  energy,                                              \* of R2MfDecision
  sample, heard                                        \* of R2Alaw

dialVars == <<tx, dialing, buf, wire, number>>
hitsVars == <<hits_rx, hist, reports>>
dtmfVars == <<call, dtmf_rx, block, left, dtmf_chan, quiet, calls>>
mfVars   == <<line, mf_rx, result, mf_chan, broken, frame_no, since>>
alawVars == <<sample, heard>>
timeVars == <<now, chanlist, sched_timers, timer_id, to_dispatch, user, wakes, idle>>
MCvars == <<part, vars, dialVars, hitsVars, dtmfVars, mfVars, energy, alawVars, timeVars>>

(***************************************************************************)
(* The dialler: a repeated digit, two digits, a character that is no key   *)
(* and a number that does not fit; the defaults of r2test and the library, *)
(* the engine's own, and times shorter than a buffer.                      *)
(***************************************************************************)
Dial == INSTANCE R2DtmfTx WITH
  Keys <- {"1", "2"}, MaxDigits <- 3, BufSize <- 160,
  Numbers <- {<<"1", "1">>, <<"2", "1", "2">>, <<"1", "x", "2">>, <<"1", "2", "1", "2">>},
  Timings <- {<<50, 100>>, <<-1, -1>>, <<3, 7>>, <<1, 30>>}

Hits == INSTANCE R2DtmfDebounce WITH rx <- hits_rx, Digits <- {"1", "2", "3"}

(***************************************************************************)
(* A DTMF call: the first digit starts a quarter of a second after the     *)
(* seizure, at every place it can have in a block of 102 samples.          *)
(***************************************************************************)
Dtmf == INSTANCE R2DtmfLink WITH
  rx <- dtmf_rx, chan <- dtmf_chan, On <- 312, Off <- 312, MaxCalls <- 1,
  Numbers <- {<<"5", "5">>, <<"1", "0", "1">>, <<"#">>},
  Leads <- {2000 + k : k \in 0..101}

(***************************************************************************)
(* MF without a threshold; and with one of three frames, across the change *)
(* of a second, where the far end's signals may last for two frames only.  *)
(***************************************************************************)
MfLines ==
  [mf |-> [tones |-> {"1", "F"}, fwd |-> TRUE, hold |-> 3, threshold |-> 0, long |-> 7,
           cuts |-> {0, 1, 26, 27, 28, 80, 132, 133, 134, 159}, start |-> 0, frames |-> 140],
   threshold |-> [tones |-> {"2", "0"}, fwd |-> FALSE, hold |-> 2, threshold |-> 60, long |-> 11,
           cuts |-> {0, 80}, start |-> 38, frames |-> 24]]

Mf(p) == INSTANCE R2MfLink WITH
  rx <- mf_rx, chan <- mf_chan, now <- frame_no, Tones <- MfLines[p].tones, Fwd <- MfLines[p].fwd,
  Cuts <- MfLines[p].cuts, Hold <- MfLines[p].hold, mf_threshold <- MfLines[p].threshold,
  Start <- MfLines[p].start, MaxFrames <- MfLines[p].frames, Long <- MfLines[p].long

(***************************************************************************)
(* Energies below and at the threshold, just within the twist of 10 and    *)
(* beyond it, and low enough for the relative peak test of 200 or not.     *)
(***************************************************************************)
Energies == {0, 10, 49, 60, 200}
Decision == INSTANCE R2MfDecision WITH Levels <- Energies

\* All samples of 16 bits.
Alaw == INSTANCE R2Alaw WITH Lowest <- -32768, Highest <- 32767

(***************************************************************************)
(* Timers (Time): one channel whose user asks for the channel, around a    *)
(* full second (one moment adds up to exactly a second with 999 ms), with  *)
(* sleeps that last too long or that the line ends early; and the channels *)
(* of a context.                                                           *)
(***************************************************************************)
Context == INSTANCE R2Sched WITH
  Channels <- {"a", "b", "c"}, Delays <- {1, 999}, MaxTimers <- 1, MaxId <- 1,
  Start <- {1000}, MaxWakes <- 1, Late <- {0}, WholeContext <- TRUE

ASSUME /\ Dial!DtmfTxAssumption /\ Dtmf!DtmfLinkAssumption /\ Decision!LevelsAssumption
       /\ \A p \in DOMAIN MfLines : Mf(p)!MfLinkAssumption
       /\ Time!SchedAssumption /\ Context!SchedAssumption

-----------------------------------------------------------------------------
MCInit ==
  /\ part \in {"dial", "hits", "dtmf", "decision", "alaw", "timers", "context"}
             \cup DOMAIN MfLines \cup DOMAIN Users
  /\ \/ \E u \in DOMAIN Users : part = u /\ Queue(u)!Init
     \/ part \notin DOMAIN Users /\ Init /\ data = [i \in 0..Cap |-> 0]
  /\ Dial!Init /\ Hits!Init /\ Dtmf!Init /\ Decision!Init /\ Alaw!Init
  /\ IF part = "threshold" THEN Mf("threshold")!Init ELSE Mf("mf")!Init
  /\ IF part = "timers" THEN Time!Init ELSE Context!Init

DialNext ==
  /\ part = "dial" /\ Dial!Next
  /\ UNCHANGED <<part, vars, hitsVars, dtmfVars, mfVars, energy, alawVars, timeVars>>

HitsNext ==
  /\ part = "hits" /\ Hits!Next
  /\ UNCHANGED <<part, vars, dialVars, dtmfVars, mfVars, energy, alawVars, timeVars>>

DtmfNext ==
  /\ part = "dtmf" /\ Dtmf!Next
  /\ UNCHANGED <<part, vars, dialVars, hitsVars, mfVars, energy, alawVars, timeVars>>

MfNext ==
  /\ \E p \in DOMAIN MfLines : part = p /\ Mf(p)!Next
  /\ UNCHANGED <<part, vars, dialVars, hitsVars, dtmfVars, energy, alawVars, timeVars>>

DecisionNext ==
  /\ part = "decision" /\ Decision!Next
  /\ UNCHANGED <<part, vars, dialVars, hitsVars, dtmfVars, mfVars, alawVars, timeVars>>

AlawNext ==
  /\ part = "alaw" /\ Alaw!Next
  /\ UNCHANGED <<part, vars, dialVars, hitsVars, dtmfVars, mfVars, energy, timeVars>>

TimeNext ==
  /\ \/ part = "timers" /\ Time!Next
     \/ part = "context" /\ Context!Next
  /\ UNCHANGED <<part, vars, dialVars, hitsVars, dtmfVars, mfVars, energy, alawVars>>

QueueNext ==
  /\ \E u \in DOMAIN Users : part = u /\ Queue(u)!Next
  /\ UNCHANGED <<part, dialVars, hitsVars, dtmfVars, mfVars, energy, alawVars, timeVars>>

MCNext ==
  \/ DialNext \/ HitsNext \/ DtmfNext \/ MfNext \/ DecisionNext \/ AlawNext
  \/ TimeNext \/ QueueNext

MCSpec == MCInit /\ [][MCNext]_MCvars

-----------------------------------------------------------------------------
\* The dialler sends the digits of the number and no others, each for its time,
\* and is done only after the last gap: R2DtmfTx!DialsTheNumber, DoneIsComplete.
DialsTheNumber == part = "dial" => Dial!DialsTheNumber /\ Dial!DoneIsComplete

\* One press of a key is one digit, and the patterns of the comment in
\* openr2_dtmf_rx are decided as it says: R2DtmfDebounce!OncePerPress, HitPatterns.
OncePerPress == part = "hits" => Hits!OncePerPress /\ Hits!HitPatterns

\* A DTMF call is offered with the number dialled, after half a second of
\* silence: R2DtmfLink!DnisIsDialled, HalfSecondEnds.
OfferedAsDialled == part = "dtmf" => Dtmf!DnisIsDialled /\ Dtmf!HalfSecondEnds

\* Every MF tone and every silence that lasts reaches the channel, one at a
\* time: R2MfLink!FollowsLine, SequenceUnbroken.
FollowsLine ==
  /\ \A p \in DOMAIN MfLines : part = p => Mf(p)!FollowsLine
  /\ part = "mf" => Mf("mf")!SequenceUnbroken

\* The first burst of a tone or a silence is ignored unless it lasts for the
\* threshold: R2MfLink!HandledWhenAround.
BurstIgnored == [][part = "threshold" => Mf("threshold")!HandledWhenAround]_MCvars

\* The detector names a signal if and only if its two bands stand out, and a
\* sample comes back from both A-law conversions within half an interval:
\* R2MfDecision!DecisionExact, R2Alaw!SampleKept.
SignalHeard ==
  /\ part = "decision" => Decision!DecisionExact
  /\ part = "alaw" => Alaw!SampleKept
=============================================================================
