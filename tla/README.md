# A verification project for openr2

OpenR2 is a C library for call setup with MFC/R2 and DTMF/R2 signalling over E1
lines. This directory holds TLA+ models of it, the TLC configurations that check
them, and TLAPS proofs of what holds for every configuration. Paths below are
relative to the repository's `src/` directory; line numbers without a file are
those of `r2proto.c`.

## 1. Inventory

### Parts of the system

| Part | Source | State | Operations |
|---|---|---|---|
| Protocol vocabulary, variants | `r2proto.c`, `r2proto-pvt.h`, `r2context-pvt.h` | CAS patterns, MF tones, enumerations; per context: tones of groups A, B, C, I, II, timer durations, flags | `openr2_proto_configure_context` and one function per country |
| Channel | `r2chan.c`, `r2chan-pvt.h`, `r2proto.c` | `r2_state`, `call_state`, `mf_state`, `mf_group`, `direction`, bits read and written, ANI, DNIS, flags, the timer list and `timer_ids` | initialisation, CAS output, timers, clearing, accepting, answering |
| MF dialogue | `r2proto.c` | `mf_state`, `mf_group`, tone sent, tone heard, digit cursors | the handlers of forward and backward tones and silences, two timeouts |
| CAS state machine | `r2proto.c` | `r2_state`, `cas_read`, `cas_persistence_check_signal` | `openr2_proto_handle_cas`, persistence check, alarms, `make_call`, DTMF dialling, timer callbacks |
| Channel driver | `r2chan.c`, `r2ioabs.c` | the channel lock, `read_enabled`, `inalarm` | `openr2_chan_process`, `openr2_chan_write`, the API |
| Timers and time | `r2chan.c`, `r2context.c` | timer lists with seconds and microseconds, list of channels | add, cancel, handle, time to the next event of a channel and of a context |
| DTMF generator, digit queue | `r2engine.c`, `queue.c` | a ring buffer, the digit in progress | `openr2_dtmf_tx`, `queue_*` |
| DTMF and MF receivers | `r2engine.c`, `r2chan.c`, `r2proto.c` | block counters, last hits, silence count, threshold clock | `openr2_dtmf_rx`, `openr2_mf_rx`, `check_threshold` |
| A-law | `r2engine-pvt.h` | none | two conversions |
| Threads | `r2thread.c`, `r2chan.c` | recursive mutexes | lock, unlock |
| r2test | `r2test.c` | contexts, channels, a thread per channel | `main`, callbacks that call the API again |
| Logging, files, Line I/O wrappers | `r2log.c`, `r2utils.c`, `r2ioabs.c`, `r2context.c` | descriptors, levels | wrappers, text parsing |

### How they interact

The application calls `openr2_chan_process` (or `openr2_chan_run_schedule`)
whenever the line has something to say or a timer is due. It takes the channel
lock, runs the callbacks of expired timers, then turns line events into calls of
`openr2_proto_handle_cas` and `openr2_proto_handle_alarm_state`, and samples
into calls of `openr2_proto_handle_mf_tone` or into DTMF digits. The handlers
write CAS bits and tones, schedule and cancel timers, and call the user's
callbacks (`openr2_event_interface_t`) *with the lock held*. The lock is
recursive: a callback may call the API again, so that a handler may find, after a
callback, that its call has ended.

### What is hard

* Three state machines (CAS, call, MF) and a list of timers advance on four
  independent sources of events: patterns, tones, timers, the user. Nothing in
  the code states which combinations may occur.
* Several CAS signals share a pattern (SEIZE and FORCED_RELEASE; IDLE and
  CLEAR_FORWARD; SEIZE_ACK, BLOCK and CLEAR_BACK), so that only the state tells
  what was meant; and between two ends patterns cross.
* A timer is cancelled through one id per kind. Scheduling a second timer of a
  kind orphans the first; expired timers are all taken off the list before the
  first callback runs; the list has ten slots, and a full list is not an error.
* Reentrancy: reporting a disconnection may end the call inside the report.
* Failures below (the write of CAS bits, the tone engine) reset the channel from
  inside helpers whose callers go on.
* Alarms reset the channel in any state.
* The far end moves the cursor in the number that is being sent; the code tests the
  cell it reaches, never the cursor, and clears a number by its first cell only.
* Digits travel through blocks, frames, debouncing counters and a silence
  counter whose boundaries do not coincide.
* The queue is used without a lock; one entry point of the library runs the state
  machine without it; `r2test` starts its threads with a condition variable.

`PROJECT.json` lists each hazard at its line with the properties that watch it.

## 2. Modules

| Module | Models | Run |
|---|---|---|
| `R2Signals`, `R2Context` | CAS patterns (A and B bits), tones, enumerations; the protocol description and the functions of the countries | all of the next five |
| `R2Chan`, `R2Mf`, `R2Cas` | the channel record and its timers; the MF dialogue; the CAS machine, alarms, dialling, timer callbacks: a C function is an operator from a channel to a channel | |
| `R2Line` | one channel between an arbitrary far end and an arbitrary user | `itu_any_user`, `hang_up_ends`, `line_variants` |
| `R2LineClaims` | statements of comments that the code does not live up to | `end_is_final`, `dnis_left` |
| `R2Call` | two channels of this library at the ends of one line | `call_variants`, `call_dead_answer` |
| `R2Fifo`, `R2Queue` | what `queue.h` promises; `queue.c` with its pointers, one writer and one reader interleaved between reading a pointer, copying and storing it | `tones` |
| `R2DtmfTx` | `openr2_dtmf_tx` in blocks over the digit queue, and the loop that writes them | `tones` |
| `R2DtmfRx`, `R2DtmfDebounce`, `R2DtmfLink` | debouncing of block decisions; the detector alone; a dialled number through blocks, frames, the digit buffer and `dtmf_silence_samples` to `openr2_proto_handle_dtmf_end` | `tones` |
| `R2MfEngine`, `R2MfDecision`, `R2MfLink` | the decision of `openr2_mf_rx` from the six energies; alone; with debouncing, `check_threshold` and the first tests of `openr2_proto_handle_mf_tone` | `tones`, `mf_threshold` |
| `R2Alaw` | the two conversions of a sample | `tones` |
| `R2Sched` | timer lists with a clock of microseconds, a user that sleeps as long as it is told | `tones`, `context_next_event` |
| `R2Process`, `R2Write` | the loops of `openr2_chan_process` and `openr2_chan_write` over a DAHDI line that refuses (ELAST, EAGAIN) and fails | `driver` |
| `R2Locks` | several threads on one channel, the recursive mutex, callbacks that call back | `driver`, `thread_safe` |
| `R2Test` | contexts, channels and threads of `r2test` | `driver` |
| `R2Driver`, `R2Timers` | no state changes of their own: `R2Process`, `R2Write` and `R2Test` side by side, and `R2Sched`, with what the runs and the proofs claim of them | `driver`, `tones` |
| `R2ChanProof`, `R2CasProof`, `R2LineProof`, `R2RolesProof`, `R2CallProof`, `R2LocksProof`, `R2QueueProof`, `R2PartsProof` | lemmas about each operator, and the theorems | section 6 |
| `MC*` | instances for TLC | section 3 |

A handler in C calls others and each changes the channel. The model writes the
handler as one operator that composes the operators of what it calls, so an
action covers the whole handler, the helpers that reset the channel and the
callbacks that reenter the API included. The state of `R2Line` is `chan`, the
record of `openr2_chan_t`, and `line`, the pattern the far end sends; that of
`R2Call` is `ch`, the record of both ends, and what one writes is what the other
reads.

| Action of `R2Line` | Code |
|---|---|
| `CasEvent` | a CAS event in `openr2_chan_process`, or `openr2_chan_process_cas_signaling` |
| `ToneStarts`, `ToneStops` | the detector's verdict in `openr2_chan_process`, then `openr2_proto_handle_mf_tone` |
| `DtmfDigit`, `DtmfEnd` | DTMF detection, and the end of DTMF detection or dialling |
| `AlarmChanges` | `OR2_OOB_EVENT_ALARM_ON` and `_OFF` |
| `TimerExpires` | `openr2_chan_handle_timers` that finds one expired timer |
| `TimersExpireTogether` | the same with two (only in `SpecLate` of `R2LineClaims`) |
| `MakeCall`, `AcceptCall`, `AnswerCall`, `DisconnectCall`, `AckCall`, `SetIdle`, `SetBlocked` | the API functions of these names |
| `LineChanges` | the far end |
| `FaultChanges` | the layers below start or stop failing |

`R2Call` has `CasEvent`, `ToneEvent`, `TimerExpires`, `AlarmChanges` and the API
functions of both users, with the handlers of `R2Cas` unchanged.

A number is a sequence of digits, and what the cells of its array hold behind it is
state too: `dnis_old` is what earlier numbers left in `dnis[]`, `MaxDigits` the size of
the array and `PastDnis` the memory that follows it. `dnis_cell` is `dnis[i]` for any
`i`, and `send_dnis_at` tests that cell and nothing else, as line 1040 does. `ani[]`
needs none of this for reading, since `ani_ptr` moves on only over digits; what is
appended to it is as unbounded as in the code (1878), and so are the DTMF digits of a
DNIS (913).

What is abstracted. Tones are numbers 0 to 15 for the protocol and samples are gone;
only `R2DtmfTx`, `R2DtmfLink`, `R2MfLink` and `R2Alaw` count or convert samples. The
Goertzel filters are a decision on energies (`R2MfEngine`) or what was sounding in
the block, with any hit for a block that two symbols share (`R2DtmfLink`). Time is
gone from `R2Line` and `R2Call`, but timers keep the order that their durations force
(`MayExpire`). Log messages are gone except the two that say the library is in
trouble. A byte behind `dnis[]` that is no tone is sent as silence or fails in the tone
engine; `PastDnis` holds only bytes that are tones.

Definitions whose comment begins with "Fault:" or "Mutant:" are not used by a
specification: each is a definition with a bug, kept to show that the property it is
named with in `PROJECT.json` would notice.

## 3. Runs

Several runs cover more than one instance: the specification has a variable `setup`
(or `part`) that the initial state chooses and nothing changes, and instantiates the
module with constants that depend on it (`Line(s) == INSTANCE R2Line WITH Ctx <-
Setups[s].ctx, ...`). A property then says for which setups it holds.

| Run | Instance | Shows |
|---|---|---|
| `itu_any_user` | ITU, every tone of group A and B, two calls | the state machines, the wire, the supervision timers and the reports stay consistent in every order of events, while the far end drives the DNIS cursor out of its array (`TypeOK`, `IdleIsClean`, `WireAgrees`, `CasSupervised`, `MfSupervised`, `AlarmDropsCalls`, `EndReportedOnce`) |
| `line_variants` | `mexico`: group C, no end-of-DNIS tone, a user who reenters as `r2test` does; `argentina`: metering pulses, double answer, persistence check, reentrant; `degraded`: `io` and `mf` failures come and go, two timer slots, resets during calls; `dtmf`; `immediate`: group A by-pass, no category, the user acknowledges seizures and clears inside `on_call_accepted` | waits are supervised and a persistence check has exactly one timer (`Supervised`); a channel comes to rest clean, roles do not mix and the wire agrees (`Coherent`); every end is reported (`EndReported`); nothing of a call comes back or is billed after its end (`HangUpIsFinal`); only a living call is reported answered (`AnsweredIsAnswered`); no more ANI digits are collected than the context expects (`AniExpected`, of `mexico` and `immediate`, which ask for the ANI once) |
| `hang_up_ends` | ITU with fairness; MF dialling, DTMF detection, failing writes | a dialled call that was hung up comes to rest whatever the far end does |
| `call_variants` | `alarm`: two ITU ends, either dials, alarms at both; `mexico`; `late`: timers may race what is on the line; `early`: the called user may clear during the accept tone; `r2test`: users who accept, answer and clear at once. Numbers are shorter than, as long as and longer than the maximum, or there is no ANI | of every setup: the call offered is the call dialled (`NumberDelivered`), neither end leads the cursors of the other past the zero that ends a number (`CursorsInNumber`), no end waits for a clear forward that it has read (`ClearForwardToCome`). Of the setups that each definition names: an answer was given (`PeerAnswered`); an idle end takes nothing else for a call (`SeizureIsCall`); prompt ends never break a healthy call (`PromptEndsAgree`); whoever hung up comes to rest (`EarlyReleaseEnds`); a dialled call is answered or ends (`R2testDialEnds`); an alarm ends the call at the other end too (`AlarmReachesPeer`) |
| `tones` | `dial`, `hits`, `dtmf`, `mf`, `threshold`, `decision`, `alaw`, `timers`, `context`; and the queue with three users, `blocks`, `digits` (the DTMF generator) and `messages` | see the properties of `MCTones`; the writer's and the reader's slots never overlap (`NoOverlap`); a header implies its body (`BodyAvailable`); the ring buffer implements the FIFO (`IsFifo`: `R2Queue` refines `R2Fifo` by the bytes between `optr` and `iptr`) |
| `driver` | `locks`, `process`, `faulty`, `write`, `interrupted`, `test` | see the properties of `MCDriver` |

Six runs end in a counterexample; section 5 tells what they show.

### Bounds

* `max_ani`, `max_dnis`: one digit each for one channel, two for two channels. The
  code compares a length with a maximum; below, at and above it all occur.
* `MaxDigits`, the size of the arrays of digits, is 3 or 4 (80 in the code), and
  `PastDnis` is one cell with a digit. `MaxRx` bounds the digits a far end sends in a
  call, where the code has no bound. `MaxIndex` bounds the `dnis_index` the far end can
  drive up by asking again and again: with 4, an array of 3 cells and numbers of one
  digit, `itu_any_user` reaches the digit, the zero behind it, the last cell, the cell
  behind the array and the one after that. Elsewhere it is at or above the lengths in
  use. Two calls one after the other leave digits behind the number.
* `PendingBound`: while three timers (or more) are pending, the far end and the
  user wait for one to expire. Orphaned timers occur at two. Without it the far
  end can fill the ten slots with orphans, which changes only whether the next
  timer is dropped, and `degraded` reaches that case with `MaxTimers = 2`.
* Patterns: all four. Tones: every tone the variant gives a meaning that the run
  is about, and one it does not know; `degraded` and `argentina` keep one tone per
  kind of request (next digit, change to group B, accept).
* `R2Call` has no bound but the set of numbers: the protocol itself is finite.
* Queue: capacity 4 and blocks of 0 to 5 bytes meet every place of both pointers,
  full, empty, and one more than fits. The bytes are two or three values, so that a
  byte in the wrong place shows.
* `R2DtmfLink`: the first digit starts at every offset within a block of 102
  samples. `R2MfLink`: an edge of a tone falls at every place that matters in a block
  of 133 and in a frame of 160 (`Cuts`). With a threshold (60 ms, three frames) the far end
  keeps a tone or a silence for two frames or longer, so that bursts on both sides of
  the threshold occur, and 24 frames make room for several. `R2DtmfDebounce`: all
  sequences of eight block decisions over three digits. `R2MfDecision`: all six energies
  out of five values on both sides of the threshold, of the twist and of the relative
  peak. `R2Alaw`: all 65536 samples.
* `R2Sched`: up to three timers in one channel, or three channels; starts just
  before a full second, delays that add up to one; sleeps that last too long or end
  early.
* `R2Process`: two events and two frames in a run, two frames of a number to dial.
  `R2Write`: blocks of four samples. `R2Locks`: three threads. `R2Test`: three
  listeners and two callers, enough for a thread to be late and another to fail.
* The theorems of section 6 assume none of the bounds.

`AnswerEarly` says whether the user answers without having been offered a call.
It is off with DTMF, because `openr2_proto_answer_call` checks the call state for
MF only: there an early answer makes a call out of nothing, by design of the code.
`ResetInCall` says whether the user calls `openr2_chan_set_idle` or `_set_blocked`
during a call. `EarlyClear` says whether a called user clears while digits are
collected or the accept tone is on. `Prompt` says that both ends notice what is on
the line before a timer expires, as ends do whose timers are seconds and whose
line takes milliseconds.

Deadlock is checked except in `tones` and `driver`, where the numbers, frames,
samples, sleeps and the threads of `r2test` come to an end.

### Fairness

* `R2Line!FairSpec`: weak fairness of each timer and of nothing else. An
  application must keep calling `openr2_chan_process` or `openr2_chan_run_schedule`,
  and a timer that stays on the list is then found due. Neither the far end nor the
  user is assumed to do anything.
* `R2Call!FairSpec` and `MCCallVariants`: weak fairness of `CasEvent` and `ToneEvent`
  (both applications process their channel), and of `ClearsAfterReport` (a user
  clears a call it was told is disconnected, as `on_call_disconnect` demands). Strong
  fairness of `TimerExpires`: with `Prompt` a due timer waits until the line is quiet,
  so that it may be enabled and disabled again and again; real time would not pass
  it over for ever.
* `R2Process`, `R2Write`, `R2Locks`, `R2Test`: a thread that can run does; a driver
  sends the frames it has taken.

## 4. What the checks found to hold

With a line and a tone engine that work, the invariants hold for a channel under
every order of events and API calls, reentrant users included; with failing layers
the channel still never ends up half in a call. Two prompt ends of this library
never break each other's healthy call, in ITU and in Mexico, glare included, and the
number offered is the number dialled even with late ends. The ring buffer is a FIFO
though it has no lock. A DTMF number is offered as dialled wherever the blocks and
the frames cut it, if dialling starts before half a second has passed. Every MF tone
that lasts is seen once. Timers of one channel are served in order and on time, also
where a sum of exactly one second is not carried.

## 5. What comments say and the code does not do

Six are runs:

* `end_is_final`. Hanging up twice leaves two `r2_set_call_down` timers. If both
  are due in one pass, `on_call_end` is called twice for one call.
* `call_dead_answer`. A clear forward that arrives during the accept tone leaves the
  MF engine on, the call becomes accepted, and a user that answers overwrites the
  state of the clearing; hanging up then waits for a second clear forward.
* `context_next_event`. `openr2_context_get_time_to_next_event` overlooks timers when
  a channel of the context has none.
* `thread_safe`. `openr2_chan_process_cas_signaling` runs the CAS machine without the
  channel lock; with a second thread in `openr2_chan_process` one change of the line
  is handled twice.
* `dnis_left`. Whatever the far end asks for next is sent if its cell is not zero; after
  the end of the DNIS was sent, a third request reads behind the array (1031, 1040).
  Two ends of this library do not lead each other there with numbers (`CursorsInNumber`).
* `mf_threshold`. Two bursts of two frames pass a threshold of three: frames of the
  signal already read return before `check_threshold`, so the clock of the first burst
  goes on (2360, 2394). What the threshold does see to is `BurstIgnored`: the first
  burst of a signal never gets through, wherever it falls and whatever came before.

The following were observed in the same way. The modules still hold the statement;
it fails with the constants given. The listed run of the module holds without them.

| Statement | Fails with | What happens |
|---|---|---|
| `R2LineClaims!PersistedBeforeUse` | `cas_persistence_check` = 100 | `openr2_proto_init` cancels the timer but keeps the pattern; the next `openr2_proto_handle_cas` takes the missing timer for a check that succeeded (line 1168) |
| `R2LineClaims!ForcedReleaseProceeds` | constants of `end_is_final` | a forced release during call setup leaves the MF engine on, and a tone in flight makes the dead call accepted (1387) |
| `R2LineClaims!SeizeHeldUntilAck` | the same | the second of two `openr2_chan_disconnect_call` sends clear forward before the seizure is acknowledged (2736) |
| `R2LineClaims!RecoveryReadsLine` | the same | the alarm resets the bits last read to 0, which is SEIZE, so a seizure present when the alarm clears looks like no change (2929) |
| `R2Call!DigitsOfNumber` | `Numbers <- SomeNumber` | a call whose DNIS is not numeric, after one whose was: two ends of this library come to ask for, and send, the second digit of the earlier DNIS, since only the first cell was cleared (736, 2543) |
| `R2Line!AniExpected` | the constants of `dnis_left`, `FwdTones = {1, 15}` | a caller that answers each request for the DNIS with its end is asked for category and ANI again, and the digits add up beyond `max_ani`, bounded by nothing (1829, 1878) |
| `R2Call!NoPhantomCall` | `Causes` with FORCED_RELEASE, ITU | a forced release has the bits of a seizure; an end that is idle already takes it for a call (1589) |
| `R2Call!NumberDelivered` | China | `OR2_FORCE_USE_MAX_ANI` ends the ANI after one digit (1888) |
| `R2Call!AniRetrieved` | China, `get_ani_first` off, a DNIS shorter than `max_dnis` | the call comes without its ANI (1766) |
| `R2Call!ReleaseEnds` | users of `r2test` | a user that hangs up while `r2_answer_delay` is pending is still told of the acceptance, and answering there overwrites the clear back (2078) |
| `R2Queue!ContentsFit` | block writes, byte reads, several writes between initialisations | `queue_contents` reports one byte more than the queue holds (`queue.c:251`) |
| `R2DtmfDebounce!WobblyStart` | any three digits | a digit that begins with a block of another digit is declared late or not at all, unlike the table at `r2engine.c:2980` |
| `R2DtmfLink!DnisIsDialled` | `Leads = {4000}` | a caller that waits half a second before dialling is offered without its number (`r2chan.c:340`) |
| `R2DtmfLink!HalfSecondEnds` | `MaxCalls = 2` | the silence of the last call counts for the next one (902) |
| `R2Process!CallReturns` | `Mask = {"MF"}` | `openr2_chan_process_mf_signaling` never returns while an event is pending (`r2chan.c:445`) |
| `R2Process!SetupIsRead` | `UserReads = FALSE` | nothing in the library turns reading on for a call (`r2chan.c:111`) |
| `R2Test!CallersAfterListeners` | `Spurious = TRUE` | a spurious wakeup lets the callers start early (`r2test.c:915`) |
| `R2Test!StartsCallers` | `Faults` with `"os_error"` | a listener that ends in `on_os_error` is never counted down (`r2test.c:255`) |
| `R2Test!NeverCrashes` | `Faults` with `"channel"` | a channel that could not be made is locked (`r2test.c:866`) |
| `R2Test!MfAsConfigured` | a group with `dahdi` | `usedahdimf` carries over to later groups (`r2test.c:828`) |
| `R2Write!WritesTheBuffer` | `Lengths` beyond `BlockSize` | after a partial write the start of the buffer is sent again (`r2chan.c:804`) |
| `R2Write!WriteReturns` | `Events = TRUE` | a pending event makes `openr2_chan_write` loop with the lock held (`r2ioabs.c:196`) |
| `R2Write!BusyIsNoError` | any | a driver without room is reported as an error of the operating system (`r2ioabs.c:198`) |

Modelled as it is and without a statement: a channel blocked by this side can still
dial (2480); an answer scheduled as double goes on after the call was cleared and is
logged as a bug of the library; an ALARM_OFF without an alarm resets a call silently;
in ANSWER_RXD_MF_PENDING a metering pulse loses the pending answer (1408); nothing
supervises the wait for the first MF tone (965); a called user that clears while
digits are collected sends a pattern that the caller takes for the SEIZE_ACK it has
seen already (2700).

## 6. Proofs

The proof modules follow the models: `R2ChanProof` → `R2CasProof` hold one lemma per
operator of the channel, and `R2LineProof` (with `R2RolesProof` on it) and
`R2CallProof` build on them. `R2LocksProof`, `R2QueueProof` and `R2PartsProof` stand
alone; the last is about the parts around a channel, which share nothing but the
module.

**One channel against any far end.** `R2LineProof` proves of `R2Line!Spec`, for every
value of the constants that satisfies the named assumptions (`CtxAssumption`,
`MaxTimersAssumption`, `MaxDigitsAssumption`, `PastDnisAssumption`,
`ReentrantAssumption`, `LineAssumption`; they only give the constants their types,
and say that the variant has a tone for a restricted ANI, as all do):

* `TypeCorrect`: `Spec => []TypeOK`. What is behind the plain types are two facts: a
  DNIS dialled or collected with MF tones fits its array (`StoredFits`, `DnisFits`), and
  no request takes the cursor below the first digit (`SendDnis`). How far up the cursor
  goes it does not say, because nothing limits it; the lemmas about sending hold for any
  cell (`CellType`);
* `RestIsClean`: `Spec => []IdleIsClean`, if the user is `Orderly`;
* `AlarmMeansIdle`: `Spec => []AlarmDropsCalls`, if the user is `Orderly`.

`Orderly` excludes one thing: DTMF together with `AnswerEarly`. So these hold for
every protocol description (not only the built-in variants), every length of
number, any number of timers and timer slots, every mix of failures and reentrant
callbacks.

*The argument.* `IdleIsClean` is not inductive: a handler that runs on a call could
start from a state in which one machine is at rest and another is not. The inductive
invariant `Inv` says that the channel is in `Calm`, the union of `Live` (a call in
every machine) and `AtRest` (none in any). It carries one more fact, `Loose`: an
MF engine marked off has its DTMF flags clear. `turn_off_mf_engine` returns early on
such a channel, so that `openr2_proto_init` cleans up only because of it. Since
handlers are compositions, the proof has one lemma per operator, saying which set it
leads from and to: `openr2_proto_init` and what ends in it lead from `Loose` to
`AtRest`; an assignment to a field leads from `Live` to `Live`; a handler leads from
`Live`, or from `Calm`, to `Calm`. Where a helper may have reset the channel, the
lemma about its caller splits on that. The steps that matter most:

* `ForwardSilence`, `OfferCall`, `SendAni`: muting or sending a tone may end the
  call in a helper, and what the caller does next is harmless on a channel at rest;
* `AcceptTone`: the check after `on_call_accepted` is what keeps a cleared call from
  being marked answered;
* `RunTimer`, `ExpireOne`: at rest the only timer that can fire is a persistence
  check, which is why cancelling all timers in `openr2_proto_init` is needed;
* `AlarmState`: while the alarm flag is set and the call not yet dropped the channel
  is only `Loose`.

**The two roles.** `R2RolesProof` goes on from there, for the same `Spec` and an
`Orderly` user:

* `RolesNeverMix`: `Spec => []RolesAgree`;
* `WireFollowsState`: `Spec => []WireAgrees`, under `LineOk` (no write to the line
  fails, and the context has `auto_seize_ack`);
* `WaitsAreSupervised`: `Spec /\ [](~Made(chan.ev, Overflow)) => []CasSupervised`;
* `OneReportPerCall`: `Spec => EndReportedOnce`, under `MfOk` (the tone engine works);
* `NoSilentEnd`: `Spec => [][EndsReported]_vars`.

The hypotheses are those the runs make, and each excludes something the code does.
A failed write leaves the line with the old bits. A user who sends the seizure
acknowledgement himself (`OnWire` allows both patterns of SEIZE_ACK_TXD then; TLC
checks that case) is left out of the proof. A timer refused because all
`OR2_MAX_SCHED_TIMERS` slots are taken leaves a call without supervision: the step
that refuses it reports `no_time_slots`, and the theorem assumes that no step does.
A tone engine that fails may fail twice in one handler, and each failure is reported.

*The argument.* None of the four is inductive, and no two are independent: which bits
are on the line depends on the state, the state on who called, the timers on the
state, and whether a report is still to come on all of them. So the invariant,
`RoleInv`, replaces `Calm` by four sets.

| set | direction | CAS states | also |
|---|---|---|---|
| `Fore(w)` | FORWARD | `Talking`, `Seizing`, `Clearing`, glare | `Dialled`: call state and group of a caller, `WireOf` on the line, MF dialogue only between acknowledgement and clear forward (`GroupFits`), nothing reported; if `w`, `Watched` |
| `Back` | BACKWARD | `BackwardStates`, CLEAR_FWD_RXD | `Received`: call state and group of a called end, no timer of a caller, `OnWire`, nothing reported |
| `Rest` | STOPPED | `IdleStates` | `OnWire`, no `on_call_end` |
| `Ended` | STOPPED | `IdleStates` | `OnWire`, reported in this step, once if `MfOk` |

`Watched` says more than `CasSupervised`. `openr2_chan_add_timer` forgets an earlier
timer of the same kind, which then fires in whatever call it finds, so the proof needs
that there is at most one `r2_seize` and that it can still be cancelled (`Single`).
The parameter `w` says whether supervision is followed. With `w` FALSE the invariant
holds whether or not the list overflows, with `w` TRUE as long as it does not.
`Untold` is `Rest` before anything is reported. A handler then leads (`Leads`) from
`Fore` to `Fore` or `Ended`, from `Back` to `Back` or `Ended`, and from `Untold` to a
call or to `Rest`: never from one role to the other, never silently to rest. There is
one lemma per handler; those that carry most:

* `ErrorEnds`, `CallEndEnds`: resetting the channel and then reporting is the only way
  from a call to `Ended`, and what a caller of the helper does afterwards stays there;
* `SetState` and `ForeMove`, `BackMove`: an assignment to a machine is looked at once,
  with the states a caller may go between (`Seizing`, `Clearing`, `Talking`);
* `ToneLeads`: a backward tone may end the call in a helper three calls down, so what
  follows has to be right for a call and for an ended one (`Failed`);
* `HandleCasLeads`: glare, clear forward while seizing and the metering patterns
  are where a timer of one state is cancelled and that of the next one added;
* `ExpireLeads`: a timer that fires is no longer pending, which for `r2_seize` and
  `r2_set_call_down` is right only because their handlers leave the state.

`StepLeads` puts the handlers together, and the theorems read the sets. Before it was
proved, TLC checked the invariant and `Watched` on every setup of `line_variants` and
on two more with failing writes.

**Two channels on one line.** `R2CallProof` proves `Invariance` (both ends stay
`Calm`) and `TypeCorrect` of `R2Call!Spec`, with the same reading of `TypeOK` for both
ends. What one end reads is what the other wrote,
so the invariant has to hold of both ends at once: `FarSide` takes from it that the
pattern and the tone an end finds are ones its handlers are defined for, and the
lemmas of `R2CasProof` do the rest.

**Any number of threads.** `R2LocksProof` proves `OrderKept`: `Spec => []SeenInOrder`
for every set of threads, if the application does not call
`openr2_chan_process_cas_signaling` and the far end keeps to the protocol (`Locked`).
Run `thread_safe` shows that the first condition cannot be dropped. The inductive
invariant has three parts. `Exclusive`: a thread between its lock and its unlock is
the owner, with depth 2 inside a nested call and 1 otherwise. `Stable`: when no thread
is between storing the bits and changing the state, bits, state and what the
application was told belong together, and a line that was cleared stays idle.
`Handled`: what a thread has read and not yet acted on is still what the state allows
next. `HeldStep` says once what every step under the lock has to show, and each step
has a lemma of its own.

**The queue.** `R2QueueProof` proves `TwoSides` (`NoOverlap`), `WholeMessages`
(`BodyAvailable`) and `FirstInFirstOut`: the ring buffer of `queue.c` implements
`R2Fifo`, step by step, for every size, set of bytes and set of calls. The
refinement mapping reads the contents from the input pointer back to the output
pointer. The inductive invariant says where the pointers may be, that a granted write
still has its room while the other side moves, that the bytes a write has copied
stand behind the contents, that a read has copied what the contents begin with, and
that in a queue of messages a header is followed by its body before the next header.
The theorems assume `Disciplined` (in `R2Queue`): messages share their queue with no
other call, and byte calls are used with at most one block write after `queue_init`
and no block read, the way `r2engine.c` uses its queue of digits. Without it, a message
reader can find bytes that are no header, and the pointers can pass each other
(`ContentsFit`).

**The driver loops.** `SilentInAlarm`: for every event mask, driver and set of
failures no step of `openr2_chan_process` detects, sends or delivers anything in
alarm. `QuietInAlarm` is not inductive, since a turn that polled before the alarm
still holds its flags. The invariant adds that what was polled is still there
(`PolledIsThere`), and that such a turn finds reading and the MF engine switched off
(`Deaf`). `TakesTheBuffer`: what the driver has is what `openr2_chan_write` reports,
if buffers are at most `OR2_CHAN_READ_SIZE` long (`WithinABlock`): beyond, the loop
starts again at the beginning of the buffer, so the hypothesis cannot be dropped.

**The threads of r2test.** `ListenersFirst`: no thread that calls starts while a
listener has not counted itself down, for every configuration and whatever fails to
be made, unless `pthread_cond_wait` wakes without a signal (`~Spurious`; main does not
look at the count again). `CallsInOrder` adds that nothing is used that was not made,
under `FailsInOrder`: main looks at the result of `openr2_chan_new` only after its
first use, and a context that was not made is written to with DAHDI tones. The
invariant counts: the listeners that are pending (`Pending`) are at most
`listener_count`, main past its wait has none, and a signal while it waits means so.

**Timers.** `TimersAreServed` proves what run `tones` says of timers (`TimersServed`)
for every set of delays, of first moments, of oversleeps and of early events:
`Sorted`, `Punctual`, `SleepSafe` and `NoSpin` for a user of one channel,
`SleepSafeIfAllArmed` for a context of any size. (`Sorted` and `Punctual` are also
proved for any number of channels.) Three things carry it:

* the order in which `openr2_chan_add_timer` keeps its list, by seconds and then by
  microseconds, is an order of the moments even though a sum of exactly a second is
  not carried: the two ways of writing such a moment tie;
* `ms_until` rounds towards zero, separately for seconds and microseconds, and is still
  within a millisecond of the truth (`Expired` is never early by one, a sleep never
  late by one);
* the loop over the context, a recursive function of the number of turns, is followed
  by induction: the set of turns that go wrong would have a least element
  (`SmallestOf`, by well-foundedness of `<` on the naturals).

The invariant `TimeInv` has the lists in order, the timers taken for dispatch before
those that are left and no earlier than a millisecond, and none overdue left behind;
`Sleeps` relates the end of a sleep to the first timers; `SpinInv` says that a sleep
that found nothing due leaves less than a millisecond, which the next one takes.

*Only model-checked*: the supervision of the MF dialogue (`MfSupervised`: it depends on
the tones both ends still have to send, which the roles say nothing of), the billing
and answering properties of a channel (`StaysDown`, `BillsInCall`,
`AnswersTheLiving`), what the two ends agree on (`NumberDelivered`, `ClearForwardToCome`,
`NoPhantomCall`, `AnsweredByPeer`, `BreaksNoCall`), the properties of tones and samples
(`DialsTheNumber`, `OncePerPress`, `OfferedAsDialled`, `FollowsLine`, `SignalHeard`,
`BurstIgnored`), how far the far end leads the cursors and the ANI
(`CursorsInNumber`, `AniExpected`); liveness, which is out of the prover's reach
(`HangUpEnds`, `CallsReturn`, `StartsCallers`, `ReleaseEnds`, `DialEnds`,
`AlarmEndsCall`).

## 7. Not modelled

* The Goertzel filters and oscillators (`r2mf_*.c`, `r2dtmf_detect.c`, much of
  `r2engine.c`): numerical code without protocol state.
* Logging, call files, the parser of advanced protocol files and of `r2test.conf`,
  audio: text and I/O. The fields that the parser fills in are those of `R2Context`.
* Opening and closing devices, buffer setup and the ioctls for the bits: their
  failures are the fault field of a channel.
* Destruction of channels and contexts (`openr2_chan_delete` leaves the channel in
  the list of its context; the library never removes one): a property would need the
  heap.
* The interrupt pipes of `r2thread.c`, which the library does not use.

## 8. Plan

Done: the plan of the first version (two channels on a line, the queue and its
refinement, timers with a clock, threads, the theorems about a channel), and beyond
it the tone path, the driver loops, A-law and `r2test`.

Left, in this order:

1. Proofs: `MfSupervised` by adding the MF timers to `Fore` and `Back`; `StaysDown`
   as an action property of the lemmas of `R2RolesProof`; what two ends agree on, from
   the roles of both.
2. A composition of `R2Call` with the delivery of tones by `R2MfLink`, so that the
   abstraction "heard some time after it started" is itself a refinement.
3. The channel list under `openr2_context_remove_channel`.
