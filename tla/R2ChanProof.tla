----------------------------- MODULE R2ChanProof -----------------------------
(***************************************************************************)
(* What the operations of R2Chan do to a channel, for every context, timer *)
(* list and failure: the lemmas that the proofs about the MF dialogue and  *)
(* the line are built from.                                                *)
(***************************************************************************)
EXTENDS R2Cas, SequenceTheorems, TLAPS

\* Replacing the timer list of a channel by another list keeps its type.
LEMMA SchedType ==
  ASSUME NEW c \in Chan, NEW s \in Seq(Timer)
  PROVE  [c EXCEPT !.sched = s] \in Chan
BY DEF Chan

\* Append stays within the sequences over a set.
LEMMA AppendType ==
  ASSUME NEW S, NEW s \in Seq(S), NEW x \in S
  PROVE  Append(s, x) \in Seq(S)
OBVIOUS

\* Taking a timer off the list (openr2_chan_cancel_timer, handle_timers)
\* leaves a list of timers.
LEMMA RemoveTimerType ==
  ASSUME NEW s \in Seq(Timer), NEW i \in 1..Len(s)
  PROVE  RemoveTimer(s, i) \in Seq(Timer)
BY DEF RemoveTimer

\* Overwriting a field of timer_ids leaves a list of timers.
LEMMA DisownType ==
  ASSUME NEW s \in Seq(Timer), NEW name \in TimerName
  PROVE  Disown(s, name) \in Seq(Timer)
<1> DEFINE E(i) == [name |-> s[i].name, ref |-> s[i].ref /\ s[i].name # name]
<1>1. \A i \in 1..Len(s) : E(i) \in Timer
  <2> TAKE i \in 1..Len(s)
  <2>1. s[i] \in Timer OBVIOUS
  <2>2. s[i].name \in TimerName BY <2>1 DEF Timer
  <2>3. (s[i].ref /\ s[i].name # name) \in BOOLEAN OBVIOUS
  <2> QED BY <2>2, <2>3 DEF Timer
<1>2. Len(s) \in Nat OBVIOUS
<1> HIDE DEF E
<1>3. [i \in 1..Len(s) |-> E(i)] \in [1..Len(s) -> Timer] BY <1>1
<1>4. [i \in 1..Len(s) |-> E(i)] \in Seq(Timer) BY <1>2, <1>3
<1> QED BY <1>4 DEF Disown, E

-----------------------------------------------------------------------------
(***************************************************************************)
(* The sets of channels the argument is about.  Handlers are compositions  *)
(* of operators, so the proof has one lemma per operator, which says from  *)
(* which of these sets it leads to which.                                  *)
(*                                                                         *)
(*   Loose    an MF engine marked off has released the DTMF engine too;    *)
(*            turn_off_mf_engine returns early on such a channel           *)
(*   Live     there is a call: no machine of the channel is at rest        *)
(*   AtRest   there is none: every machine is, and the only timers are     *)
(*            persistence checks                                           *)
(*   Calm     one of the two, which is what holds between handlers and     *)
(*            wherever a handler calls the user                            *)
(***************************************************************************)
OnlyPersistence(s) == \A i \in 1..Len(s) : s[i].name = "cas_persistence_check"

\* The user does not answer, under DTMF, a call that does not exist:
\* openr2_proto_answer_call checks the state of the call only for MF.
Orderly == ~(IS_DTMF_R2 /\ AnswerEarly)

Loose == {c \in Chan : c.mf_state = "OFF" => ~c.dialing_dtmf /\ ~c.detecting_dtmf}

Live == {c \in Loose : /\ c.call_state # "IDLE"
                       /\ c.r2_state \notin IdleStates
                       /\ Orderly => c.direction # "STOPPED" /\ ~c.inalarm}

AtRest == {c \in Loose : /\ c.call_state = "IDLE"
                         /\ c.direction = "STOPPED"
                         /\ c.r2_state \in IdleStates
                         /\ c.mf_state \in {"OFF", "ZERO"}
                         /\ c.mf_state = "ZERO" => c.r2_state = "INIT"
                         /\ c.mf_group = "NO_GROUP"
                         /\ c.mf_write_tone = 0 /\ c.mf_read_tone = 0
                         /\ ~c.answered /\ ~c.dialing_dtmf /\ ~c.detecting_dtmf
                         /\ OnlyPersistence(c.sched)}

Calm == Live \cup AtRest

\* How the five sets of channels are nested.
LEMMA Kinds ==
  /\ Loose \subseteq Chan /\ Live \subseteq Loose /\ AtRest \subseteq Loose
  /\ Calm \subseteq Loose /\ Live \subseteq Calm /\ AtRest \subseteq Calm
  /\ Live \subseteq Chan /\ AtRest \subseteq Chan /\ Calm \subseteq Chan
BY DEF Loose, Live, AtRest, Calm

\* Taking a timer off a list that holds only persistence checks leaves such
\* a list.
LEMMA RemoveOnly ==
  ASSUME NEW s \in Seq(Timer), NEW k \in 1..Len(s), OnlyPersistence(s)
  PROVE  OnlyPersistence(RemoveTimer(s, k))
<1> DEFINE a == SubSeq(s, 1, k - 1)
           b == SubSeq(s, k + 1, Len(s))
<1>1. a \in Seq(Timer) /\ Len(a) = k - 1 /\ \A i \in 1..(k - 1) : a[i] = s[i]
  OBVIOUS
<1>2. b \in Seq(Timer) /\ Len(b) = Len(s) - k
      /\ \A i \in 1..(Len(s) - k) : b[i] = s[i + k]
  OBVIOUS
<1> HIDE DEF a, b
<1>5. /\ Len(a \o b) = Len(a) + Len(b)
      /\ \A i \in 1..(Len(a) + Len(b)) :
           (a \o b)[i] = IF i <= Len(a) THEN a[i] ELSE b[i - Len(a)]
  BY <1>1, <1>2, ConcatProperties
<1>6. Len(a \o b) = Len(s) - 1
  BY <1>1, <1>2, <1>5
<1>3. ASSUME NEW i \in 1..(Len(s) - 1)
      PROVE  (a \o b)[i].name = "cas_persistence_check"
  <2>1. CASE i <= k - 1
    BY <2>1, <1>1, <1>2, <1>5 DEF OnlyPersistence
  <2>2. CASE i > k - 1
    <3>1. (a \o b)[i] = b[i - (k - 1)] BY <2>2, <1>1, <1>2, <1>5
    <3>2. i - (k - 1) \in 1..(Len(s) - k) BY <2>2
    <3>3. b[i - (k - 1)] = s[i - (k - 1) + k] BY <3>2, <1>2
    <3>4. i - (k - 1) + k \in 1..Len(s) BY <2>2
    <3>5. s[i - (k - 1) + k].name = "cas_persistence_check" BY <3>4 DEF OnlyPersistence
    <3> QED BY <3>1, <3>3, <3>5, Zenon
  <2>3. i <= k - 1 \/ i > k - 1 OBVIOUS
  <2> QED BY <2>1, <2>2, <2>3, Zenon
<1> QED
  BY <1>3, <1>6 DEF RemoveTimer, OnlyPersistence, a, b

\* Orphaning timers does not change their names.
LEMMA DisownOnly ==
  ASSUME NEW s \in Seq(Timer), NEW name \in TimerName, OnlyPersistence(s)
  PROVE  OnlyPersistence(Disown(s, name))
<1>1. Len(Disown(s, name)) = Len(s) BY DEF Disown
<1>2. \A i \in 1..Len(s) : Disown(s, name)[i].name = s[i].name BY DEF Disown
<1> QED BY <1>1, <1>2 DEF OnlyPersistence

\* Starting another persistence check leaves only persistence checks.
LEMMA AppendOnly ==
  ASSUME NEW s \in Seq(Timer), NEW ref \in BOOLEAN, OnlyPersistence(s)
  PROVE  OnlyPersistence(Append(s, [name |-> "cas_persistence_check", ref |-> ref]))
<1> DEFINE t == [name |-> "cas_persistence_check", ref |-> ref]
<1>1. t.name = "cas_persistence_check" OBVIOUS
<1> HIDE DEF t
<1>2. Len(Append(s, t)) = Len(s) + 1
      /\ \A i \in 1..(Len(s) + 1) : Append(s, t)[i] = IF i = Len(s) + 1 THEN t ELSE s[i]
  OBVIOUS
<1> QED BY <1>1, <1>2 DEF OnlyPersistence, t

\* A call stays a call whatever its timer list.
LEMMA LiveSched ==
  ASSUME NEW c \in Live, NEW s \in Seq(Timer)
  PROVE  [c EXCEPT !.sched = s] \in Live
BY DEF Live, Loose, Chan

\* A channel at rest stays so while its timers are persistence checks.
LEMMA AtRestSched ==
  ASSUME NEW c \in AtRest, NEW s \in Seq(Timer), OnlyPersistence(s)
  PROVE  [c EXCEPT !.sched = s] \in AtRest
<1>1. [c EXCEPT !.sched = s] \in Chan BY Kinds, SchedType
<1> QED BY <1>1 DEF AtRest, Loose, Chan

\* The timer list of a channel is a sequence of timers.
LEMMA SchedSeq == ASSUME NEW c \in Chan PROVE c.sched \in Seq(Timer)
BY DEF Chan

\* What a callback may be given.
Arg == {""} \cup Cause \cup ProtocolError \cup Mode \cup TimerName

\* Calling a callback of the user changes nothing of the channel itself.
LEMMA EmitType ==
  ASSUME NEW c \in Chan, NEW cb \in Callback, NEW arg \in Arg
  PROVE  /\ Emit(c, cb, arg) \in Chan
         /\ c \in Live => Emit(c, cb, arg) \in Live
         /\ c \in AtRest => Emit(c, cb, arg) \in AtRest
         /\ c \in Calm => Emit(c, cb, arg) \in Calm
<1> DEFINE q == Append(c.ev, [cb |-> cb, arg |-> arg])
<1>1. [cb |-> cb, arg |-> arg] \in Event
  BY DEF Event, Arg
<1>2. c.ev \in Seq(Event)
  BY DEF Chan
<1>3. q \in Seq(Event)
  BY <1>1, <1>2, AppendType
<1>4. Emit(c, cb, arg) = [c EXCEPT !.ev = q] BY DEF Emit
<1> HIDE DEF q
<1>5. [c EXCEPT !.ev = q] \in Chan BY <1>3 DEF Chan
<1>6. c \in Live => [c EXCEPT !.ev = q] \in Live BY <1>5 DEF Live, Loose, Chan
<1>7. c \in AtRest => [c EXCEPT !.ev = q] \in AtRest BY <1>5 DEF AtRest, Loose, Chan
<1> QED BY <1>4, <1>5, <1>6, <1>7 DEF Calm

\* openr2_chan_add_timer, its full list included, keeps a call a call.
LEMMA ScheduleLive ==
  ASSUME NEW c \in Live, NEW name \in TimerName, NEW ref \in BOOLEAN
  PROVE  schedule(c, name, ref) \in Live
<1>1. [name |-> name, ref |-> ref] \in Timer BY DEF Timer
<1>2. c.sched \in Seq(Timer) BY Kinds, SchedSeq
<1>3. Append(c.sched, [name |-> name, ref |-> ref]) \in Seq(Timer) BY <1>1, <1>2, AppendType
<1>4. "no_time_slots" \in Callback /\ name \in Arg BY DEF Callback, Arg
<1>5. Emit(c, "no_time_slots", name) \in Live BY <1>4, EmitType, Kinds
<1> QED BY <1>3, <1>5, LiveSched DEF schedule

\* Storing the id of the new timer in timer_ids keeps a call a call.
LEMMA AddTimerLive ==
  ASSUME NEW c \in Live, NEW name \in TimerName
  PROVE  add_timer(c, name) \in Live
<1>1. c.sched \in Seq(Timer) BY Kinds, SchedSeq
<1>2. [c EXCEPT !.sched = Disown(@, name)] \in Live BY <1>1, DisownType, LiveSched
<1> QED BY <1>2, ScheduleLive DEF add_timer

\* A persistence check is the one timer that may start on a channel at rest.
LEMMA AddTimerAtRest ==
  ASSUME NEW c \in AtRest
  PROVE  add_timer(c, "cas_persistence_check") \in AtRest
<1> DEFINE n == "cas_persistence_check"
           d == [c EXCEPT !.sched = Disown(@, n)]
           t == [name |-> n, ref |-> TRUE]
<1>1. n \in TimerName /\ t \in Timer BY DEF TimerName, Timer
<1>2. c.sched \in Seq(Timer) /\ OnlyPersistence(c.sched) BY Kinds, SchedSeq DEF AtRest
<1>3. d \in AtRest BY <1>1, <1>2, DisownType, DisownOnly, AtRestSched
<1> HIDE DEF d
<1>4. d.sched \in Seq(Timer) /\ OnlyPersistence(d.sched) BY <1>3, Kinds, SchedSeq DEF AtRest
<1>5. Append(d.sched, t) \in Seq(Timer) BY <1>1, <1>4, AppendType
<1>6. OnlyPersistence(Append(d.sched, t)) BY <1>4, AppendOnly
<1>7. [d EXCEPT !.sched = Append(d.sched, t)] \in AtRest BY <1>3, <1>5, <1>6, AtRestSched
<1>8. "no_time_slots" \in Callback /\ n \in Arg BY DEF Callback, Arg, TimerName
<1>9. Emit(d, "no_time_slots", n) \in AtRest BY <1>3, <1>8, EmitType, Kinds
<1> QED BY <1>7, <1>9 DEF add_timer, schedule, d

\* openr2_chan_cancel_timer keeps a call a call and a channel at rest at
\* rest.
LEMMA CancelTimerCalm ==
  ASSUME NEW c \in Calm, NEW name \in TimerName
  PROVE  /\ c \in Live => cancel_timer(c, name) \in Live
         /\ c \in AtRest => cancel_timer(c, name) \in AtRest
<1>1. c.sched \in Seq(Timer) BY Kinds, SchedSeq
<1>2. CASE \E i \in 1..Len(c.sched) : Owned(c.sched, name, i)
  <2> DEFINE i == CHOOSE k \in 1..Len(c.sched) : Owned(c.sched, name, k)
             r == RemoveTimer(c.sched, i)
  <2>1. i \in 1..Len(c.sched) BY <1>2
  <2>2. cancel_timer(c, name) = [c EXCEPT !.sched = r] BY <1>2 DEF cancel_timer
  <2> HIDE DEF i
  <2>3. r \in Seq(Timer) BY <1>1, <2>1, RemoveTimerType
  <2>4. c \in AtRest => OnlyPersistence(c.sched) BY DEF AtRest
  <2>5. c \in AtRest => OnlyPersistence(r) BY <1>1, <2>1, <2>4, RemoveOnly
  <2> HIDE DEF r
  <2> QED BY <2>2, <2>3, <2>5, LiveSched, AtRestSched
<1>3. CASE ~ \E i \in 1..Len(c.sched) : Owned(c.sched, name, i)
  BY <1>3 DEF cancel_timer
<1> QED BY <1>2, <1>3

-----------------------------------------------------------------------------
\* The signals set_cas_signal is called with.
CasSignal == {"IDLE", "BLOCK", "SEIZE", "SEIZE_ACK", "CLEAR_BACK",
              "FORCED_RELEASE", "CLEAR_FORWARD", "ANSWER"}

\* Every CAS signal is an AB pattern.
LEMMA CasType ==
  ASSUME NEW signal \in CasSignal
  PROVE  CAS[signal] \in cas_r2_bits
BY DEF CAS, cas_r2_bits, CasSignal

\* The transmitted bits have no bearing on whether there is a call.
LEMMA BitsType ==
  ASSUME NEW c \in Chan, NEW v \in cas_r2_bits, NEW w \in cas_r2_bits
  PROVE  /\ c \in Loose => [c EXCEPT !.cas_write = v, !.wire = w] \in Loose
         /\ c \in Live => [c EXCEPT !.cas_write = v, !.wire = w] \in Live
         /\ c \in AtRest => [c EXCEPT !.cas_write = v, !.wire = w] \in AtRest
<1>1. [c EXCEPT !.cas_write = v, !.wire = w] \in Chan BY DEF Chan
<1>2. c \in Loose => [c EXCEPT !.cas_write = v, !.wire = w] \in Loose
  BY <1>1 DEF Loose, Chan
<1>3. c \in Live => [c EXCEPT !.cas_write = v, !.wire = w] \in Live
  BY <1>1 DEF Live, Loose, Chan
<1>4. c \in AtRest => [c EXCEPT !.cas_write = v, !.wire = w] \in AtRest
  BY <1>1 DEF AtRest, Loose, Chan
<1> QED BY <1>2, <1>3, <1>4

\* set_cas_signal, whether or not the write succeeds, neither starts nor
\* ends a call.
LEMMA SetCas ==
  ASSUME NEW c \in Chan, NEW signal \in CasSignal
  PROVE  /\ c \in Loose => set_cas_signal(c, signal) \in Loose
         /\ c \in Live => set_cas_signal(c, signal) \in Live
         /\ c \in AtRest => set_cas_signal(c, signal) \in AtRest
         /\ c \in Calm => set_cas_signal(c, signal) \in Calm
<1> DEFINE v == CAS[signal]
           w == IF IoFails(c) THEN c.wire ELSE v
<1>1. set_cas_signal(c, signal) = [c EXCEPT !.cas_write = v, !.wire = w]
  BY DEF set_cas_signal
<1>2. v \in cas_r2_bits /\ c.wire \in cas_r2_bits BY CasType DEF Chan
<1> HIDE DEF v
<1>3. w \in cas_r2_bits BY <1>2
<1> HIDE DEF w
<1> DEFINE d == [c EXCEPT !.cas_write = v, !.wire = w]
<1>4. (c \in Loose => d \in Loose) /\ (c \in Live => d \in Live)
      /\ (c \in AtRest => d \in AtRest)
  BY <1>2, <1>3, BitsType
<1>5. set_cas_signal(c, signal) = d BY <1>1
<1> HIDE DEF d
<1> QED BY <1>4, <1>5 DEF Calm

-----------------------------------------------------------------------------
\* A call goes through its MF states.
LEMMA LiveMf ==
  ASSUME NEW c \in Live, NEW m \in MfState \ {"OFF"}
  PROVE  [c EXCEPT !.mf_state = m] \in Live
BY DEF Live, Loose, Chan

\* A call goes through its MF groups.
LEMMA LiveGroup ==
  ASSUME NEW c \in Live, NEW g \in MfGroup
  PROVE  [c EXCEPT !.mf_group = g] \in Live
BY DEF Live, Loose, Chan

\* A request changes group and MF state together.
LEMMA LiveGroupMf ==
  ASSUME NEW c \in Live, NEW g \in MfGroup, NEW m \in MfState \ {"OFF"}
  PROVE  [c EXCEPT !.mf_group = g, !.mf_state = m] \in Live
BY DEF Live, Loose, Chan

\* A call goes through the CAS states that are not idle.
LEMMA LiveR2 ==
  ASSUME NEW c \in Live, NEW s \in R2State \ IdleStates
  PROVE  [c EXCEPT !.r2_state = s] \in Live
BY DEF Live, Loose, Chan

\* A call goes through its call states.
LEMMA LiveCall ==
  ASSUME NEW c \in Live, NEW s \in CallState \ {"IDLE"}
  PROVE  [c EXCEPT !.call_state = s] \in Live
BY DEF Live, Loose, Chan

\* An answer, sent or received, belongs to a call.
LEMMA LiveAnswered ==
  ASSUME NEW c \in Live, NEW s \in R2State \ IdleStates
  PROVE  /\ [c EXCEPT !.r2_state = s, !.call_state = "ANSWERED",
                      !.answered = TRUE] \in Live
         /\ [c EXCEPT !.call_state = "ANSWERED", !.r2_state = s,
                      !.answered = TRUE] \in Live
<1>1. "ANSWERED" \in CallState BY DEF CallState
<1> QED BY <1>1, ZenonT(40) DEF Live, Loose, Chan

\* A call may send any tone.
LEMMA LiveWriteTone ==
  ASSUME NEW c \in Live, NEW t \in Tone
  PROVE  [c EXCEPT !.mf_write_tone = t] \in Live
BY DEF Live, Loose, Chan

\* Silencing a channel at rest changes nothing.
LEMMA AtRestMute ==
  ASSUME NEW c \in AtRest
  PROVE  /\ [c EXCEPT !.mf_write_tone = 0] \in AtRest
         /\ [c EXCEPT !.mf_read_tone = 0] \in AtRest
<1>1. 0 \in Tone BY DEF Tone
<1>2. [c EXCEPT !.mf_write_tone = 0] \in Chan /\ [c EXCEPT !.mf_read_tone = 0] \in Chan
  BY <1>1 DEF AtRest, Loose, Chan
<1> QED BY <1>2 DEF AtRest, Loose, Chan

\* turn_off_mf_engine releases the MF engine and leaves the call alone.
LEMMA TurnOffLive ==
  ASSUME NEW c \in Live
  PROVE  turn_off_mf_engine(c) \in Live
<1>1. cancel_timer(c, "mf_back_cycle") \in Live
  BY Kinds, CancelTimerCalm DEF TimerName
<1>2. "OFF" \in MfState BY DEF MfState
<1>3. ASSUME NEW d \in Live
      PROVE  [d EXCEPT !.dialing_dtmf = FALSE, !.detecting_dtmf = FALSE,
                       !.mf_state = "OFF"] \in Live
  <2> DEFINE off == [d EXCEPT !.dialing_dtmf = FALSE, !.detecting_dtmf = FALSE,
                              !.mf_state = "OFF"]
  <2>1. off \in Chan BY <1>2 DEF Live, Loose, Chan
  <2>2. /\ ~off.dialing_dtmf /\ ~off.detecting_dtmf
        /\ off.call_state = d.call_state /\ off.r2_state = d.r2_state
        /\ off.direction = d.direction /\ off.inalarm = d.inalarm
    BY DEF Live, Loose, Chan
  <2> HIDE DEF off
  <2>3. off \in Live BY <2>1, <2>2 DEF Live, Loose
  <2> QED BY <2>3 DEF off
<1> QED BY <1>1, <1>3 DEF turn_off_mf_engine

\* openr2_chan_cancel_all_timers leaves the call alone.
LEMMA CancelAllLive ==
  ASSUME NEW c \in Live
  PROVE  cancel_all_timers(c) \in Live
<1>1. <<>> \in Seq(Timer) OBVIOUS
<1> QED BY <1>1, ZenonT(40) DEF cancel_all_timers, Live, Loose, Chan

-----------------------------------------------------------------------------
\* What dnis[] holds behind its first cell when that is cleared
\* (openr2_proto_init) is digits and zeros.
LEMMA Leftover ==
  ASSUME NEW c \in Chan
  PROVE  leftover(c) \in Seq(Tone)
<1>1. c.dnis \in Seq(Tone) /\ c.dnis_old \in Seq(Tone)
  BY DEF Chan, Number, Digit, Tone
<1>2. 0 \in Tone BY DEF Tone
<1>3. CASE c.dnis = <<>> BY <1>1, <1>3 DEF leftover
<1>4. CASE c.dnis # <<>>
  <2> DEFINE t == Tail(c.dnis)
             r == IF Len(c.dnis_old) <= Len(c.dnis) THEN <<>>
                  ELSE <<0>> \o SubSeq(c.dnis_old, Len(c.dnis) + 1, Len(c.dnis_old))
  <2>1. t \in Seq(Tone) BY <1>1, <1>4
  <2>2. r \in Seq(Tone)
    <3>1. SubSeq(c.dnis_old, Len(c.dnis) + 1, Len(c.dnis_old)) \in Seq(Tone)
      BY <1>1
    <3>2. <<0>> \in Seq(Tone) BY <1>2
    <3> QED BY <3>1, <3>2
  <2>3. leftover(c) = t \o r BY <1>4 DEF leftover
  <2> HIDE DEF t, r
  <2> QED BY <2>1, <2>2, <2>3
<1> QED BY <1>3, <1>4

\* openr2_proto_init brings a channel to rest from whatever state it was in,
\* provided that an MF engine marked off is really off.
LEMMA ProtoInit ==
  ASSUME NEW c \in Loose
  PROVE  proto_init(c) \in AtRest /\ proto_init(c).r2_state = "IDLE"
         /\ proto_init(c).mf_state = "OFF"
<1> DEFINE d == cancel_all_timers(c)
           e == turn_off_mf_engine(d)
<1>1. <<>> \in Seq(Timer) OBVIOUS
<1>2. d \in Loose /\ d.sched = <<>>
  BY <1>1 DEF cancel_all_timers, Loose, Chan
<1> HIDE DEF d
<1>3. \A i \in 1..Len(d.sched) : FALSE BY <1>2
<1>4. cancel_timer(d, "mf_back_cycle") = d BY <1>3 DEF cancel_timer
<1>5. "OFF" \in MfState BY DEF MfState
<1>6. e \in Chan /\ e.mf_state = "OFF" /\ ~e.dialing_dtmf /\ ~e.detecting_dtmf
      /\ e.sched = <<>>
  <2>1. CASE d.mf_state = "OFF"
    BY <1>2, <2>1 DEF turn_off_mf_engine, Loose
  <2>2. CASE d.mf_state # "OFF"
    <3>1. e = [d EXCEPT !.dialing_dtmf = FALSE, !.detecting_dtmf = FALSE,
                        !.mf_state = "OFF"]
      BY <1>4, <2>2 DEF turn_off_mf_engine
    <3> HIDE DEF e
    <3>2. e \in Chan BY <1>2, <1>5, <3>1, ZenonT(40) DEF Loose, Chan
    <3> QED BY <1>2, <3>1, <3>2 DEF Loose, Chan
  <2> QED BY <2>1, <2>2
<1> DEFINE empty == <<>>
           old == leftover(c)
<1> DEFINE p ==
        [e EXCEPT
           !.ani = empty, !.ani_ptr = 0, !.dnis = empty, !.dnis_old = old,
           !.dnis_index = 0,
           !.caller_ani_is_restricted = FALSE, !.caller_category = 0,
           !.r2_state = "IDLE", !.mf_group = "NO_GROUP", !.call_state = "IDLE",
           !.direction = "STOPPED", !.answered = FALSE, !.category_sent = FALSE,
           !.mf_write_tone = 0, !.mf_read_tone = 0, !.dnis_callback = TRUE]
<1>7. proto_init(c) = p
  BY DEF proto_init, d, e
<1>11. e \in Chan BY <1>6
<1>12. e.mf_state = "OFF" /\ ~e.dialing_dtmf /\ ~e.detecting_dtmf BY <1>6
<1>13. OnlyPersistence(e.sched) BY <1>6 DEF OnlyPersistence
<1> HIDE DEF e
<1>14. old \in Seq(Tone) BY Leftover DEF Loose
<1> HIDE DEF old
<1>15. empty \in Number BY MaxDigitsAssumption DEF Number
<1>8. /\ empty \in Seq(Digit) /\ 0 \in Nat /\ 0 \in Tone /\ "IDLE" \in R2State
      /\ "NO_GROUP" \in MfGroup /\ "IDLE" \in CallState /\ "STOPPED" \in Direction
  BY DEF Tone, R2State, MfGroup, CallState, Direction
<1> HIDE DEF empty
<1>9. p \in Chan BY <1>8, <1>11, <1>14, <1>15, ZenonT(40) DEF Chan
<1>10. p \in AtRest /\ p.r2_state = "IDLE" /\ p.mf_state = "OFF"
  BY <1>9, <1>11, <1>12, <1>13 DEF AtRest, Loose, Chan, IdleStates
<1> HIDE DEF p
<1> QED BY <1>7, <1>10

\* openr2_proto_set_idle brings a channel to rest even if the line cannot be
\* written.
LEMMA SetIdleRests ==
  ASSUME NEW c \in Loose
  PROVE  set_idle(c) \in AtRest
BY ProtoInit, SetCas, Kinds DEF set_idle, CasSignal

\* openr2_proto_set_blocked brings a channel to rest.
LEMMA SetBlockedRests ==
  ASSUME NEW c \in Loose
  PROVE  set_blocked(c) \in AtRest
<1> DEFINE d == proto_init(c)
<1>1. d \in AtRest /\ d.mf_state = "OFF" BY ProtoInit
<1> HIDE DEF d
<1>2. "BLOCKED" \in R2State /\ "BLOCKED" \in IdleStates BY DEF R2State, IdleStates
<1>3. [d EXCEPT !.r2_state = "BLOCKED"] \in Chan BY <1>1, <1>2 DEF AtRest, Loose, Chan
<1>4. [d EXCEPT !.r2_state = "BLOCKED"] \in AtRest
  BY <1>1, <1>2, <1>3 DEF AtRest, Loose, Chan
<1> QED BY <1>4, SetCas, Kinds DEF set_blocked, CasSignal, d

\* handle_protocol_error brings a channel to rest.
LEMMA ProtocolErrorRests ==
  ASSUME NEW c \in Loose, NEW reason \in ProtocolError
  PROVE  handle_protocol_error(c, reason) \in AtRest
<1>1. "on_protocol_error" \in Callback /\ reason \in Arg BY DEF Callback, Arg
<1> QED BY <1>1, SetIdleRests, EmitType, Kinds DEF handle_protocol_error

\* report_call_end brings a channel to rest.
LEMMA CallEndRests ==
  ASSUME NEW c \in Loose
  PROVE  report_call_end(c) \in AtRest
<1>1. "on_call_end" \in Callback /\ "" \in Arg BY DEF Callback, Arg
<1> QED BY <1>1, SetIdleRests, EmitType, Kinds DEF report_call_end

\* prepare_mf_tone leaves the call alone, or ends it when the tone engine
\* fails.
LEMMA PrepareTone ==
  ASSUME NEW c \in Live, NEW tone \in Tone
  PROVE  prepare_mf_tone(c, tone) \in Calm
<1> DEFINE started == start_cycle(c, tone)
           w == IF tone # 0 /\ IoFails(c) THEN started.mf_write_tone ELSE tone
<1>1. started \in Live BY AddTimerLive DEF start_cycle, TimerName
<1>2. handle_protocol_error(c, "INTERNAL_ERROR") \in AtRest
  BY ProtocolErrorRests, Kinds DEF ProtocolError
<1>3. \/ prepare_mf_tone(c, tone) = c
      \/ prepare_mf_tone(c, tone) = handle_protocol_error(c, "INTERNAL_ERROR")
      \/ prepare_mf_tone(c, tone) = [started EXCEPT !.mf_write_tone = w]
  BY DEF prepare_mf_tone
<1> HIDE DEF started
<1>4. w \in Tone BY <1>1, Kinds DEF Chan
<1> HIDE DEF w
<1>5. [started EXCEPT !.mf_write_tone = w] \in Live BY <1>1, <1>4, LiveWriteTone
<1> QED BY <1>2, <1>3, <1>5, Kinds

\* Clearing the tone sent or detected neither starts nor ends a call.
LEMMA MuteCalm ==
  ASSUME NEW c \in Calm
  PROVE  [c EXCEPT !.mf_write_tone = 0] \in Calm /\ [c EXCEPT !.mf_read_tone = 0] \in Calm
<1>1. 0 \in Tone BY DEF Tone
<1>2. c \in Live => [c EXCEPT !.mf_write_tone = 0] \in Live
                    /\ [c EXCEPT !.mf_read_tone = 0] \in Live
  BY <1>1, ZenonT(40) DEF Live, Loose, Chan
<1> QED BY <1>2, AtRestMute DEF Calm

\* mf_back_resume_cycle and the silences of a compelled cycle are calm.
LEMMA SetSilence ==
  ASSUME NEW c \in Live
  PROVE  set_silence(c) \in Calm
<1>1. 0 \in Tone BY DEF Tone
<1> QED BY <1>1, PrepareTone, MuteCalm DEF set_silence

-----------------------------------------------------------------------------
\* The group A signals used in requests are tones.
LEMMA GroupATones ==
  /\ Ctx.ga.request_next_dnis_digit \in Tone /\ Ctx.ga.request_next_ani_digit \in Tone
  /\ Ctx.ga.request_category \in Tone
  /\ Ctx.ga.request_category_and_change_to_gc \in Tone
  /\ Ctx.ga.request_change_to_g2 \in Tone
  /\ Ctx.ga.address_complete_charge_setup \in Tone
<1>1. Ctx.ga \in GroupA BY CtxAssumption DEF Context
<1> QED BY <1>1 DEF GroupA

\* The group B signals are tones.
LEMMA GroupBTones ==
  /\ Ctx.gb.accept_call_with_charge \in Tone /\ Ctx.gb.accept_call_no_charge \in Tone
  /\ Ctx.gb.busy_number \in Tone /\ Ctx.gb.network_congestion \in Tone
  /\ Ctx.gb.unallocated_number \in Tone /\ Ctx.gb.line_out_of_order \in Tone
  /\ Ctx.gb.special_info_tone \in Tone /\ Ctx.gb.number_changed \in Tone
<1>1. Ctx.gb \in GroupB BY CtxAssumption DEF Context
<1> QED BY <1>1 DEF GroupB

\* The group C signals used in requests are tones.
LEMMA GroupCTones ==
  /\ Ctx.gc.request_next_ani_digit \in Tone /\ Ctx.gc.request_change_to_g2 \in Tone
  /\ Ctx.gc.request_next_dnis_digit_and_change_to_ga \in Tone
<1>1. Ctx.gc \in GroupC BY CtxAssumption DEF Context
<1> QED BY <1>1 DEF GroupC

\* The group I and II signals used are tones.
LEMMA ForwardTones ==
  /\ Ctx.g1.no_more_dnis_available \in Tone /\ Ctx.g1.no_more_ani_available \in Tone
  /\ Ctx.g1.caller_ani_is_restricted \in Tone /\ Ctx.g2.national_subscriber \in Tone
<1>1. Ctx.g1 \in GroupI /\ Ctx.g2 \in GroupII BY CtxAssumption DEF Context
<1> QED BY <1>1 DEF GroupI, GroupII

\* Sending clear forward keeps the call until the far end or
\* r2_set_call_down ends it.
LEMMA SendClearForward ==
  ASSUME NEW c \in Live
  PROVE  send_clear_forward(c) \in Live
<1>1. schedule(c, "r2_set_call_down", FALSE) \in Live BY ScheduleLive DEF TimerName
<1>2. "CLEAR_FWD_TXD" \in R2State \ IdleStates BY DEF R2State, IdleStates
<1> QED BY <1>1, <1>2, LiveR2, TurnOffLive, SetCas, Kinds
        DEF send_clear_forward, CasSignal

\* Sending clear back or forced release keeps the call until the far end
\* clears.
LEMMA SendClearBackward ==
  ASSUME NEW c \in Live
  PROVE  send_clear_backward(c) \in Live /\ send_forced_release(c) \in Live
<1>1. {"CLEAR_BACK_TXD", "FORCED_RELEASE_TXD"} \subseteq R2State \ IdleStates
  BY DEF R2State, IdleStates
<1>2. [c EXCEPT !.r2_state = "CLEAR_BACK_TXD"] \in Live
      /\ [c EXCEPT !.r2_state = "FORCED_RELEASE_TXD"] \in Live
  BY <1>1, LiveR2
<1> QED BY <1>2, TurnOffLive, SetCas, Kinds
        DEF send_clear_backward, send_forced_release, CasSignal

\* Every disconnection cause has a group B tone, or 0.
LEMMA DisconnectTone ==
  ASSUME NEW cause
  PROVE  disconnect_tone(cause) \in Tone
BY GroupBTones DEF disconnect_tone

\* Rejecting an offered call leaves it pending.
LEMMA SendDisconnect ==
  ASSUME NEW c \in Live, NEW cause
  PROVE  send_disconnect(c, cause) \in Calm
<1>1. "DISCONNECT_TXD" \in MfState \ {"OFF"} BY DEF MfState
<1> QED BY <1>1, LiveMf, DisconnectTone, PrepareTone DEF send_disconnect

\* The backward half of openr2_proto_disconnect_call.
LEMMA DisconnectBackward ==
  ASSUME NEW c \in Live, NEW cause
  PROVE  disconnect_backward(c, cause) \in Calm
BY SendDisconnect, SendClearBackward, CallEndRests, Kinds DEF disconnect_backward

\* The forward half of openr2_proto_disconnect_call.
LEMMA DisconnectForward ==
  ASSUME NEW c \in Live
  PROVE  disconnect_forward(c) \in Calm
<1>1. {"SEIZE_TXD_CLEAR_FWD_PENDING", "DOUBLE_SEIZURE_CLEAR_FWD_PENDING"}
        \subseteq R2State \ IdleStates
  BY DEF R2State, IdleStates
<1>2. [c EXCEPT !.r2_state = "SEIZE_TXD_CLEAR_FWD_PENDING"] \in Live
      /\ [c EXCEPT !.r2_state = "DOUBLE_SEIZURE_CLEAR_FWD_PENDING"] \in Live
  BY <1>1, LiveR2
<1>3. add_timer([c EXCEPT !.r2_state = "DOUBLE_SEIZURE_CLEAR_FWD_PENDING"],
                "r2_seize_persist") \in Live
  BY <1>2, AddTimerLive DEF TimerName
<1>4. report_call_end(c) \in AtRest /\ send_clear_forward(c) \in Live
  BY CallEndRests, SendClearForward, Kinds
<1> QED BY <1>2, <1>3, <1>4, Kinds DEF disconnect_forward

\* openr2_proto_disconnect_call may be called in any state.
LEMMA DisconnectCalm ==
  ASSUME NEW c \in Calm, NEW cause
  PROVE  disconnect_call(c, cause) \in Calm
<1>1. CASE c \in AtRest BY <1>1 DEF disconnect_call, AtRest
<1>2. CASE c \in Live
  BY <1>2, DisconnectBackward, DisconnectForward DEF disconnect_call, Live
<1> QED BY <1>1, <1>2 DEF Calm

\* report_call_disconnection, with a user who clears from within the
\* callback.
LEMMA ReportDisconnection ==
  ASSUME NEW c \in Live, NEW cause \in Cause
  PROVE  report_call_disconnection(c, cause) \in Calm
<1>1. "DISCONNECTED" \in CallState \ {"IDLE"} BY DEF CallState
<1>2. "on_call_disconnect" \in Callback /\ cause \in Arg BY DEF Callback, Arg
<1>3. [c EXCEPT !.call_state = "DISCONNECTED"] \in Live BY <1>1, LiveCall
<1>4. Emit([c EXCEPT !.call_state = "DISCONNECTED"], "on_call_disconnect", cause) \in Live
  BY <1>2, <1>3, EmitType, Kinds
<1> QED BY <1>4, DisconnectCalm, Kinds DEF report_call_disconnection

\* Answering a call leaves a call.
LEMMA AnswerLive ==
  ASSUME NEW c \in Live, NEW double
  PROVE  answer_call(c, double) \in Live
<1> DEFINE sent == set_cas_signal(c, "ANSWER")
           done == [sent EXCEPT !.call_state = "ANSWERED", !.r2_state = "ANSWER_TXD",
                                !.answered = TRUE]
<1>1. sent \in Live BY SetCas, Kinds DEF CasSignal
<1>2. "ANSWER_TXD" \in R2State \ IdleStates BY DEF R2State, IdleStates
<1>3. done \in Live BY <1>1, <1>2, LiveAnswered
<1>4. add_timer(done, "r2_double_answer") \in Live BY <1>3, AddTimerLive DEF TimerName
<1>5. \/ answer_call(c, double) = c
      \/ answer_call(c, double) = sent
      \/ answer_call(c, double) = add_timer(done, "r2_double_answer")
      \/ answer_call(c, double) = done
  BY DEF answer_call
<1> HIDE DEF sent, done
<1> QED BY <1>1, <1>3, <1>4, <1>5

\* Under DTMF an answer on an idle channel makes a call: this is the case
\* that is not orderly.
LEMMA AnswerWhenIdle ==
  ASSUME NEW c \in AtRest, NEW double, AnswerEarly
  PROVE  answer_call(c, double) \in Calm
<1> DEFINE sent == set_cas_signal(c, "ANSWER")
           done == [sent EXCEPT !.call_state = "ANSWERED", !.r2_state = "ANSWER_TXD",
                                !.answered = TRUE]
<1>1. sent \in AtRest BY SetCas, Kinds DEF CasSignal
<1>2. CASE ~IS_DTMF_R2
  BY <1>2, Kinds DEF answer_call, AtRest
<1>3. CASE IS_DTMF_R2
  <2>1. ~Orderly BY <1>3 DEF Orderly
  <2>2. "ANSWER_TXD" \in R2State \ IdleStates /\ "ANSWERED" \in CallState
    BY DEF R2State, IdleStates, CallState
  <2> HIDE DEF sent
  <2>3. done \in Live BY <1>1, <2>1, <2>2, ZenonT(40) DEF AtRest, Live, Loose, Chan
  <2>4. add_timer(done, "r2_double_answer") \in Live BY <2>3, AddTimerLive DEF TimerName
  <2>5. \/ answer_call(c, double) = c
        \/ answer_call(c, double) = sent
        \/ answer_call(c, double) = add_timer(done, "r2_double_answer")
        \/ answer_call(c, double) = done
    BY DEF answer_call, sent
  <2> HIDE DEF done
  <2> QED BY <1>1, <2>3, <2>4, <2>5, Kinds
<1> QED BY <1>2, <1>3

\* on_call_accepted, with a user who answers or clears from within it.
LEMMA CallAccepted ==
  ASSUME NEW c \in Live, NEW mode \in Mode
  PROVE  on_call_accepted(c, mode) \in Calm
<1>1. "on_call_accepted" \in Callback /\ mode \in Arg BY DEF Callback, Arg
<1>2. Emit(c, "on_call_accepted", mode) \in Live BY <1>1, EmitType, Kinds
<1> QED BY <1>2, AnswerLive, DisconnectCalm, Kinds DEF on_call_accepted

\* openr2_proto_accept_call may be called in any state.
LEMMA AcceptCalm ==
  ASSUME NEW c \in Calm, NEW mode
  PROVE  accept_call(c, mode) \in Calm
<1>1. "ACCEPTED_TXD" \in MfState \ {"OFF"} /\ "UNKNOWN" \in Mode BY DEF MfState, Mode
<1>2. get_tone_from_mode(mode) \in Tone BY GroupBTones DEF get_tone_from_mode
<1>3. CASE c.call_state = "OFFERED"
  <2>1. c \in Live BY <1>3 DEF Calm, AtRest
  <2> QED BY <1>1, <1>2, <2>1, CallAccepted, LiveMf, PrepareTone DEF accept_call
<1>4. CASE c.call_state # "OFFERED"
  BY <1>4 DEF accept_call
<1> QED BY <1>3, <1>4

\* OFFER_CALL after a tone that may already have failed the call.
LEMMA OfferCall ==
  ASSUME NEW c \in Calm
  PROVE  OFFER_CALL(c) \in Calm
<1>1. CASE c.call_state = "COLLECTING"
  <2>1. c \in Live BY <1>1 DEF Calm, AtRest
  <2>2. "OFFERED" \in CallState \ {"IDLE"} /\ "on_call_offered" \in Callback /\ "" \in Arg
    BY DEF CallState, Callback, Arg
  <2>3. Emit([c EXCEPT !.call_state = "OFFERED"], "on_call_offered", "") \in Live
    BY <2>1, <2>2, LiveCall, EmitType, Kinds
  <2> QED BY <1>1, <2>3, AcceptCalm, Kinds DEF OFFER_CALL
<1>2. CASE c.call_state # "COLLECTING"
  BY <1>2, ProtocolErrorRests, Kinds DEF OFFER_CALL, ProtocolError
<1> QED BY <1>1, <1>2

\* openr2_chan_ack_call may be called in any state.
LEMMA AckCalm ==
  ASSUME NEW c \in Calm
  PROVE  ack_call(c) \in Calm
<1>1. set_cas_signal(c, "SEIZE_ACK") \in Calm BY SetCas, Kinds DEF CasSignal
<1> QED BY <1>1, ProtocolErrorRests, Kinds DEF ack_call, ProtocolError
=============================================================================
