----------------------------- MODULE R2RolesProof -----------------------------
(***************************************************************************)
(* The two roles of a channel: what a channel is while it dials a call,    *)
(* while it receives one and when a call has just ended, and that every    *)
(* handler leads from one of these to one of these.  From this follow the  *)
(* bits on the line (WireAgrees), the separation of the roles              *)
(* (RolesAgree), the timers that supervise a caller (CasSupervised) and    *)
(* the report of the end of every call (EndReportedOnce).                  *)
(***************************************************************************)
EXTENDS R2LineProof, FiniteSetTheorems

\* Writes to the line succeed, and the user leaves seizures to the library.
LineOk == "io" \notin Faults /\ Ctx.auto_seize_ack

\* The tone engine works.
MfOk == "mf" \notin Faults

\* The callbacks that tell the user that a call is over.
Reports == {"on_call_end", "on_protocol_error"}

\* One of the callbacks cbs has been made in this step.
Made(ev, cbs) == \E i \in 1..Len(ev) : ev[i].cb \in cbs

\* Exactly one of the callbacks cbs has been made in this step.
MadeOnce(ev, cbs) ==
  \E i \in 1..Len(ev) : /\ ev[i].cb \in cbs
                        /\ \A j \in 1..Len(ev) : ev[j].cb \in cbs => j = i

\* The list holds at most one timer of that name, and it can be cancelled.
Single(s, name) ==
  \A i, j \in 1..Len(s) : s[i].name = name /\ s[j].name = name => i = j /\ s[i].ref

-----------------------------------------------------------------------------
(***************************************************************************)
(* Timer lists and lists of callbacks.                                     *)
(***************************************************************************)

\* Append puts one element behind the others.
LEMMA AppendAt ==
  ASSUME NEW S, NEW s \in Seq(S), NEW t \in S
  PROVE  /\ Len(Append(s, t)) = Len(s) + 1
         /\ \A i \in 1..Len(s) : Append(s, t)[i] = s[i]
         /\ Append(s, t)[Len(s) + 1] = t
OBVIOUS

\* A callback made stays made, and making one makes no other.
LEMMA EvAppend ==
  ASSUME NEW ev \in Seq(Event), NEW e \in Event, NEW cbs
  PROVE  /\ Made(Append(ev, e), cbs) <=> Made(ev, cbs) \/ e.cb \in cbs
         /\ MadeOnce(ev, cbs) /\ e.cb \notin cbs => MadeOnce(Append(ev, e), cbs)
         /\ ~Made(ev, cbs) /\ e.cb \in cbs => MadeOnce(Append(ev, e), cbs)
<1> DEFINE q == Append(ev, e)
<1>1. /\ Len(q) = Len(ev) + 1 /\ Len(ev) \in Nat
      /\ \A i \in 1..Len(ev) : q[i] = ev[i]
      /\ q[Len(ev) + 1] = e
  BY AppendAt
<1> HIDE DEF q
<1>2. Made(q, cbs) <=> Made(ev, cbs) \/ e.cb \in cbs
  <2>1. Made(ev, cbs) => Made(q, cbs) BY <1>1 DEF Made
  <2>2. e.cb \in cbs => Made(q, cbs)
    <3>1. Len(ev) + 1 \in 1..Len(q) BY <1>1
    <3> QED BY <1>1, <3>1 DEF Made
  <2>3. Made(q, cbs) => Made(ev, cbs) \/ e.cb \in cbs
    <3> SUFFICES ASSUME NEW i \in 1..Len(q), q[i].cb \in cbs
                 PROVE  Made(ev, cbs) \/ e.cb \in cbs
      BY DEF Made
    <3>1. i \in 1..Len(ev) \/ i = Len(ev) + 1 BY <1>1
    <3> QED BY <1>1, <3>1 DEF Made
  <2> QED BY <2>1, <2>2, <2>3
<1>3. ASSUME MadeOnce(ev, cbs), e.cb \notin cbs PROVE MadeOnce(q, cbs)
  <2>1. PICK i \in 1..Len(ev) : /\ ev[i].cb \in cbs
                                /\ \A j \in 1..Len(ev) : ev[j].cb \in cbs => j = i
    BY <1>3 DEF MadeOnce
  <2>2. i \in 1..Len(q) /\ q[i].cb \in cbs BY <1>1, <2>1
  <2>3. ASSUME NEW j \in 1..Len(q), q[j].cb \in cbs PROVE j = i
    <3>1. j \in 1..Len(ev) \/ j = Len(ev) + 1 BY <1>1
    <3> QED BY <1>1, <1>3, <2>1, <2>3, <3>1
  <2> QED BY <2>2, <2>3 DEF MadeOnce
<1>4. ASSUME ~Made(ev, cbs), e.cb \in cbs PROVE MadeOnce(q, cbs)
  <2>1. Len(ev) + 1 \in 1..Len(q) /\ q[Len(ev) + 1].cb \in cbs BY <1>1, <1>4
  <2>2. ASSUME NEW j \in 1..Len(q), q[j].cb \in cbs PROVE j = Len(ev) + 1
    <3>1. j \in 1..Len(ev) \/ j = Len(ev) + 1 BY <1>1
    <3> QED BY <1>1, <1>4, <2>2, <3>1 DEF Made
  <2> QED BY <2>1, <2>2 DEF MadeOnce
<1> QED BY <1>2, <1>3, <1>4 DEF q

\* What is pending once a timer has been added.
LEMMA AppendPending ==
  ASSUME NEW s \in Seq(Timer), NEW t \in Timer, NEW name
  PROVE  /\ Pending(Append(s, t), name) <=> Pending(s, name) \/ t.name = name
         /\ Single(s, name) /\ t.name # name => Single(Append(s, t), name)
         /\ ~Pending(s, name) /\ t.ref => Single(Append(s, t), name)
<1> DEFINE q == Append(s, t)
<1>1. /\ Len(q) = Len(s) + 1 /\ Len(s) \in Nat
      /\ \A i \in 1..Len(s) : q[i] = s[i]
      /\ q[Len(s) + 1] = t
  BY AppendAt
<1> HIDE DEF q
<1>2. \A i \in 1..Len(q) : i \in 1..Len(s) \/ i = Len(s) + 1 BY <1>1
<1>3. Len(s) + 1 \in 1..Len(q) /\ \A i \in 1..Len(s) : i \in 1..Len(q) BY <1>1
<1>4. Pending(q, name) <=> Pending(s, name) \/ t.name = name
  BY <1>1, <1>2, <1>3 DEF Pending
<1>5. Single(s, name) /\ t.name # name => Single(q, name)
  BY <1>1, <1>2, <1>3 DEF Single
<1>6. ~Pending(s, name) /\ t.ref => Single(q, name)
  BY <1>1, <1>2, <1>3 DEF Single, Pending
<1> QED BY <1>4, <1>5, <1>6 DEF q

\* Orphaning the timers of one name changes neither what is pending nor, for
\* other names, whether it can be cancelled.
LEMMA DisownPending ==
  ASSUME NEW s \in Seq(Timer), NEW m, NEW name
  PROVE  /\ Pending(Disown(s, m), name) <=> Pending(s, name)
         /\ Single(s, name) /\ name # m => Single(Disown(s, m), name)
<1>1. Len(Disown(s, m)) = Len(s) BY DEF Disown
<1>2. \A i \in 1..Len(s) : Disown(s, m)[i].name = s[i].name BY DEF Disown
<1>3. \A i \in 1..Len(s) : s[i].ref /\ s[i].name # m => Disown(s, m)[i].ref BY DEF Disown
<1>4. Pending(Disown(s, m), name) <=> Pending(s, name) BY <1>1, <1>2 DEF Pending
<1> HIDE DEF Disown
<1>5. Single(s, name) /\ name # m => Single(Disown(s, m), name)
  <2> SUFFICES ASSUME Single(s, name), name # m, NEW i \in 1..Len(s), NEW j \in 1..Len(s),
                      Disown(s, m)[i].name = name, Disown(s, m)[j].name = name
               PROVE  i = j /\ Disown(s, m)[i].ref
    BY <1>1 DEF Single
  <2>1. s[i].name = name /\ s[j].name = name BY <1>2
  <2>2. i = j /\ s[i].ref BY <2>1 DEF Single
  <2> QED BY <1>3, <2>1, <2>2
<1> QED BY <1>4, <1>5

\* Taking a timer off the list moves the later ones down.
LEMMA RemoveAt ==
  ASSUME NEW s \in Seq(Timer), NEW k \in 1..Len(s)
  PROVE  /\ Len(RemoveTimer(s, k)) = Len(s) - 1
         /\ \A i \in 1..(Len(s) - 1) :
              RemoveTimer(s, k)[i] = s[IF i < k THEN i ELSE i + 1]
<1> DEFINE a == SubSeq(s, 1, k - 1)
           b == SubSeq(s, k + 1, Len(s))
<1>1. a \in Seq(Timer) /\ Len(a) = k - 1 /\ \A i \in 1..(k - 1) : a[i] = s[i]
  OBVIOUS
<1>2. b \in Seq(Timer) /\ Len(b) = Len(s) - k
      /\ \A i \in 1..(Len(s) - k) : b[i] = s[i + k]
  OBVIOUS
<1> HIDE DEF a, b
<1>3. /\ Len(a \o b) = Len(a) + Len(b)
      /\ \A i \in 1..(Len(a) + Len(b)) :
           (a \o b)[i] = IF i <= Len(a) THEN a[i] ELSE b[i - Len(a)]
  BY <1>1, <1>2, ConcatProperties
<1>4. Len(a \o b) = Len(s) - 1 BY <1>1, <1>2, <1>3
<1>5. ASSUME NEW i \in 1..(Len(s) - 1)
      PROVE  (a \o b)[i] = s[IF i < k THEN i ELSE i + 1]
  <2>1. CASE i < k BY <2>1, <1>1, <1>2, <1>3
  <2>2. CASE ~(i < k)
    <3>1. (a \o b)[i] = b[i - (k - 1)] BY <2>2, <1>1, <1>2, <1>3
    <3>2. i - (k - 1) \in 1..(Len(s) - k) BY <2>2
    <3>3. b[i - (k - 1)] = s[i - (k - 1) + k] BY <3>2, <1>2
    <3>4. i - (k - 1) + k = i + 1 OBVIOUS
    <3> QED BY <2>2, <3>1, <3>3, <3>4
  <2> QED BY <2>1, <2>2
<1> QED BY <1>4, <1>5 DEF RemoveTimer, a, b

\* What is pending once a timer has been taken off.
LEMMA RemovePending ==
  ASSUME NEW s \in Seq(Timer), NEW k \in 1..Len(s), NEW name
  PROVE  LET r == RemoveTimer(s, k)
         IN  /\ Pending(r, name) => Pending(s, name)
             /\ Pending(s, name) /\ s[k].name # name => Pending(r, name)
             /\ Single(s, name) => Single(r, name)
             /\ Single(s, name) /\ s[k].name = name => ~Pending(r, name)
<1> DEFINE r == RemoveTimer(s, k)
           at(i) == IF i < k THEN i ELSE i + 1
           of(j) == IF j < k THEN j ELSE j - 1
<1>1. Len(r) = Len(s) - 1 /\ Len(s) \in Nat /\ \A i \in 1..(Len(s) - 1) : r[i] = s[at(i)]
  BY RemoveAt
<1>2. \A i \in 1..Len(r) : at(i) \in 1..Len(s) /\ at(i) # k /\ r[i] = s[at(i)]
  BY <1>1
<1>3. \A j \in 1..Len(s) : j # k => of(j) \in 1..Len(r) /\ at(of(j)) = j
  BY <1>1
<1>4. \A i, j \in 1..Len(r) : at(i) = at(j) => i = j
  BY <1>1
<1> HIDE DEF r, at, of
<1>5. Pending(r, name) => Pending(s, name) BY <1>2 DEF Pending
<1>6. Pending(s, name) /\ s[k].name # name => Pending(r, name)
  <2> SUFFICES ASSUME NEW j \in 1..Len(s), s[j].name = name, s[k].name # name
               PROVE  Pending(r, name)
    BY DEF Pending
  <2>1. j # k OBVIOUS
  <2>2. of(j) \in 1..Len(r) /\ r[of(j)] = s[j] BY <1>2, <1>3, <2>1
  <2> QED BY <2>2 DEF Pending
<1>7. Single(s, name) => Single(r, name)
  <2> SUFFICES ASSUME Single(s, name), NEW i \in 1..Len(r), NEW j \in 1..Len(r),
                      r[i].name = name, r[j].name = name
               PROVE  i = j /\ r[i].ref
    BY DEF Single
  <2>1. at(i) \in 1..Len(s) /\ at(j) \in 1..Len(s) /\ r[i] = s[at(i)] /\ r[j] = s[at(j)]
    BY <1>2
  <2>2. at(i) = at(j) /\ s[at(i)].ref BY <2>1 DEF Single
  <2> QED BY <1>4, <2>1, <2>2
<1>8. Single(s, name) /\ s[k].name = name => ~Pending(r, name)
  BY <1>2 DEF Single, Pending
<1> QED BY <1>5, <1>6, <1>7, <1>8 DEF r

-----------------------------------------------------------------------------
(***************************************************************************)
(* The sets of channels the argument is about.                             *)
(*                                                                         *)
(*   Fore    a call that was dialled, supervised by the timers it needs    *)
(*   Back    a call that was received                                      *)
(*   Rest    no call                                                       *)
(*   Ended   no call, and the user was told in this step that it ended     *)
(*                                                                         *)
(* A timer that was refused, because the list was full, leaves a dialled   *)
(* call without supervision.  w says whether the supervision is watched:   *)
(* with w FALSE nothing is said of the timers, and everything else holds   *)
(* whether or not the list overflows; with w TRUE they are as they should  *)
(* be in every step in which it does not.                                  *)
(***************************************************************************)
Overflow == {"no_time_slots"}
Supervisors == {"r2_seize", "r2_seize_persist", "r2_set_call_down"}

ForeCalls == {"DIALING", "ANSWERED", "DISCONNECTED"}
BackCalls == {"COLLECTING", "OFFERED", "ACCEPTED", "ANSWERED", "DISCONNECTED"}
ForeGroups == {"FWD_INIT", "GI", "GII", "GIII", "DTMF_FWD_INIT", "NO_GROUP"}
BackGroups == {"BACK_INIT", "GA", "GB", "GC", "DTMF_BACK_INIT"}
DialogueGroups == {"GI", "GII", "GIII"}

\* The states of a dialled call from the acknowledged seizure on.
Talking == {"SEIZE_ACK_RXD", "CLEAR_BACK_TONE_RXD", "ACCEPT_RXD", "ANSWER_RXD",
            "CLEAR_BACK_RXD", "ANSWER_RXD_MF_PENDING", "FORCED_RELEASE_RXD",
            "DOUBLE_SEIZURE", "CLEAR_FWD_RXD"}

\* What a caller has on the line until it is told that the call is over.
WireOf(state) == IF state \in Clearing THEN CAS.CLEAR_FORWARD ELSE CAS.SEIZE

\* The MF dialogue of a caller starts when the seizure is acknowledged and is
\* over when clear forward is sent.
GroupFits(c) ==
  c.mf_group \in DialogueGroups =>
    /\ ~Ctx.dial_with_dtmf /\ c.r2_state \notin Seizing
    /\ c.mf_state # "OFF" => c.r2_state \notin Clearing

Dialled(c) ==
  /\ c.fault \subseteq Faults /\ ~Made(c.ev, Reports)
  /\ c.direction = "FORWARD"
  /\ c.r2_state \in Talking \cup Seizing \cup Clearing
                    \cup {"DOUBLE_SEIZURE_CLEAR_FWD_PENDING"}
  /\ c.call_state \in ForeCalls
  /\ c.mf_group \in ForeGroups /\ GroupFits(c)
  /\ Pending(c.sched, "dtmf_start_dial") => Ctx.dial_with_dtmf
  /\ LineOk => c.wire = WireOf(c.r2_state)

\* CasSupervised, and that the timer of a seizure can be cancelled.
Watched(state, s) ==
  /\ Single(s, "r2_seize")
  /\ state \in Seizing => Pending(s, "r2_seize")
  /\ Pending(s, "r2_seize") => state \in Seizing \cup Clearing
  /\ state \in Clearing <=> Pending(s, "r2_set_call_down")
  /\ state = "DOUBLE_SEIZURE_CLEAR_FWD_PENDING" => Pending(s, "r2_seize_persist")

Fore(w) == {c \in Live : /\ Dialled(c)
                         /\ w => Made(c.ev, Overflow) \/ Watched(c.r2_state, c.sched)}

\* A dialled call between two assignments of a handler.
Unwatched(w) ==
  {c \in Live : /\ Dialled(c)
                /\ w => Made(c.ev, Overflow) \/ Single(c.sched, "r2_seize")}

Received(c) ==
  /\ c.fault \subseteq Faults /\ ~Made(c.ev, Reports)
  /\ c.direction = "BACKWARD"
  /\ c.r2_state \in BackwardStates \cup {"CLEAR_FWD_RXD"}
  /\ c.call_state \in BackCalls
  /\ c.mf_group \in BackGroups
  /\ \A n \in Supervisors : ~Pending(c.sched, n)
  /\ LineOk => c.wire \in OnWire(c.r2_state)

Back == {c \in Live : Received(c)}

Resting(c) == c.fault \subseteq Faults /\ (LineOk => c.wire \in OnWire(c.r2_state))

Rest == {c \in AtRest : Resting(c) /\ ~Made(c.ev, {"on_call_end"})}

Ended == {c \in AtRest : /\ Resting(c) /\ Made(c.ev, Reports)
                         /\ MfOk => MadeOnce(c.ev, Reports)}

\* Where a call goes when the tone engine fails; it may then fail again.
Failed == IF MfOk THEN {} ELSE Ended

\* How the sets are nested.
LEMMA RoleKinds ==
  ASSUME NEW w
  PROVE  /\ Fore(w) \subseteq Live /\ Unwatched(w) \subseteq Live /\ Back \subseteq Live
         /\ Rest \subseteq AtRest /\ Ended \subseteq AtRest /\ Failed \subseteq Ended
         /\ Fore(w) \subseteq Unwatched(w)
         /\ Live \subseteq Chan /\ AtRest \subseteq Chan /\ Live \subseteq Loose
         /\ AtRest \subseteq Loose /\ Live \subseteq Calm /\ AtRest \subseteq Calm
<1>1. Fore(w) \subseteq Unwatched(w) BY DEF Fore, Unwatched, Watched
<1>2. Failed \subseteq Ended BY DEF Failed
<1> QED BY <1>1, <1>2, Kinds DEF Fore, Unwatched, Back, Rest, Ended

-----------------------------------------------------------------------------
(***************************************************************************)
(* What a handler may do to a call without the call changing its set.      *)
(***************************************************************************)
\* No report is made, and an overflow is not forgotten.
Quiet(c, d) == /\ Made(d.ev, Reports) => Made(c.ev, Reports)
               /\ Made(c.ev, Overflow) => Made(d.ev, Overflow)

\* The timers that supervise a call stay as they are.
Kept(s, t) ==
  /\ \A n \in Supervisors : Pending(t, n) <=> Pending(s, n)
  /\ Single(s, "r2_seize") => Single(t, "r2_seize")
  /\ Pending(t, "dtmf_start_dial") => Pending(s, "dtmf_start_dial") \/ Ctx.dial_with_dtmf

Frame(c, d) == /\ d.direction = c.direction /\ d.fault = c.fault
               /\ Quiet(c, d) /\ Kept(c.sched, d.sched)

\* Only the MF state and the bits on the line may differ.
Near(c, d) == /\ Frame(c, d) /\ d.r2_state = c.r2_state
              /\ d.call_state = c.call_state /\ d.mf_group = c.mf_group

Same(c, d) == Near(c, d) /\ d.mf_state = c.mf_state /\ d.wire = c.wire

\* These relations are preorders.
LEMMA SameTrans ==
  ASSUME NEW a, NEW b, NEW c
  PROVE  /\ Frame(a, a) /\ Near(a, a) /\ Same(a, a)
         /\ Same(a, b) => Near(a, b) /\ Frame(a, b)
         /\ Near(a, b) => Frame(a, b)
         /\ Frame(a, b) /\ Frame(b, c) => Frame(a, c)
         /\ Near(a, b) /\ Near(b, c) => Near(a, c)
         /\ Same(a, b) /\ Same(b, c) => Same(a, c)
BY DEF Same, Near, Frame, Quiet, Kept

\* A call of either role stays in its set when only irrelevant fields change.
LEMMA ForeMove ==
  ASSUME NEW w \in BOOLEAN, NEW c \in Fore(w), NEW d \in Live, Frame(c, d), d.wire = c.wire,
         d.call_state \in ForeCalls, d.mf_group \in ForeGroups, GroupFits(d),
         \/ d.r2_state = c.r2_state
         \/ c.r2_state \notin Seizing \cup Clearing /\ d.r2_state \in Talking
         \/ {c.r2_state, d.r2_state} \subseteq Seizing
         \/ {c.r2_state, d.r2_state} \subseteq Clearing
  PROVE  d \in Fore(w)
<1> USE DEF Talking, Seizing, Clearing
<1>1. Dialled(c) BY DEF Fore
<1>2. WireOf(d.r2_state) = WireOf(c.r2_state)
  BY DEF WireOf
<1>3. d.r2_state \in Talking \cup Seizing \cup Clearing
                     \cup {"DOUBLE_SEIZURE_CLEAR_FWD_PENDING"}
  BY <1>1 DEF Dialled
<1>4. Dialled(d) BY <1>1, <1>2, <1>3 DEF Dialled, Frame, Quiet, Kept
<1>5. Watched(c.r2_state, c.sched) => Watched(d.r2_state, d.sched)
  BY DEF Watched, Frame, Kept, Supervisors
<1> QED BY <1>4, <1>5 DEF Fore, Frame, Quiet

\* A dialled call stays one when only fields no role depends on change.
LEMMA ForeSame ==
  ASSUME NEW w \in BOOLEAN, NEW c \in Fore(w), NEW d \in Live, Same(c, d)
  PROVE  d \in Fore(w)
<1>1. Dialled(c) BY DEF Fore
<1>2. GroupFits(d) BY <1>1 DEF Dialled, Same, Near, GroupFits
<1> QED BY <1>1, <1>2, ForeMove DEF Same, Near, Dialled

\* A received call stays one when only irrelevant fields change.
LEMMA BackMove ==
  ASSUME NEW c \in Back, NEW d \in Live, Frame(c, d),
         d.r2_state \in BackwardStates \cup {"CLEAR_FWD_RXD"},
         d.call_state \in BackCalls, d.mf_group \in BackGroups,
         LineOk => d.wire \in OnWire(d.r2_state)
  PROVE  d \in Back
<1>1. Received(c) BY DEF Back
<1>2. Received(d) BY <1>1 DEF Received, Frame, Quiet, Kept, Supervisors
<1> QED BY <1>2 DEF Back

\* In particular when only the state of the MF engine does.
LEMMA BackSame ==
  ASSUME NEW c \in Back, NEW d \in Live, Near(c, d), d.wire = c.wire
  PROVE  d \in Back
<1>1. Received(c) BY DEF Back
<1> QED BY <1>1, BackMove DEF Near, Received

\* The facts of the two roles that the handlers branch on.
LEMMA ForeFacts ==
  ASSUME NEW w, NEW c \in Fore(w)
  PROVE  Dialled(c) /\ c \in Live /\ c \in Chan
BY Kinds DEF Fore

\* The same for a received call.
LEMMA BackFacts ==
  ASSUME NEW c \in Back
  PROVE  Received(c) /\ c \in Live /\ c \in Chan
BY Kinds DEF Back

-----------------------------------------------------------------------------
(***************************************************************************)
(* The operations on timers, callbacks and the line.                       *)
(***************************************************************************)
\* The timers of R2Chan other than the supervisors: adding, orphaning and
\* removing them keeps the supervision.
LEMMA AppendKept ==
  ASSUME NEW s \in Seq(Timer), NEW name \in TimerName \ Supervisors, NEW ref \in BOOLEAN,
         name = "dtmf_start_dial" => Ctx.dial_with_dtmf
  PROVE  Kept(s, Append(s, [name |-> name, ref |-> ref]))
<1> DEFINE t == [name |-> name, ref |-> ref]
<1>1. t \in Timer /\ t.name = name BY DEF Timer
<1> HIDE DEF t
<1>2. \A n : Pending(Append(s, t), n) <=> Pending(s, n) \/ t.name = n
  BY <1>1, AppendPending
<1>3. Single(s, "r2_seize") /\ t.name # "r2_seize" => Single(Append(s, t), "r2_seize")
  BY <1>1, AppendPending
<1>4. name # "r2_seize" BY DEF Supervisors
<1>5. Kept(s, Append(s, t)) BY <1>1, <1>2, <1>3, <1>4 DEF Kept
<1> QED BY <1>5 DEF t

\* Orphaning the timers of a name that supervises nothing.
LEMMA DisownKept ==
  ASSUME NEW s \in Seq(Timer), NEW name \in TimerName \ Supervisors
  PROVE  Kept(s, Disown(s, name))
<1>1. \A n : Pending(Disown(s, name), n) <=> Pending(s, n) BY DisownPending
<1>2. Single(s, "r2_seize") /\ "r2_seize" # name => Single(Disown(s, name), "r2_seize")
  BY DisownPending
<1>3. name # "r2_seize" BY DEF Supervisors
<1> QED BY <1>1, <1>2, <1>3 DEF Kept

\* Taking a timer that supervises nothing off the list.
LEMMA RemoveKept ==
  ASSUME NEW s \in Seq(Timer), NEW k \in 1..Len(s), s[k].name \notin Supervisors
  PROVE  Kept(s, RemoveTimer(s, k))
<1> DEFINE r == RemoveTimer(s, k)
<1>1. /\ \A n : Pending(r, n) => Pending(s, n)
      /\ \A n : Pending(s, n) /\ s[k].name # n => Pending(r, n)
      /\ Single(s, "r2_seize") => Single(r, "r2_seize")
  BY RemovePending
<1> HIDE DEF r
<1>2. Kept(s, r) BY <1>1 DEF Kept
<1> QED BY <1>2 DEF r

\* Replacing the timer list by one that keeps the supervision.
LEMMA SchedSame ==
  ASSUME NEW c \in Chan, NEW s \in Seq(Timer)
  PROVE  LET d == [c EXCEPT !.sched = s]
         IN  d.sched = s /\ d.ev = c.ev /\ (Kept(c.sched, s) => Same(c, d))
<1> DEFINE d == [c EXCEPT !.sched = s]
<1>1. /\ d.sched = s /\ d.ev = c.ev /\ d.direction = c.direction /\ d.fault = c.fault
      /\ d.r2_state = c.r2_state /\ d.call_state = c.call_state
      /\ d.mf_group = c.mf_group /\ d.mf_state = c.mf_state /\ d.wire = c.wire
  BY DEF Chan
<1> HIDE DEF d
<1>2. Kept(c.sched, s) => Same(c, d) BY <1>1 DEF Same, Near, Frame, Quiet
<1> QED BY <1>1, <1>2 DEF d

\* Every callback with an argument is an event.
LEMMA EventType ==
  ASSUME NEW cb \in Callback, NEW arg \in Arg
  PROVE  [cb |-> cb, arg |-> arg] \in Event
<1>1. Event = [cb : Callback, arg : Arg] BY Zenon DEF Event, Arg
<1> QED BY <1>1

\* A callback other than a report of the end.
LEMMA EmitSame ==
  ASSUME NEW c \in Chan, NEW cb \in Callback, NEW arg \in Arg
  PROVE  LET d == Emit(c, cb, arg)
         IN  /\ cb \notin Reports => Same(c, d)
             /\ d.sched = c.sched /\ (cb = "no_time_slots" => Made(d.ev, Overflow))
             /\ d.r2_state = c.r2_state /\ d.fault = c.fault /\ d.wire = c.wire
             /\ \A cbs : Made(d.ev, cbs) <=> Made(c.ev, cbs) \/ cb \in cbs
             /\ \A cbs : MadeOnce(c.ev, cbs) /\ cb \notin cbs => MadeOnce(d.ev, cbs)
             /\ \A cbs : ~Made(c.ev, cbs) /\ cb \in cbs => MadeOnce(d.ev, cbs)
<1> DEFINE e == [cb |-> cb, arg |-> arg]
           q == Append(c.ev, e)
           d == [c EXCEPT !.ev = q]
<1>1. Emit(c, cb, arg) = d BY DEF Emit
<1>2. e.cb = cb OBVIOUS
<1>10. e \in Event BY EventType
<1>3. c.ev \in Seq(Event) BY DEF Chan
<1> HIDE DEF e
<1>4. \A cbs : /\ Made(q, cbs) <=> Made(c.ev, cbs) \/ cb \in cbs
               /\ MadeOnce(c.ev, cbs) /\ cb \notin cbs => MadeOnce(q, cbs)
               /\ ~Made(c.ev, cbs) /\ cb \in cbs => MadeOnce(q, cbs)
  BY <1>2, <1>3, <1>10, EvAppend
<1> HIDE DEF q
<1>5. /\ d.sched = c.sched /\ d.ev = q /\ d.direction = c.direction /\ d.fault = c.fault
      /\ d.r2_state = c.r2_state /\ d.call_state = c.call_state
      /\ d.mf_group = c.mf_group /\ d.mf_state = c.mf_state /\ d.wire = c.wire
  BY DEF Chan
<1> HIDE DEF d
<1>6. Kept(c.sched, c.sched) BY DEF Kept
<1>7. cb \notin Reports => Quiet(c, d) BY <1>4, <1>5 DEF Quiet
<1>8. cb \notin Reports => Same(c, d) BY <1>5, <1>6, <1>7 DEF Same, Near, Frame
<1>9. cb = "no_time_slots" => Made(d.ev, Overflow) BY <1>4, <1>5 DEF Overflow
<1> QED BY <1>1, <1>4, <1>5, <1>8, <1>9

\* openr2_chan_add_timer, of a timer that supervises nothing.
LEMMA ScheduleSame ==
  ASSUME NEW c \in Chan, NEW name \in TimerName \ Supervisors, NEW ref \in BOOLEAN,
         name = "dtmf_start_dial" => Ctx.dial_with_dtmf
  PROVE  Same(c, schedule(c, name, ref))
<1>1. CASE Len(c.sched) = MaxTimers
  <2>1. "no_time_slots" \in Callback /\ "no_time_slots" \notin Reports
    BY DEF Callback, Reports
  <2>2. name \in TimerName OBVIOUS
  <2>3. name \in Arg BY <2>2, Zenon DEF Arg
  <2> QED BY <1>1, <2>1, <2>3, EmitSame DEF schedule
<1>2. CASE Len(c.sched) # MaxTimers
  <2> DEFINE q == Append(c.sched, [name |-> name, ref |-> ref])
  <2>1. c.sched \in Seq(Timer) BY SchedSeq
  <2>2. [name |-> name, ref |-> ref] \in Timer BY DEF Timer
  <2>3. q \in Seq(Timer) BY <2>1, <2>2, AppendType
  <2>4. Kept(c.sched, q) BY <2>1, AppendKept
  <2>5. schedule(c, name, ref) = [c EXCEPT !.sched = q] BY <1>2 DEF schedule
  <2> HIDE DEF q
  <2> QED BY <2>3, <2>4, <2>5, SchedSame
<1> QED BY <1>1, <1>2

\* openr2_chan_add_timer for a timer that supervises nothing.
LEMMA AddTimerSame ==
  ASSUME NEW c \in Chan, NEW name \in TimerName \ Supervisors,
         name = "dtmf_start_dial" => Ctx.dial_with_dtmf
  PROVE  Same(c, add_timer(c, name))
<1> DEFINE q == Disown(c.sched, name)
           d == [c EXCEPT !.sched = q]
<1>1. c.sched \in Seq(Timer) BY SchedSeq
<1>2. q \in Seq(Timer) /\ Kept(c.sched, q) BY <1>1, DisownType, DisownKept
<1>3. add_timer(c, name) = schedule(d, name, TRUE) BY DEF add_timer
<1> HIDE DEF q
<1>4. d \in Chan /\ Same(c, d) BY <1>2, SchedType, SchedSame
<1> HIDE DEF d
<1> QED BY <1>3, <1>4, ScheduleSame, SameTrans

\* openr2_chan_cancel_timer, of a timer that supervises nothing.
LEMMA CancelSame ==
  ASSUME NEW c \in Chan, NEW name \in TimerName \ Supervisors
  PROVE  Same(c, cancel_timer(c, name))
<1>1. c.sched \in Seq(Timer) BY SchedSeq
<1>2. CASE \E i \in 1..Len(c.sched) : Owned(c.sched, name, i)
  <2> DEFINE i == CHOOSE k \in 1..Len(c.sched) : Owned(c.sched, name, k)
             r == RemoveTimer(c.sched, i)
  <2>1. i \in 1..Len(c.sched) /\ Owned(c.sched, name, i) BY <1>2
  <2>2. cancel_timer(c, name) = [c EXCEPT !.sched = r] BY <1>2 DEF cancel_timer
  <2> HIDE DEF i
  <2>3. c.sched[i].name \notin Supervisors BY <2>1 DEF Owned
  <2>4. r \in Seq(Timer) /\ Kept(c.sched, r) BY <1>1, <2>1, <2>3, RemoveTimerType, RemoveKept
  <2> HIDE DEF r
  <2> QED BY <2>2, <2>4, SchedSame
<1>3. CASE ~ \E i \in 1..Len(c.sched) : Owned(c.sched, name, i)
  BY <1>3, SameTrans DEF cancel_timer
<1> QED BY <1>2, <1>3

\* A timer in the list that is its only one of that name is found and removed.
LEMMA CancelOnly ==
  ASSUME NEW c \in Live, NEW name \in TimerName
  PROVE  LET d == cancel_timer(c, name)
         IN  /\ d \in Live /\ d.ev = c.ev /\ d.wire = c.wire /\ d.fault = c.fault
             /\ d.direction = c.direction /\ d.r2_state = c.r2_state
             /\ d.call_state = c.call_state /\ d.mf_group = c.mf_group
             /\ d.mf_state = c.mf_state
             /\ \A n : Pending(d.sched, n) => Pending(c.sched, n)
             /\ \A n : n # name /\ Pending(c.sched, n) => Pending(d.sched, n)
             /\ Single(c.sched, name) => Single(d.sched, name) /\ ~Pending(d.sched, name)
<1> DEFINE d == cancel_timer(c, name)
<1>1. c \in Chan BY Kinds
<1>2. c.sched \in Seq(Timer) BY <1>1, SchedSeq
<1>3. d \in Live BY CancelTimerCalm, Kinds
<1>4. CASE \E i \in 1..Len(c.sched) : Owned(c.sched, name, i)
  <2> DEFINE i == CHOOSE k \in 1..Len(c.sched) : Owned(c.sched, name, k)
             r == RemoveTimer(c.sched, i)
  <2>1. i \in 1..Len(c.sched) /\ Owned(c.sched, name, i) BY <1>4
  <2>2. d = [c EXCEPT !.sched = r] BY <1>4 DEF cancel_timer
  <2> HIDE DEF i, d
  <2>3. c.sched[i].name = name BY <2>1 DEF Owned
  <2>4. /\ \A n : Pending(r, n) => Pending(c.sched, n)
        /\ \A n : Pending(c.sched, n) /\ c.sched[i].name # n => Pending(r, n)
        /\ Single(c.sched, name) => Single(r, name)
        /\ Single(c.sched, name) /\ c.sched[i].name = name => ~Pending(r, name)
    BY <1>2, <2>1, RemovePending
  <2> HIDE DEF r
  <2>5. /\ d.sched = r /\ d.ev = c.ev /\ d.direction = c.direction /\ d.fault = c.fault
        /\ d.r2_state = c.r2_state /\ d.call_state = c.call_state
        /\ d.mf_group = c.mf_group /\ d.mf_state = c.mf_state /\ d.wire = c.wire
    BY <1>1, <2>2 DEF Chan
  <2>6. QED BY <1>3, <2>3, <2>4, <2>5 DEF d
<1>5. CASE ~ \E i \in 1..Len(c.sched) : Owned(c.sched, name, i)
  <2>1. d = c BY <1>5 DEF cancel_timer
  <2>2. Single(c.sched, name) => ~Pending(c.sched, name)
    BY <1>5 DEF Single, Pending, Owned
  <2> HIDE DEF d
  <2> QED BY <1>3, <2>1, <2>2 DEF d
<1> QED BY <1>4, <1>5

\* turn_off_mf_engine.
LEMMA TurnOffNear ==
  ASSUME NEW c \in Live
  PROVE  LET d == turn_off_mf_engine(c)
         IN  d \in Live /\ Near(c, d) /\ d.wire = c.wire /\ d.mf_state = "OFF"
<1> DEFINE e == cancel_timer(c, "mf_back_cycle")
           o == [e EXCEPT !.dialing_dtmf = FALSE, !.detecting_dtmf = FALSE,
                          !.mf_state = "OFF"]
           d == turn_off_mf_engine(c)
<1>1. d \in Live BY TurnOffLive
<1>2. d = IF c.mf_state = "OFF" THEN c ELSE o BY DEF turn_off_mf_engine
<1> HIDE DEF d
<1>3. c \in Chan /\ Same(c, e) /\ e \in Chan
  BY CancelSame, CancelTimerCalm, Kinds DEF TimerName, Supervisors
<1> HIDE DEF e
<1>4. /\ o.sched = e.sched /\ o.ev = e.ev /\ o.direction = e.direction
      /\ o.fault = e.fault /\ o.r2_state = e.r2_state /\ o.call_state = e.call_state
      /\ o.mf_group = e.mf_group /\ o.wire = e.wire /\ o.mf_state = "OFF"
  BY <1>3 DEF Chan
<1> HIDE DEF o
<1>5. Near(c, o) /\ o.wire = c.wire BY <1>3, <1>4 DEF Same, Near, Frame, Quiet, Kept
<1> QED BY <1>1, <1>2, <1>4, <1>5, SameTrans DEF d

\* set_cas_signal: with writes that succeed, the bits are those of the signal.
LEMMA SetCasNear ==
  ASSUME NEW c \in Chan, NEW signal \in CasSignal
  PROVE  LET d == set_cas_signal(c, signal)
         IN  /\ Near(c, d) /\ d.mf_state = c.mf_state
             /\ d.sched = c.sched /\ d.ev = c.ev
             /\ d.wire = IF IoFails(c) THEN c.wire ELSE CAS[signal]
             /\ c.fault \subseteq Faults /\ LineOk => d.wire = CAS[signal]
<1> DEFINE v == CAS[signal]
           w == IF IoFails(c) THEN c.wire ELSE v
           d == [c EXCEPT !.cas_write = v, !.wire = w]
<1>1. set_cas_signal(c, signal) = d BY DEF set_cas_signal
<1>2. c.fault \subseteq Faults /\ LineOk => w = v BY DEF IoFails, LineOk
<1> HIDE DEF v, w
<1>3. /\ d.sched = c.sched /\ d.ev = c.ev /\ d.direction = c.direction
      /\ d.fault = c.fault /\ d.r2_state = c.r2_state /\ d.call_state = c.call_state
      /\ d.mf_group = c.mf_group /\ d.mf_state = c.mf_state /\ d.wire = w
  BY DEF Chan
<1> HIDE DEF d
<1>4. Near(c, d) BY <1>3 DEF Near, Frame, Quiet, Kept
<1> QED BY <1>1, <1>2, <1>3, <1>4 DEF v, w

-----------------------------------------------------------------------------
(***************************************************************************)
(* The ends of a call.                                                     *)
(***************************************************************************)
\* openr2_proto_init touches neither the line nor the layers below.
LEMMA InitKeeps ==
  ASSUME NEW c \in Loose
  PROVE  LET d == proto_init(c)
         IN  d.wire = c.wire /\ d.fault = c.fault /\ d.ev = c.ev
<1> DEFINE a == cancel_all_timers(c)
           b == cancel_timer(a, "mf_back_cycle")
           e == turn_off_mf_engine(a)
           empty == <<>>
           old == leftover(c)
           d == [e EXCEPT
             !.ani = empty, !.ani_ptr = 0, !.dnis = empty, !.dnis_old = old,
             !.dnis_index = 0,
             !.caller_ani_is_restricted = FALSE, !.caller_category = 0,
             !.r2_state = "IDLE", !.mf_group = "NO_GROUP", !.call_state = "IDLE",
             !.direction = "STOPPED", !.answered = FALSE, !.category_sent = FALSE,
             !.mf_write_tone = 0, !.mf_read_tone = 0, !.dnis_callback = TRUE]
<1>1. proto_init(c) = d BY DEF proto_init
<1>2. a \in Chan /\ a.wire = c.wire /\ a.fault = c.fault /\ a.ev = c.ev /\ a.sched = <<>>
  <2>1. <<>> \in Seq(Timer) OBVIOUS
  <2>2. c \in Chan BY Kinds
  <2> QED BY <2>1, <2>2 DEF cancel_all_timers, Chan
<1> HIDE DEF a
<1>3. b = a
  <2>1. \A i \in 1..Len(a.sched) : FALSE BY <1>2
  <2> QED BY <2>1 DEF cancel_timer
<1>4. e = IF a.mf_state = "OFF" THEN a
          ELSE [a EXCEPT !.dialing_dtmf = FALSE, !.detecting_dtmf = FALSE,
                         !.mf_state = "OFF"]
  BY <1>3 DEF turn_off_mf_engine
<1> HIDE DEF b, e
<1>5. "OFF" \in MfState BY DEF MfState
<1>6. e \in Chan /\ e.wire = a.wire /\ e.fault = a.fault /\ e.ev = a.ev
  <2>1. CASE a.mf_state = "OFF" BY <1>2, <1>4, <2>1
  <2>2. CASE a.mf_state # "OFF"
    <3>1. e = [a EXCEPT !.dialing_dtmf = FALSE, !.detecting_dtmf = FALSE,
                        !.mf_state = "OFF"]
      BY <1>4, <2>2
    <3> QED BY <1>2, <1>5, <3>1, ZenonT(40) DEF Chan
  <2> QED BY <2>1, <2>2
<1> HIDE DEF empty, old
<1>7. d.wire = e.wire /\ d.fault = e.fault /\ d.ev = e.ev BY <1>6 DEF Chan
<1> QED BY <1>1, <1>2, <1>6, <1>7

\* The bits that a channel at rest sends.
LEMMA RestBits ==
  /\ OnWire("IDLE") = {CAS.IDLE} /\ OnWire("BLOCKED") = {CAS.BLOCK}
  /\ OnWire("INIT") = cas_r2_bits /\ OnWire("CLEAR_FWD_RXD") = cas_r2_bits
BY DEF OnWire, ForwardStates

\* openr2_proto_set_idle and openr2_proto_set_blocked.
LEMMA SetIdleKeeps ==
  ASSUME NEW c \in Loose, c.fault \subseteq Faults
  PROVE  LET d == set_idle(c)
         IN  d \in AtRest /\ Resting(d) /\ d.fault = c.fault /\ d.ev = c.ev
<1> DEFINE e == proto_init(c)
           d == set_cas_signal(e, "IDLE")
<1>1. e \in AtRest /\ e.r2_state = "IDLE" /\ e.fault = c.fault /\ e.ev = c.ev
  BY ProtoInit, InitKeeps
<1>2. set_idle(c) = d /\ d \in AtRest BY SetIdleRests DEF set_idle
<1> HIDE DEF e
<1>3. e \in Chan /\ "IDLE" \in CasSignal BY <1>1, Kinds DEF CasSignal
<1>4. /\ d.r2_state = "IDLE" /\ d.fault = c.fault /\ d.ev = c.ev
      /\ LineOk => d.wire = CAS.IDLE
  BY <1>1, <1>3, SetCasNear DEF Near, Frame
<1> HIDE DEF d
<1>5. Resting(d) BY <1>4, RestBits DEF Resting
<1> QED BY <1>2, <1>4, <1>5

\* openr2_proto_set_blocked.
LEMMA SetBlockedKeeps ==
  ASSUME NEW c \in Loose, c.fault \subseteq Faults
  PROVE  LET d == set_blocked(c)
         IN  d \in AtRest /\ Resting(d) /\ d.ev = c.ev
<1> DEFINE e == proto_init(c)
           b == [e EXCEPT !.r2_state = "BLOCKED"]
           d == set_cas_signal(b, "BLOCK")
<1>1. e \in AtRest /\ e.fault = c.fault /\ e.ev = c.ev BY ProtoInit, InitKeeps
<1>2. set_blocked(c) = d /\ d \in AtRest BY SetBlockedRests DEF set_blocked
<1> HIDE DEF e
<1>3. "BLOCKED" \in R2State /\ e \in Chan /\ "BLOCK" \in CasSignal
  BY <1>1, Kinds DEF R2State, CasSignal
<1>4. b \in Chan /\ b.r2_state = "BLOCKED" /\ b.fault = e.fault /\ b.ev = e.ev
  BY <1>3 DEF Chan
<1> HIDE DEF b
<1>5. /\ d.r2_state = "BLOCKED" /\ d.fault = c.fault /\ d.ev = c.ev
      /\ LineOk => d.wire = CAS.BLOCK
  BY <1>1, <1>3, <1>4, SetCasNear DEF Near, Frame
<1> HIDE DEF d
<1>6. Resting(d) BY <1>5, RestBits DEF Resting
<1> QED BY <1>2, <1>5, <1>6

\* A channel of which no end has been reported in this step, or that may fail
\* twice.
Open(c) == c \in Loose /\ c.fault \subseteq Faults /\ (MfOk => ~Made(c.ev, Reports))

\* The end of a call of either role is still to be reported.
LEMMA RolesOpen ==
  ASSUME NEW w
  PROVE  /\ \A c \in Unwatched(w) \cup Back \cup Failed : Open(c)
         /\ \A c \in Fore(w) : Open(c)
<1>1. \A c \in Unwatched(w) \cup Fore(w) : Open(c)
  BY RoleKinds DEF Open, Unwatched, Fore, Dialled
<1>2. \A c \in Back : Open(c) BY RoleKinds DEF Open, Back, Received
<1>3. \A c \in Failed : Open(c) BY RoleKinds DEF Open, Failed, Ended, Resting
<1> QED BY <1>1, <1>2, <1>3

\* The two reports of an end.
LEMMA Reporting ==
  ASSUME NEW c, Open(c), NEW cb \in Reports, NEW arg \in Arg
  PROVE  Emit(set_idle(c), cb, arg) \in Ended
<1> DEFINE e == set_idle(c)
           d == Emit(e, cb, arg)
<1>1. c \in Loose /\ c.fault \subseteq Faults BY DEF Open
<1>2. e \in AtRest /\ Resting(e) /\ e.ev = c.ev BY <1>1, SetIdleKeeps
<1> HIDE DEF e
<1>3. e \in Chan /\ cb \in Callback BY <1>2, Kinds DEF Reports, Callback
<1>4. /\ d \in AtRest /\ d.r2_state = e.r2_state /\ d.fault = e.fault /\ d.wire = e.wire
      /\ Made(d.ev, Reports)
      /\ ~Made(e.ev, Reports) => MadeOnce(d.ev, Reports)
  BY <1>2, <1>3, EmitType, EmitSame
<1> HIDE DEF d
<1>5. Resting(d) BY <1>2, <1>4 DEF Resting
<1> QED BY <1>2, <1>4, <1>5 DEF Ended, Open, d, e

\* handle_protocol_error and report_call_end.
LEMMA ErrorEnds ==
  ASSUME NEW c, Open(c), NEW reason \in ProtocolError
  PROVE  handle_protocol_error(c, reason) \in Ended
<1>1. reason \in Arg BY Zenon DEF Arg
<1>2. "on_protocol_error" \in Reports BY DEF Reports
<1> QED BY <1>1, <1>2, Reporting DEF handle_protocol_error

\* report_call_end ends a call that is not reported yet.
LEMMA CallEndEnds ==
  ASSUME NEW c, Open(c)
  PROVE  report_call_end(c) \in Ended
<1> DEFINE none == ""
<1>1. none \in Arg BY Zenon DEF Arg
<1>2. "on_call_end" \in Reports BY DEF Reports
<1>3. report_call_end(c) = Emit(set_idle(c), "on_call_end", none)
  BY Zenon DEF report_call_end
<1> HIDE DEF none
<1> QED BY <1>1, <1>2, <1>3, Reporting

\* An error on a channel without a call is not reported as the end of one.
LEMMA ErrorRest ==
  ASSUME NEW c \in Loose, c.fault \subseteq Faults, ~Made(c.ev, {"on_call_end"}),
         NEW reason \in ProtocolError
  PROVE  handle_protocol_error(c, reason) \in Rest
<1> DEFINE e == set_idle(c)
           d == Emit(e, "on_protocol_error", reason)
<1>1. e \in AtRest /\ Resting(e) /\ e.ev = c.ev BY SetIdleKeeps
<1>2. handle_protocol_error(c, reason) = d BY DEF handle_protocol_error
<1> HIDE DEF e
<1>3. reason \in Arg BY Zenon DEF Arg
<1>4. e \in Chan /\ "on_protocol_error" \in Callback BY <1>1, Kinds DEF Callback
<1>5. /\ d \in AtRest /\ d.r2_state = e.r2_state /\ d.fault = e.fault /\ d.wire = e.wire
      /\ Made(d.ev, {"on_call_end"}) <=> Made(e.ev, {"on_call_end"})
  BY <1>1, <1>3, <1>4, EmitType, EmitSame
<1> HIDE DEF d
<1>6. Resting(d) BY <1>1, <1>5 DEF Resting
<1> QED BY <1>1, <1>2, <1>5, <1>6 DEF Rest

\* A channel at rest stays in its set when only irrelevant fields change.
LEMMA RestSame ==
  ASSUME NEW c \in AtRest, NEW d \in AtRest, d.r2_state = c.r2_state, d.wire = c.wire,
         d.fault = c.fault, d.ev = c.ev
  PROVE  (c \in Ended => d \in Ended) /\ (c \in Rest => d \in Rest)
BY DEF Ended, Rest, Resting

\* Callbacks that are not reports of an end.
LEMMA EmitRoles ==
  ASSUME NEW w \in BOOLEAN, NEW cb \in Callback \ Reports, NEW arg \in Arg, NEW c
  PROVE  /\ c \in Fore(w) => Emit(c, cb, arg) \in Fore(w)
         /\ c \in Back => Emit(c, cb, arg) \in Back
         /\ c \in Rest => Emit(c, cb, arg) \in Rest
         /\ c \in Ended => Emit(c, cb, arg) \in Ended
<1> DEFINE d == Emit(c, cb, arg)
<1>1. ASSUME c \in Chan
      PROVE  /\ c \in Live => d \in Live
             /\ c \in AtRest => d \in AtRest
             /\ Same(c, d)
             /\ d.r2_state = c.r2_state /\ d.fault = c.fault /\ d.wire = c.wire
             /\ \A cbs : Made(d.ev, cbs) <=> Made(c.ev, cbs) \/ cb \in cbs
             /\ \A cbs : MadeOnce(c.ev, cbs) /\ cb \notin cbs => MadeOnce(d.ev, cbs)
  BY <1>1, EmitType, EmitSame
<1> HIDE DEF d
<1>2. c \in Fore(w) => d \in Fore(w) BY <1>1, RoleKinds, ForeSame
<1>3. c \in Back => d \in Back BY <1>1, RoleKinds, BackSame DEF Same
<1>4. ASSUME c \in Rest \cup Ended PROVE d \in AtRest /\ Resting(d)
  BY <1>1, <1>4, RoleKinds DEF Rest, Ended, Resting
<1>5. cb # "on_call_end" BY DEF Reports
<1>6. c \in Rest => d \in Rest BY <1>1, <1>4, <1>5, RoleKinds DEF Rest
<1>7. c \in Ended => d \in Ended BY <1>1, <1>4, RoleKinds DEF Ended
<1> QED BY <1>2, <1>3, <1>6, <1>7 DEF d

-----------------------------------------------------------------------------
(***************************************************************************)
(* Assignments to the fields the roles are about, and to the others.       *)
(***************************************************************************)
\* What holds of c and of d, which has the timers, the callbacks, the role and
\* the failures of c.
LEMMA FrameFields ==
  ASSUME NEW c, NEW d, d.direction = c.direction, d.fault = c.fault,
         d.ev = c.ev, d.sched = c.sched
  PROVE  /\ Frame(c, d)
         /\ d.r2_state = c.r2_state /\ d.call_state = c.call_state
            /\ d.mf_group = c.mf_group /\ d.mf_state = c.mf_state /\ d.wire = c.wire
              => Same(c, d)
BY DEF Same, Near, Frame, Quiet, Kept

\* An assignment to r2_state keeps everything else.
LEMMA SetState ==
  ASSUME NEW c \in Chan, NEW s
  PROVE  LET d == [c EXCEPT !.r2_state = s]
         IN  /\ Frame(c, d) /\ d.r2_state = s /\ d.call_state = c.call_state
             /\ d.mf_group = c.mf_group /\ d.mf_state = c.mf_state /\ d.wire = c.wire
             /\ d.sched = c.sched /\ d.ev = c.ev
<1> DEFINE d == [c EXCEPT !.r2_state = s]
<1>1. /\ d.direction = c.direction /\ d.fault = c.fault /\ d.ev = c.ev
      /\ d.sched = c.sched /\ d.r2_state = s /\ d.call_state = c.call_state
      /\ d.mf_group = c.mf_group /\ d.mf_state = c.mf_state /\ d.wire = c.wire
  BY DEF Chan
<1> HIDE DEF d
<1> QED BY <1>1, FrameFields DEF d

\* An assignment to call_state keeps everything else.
LEMMA SetCall ==
  ASSUME NEW c \in Chan, NEW s
  PROVE  LET d == [c EXCEPT !.call_state = s]
         IN  /\ Frame(c, d) /\ d.r2_state = c.r2_state /\ d.call_state = s
             /\ d.mf_group = c.mf_group /\ d.mf_state = c.mf_state /\ d.wire = c.wire
<1> DEFINE d == [c EXCEPT !.call_state = s]
<1>1. /\ d.direction = c.direction /\ d.fault = c.fault /\ d.ev = c.ev
      /\ d.sched = c.sched /\ d.r2_state = c.r2_state /\ d.call_state = s
      /\ d.mf_group = c.mf_group /\ d.mf_state = c.mf_state /\ d.wire = c.wire
  BY DEF Chan
<1> HIDE DEF d
<1> QED BY <1>1, FrameFields DEF d

\* An assignment to mf_state keeps everything else.
LEMMA SetMf ==
  ASSUME NEW c \in Chan, NEW m
  PROVE  LET d == [c EXCEPT !.mf_state = m]
         IN  Near(c, d) /\ d.mf_state = m /\ d.wire = c.wire
<1> DEFINE d == [c EXCEPT !.mf_state = m]
<1>1. /\ d.direction = c.direction /\ d.fault = c.fault /\ d.ev = c.ev
      /\ d.sched = c.sched /\ d.r2_state = c.r2_state /\ d.call_state = c.call_state
      /\ d.mf_group = c.mf_group /\ d.mf_state = m /\ d.wire = c.wire
  BY DEF Chan
<1> HIDE DEF d
<1> QED BY <1>1, FrameFields DEF Near, d

\* An assignment to mf_group and mf_state keeps everything else.
LEMMA SetGroupMf ==
  ASSUME NEW c \in Chan, NEW g, NEW m
  PROVE  /\ LET d == [c EXCEPT !.mf_group = g]
            IN  /\ Frame(c, d) /\ d.r2_state = c.r2_state /\ d.call_state = c.call_state
                /\ d.mf_group = g /\ d.mf_state = c.mf_state /\ d.wire = c.wire
         /\ LET d == [c EXCEPT !.mf_group = g, !.mf_state = m]
            IN  /\ Frame(c, d) /\ d.r2_state = c.r2_state /\ d.call_state = c.call_state
                /\ d.mf_group = g /\ d.mf_state = m /\ d.wire = c.wire
<1> DEFINE d == [c EXCEPT !.mf_group = g]
           e == [c EXCEPT !.mf_group = g, !.mf_state = m]
<1>1. /\ d.direction = c.direction /\ d.fault = c.fault /\ d.ev = c.ev
      /\ d.sched = c.sched /\ d.r2_state = c.r2_state /\ d.call_state = c.call_state
      /\ d.mf_group = g /\ d.mf_state = c.mf_state /\ d.wire = c.wire
  BY DEF Chan
<1>2. /\ e.direction = c.direction /\ e.fault = c.fault /\ e.ev = c.ev
      /\ e.sched = c.sched /\ e.r2_state = c.r2_state /\ e.call_state = c.call_state
      /\ e.mf_group = g /\ e.mf_state = m /\ e.wire = c.wire
  BY DEF Chan
<1> HIDE DEF d, e
<1> QED BY <1>1, <1>2, FrameFields DEF d, e

\* Tones, digits, the pattern being checked.
LEMMA OtherSame ==
  ASSUME NEW c \in Chan, NEW v
  PROVE  /\ Same(c, [c EXCEPT !.mf_write_tone = v]) /\ Same(c, [c EXCEPT !.mf_read_tone = v])
         /\ Same(c, [c EXCEPT !.dnis = v]) /\ Same(c, [c EXCEPT !.ani = v])
         /\ Same(c, [c EXCEPT !.dnis_index = v]) /\ Same(c, [c EXCEPT !.ani_ptr = v])
         /\ Same(c, [c EXCEPT !.caller_ani_is_restricted = v])
         /\ Same(c, [c EXCEPT !.caller_category = v])
         /\ Same(c, [c EXCEPT !.dnis_callback = v]) /\ Same(c, [c EXCEPT !.cas_read = v])
         /\ Same(c, [c EXCEPT !.persist = v]) /\ Same(c, [c EXCEPT !.persist_id = v])
<1> DEFINE Like(d) == /\ d.direction = c.direction /\ d.fault = c.fault /\ d.ev = c.ev
                      /\ d.sched = c.sched /\ d.r2_state = c.r2_state
                      /\ d.call_state = c.call_state /\ d.mf_group = c.mf_group
                      /\ d.mf_state = c.mf_state /\ d.wire = c.wire
<1>1. ASSUME NEW d, Like(d) PROVE Same(c, d) BY <1>1, FrameFields
<1>2. Like([c EXCEPT !.mf_write_tone = v]) /\ Like([c EXCEPT !.mf_read_tone = v])
  BY DEF Chan
<1>3. Like([c EXCEPT !.dnis = v]) /\ Like([c EXCEPT !.ani = v]) BY DEF Chan
<1>4. Like([c EXCEPT !.dnis_index = v]) /\ Like([c EXCEPT !.ani_ptr = v]) BY DEF Chan
<1>5. Like([c EXCEPT !.caller_ani_is_restricted = v])
      /\ Like([c EXCEPT !.caller_category = v])
  BY DEF Chan
<1>6. Like([c EXCEPT !.dnis_callback = v]) /\ Like([c EXCEPT !.cas_read = v]) BY DEF Chan
<1>7. Like([c EXCEPT !.persist = v]) /\ Like([c EXCEPT !.persist_id = v]) BY DEF Chan
<1> HIDE DEF Like
<1> QED BY <1>1, <1>2, <1>3, <1>4, <1>5, <1>6, <1>7

-----------------------------------------------------------------------------
(***************************************************************************)
(* Tones and the clearing of a call.                                       *)
(***************************************************************************)
\* prepare_mf_tone: a tone engine that works never ends a call.
LEMMA PrepareSame ==
  ASSUME NEW c \in Live, Open(c), NEW tone \in Tone
  PROVE  LET d == prepare_mf_tone(c, tone)
         IN  d \in Failed \/ (d \in Live /\ Same(c, d))
<1> DEFINE started == start_cycle(c, tone)
           w == IF tone # 0 /\ IoFails(c) THEN started.mf_write_tone ELSE tone
           error == handle_protocol_error(c, "INTERNAL_ERROR")
           d == [started EXCEPT !.mf_write_tone = w]
<1>1. /\ started \in Live /\ Same(c, started)
  <2>1. "mf_back_cycle" \in TimerName \ Supervisors /\ "mf_back_cycle" # "dtmf_start_dial"
    BY DEF TimerName, Supervisors
  <2>2. add_timer(c, "mf_back_cycle") \in Live /\ Same(c, add_timer(c, "mf_back_cycle"))
    BY <2>1, AddTimerLive, AddTimerSame, Kinds
  <2> QED BY <2>2, SameTrans DEF start_cycle
<1>2. \/ prepare_mf_tone(c, tone) = c
      \/ prepare_mf_tone(c, tone) = error /\ MfFails(c)
      \/ prepare_mf_tone(c, tone) = d
  BY DEF prepare_mf_tone
<1> HIDE DEF started
<1>3. w \in Tone BY <1>1, Kinds DEF Chan
<1> HIDE DEF w
<1>4. d \in Live BY <1>1, <1>3, LiveWriteTone
<1>5. Same(started, d) BY <1>1, OtherSame, Kinds
<1> HIDE DEF d
<1>6. error \in Ended BY ErrorEnds DEF ProtocolError
<1>7. MfFails(c) => ~MfOk BY DEF MfFails, MfOk, Open
<1> HIDE DEF error
<1> QED BY <1>1, <1>2, <1>4, <1>5, <1>6, <1>7, SameTrans DEF Failed

\* The same of a silence.
LEMMA SilenceSame ==
  ASSUME NEW c \in Live, Open(c)
  PROVE  LET d == set_silence(c)
         IN  d \in Failed \/ (d \in Live /\ Same(c, d))
<1> DEFINE e == prepare_mf_tone(c, 0)
           d == [e EXCEPT !.mf_write_tone = 0]
<1>1. 0 \in Tone BY DEF Tone
<1>2. set_silence(c) = d BY DEF set_silence
<1>3. e \in Failed \/ (e \in Live /\ Same(c, e)) BY <1>1, PrepareSame
<1> HIDE DEF e
<1>4. CASE e \in Live /\ Same(c, e)
  <2>1. d \in Live /\ Same(e, d) BY <1>1, <1>4, LiveWriteTone, OtherSame, Kinds
  <2> QED BY <1>2, <1>4, <2>1, SameTrans
<1>5. CASE e \in Failed
  <2>1. e \in AtRest /\ e \in Ended BY <1>5, RoleKinds
  <2>2. d \in AtRest BY <2>1, AtRestMute
  <2>3. d.r2_state = e.r2_state /\ d.wire = e.wire /\ d.fault = e.fault /\ d.ev = e.ev
    BY <2>1, Kinds DEF Chan
  <2> HIDE DEF d
  <2>4. d \in Ended BY <2>1, <2>2, <2>3, RestSame
  <2> QED BY <1>2, <1>5, <2>4 DEF Failed
<1> QED BY <1>3, <1>4, <1>5

\* openr2_chan_add_timer of r2_set_call_down.
LEMMA ScheduleDown ==
  ASSUME NEW c \in Live
  PROVE  LET d == schedule(c, "r2_set_call_down", FALSE)
         IN  /\ d \in Live /\ d.direction = c.direction /\ d.fault = c.fault
             /\ d.call_state = c.call_state /\ d.mf_group = c.mf_group /\ Quiet(c, d)
             /\ Pending(d.sched, "dtmf_start_dial") => Pending(c.sched, "dtmf_start_dial")
             /\ \/ Made(d.ev, Overflow)
                \/ /\ Pending(d.sched, "r2_set_call_down")
                   /\ Single(c.sched, "r2_seize") => Single(d.sched, "r2_seize")
<1> DEFINE name == "r2_set_call_down"
           d == schedule(c, name, FALSE)
<1>1. c \in Chan /\ c.sched \in Seq(Timer) BY Kinds, SchedSeq
<1>2. name \in TimerName /\ name # "dtmf_start_dial" /\ name # "r2_seize" BY DEF TimerName
<1>3. d \in Live BY <1>2, ScheduleLive
<1>4. CASE Len(c.sched) = MaxTimers
  <2>1. "no_time_slots" \in Callback /\ "no_time_slots" \notin Reports
    BY DEF Callback, Reports
  <2>2. name \in Arg BY <1>2, Zenon DEF Arg
  <2>3. d = Emit(c, "no_time_slots", name) BY <1>4 DEF schedule
  <2> HIDE DEF d, name
  <2>4. Same(c, d) /\ d.sched = c.sched /\ Made(d.ev, Overflow)
    BY <1>1, <2>1, <2>2, <2>3, EmitSame
  <2> QED BY <1>3, <2>4 DEF Same, Near, Frame, d, name
<1>5. CASE Len(c.sched) # MaxTimers
  <2> DEFINE t == [name |-> name, ref |-> FALSE]
             q == Append(c.sched, t)
  <2>1. d = [c EXCEPT !.sched = q] BY <1>5 DEF schedule
  <2>2. t \in Timer /\ t.name = name BY <1>2 DEF Timer
  <2> HIDE DEF t, name
  <2>3. q \in Seq(Timer) BY <1>1, <2>2, AppendType
  <2>4. /\ Pending(q, name)
        /\ Pending(q, "dtmf_start_dial") => Pending(c.sched, "dtmf_start_dial")
        /\ Single(c.sched, "r2_seize") => Single(q, "r2_seize")
    BY <1>1, <1>2, <2>2, AppendPending
  <2> HIDE DEF q, d
  <2>5. /\ d.sched = q /\ d.ev = c.ev /\ d.direction = c.direction /\ d.fault = c.fault
        /\ d.call_state = c.call_state /\ d.mf_group = c.mf_group
    BY <1>1, <2>1 DEF Chan
  <2>6. Quiet(c, d) BY <2>5 DEF Quiet
  <2> QED BY <1>3, <2>4, <2>5, <2>6 DEF d, name
<1> QED BY <1>4, <1>5

\* openr2_proto_send_clear_forward: from here on r2_set_call_down supervises.
LEMMA ClearForwardFore ==
  ASSUME NEW w \in BOOLEAN, NEW c \in Unwatched(w)
  PROVE  send_clear_forward(c) \in Fore(w)
<1> DEFINE d == schedule(c, "r2_set_call_down", FALSE)
           r == [d EXCEPT !.r2_state = "CLEAR_FWD_TXD"]
           o == turn_off_mf_engine(r)
           z == set_cas_signal(o, "CLEAR_FORWARD")
<1>1. c \in Live /\ Dialled(c)
      /\ (w => Made(c.ev, Overflow) \/ Single(c.sched, "r2_seize"))
  BY DEF Unwatched
<1>2. /\ d \in Live /\ d.direction = c.direction /\ d.fault = c.fault
      /\ d.call_state = c.call_state /\ d.mf_group = c.mf_group /\ Quiet(c, d)
      /\ Pending(d.sched, "dtmf_start_dial") => Pending(c.sched, "dtmf_start_dial")
      /\ \/ Made(d.ev, Overflow)
         \/ /\ Pending(d.sched, "r2_set_call_down")
            /\ Single(c.sched, "r2_seize") => Single(d.sched, "r2_seize")
  BY <1>1, ScheduleDown
<1>3. send_clear_forward(c) = z BY DEF send_clear_forward
<1> HIDE DEF d
<1>4. "CLEAR_FWD_TXD" \in R2State \ IdleStates /\ "CLEAR_FORWARD" \in CasSignal
  BY DEF R2State, IdleStates, CasSignal
<1>5. r \in Live /\ Frame(d, r) /\ r.r2_state = "CLEAR_FWD_TXD"
      /\ r.call_state = d.call_state /\ r.mf_group = d.mf_group
  BY <1>2, <1>4, LiveR2, SetState, Kinds
<1> HIDE DEF r
<1>6. o \in Live /\ Near(r, o) /\ o.mf_state = "OFF" BY <1>5, TurnOffNear
<1> HIDE DEF o
<1>7. z \in Live /\ Near(o, z) /\ z.mf_state = "OFF"
      /\ (o.fault \subseteq Faults /\ LineOk => z.wire = CAS.CLEAR_FORWARD)
  BY <1>4, <1>6, SetCas, SetCasNear, Kinds
<1> HIDE DEF z
<1>8. Frame(d, z) /\ z.r2_state = "CLEAR_FWD_TXD" /\ z.call_state = c.call_state
      /\ z.mf_group = c.mf_group
  <2>1. Near(r, z) BY <1>6, <1>7, SameTrans
  <2> QED BY <1>2, <1>5, <2>1, SameTrans DEF Near
<1>9. o.fault = c.fault BY <1>2, <1>5, <1>6 DEF Frame, Near
<1>10. "CLEAR_FWD_TXD" \in Clearing /\ "CLEAR_FWD_TXD" \notin Seizing
  BY DEF Clearing, Seizing
<1>11. GroupFits(z) BY <1>1, <1>7, <1>8, <1>10 DEF GroupFits, Dialled
<1>12. LineOk => z.wire = WireOf(z.r2_state)
  BY <1>1, <1>7, <1>8, <1>9, <1>10 DEF WireOf, Dialled
<1>13. Dialled(z)
  BY <1>1, <1>2, <1>8, <1>10, <1>11, <1>12 DEF Dialled, Frame, Quiet, Kept
<1>14. w => Made(z.ev, Overflow) \/ Watched(z.r2_state, z.sched)
  <2>1. Made(c.ev, Overflow) \/ Made(d.ev, Overflow) => Made(z.ev, Overflow)
    BY <1>2, <1>8 DEF Frame, Quiet
  <2>2. Pending(d.sched, "r2_set_call_down") /\ Single(d.sched, "r2_seize")
          => Watched(z.r2_state, z.sched)
    BY <1>8, <1>10 DEF Watched, Frame, Kept, Supervisors
  <2> QED BY <1>1, <1>2, <2>1, <2>2
<1> QED BY <1>3, <1>7, <1>13, <1>14 DEF Fore

-----------------------------------------------------------------------------
\* The bits of the states of a received call.
LEMMA BackBits ==
  /\ OnWire("CLEAR_BACK_TXD") = {CAS.CLEAR_BACK}
  /\ OnWire("EXECUTING_DOUBLE_ANSWER") = {CAS.CLEAR_BACK}
  /\ OnWire("FORCED_RELEASE_TXD") = {CAS.FORCED_RELEASE}
  /\ OnWire("ANSWER_TXD") = {CAS.ANSWER}
  /\ CAS.SEIZE_ACK \in OnWire("SEIZE_ACK_TXD")
BY DEF OnWire, ForwardStates

\* A received call that changes its CAS state, mutes and sends.
LEMMA SendBack ==
  ASSUME NEW c \in Back, NEW state \in BackwardStates, NEW signal \in CasSignal,
         CAS[signal] \in OnWire(state)
  PROVE  set_cas_signal(turn_off_mf_engine([c EXCEPT !.r2_state = state]), signal) \in Back
<1> DEFINE r == [c EXCEPT !.r2_state = state]
           o == turn_off_mf_engine(r)
           z == set_cas_signal(o, signal)
<1>1. Received(c) /\ c \in Live /\ c \in Chan BY BackFacts
<1>2. state \in R2State \ IdleStates BY DEF BackwardStates, R2State, IdleStates
<1>3. r \in Live /\ Frame(c, r) /\ r.r2_state = state
      /\ r.call_state = c.call_state /\ r.mf_group = c.mf_group
  BY <1>1, <1>2, LiveR2, SetState
<1> HIDE DEF r
<1>4. o \in Live /\ Near(r, o) BY <1>3, TurnOffNear
<1> HIDE DEF o
<1>5. z \in Live /\ Near(o, z) /\ (o.fault \subseteq Faults /\ LineOk => z.wire = CAS[signal])
  BY <1>4, SetCas, SetCasNear, Kinds
<1> HIDE DEF z
<1>6. Near(r, z) BY <1>4, <1>5, SameTrans
<1>7. Frame(c, z) /\ z.r2_state = state /\ z.call_state = c.call_state
      /\ z.mf_group = c.mf_group
  BY <1>3, <1>6, SameTrans DEF Near
<1>8. o.fault = c.fault BY <1>3, <1>4 DEF Near, Frame
<1>9. LineOk => z.wire \in OnWire(z.r2_state) BY <1>1, <1>5, <1>7, <1>8 DEF Received
<1>10. z \in Back BY <1>1, <1>5, <1>7, <1>9, BackMove DEF Received
<1> QED BY <1>10 DEF z, o, r

\* openr2_proto_send_clear_backward and a forced release.
LEMMA ClearBackwardBack ==
  ASSUME NEW c \in Back
  PROVE  /\ send_clear_backward(c) \in Back /\ send_forced_release(c) \in Back
         /\ send_clear_backward(c).r2_state = "CLEAR_BACK_TXD"
<1>1. /\ {"CLEAR_BACK", "FORCED_RELEASE"} \subseteq CasSignal
      /\ {"CLEAR_BACK_TXD", "FORCED_RELEASE_TXD"} \subseteq BackwardStates
  BY DEF CasSignal, BackwardStates
<1>2. send_clear_backward(c) \in Back
  BY <1>1, BackBits, SendBack DEF send_clear_backward
<1>3. send_forced_release(c) \in Back
  BY <1>1, BackBits, SendBack DEF send_forced_release
<1>4. send_clear_backward(c).r2_state = "CLEAR_BACK_TXD"
  <2> DEFINE r == [c EXCEPT !.r2_state = "CLEAR_BACK_TXD"]
             o == turn_off_mf_engine(r)
  <2>1. c \in Live /\ c \in Chan BY BackFacts
  <2>2. "CLEAR_BACK_TXD" \in R2State \ IdleStates BY DEF R2State, IdleStates
  <2>3. r \in Live /\ r.r2_state = "CLEAR_BACK_TXD" BY <2>1, <2>2, LiveR2, SetState
  <2>5. send_clear_backward(c) = set_cas_signal(o, "CLEAR_BACK") BY DEF send_clear_backward
  <2> HIDE DEF r
  <2>4. o \in Live /\ o.r2_state = r.r2_state BY <2>3, TurnOffNear DEF Near
  <2> HIDE DEF o
  <2>6. set_cas_signal(o, "CLEAR_BACK").r2_state = o.r2_state
    BY <1>1, <2>4, SetCasNear, Kinds DEF Near
  <2> QED BY <2>3, <2>4, <2>5, <2>6
<1> QED BY <1>2, <1>3, <1>4

\* Rejecting an offered call by tone.
LEMMA RejectBack ==
  ASSUME NEW c \in Back, NEW cause
  PROVE  send_disconnect(c, cause) \in Back \cup Ended
<1> DEFINE d == [c EXCEPT !.mf_state = "DISCONNECT_TXD"]
<1>1. c \in Live /\ c \in Chan BY BackFacts
<1>2. "DISCONNECT_TXD" \in MfState \ {"OFF"} BY DEF MfState
<1>3. d \in Live /\ Near(c, d) /\ d.wire = c.wire BY <1>1, <1>2, LiveMf, SetMf
<1> HIDE DEF d
<1>4. d \in Back BY <1>3, BackSame
<1>5. disconnect_tone(cause) \in Tone BY DisconnectTone
<1> DEFINE e == prepare_mf_tone(d, disconnect_tone(cause))
<1>6. send_disconnect(c, cause) = e BY DEF send_disconnect, d
<1>7. Open(d) BY <1>4, RolesOpen
<1>8. e \in Failed \/ (e \in Live /\ Same(d, e)) BY <1>3, <1>5, <1>7, PrepareSame
<1> HIDE DEF e
<1>9. e \in Live /\ Same(d, e) => e \in Back BY <1>4, BackSame DEF Same
<1> QED BY <1>6, <1>8, <1>9, RoleKinds

\* The two halves of openr2_proto_disconnect_call.
LEMMA DisconnectBack ==
  ASSUME NEW c \in Back, NEW cause
  PROVE  disconnect_backward(c, cause) \in Back \cup Ended
<1>1. report_call_end(c) \in Ended BY RolesOpen, CallEndEnds
<1>2. send_disconnect(c, cause) \in Back \cup Ended BY RejectBack
<1>3. send_forced_release(c) \in Back /\ send_clear_backward(c) \in Back
  BY ClearBackwardBack
<1> QED BY <1>1, <1>2, <1>3 DEF disconnect_backward

\* Hanging up after glare: r2_seize_persist ends the wait.
LEMMA GlareFore ==
  ASSUME NEW w \in BOOLEAN, NEW c \in Fore(w), c.r2_state = "DOUBLE_SEIZURE"
  PROVE  add_timer([c EXCEPT !.r2_state = "DOUBLE_SEIZURE_CLEAR_FWD_PENDING"],
                   "r2_seize_persist") \in Fore(w)
<1> DEFINE state == "DOUBLE_SEIZURE_CLEAR_FWD_PENDING"
           name == "r2_seize_persist"
           r == [c EXCEPT !.r2_state = state]
           q == Disown(r.sched, name)
           e == [r EXCEPT !.sched = q]
           z == add_timer(r, name)
<1>1. Dialled(c) /\ c \in Live /\ c \in Chan BY ForeFacts
<1>2. state \in R2State \ IdleStates /\ state \notin Seizing \cup Clearing
      /\ "DOUBLE_SEIZURE" \notin Seizing \cup Clearing
  BY DEF R2State, IdleStates, Seizing, Clearing
<1>3. /\ name \in TimerName /\ name # "r2_seize" /\ name # "r2_set_call_down"
      /\ name # "dtmf_start_dial"
  BY DEF TimerName
<1> HIDE DEF name, state
<1>4. /\ r \in Live /\ r.r2_state = state /\ r.call_state = c.call_state
      /\ r.mf_group = c.mf_group /\ r.mf_state = c.mf_state /\ r.wire = c.wire
      /\ r.sched = c.sched /\ r.ev = c.ev /\ Frame(c, r)
  BY <1>1, <1>2, LiveR2, SetState
<1>13. z = schedule(e, name, TRUE) BY DEF add_timer
<1>14. z \in Live BY <1>3, <1>4, AddTimerLive
<1> HIDE DEF r, z
<1>5. r.sched \in Seq(Timer) BY <1>4, Kinds, SchedSeq
<1>6. /\ q \in Seq(Timer) /\ \A n : Pending(q, n) <=> Pending(r.sched, n)
      /\ Single(r.sched, "r2_seize") => Single(q, "r2_seize")
  BY <1>3, <1>5, DisownType, DisownPending
<1> HIDE DEF q
<1>7. /\ e \in Live /\ e.sched = q /\ e.ev = r.ev /\ e.direction = r.direction
      /\ e.fault = r.fault /\ e.r2_state = r.r2_state /\ e.call_state = r.call_state
      /\ e.mf_group = r.mf_group /\ e.mf_state = r.mf_state /\ e.wire = r.wire
  <2>1. r \in Chan BY <1>4, Kinds
  <2> QED BY <1>4, <1>6, <2>1, LiveSched DEF Chan
<1> HIDE DEF e
<1>8. /\ z.direction = e.direction
      /\ z.fault = e.fault /\ z.r2_state = e.r2_state /\ z.call_state = e.call_state
      /\ z.mf_group = e.mf_group /\ z.mf_state = e.mf_state /\ z.wire = e.wire
      /\ Made(z.ev, Reports) => Made(e.ev, Reports)
      /\ Made(e.ev, Overflow) => Made(z.ev, Overflow)
      /\ Pending(z.sched, "dtmf_start_dial") => Pending(e.sched, "dtmf_start_dial")
      /\ \/ Made(z.ev, Overflow)
         \/ /\ Pending(z.sched, name)
            /\ Pending(z.sched, "r2_seize") <=> Pending(e.sched, "r2_seize")
            /\ Pending(z.sched, "r2_set_call_down") <=> Pending(e.sched, "r2_set_call_down")
            /\ Single(e.sched, "r2_seize") => Single(z.sched, "r2_seize")
  <2>0. e \in Chan BY <1>7, Kinds
  <2>1. CASE Len(e.sched) = MaxTimers
    <3>1. "no_time_slots" \in Callback /\ "no_time_slots" \notin Reports
      BY DEF Callback, Reports
    <3>2. name \in Arg BY <1>3, Zenon DEF Arg
    <3>3. z = Emit(e, "no_time_slots", name) BY <1>13, <2>1 DEF schedule
    <3>4. Same(e, z) /\ z.sched = e.sched /\ Made(z.ev, Overflow)
      BY <2>0, <3>1, <3>2, <3>3, EmitSame
    <3> QED BY <3>4 DEF Same, Near, Frame, Quiet
  <2>2. CASE Len(e.sched) # MaxTimers
    <3> DEFINE t == [name |-> name, ref |-> TRUE]
               u == Append(e.sched, t)
    <3>1. z = [e EXCEPT !.sched = u] BY <1>13, <2>2 DEF schedule
    <3>2. t \in Timer /\ t.name = name BY <1>3 DEF Timer
    <3> HIDE DEF t
    <3>3. e.sched \in Seq(Timer) BY <1>6, <1>7
    <3>4. /\ \A n : Pending(u, n) <=> Pending(e.sched, n) \/ t.name = n
          /\ Single(e.sched, "r2_seize") => Single(u, "r2_seize")
      BY <1>3, <3>2, <3>3, AppendPending
    <3> HIDE DEF u
    <3>5. /\ z.sched = u /\ z.ev = e.ev /\ z.direction = e.direction
          /\ z.fault = e.fault /\ z.r2_state = e.r2_state /\ z.call_state = e.call_state
          /\ z.mf_group = e.mf_group /\ z.mf_state = e.mf_state /\ z.wire = e.wire
      BY <2>0, <3>1 DEF Chan
    <3> QED BY <1>3, <3>2, <3>4, <3>5
  <2> QED BY <2>1, <2>2
<1>9. GroupFits(z)
  BY <1>1, <1>2, <1>4, <1>7, <1>8 DEF Dialled, GroupFits
<1>10. z.direction = "FORWARD" /\ z.fault = c.fault
  BY <1>1, <1>4, <1>7, <1>8 DEF Frame, Dialled
<1>11. Dialled(z)
  <2>1. WireOf(z.r2_state) = WireOf(c.r2_state) BY <1>2, <1>4, <1>7, <1>8 DEF WireOf
  <2>2. z.wire = c.wire /\ z.r2_state = state /\ z.call_state = c.call_state
        /\ z.mf_group = c.mf_group /\ ~Made(z.ev, Reports)
        /\ (Pending(z.sched, "dtmf_start_dial") => Pending(c.sched, "dtmf_start_dial"))
    BY <1>1, <1>4, <1>6, <1>7, <1>8 DEF Dialled
  <2> QED BY <1>1, <1>9, <1>10, <2>1, <2>2 DEF Dialled, state
<1>12. w => Made(z.ev, Overflow) \/ Watched(z.r2_state, z.sched)
  <2>1. w => Made(c.ev, Overflow) \/ Watched(c.r2_state, c.sched) BY DEF Fore
  <2>2. Watched(c.r2_state, c.sched) /\ ~Made(z.ev, Overflow)
          => Watched(z.r2_state, z.sched)
    BY <1>2, <1>4, <1>6, <1>7, <1>8 DEF Watched, name
  <2> QED BY <1>4, <1>7, <1>8, <2>1, <2>2
<1> QED BY <1>11, <1>12, <1>14 DEF Fore, z, r, name, state

\* The dialled call goes on to another state of the conversation.
LEMMA ForeState ==
  ASSUME NEW w \in BOOLEAN, NEW c \in Fore(w), c.r2_state \notin Seizing \cup Clearing,
         NEW s \in Talking
  PROVE  [c EXCEPT !.r2_state = s] \in Fore(w)
<1> DEFINE d == [c EXCEPT !.r2_state = s]
<1>1. Dialled(c) /\ c \in Live /\ c \in Chan BY ForeFacts
<1>2. s \in R2State \ IdleStates /\ s \notin Seizing \cup Clearing
  BY DEF Talking, R2State, IdleStates, Seizing, Clearing
<1>3. /\ d \in Live /\ Frame(c, d) /\ d.r2_state = s /\ d.call_state = c.call_state
      /\ d.mf_group = c.mf_group /\ d.mf_state = c.mf_state /\ d.wire = c.wire
  BY <1>1, <1>2, LiveR2, SetState
<1> HIDE DEF d
<1>4. GroupFits(d) BY <1>1, <1>2, <1>3 DEF Dialled, GroupFits
<1>5. d \in Fore(w) BY <1>1, <1>3, <1>4, ForeMove DEF Dialled
<1> QED BY <1>5 DEF d

\* The call goes through the call states of its role.
LEMMA CallRoles ==
  ASSUME NEW w \in BOOLEAN, NEW c
  PROVE  /\ \A s \in ForeCalls : c \in Fore(w) => [c EXCEPT !.call_state = s] \in Fore(w)
         /\ \A s \in BackCalls : c \in Back => [c EXCEPT !.call_state = s] \in Back
<1>1. ASSUME NEW s \in ForeCalls \cup BackCalls, c \in Live
      PROVE  LET d == [c EXCEPT !.call_state = s]
             IN  /\ d \in Live /\ Frame(c, d) /\ d.r2_state = c.r2_state /\ d.call_state = s
                 /\ d.mf_group = c.mf_group /\ d.mf_state = c.mf_state /\ d.wire = c.wire
  <2>1. s \in CallState \ {"IDLE"} BY DEF ForeCalls, BackCalls, CallState
  <2> QED BY <1>1, <2>1, LiveCall, SetCall, Kinds
<1>2. ASSUME NEW s \in ForeCalls, c \in Fore(w)
      PROVE  [c EXCEPT !.call_state = s] \in Fore(w)
  <2> DEFINE d == [c EXCEPT !.call_state = s]
  <2>1. Dialled(c) /\ c \in Live BY <1>2, ForeFacts
  <2>2. /\ d \in Live /\ Frame(c, d) /\ d.r2_state = c.r2_state /\ d.call_state = s
        /\ d.mf_group = c.mf_group /\ d.mf_state = c.mf_state /\ d.wire = c.wire
    BY <1>1, <2>1
  <2> HIDE DEF d
  <2>3. GroupFits(d) BY <2>1, <2>2 DEF Dialled, GroupFits
  <2>4. d \in Fore(w) BY <1>2, <2>1, <2>2, <2>3, ForeMove DEF Dialled
  <2> QED BY <2>4 DEF d
<1>3. ASSUME NEW s \in BackCalls, c \in Back
      PROVE  [c EXCEPT !.call_state = s] \in Back
  <2> DEFINE d == [c EXCEPT !.call_state = s]
  <2>1. Received(c) /\ c \in Live BY <1>3, BackFacts
  <2>2. /\ d \in Live /\ Frame(c, d) /\ d.r2_state = c.r2_state /\ d.call_state = s
        /\ d.mf_group = c.mf_group /\ d.wire = c.wire
    BY <1>1, <2>1
  <2> HIDE DEF d
  <2>3. d \in Back BY <1>3, <2>1, <2>2, BackMove DEF Received
  <2> QED BY <2>3 DEF d
<1> QED BY <1>2, <1>3

\* The forward half of openr2_proto_disconnect_call: whatever the call was
\* waiting for, a timer now ends the wait.
LEMMA DisconnectFore ==
  ASSUME NEW w \in BOOLEAN, NEW c \in Fore(w)
  PROVE  disconnect_forward(c) \in Fore(w) \cup Ended
<1>1. Dialled(c) /\ c \in Live /\ c \in Chan BY ForeFacts
<1>2. CASE c.r2_state = "SEIZE_TXD"
  <2> DEFINE s == "SEIZE_TXD_CLEAR_FWD_PENDING"
             d == [c EXCEPT !.r2_state = s]
  <2>1. s \in R2State \ IdleStates /\ {s, "SEIZE_TXD"} \subseteq Seizing
    BY DEF R2State, IdleStates, Seizing
  <2>2. disconnect_forward(c) = d BY <1>2 DEF disconnect_forward
  <2> HIDE DEF s
  <2>3. /\ d \in Live /\ Frame(c, d) /\ d.r2_state = s /\ d.call_state = c.call_state
        /\ d.mf_group = c.mf_group /\ d.mf_state = c.mf_state /\ d.wire = c.wire
    BY <1>1, <2>1, LiveR2, SetState
  <2> HIDE DEF d
  <2>4. GroupFits(d) BY <1>1, <1>2, <2>1, <2>3 DEF Dialled, GroupFits
  <2>5. {c.r2_state, d.r2_state} \subseteq Seizing BY <1>2, <2>1, <2>3
  <2> QED BY <1>1, <2>2, <2>3, <2>4, <2>5, ForeMove DEF Dialled
<1>3. CASE c.r2_state = "DOUBLE_SEIZURE"
  BY <1>3, GlareFore DEF disconnect_forward
<1>4. CASE c.r2_state = "CLEAR_FWD_RXD"
  BY <1>4, RolesOpen, CallEndEnds DEF disconnect_forward
<1>5. CASE c.r2_state \notin {"SEIZE_TXD", "DOUBLE_SEIZURE", "CLEAR_FWD_RXD"}
  <2>1. disconnect_forward(c) = send_clear_forward(c) BY <1>5 DEF disconnect_forward
  <2>2. c \in Unwatched(w) BY RoleKinds
  <2> QED BY <2>1, <2>2, ClearForwardFore
<1> QED BY <1>2, <1>3, <1>4, <1>5

\* openr2_proto_disconnect_call in either role, and where there is no call.
LEMMA DisconnectRoles ==
  ASSUME NEW w \in BOOLEAN, NEW c, NEW cause
  PROVE  /\ c \in Fore(w) => disconnect_call(c, cause) \in Fore(w) \cup Ended
         /\ c \in Back => disconnect_call(c, cause) \in Back \cup Ended
         /\ c \in AtRest => disconnect_call(c, cause) = c
<1>1. ASSUME c \in Fore(w) PROVE disconnect_call(c, cause) \in Fore(w) \cup Ended
  <2>1. c.call_state # "IDLE" /\ c.direction # "BACKWARD"
    BY <1>1, ForeFacts DEF Dialled, ForeCalls
  <2> QED BY <1>1, <2>1, DisconnectFore DEF disconnect_call
<1>2. ASSUME c \in Back PROVE disconnect_call(c, cause) \in Back \cup Ended
  <2>1. c.call_state # "IDLE" /\ c.direction = "BACKWARD"
    BY <1>2, BackFacts DEF Received, BackCalls
  <2> QED BY <1>2, <2>1, DisconnectBack DEF disconnect_call
<1>3. c \in AtRest => disconnect_call(c, cause) = c BY DEF disconnect_call, AtRest
<1> QED BY <1>1, <1>2, <1>3

\* report_call_disconnection, with a user who clears from within the callback.
LEMMA FarHangUp ==
  ASSUME NEW w \in BOOLEAN, NEW c, NEW cause \in Cause
  PROVE  /\ c \in Fore(w) => report_call_disconnection(c, cause) \in Fore(w) \cup Ended
         /\ c \in Back => report_call_disconnection(c, cause) \in Back \cup Ended
<1> DEFINE s == "DISCONNECTED"
           d == [c EXCEPT !.call_state = s]
           e == Emit(d, "on_call_disconnect", cause)
<1>1. s \in ForeCalls /\ s \in BackCalls BY DEF ForeCalls, BackCalls
<1>2. "on_call_disconnect" \in Callback \ Reports BY DEF Callback, Reports
<1>3. cause \in Arg BY Zenon DEF Arg
<1>4. \/ report_call_disconnection(c, cause) = e
      \/ report_call_disconnection(c, cause) = disconnect_call(e, "NORMAL_CLEARING")
  BY DEF report_call_disconnection
<1> HIDE DEF s
<1>5. (c \in Fore(w) => d \in Fore(w)) /\ (c \in Back => d \in Back) BY <1>1, CallRoles
<1> HIDE DEF d
<1>6. (c \in Fore(w) => e \in Fore(w)) /\ (c \in Back => e \in Back)
  BY <1>2, <1>3, <1>5, EmitRoles
<1> HIDE DEF e
<1> QED BY <1>4, <1>6, DisconnectRoles

-----------------------------------------------------------------------------
(***************************************************************************)
(* Tones, answers and offers, in either role.                              *)
(***************************************************************************)
\* A tone or a silence leaves the call in its role, or fails it.
LEMMA ToneRoles ==
  ASSUME NEW w \in BOOLEAN, NEW c, NEW tone \in Tone
  PROVE  /\ c \in Fore(w) => /\ prepare_mf_tone(c, tone) \in Fore(w) \cup Failed
                             /\ set_silence(c) \in Fore(w) \cup Failed
         /\ c \in Back => /\ prepare_mf_tone(c, tone) \in Back \cup Failed
                          /\ set_silence(c) \in Back \cup Failed
<1> DEFINE d == prepare_mf_tone(c, tone)
           e == set_silence(c)
<1>1. ASSUME c \in Fore(w) \cup Back
      PROVE  /\ d \in Failed \/ (d \in Live /\ Same(c, d))
             /\ e \in Failed \/ (e \in Live /\ Same(c, e))
  <2>1. c \in Live /\ Open(c) BY <1>1, RoleKinds, RolesOpen
  <2> QED BY <2>1, PrepareSame, SilenceSame
<1> HIDE DEF d, e
<1>2. c \in Fore(w) => d \in Fore(w) \cup Failed /\ e \in Fore(w) \cup Failed
  BY <1>1, ForeSame
<1>3. c \in Back => d \in Back \cup Failed /\ e \in Back \cup Failed
  BY <1>1, BackSame DEF Same
<1> QED BY <1>2, <1>3 DEF d, e

\* openr2_proto_do_answer on a received call.
LEMMA AnswerBack ==
  ASSUME NEW c \in Back, NEW double
  PROVE  answer_call(c, double) \in Back
<1> DEFINE sent == set_cas_signal(c, "ANSWER")
           done == [sent EXCEPT !.call_state = "ANSWERED", !.r2_state = "ANSWER_TXD",
                                !.answered = TRUE]
           again == add_timer(done, "r2_double_answer")
<1>1. Received(c) /\ c \in Live /\ c \in Chan BY BackFacts
<1>2. "ANSWER" \in CasSignal BY DEF CasSignal
<1>3. \/ answer_call(c, double) = c
      \/ answer_call(c, double) = sent /\ IoFails(c)
      \/ answer_call(c, double) = again
      \/ answer_call(c, double) = done
  BY DEF answer_call
<1>4. /\ sent \in Live /\ Near(c, sent)
      /\ sent.wire = IF IoFails(c) THEN c.wire ELSE CAS.ANSWER
      /\ c.fault \subseteq Faults /\ LineOk => sent.wire = CAS.ANSWER
  BY <1>1, <1>2, SetCas, SetCasNear
<1> HIDE DEF sent
<1>5. IoFails(c) => sent \in Back BY <1>4, BackSame
<1>6. "ANSWER_TXD" \in R2State \ IdleStates /\ "ANSWER_TXD" \in BackwardStates
      /\ "ANSWERED" \in BackCalls
  BY DEF R2State, IdleStates, BackwardStates, BackCalls
<1>7. done \in Live
  <2>1. sent \in Live /\ "ANSWER_TXD" \in R2State \ IdleStates BY <1>4, <1>6
  <2>2. "ANSWERED" \in CallState BY DEF CallState
  <2> QED BY <2>1, <2>2 DEF Live, Loose, Chan
<1>8. /\ done.direction = sent.direction /\ done.fault = sent.fault /\ done.ev = sent.ev
      /\ done.sched = sent.sched /\ done.r2_state = "ANSWER_TXD"
      /\ done.call_state = "ANSWERED" /\ done.mf_group = sent.mf_group
      /\ done.wire = sent.wire
  <2>1. sent \in Chan BY <1>4, Kinds
  <2> QED BY <2>1 DEF Chan
<1> HIDE DEF done
<1>9. Frame(c, done) /\ done.mf_group = c.mf_group
  <2>1. Frame(sent, done) BY <1>8, FrameFields
  <2> QED BY <1>4, <1>8, <2>1, SameTrans DEF Near
<1>10. LineOk => done.wire \in OnWire(done.r2_state)
  BY <1>1, <1>4, <1>8, BackBits DEF Received
<1>11. done \in Back BY <1>1, <1>6, <1>7, <1>8, <1>9, <1>10, BackMove DEF Received
<1>12. "r2_double_answer" \in TimerName \ Supervisors
       /\ "r2_double_answer" # "dtmf_start_dial"
  BY DEF TimerName, Supervisors
<1>13. again \in Live /\ Same(done, again) BY <1>7, <1>12, AddTimerLive, AddTimerSame, Kinds
<1> HIDE DEF again
<1>14. again \in Back BY <1>11, <1>13, BackSame DEF Same
<1> QED BY <1>3, <1>5, <1>11, <1>14

\* on_call_accepted, with a user who answers or clears from within it.
LEMMA AcceptedRoles ==
  ASSUME NEW w \in BOOLEAN, NEW c, NEW mode \in Mode
  PROVE  /\ c \in Fore(w) => on_call_accepted(c, mode) \in Fore(w) \cup Ended
         /\ c \in Back => on_call_accepted(c, mode) \in Back
<1> DEFINE e == Emit(c, "on_call_accepted", mode)
<1>1. "on_call_accepted" \in Callback \ Reports BY DEF Callback, Reports
<1>2. mode \in Arg BY Zenon DEF Arg
<1>3. \/ on_call_accepted(c, mode) = e
      \/ on_call_accepted(c, mode) = answer_call(e, Ctx.double_answer)
         /\ c.direction = "BACKWARD"
      \/ on_call_accepted(c, mode) = disconnect_call(e, "NORMAL_CLEARING")
         /\ c.direction = "FORWARD"
  BY DEF on_call_accepted
<1>4. (c \in Fore(w) => e \in Fore(w)) /\ (c \in Back => e \in Back)
  BY <1>1, <1>2, EmitRoles
<1> HIDE DEF e
<1>5. c \in Fore(w) => c.direction # "BACKWARD" BY ForeFacts DEF Dialled
<1>6. c \in Back => c.direction # "FORWARD" BY BackFacts DEF Received
<1>7. c \in Fore(w) => on_call_accepted(c, mode) \in Fore(w) \cup Ended
  BY <1>3, <1>4, <1>5, DisconnectRoles
<1>8. c \in Back => on_call_accepted(c, mode) \in Back
  BY <1>3, <1>4, <1>6, AnswerBack
<1> QED BY <1>7, <1>8

\* openr2_proto_accept_call; without an offered call it does nothing.
LEMMA AcceptRoles ==
  ASSUME NEW w \in BOOLEAN, NEW c, NEW mode
  PROVE  /\ c \in Back => accept_call(c, mode) \in Back \cup Failed
         /\ c \in Fore(w) \cup Rest \cup Ended => accept_call(c, mode) = c
<1> DEFINE d == [c EXCEPT !.mf_state = "ACCEPTED_TXD"]
           t == get_tone_from_mode(mode)
<1>1. \/ accept_call(c, mode) = c
      \/ accept_call(c, mode) = on_call_accepted(c, "UNKNOWN")
      \/ accept_call(c, mode) = prepare_mf_tone(d, t)
  BY DEF accept_call
<1>2. t \in Tone BY GroupBTones DEF get_tone_from_mode
<1>3. "ACCEPTED_TXD" \in MfState \ {"OFF"} /\ "UNKNOWN" \in Mode BY DEF MfState, Mode
<1>4. c \in Back => d \in Back
  <2>1. c \in Back => d \in Live /\ Near(c, d) /\ d.wire = c.wire
    BY <1>3, LiveMf, SetMf, RoleKinds
  <2> HIDE DEF d
  <2> QED BY <2>1, BackSame
<1> HIDE DEF d, t
<1>5. c \in Back => accept_call(c, mode) \in Back \cup Failed
  BY <1>1, <1>2, <1>3, <1>4, ToneRoles, AcceptedRoles
<1>6. c \in Fore(w) => c.call_state # "OFFERED" BY ForeFacts DEF Dialled, ForeCalls
<1>7. c \in Rest \cup Ended => c.call_state # "OFFERED" BY DEF Rest, Ended, AtRest
<1> QED BY <1>5, <1>6, <1>7 DEF accept_call

\* OFFER_CALL, after a tone that may already have failed the call.
LEMMA OfferRoles ==
  ASSUME NEW c \in Back \cup Failed
  PROVE  OFFER_CALL(c) \in Back \cup Ended
<1> DEFINE none == ""
           s == "OFFERED"
           d == [c EXCEPT !.call_state = s]
           e == Emit(d, "on_call_offered", none)
<1>1. s \in BackCalls BY DEF BackCalls
<1>2. "on_call_offered" \in Callback \ Reports BY DEF Callback, Reports
<1>3. none \in Arg BY Zenon DEF Arg
<1>4. \/ OFFER_CALL(c) = handle_protocol_error(c, "INVALID_R2_STATE")
      \/ c.call_state = "COLLECTING" /\ OFFER_CALL(c) = accept_call(e, "WITH_CHARGE")
      \/ c.call_state = "COLLECTING" /\ OFFER_CALL(c) = e
  BY Zenon DEF OFFER_CALL
<1> HIDE DEF none, s
<1>5. c \in Back => d \in Back BY <1>1, CallRoles
<1> HIDE DEF d
<1>6. c \in Back => e \in Back BY <1>2, <1>3, <1>5, EmitRoles
<1> HIDE DEF e
<1>7. c \in Failed => c.call_state # "COLLECTING" BY RoleKinds DEF AtRest
<1>8. handle_protocol_error(c, "INVALID_R2_STATE") \in Ended
  BY RolesOpen, ErrorEnds DEF ProtocolError
<1>9. \A w \in BOOLEAN : e \in Back => accept_call(e, "WITH_CHARGE") \in Back \cup Failed
  BY AcceptRoles
<1>10. e \in Back => accept_call(e, "WITH_CHARGE") \in Back \cup Ended
  <2>1. TRUE \in BOOLEAN OBVIOUS
  <2> QED BY <1>9, <2>1, RoleKinds
<1> QED BY <1>4, <1>6, <1>7, <1>8, <1>10

-----------------------------------------------------------------------------
(***************************************************************************)
(* The MF dialogue of a received call.                                     *)
(***************************************************************************)

\* A request puts the call in another group, in another MF state.
Asks(c, g, m) == [c EXCEPT !.mf_group = g, !.mf_state = m]
Says(c, m) == [c EXCEPT !.mf_state = m]

\* A received call goes through the groups and MF states of its role.
LEMMA AskBack ==
  ASSUME NEW c \in Back, NEW g \in BackGroups, NEW m \in MfState \ {"OFF"}
  PROVE  Asks(c, g, m) \in Back /\ Says(c, m) \in Back
<1> DEFINE d == Asks(c, g, m)
           e == Says(c, m)
<1>1. Received(c) /\ c \in Live /\ c \in Chan BY BackFacts
<1>2. g \in MfGroup BY DEF BackGroups, MfGroup
<1>3. d \in Live BY <1>1, <1>2 DEF Live, Loose, Chan, Asks
<1>4. /\ Frame(c, d) /\ d.r2_state = c.r2_state /\ d.call_state = c.call_state
      /\ d.mf_group = g /\ d.mf_state = m /\ d.wire = c.wire
  <2>1. /\ d.direction = c.direction /\ d.fault = c.fault /\ d.ev = c.ev
        /\ d.sched = c.sched /\ d.r2_state = c.r2_state /\ d.call_state = c.call_state
        /\ d.mf_group = g /\ d.mf_state = m /\ d.wire = c.wire
    BY <1>1 DEF Chan, Asks
  <2> HIDE DEF d
  <2> QED BY <2>1, FrameFields
<1>5. e \in Live /\ Near(c, e) /\ e.wire = c.wire BY <1>1, LiveMf, SetMf DEF Says
<1> HIDE DEF d, e
<1>6. d \in Back BY <1>1, <1>3, <1>4, BackMove DEF Received
<1>7. e \in Back BY <1>5, BackSame
<1> QED BY <1>6, <1>7 DEF d, e

\* ToneRoles for a received call.
LEMMA ToneBack ==
  ASSUME NEW c \in Back, NEW tone \in Tone
  PROVE  /\ prepare_mf_tone(c, tone) \in Back \cup Failed
         /\ prepare_mf_tone(c, tone) \in Back \cup Ended
         /\ set_silence(c) \in Back \cup Failed
<1>1. \A w \in BOOLEAN : /\ prepare_mf_tone(c, tone) \in Back \cup Failed
                         /\ set_silence(c) \in Back \cup Failed
  BY ToneRoles
<1>2. TRUE \in BOOLEAN OBVIOUS
<1>3. /\ prepare_mf_tone(c, tone) \in Back \cup Failed
      /\ set_silence(c) \in Back \cup Failed
  BY <1>1, <1>2
<1> QED BY <1>3, RoleKinds

\* A request: another group or MF state, and its tone.
LEMMA RequestBack ==
  ASSUME NEW c \in Back, NEW g \in BackGroups, NEW m \in MfState \ {"OFF"}, NEW tone \in Tone
  PROVE  /\ prepare_mf_tone(Asks(c, g, m), tone) \in Back \cup Ended
         /\ prepare_mf_tone(Says(c, m), tone) \in Back \cup Ended
         /\ prepare_mf_tone(Says(c, m), tone) \in Back \cup Failed
<1>1. Asks(c, g, m) \in Back /\ Says(c, m) \in Back BY AskBack
<1> QED BY <1>1, ToneBack

\* The requests for digits, for the category and for group II.
LEMMA RequestsBack ==
  ASSUME NEW c \in Back
  PROVE  /\ request_calling_party_category(c) \in Back \cup Ended
         /\ bypass_change_to_g2(c) \in Back \cup Ended
         /\ request_change_to_g2(c) \in Back \cup Ended
         /\ try_change_to_g2(c) \in Back \cup Ended
         /\ try_request_calling_party_category(c) \in Back \cup Ended
         /\ request_next_dnis_digit(c) \in Back \cup Ended
         /\ request_next_ani_digit(c) \in Back \cup Ended
<1>1. /\ "CATEGORY_RQ_TXD" \in MfState \ {"OFF"} /\ "ACCEPTED_TXD" \in MfState \ {"OFF"}
      /\ "CHG_GII_TXD" \in MfState \ {"OFF"} /\ "DNIS_RQ_TXD" \in MfState \ {"OFF"}
      /\ "ANI_RQ_TXD" \in MfState \ {"OFF"}
  BY DEF MfState
<1>2. "GA" \in BackGroups /\ "GB" \in BackGroups /\ "GC" \in BackGroups BY DEF BackGroups
<1>3. request_calling_party_category(c) \in Back \cup Ended
  <2> DEFINE plain == Ctx.ga.request_category # 0
             g == IF plain THEN "GA" ELSE "GC"
             t == IF plain THEN Ctx.ga.request_category
                  ELSE Ctx.ga.request_category_and_change_to_gc
  <2>1. g \in BackGroups /\ t \in Tone BY <1>2, GroupATones
  <2>2. request_calling_party_category(c) = prepare_mf_tone(Asks(c, g, "CATEGORY_RQ_TXD"), t)
    BY DEF request_calling_party_category, Asks
  <2> HIDE DEF g, t
  <2> QED BY <1>1, <2>1, <2>2, RequestBack
<1>4. bypass_change_to_g2(c) \in Back \cup Ended
  <2> DEFINE t == Ctx.ga.address_complete_charge_setup
             d == prepare_mf_tone(Says(c, "ACCEPTED_TXD"), t)
  <2>1. t \in Tone BY GroupATones
  <2>2. bypass_change_to_g2(c) = OFFER_CALL(d) BY DEF bypass_change_to_g2, Says
  <2> HIDE DEF t
  <2>3. d \in Back \cup Failed BY <1>1, <1>2, <2>1, RequestBack
  <2> HIDE DEF d
  <2> QED BY <2>2, <2>3, OfferRoles
<1>5. request_change_to_g2(c) \in Back \cup Ended
  <2> DEFINE t == IF c.mf_group = "GC" THEN Ctx.gc.request_change_to_g2
                                       ELSE Ctx.ga.request_change_to_g2
  <2>1. t \in Tone BY GroupATones, GroupCTones
  <2>2. request_change_to_g2(c) = prepare_mf_tone(Asks(c, "GB", "CHG_GII_TXD"), t)
    BY DEF request_change_to_g2, Asks
  <2> HIDE DEF t
  <2> QED BY <1>1, <1>2, <2>1, <2>2, RequestBack
<1>6. request_next_dnis_digit(c) \in Back \cup Ended
  <2> DEFINE t == IF c.mf_group = "GC"
                  THEN Ctx.gc.request_next_dnis_digit_and_change_to_ga
                  ELSE Ctx.ga.request_next_dnis_digit
  <2>1. t \in Tone BY GroupATones, GroupCTones
  <2>2. request_next_dnis_digit(c) = prepare_mf_tone(Asks(c, "GA", "DNIS_RQ_TXD"), t)
    BY DEF request_next_dnis_digit, Asks
  <2> HIDE DEF t
  <2> QED BY <1>1, <1>2, <2>1, <2>2, RequestBack
<1>7. request_next_ani_digit(c) \in Back \cup Ended
  <2> DEFINE t == IF Ctx.gc.request_next_ani_digit # 0
                  THEN Ctx.gc.request_next_ani_digit
                  ELSE Ctx.ga.request_next_ani_digit
  <2>1. t \in Tone BY GroupATones, GroupCTones
  <2>2. request_next_ani_digit(c) = prepare_mf_tone(Says(c, "ANI_RQ_TXD"), t)
    BY DEF request_next_ani_digit, Says
  <2> HIDE DEF t
  <2> QED BY <1>1, <1>2, <2>1, <2>2, RequestBack
<1>8. try_change_to_g2(c) \in Back \cup Ended BY <1>4, <1>5 DEF try_change_to_g2
<1> QED
  BY <1>3, <1>4, <1>5, <1>6, <1>7, <1>8 DEF try_request_calling_party_category

\* Digits and what is known of the caller have no bearing on the role.
LEMMA DigitsBack ==
  ASSUME NEW c \in Back, NEW tone \in Tone, NEW r \in BOOLEAN
  PROVE  /\ [c EXCEPT !.caller_category = tone] \in Back
         /\ [c EXCEPT !.caller_ani_is_restricted = r] \in Back
         /\ tone \in Digit /\ Len(c.dnis) # MaxDigits - 1
              => [c EXCEPT !.dnis = Append(@, tone)] \in Back
         /\ tone \in Digit => [c EXCEPT !.ani = Append(@, tone)] \in Back
<1>1. Received(c) /\ c \in Live /\ c \in Chan BY BackFacts
<1>2. /\ Same(c, [c EXCEPT !.caller_category = tone])
      /\ Same(c, [c EXCEPT !.caller_ani_is_restricted = r])
      /\ Same(c, [c EXCEPT !.dnis = Append(c.dnis, tone)])
      /\ Same(c, [c EXCEPT !.ani = Append(c.ani, tone)])
  BY <1>1, OtherSame
<1>3. [c EXCEPT !.caller_category = tone] \in Live BY <1>1 DEF Live, Loose, Chan
<1>4. [c EXCEPT !.caller_ani_is_restricted = r] \in Live BY <1>1, ZenonT(40) DEF Live, Loose, Chan
<1>5. ASSUME tone \in Digit
      PROVE  /\ Len(c.dnis) # MaxDigits - 1 => [c EXCEPT !.dnis = Append(c.dnis, tone)] \in Live
             /\ [c EXCEPT !.ani = Append(c.ani, tone)] \in Live
  <2>1. c.ani \in Seq(Digit) BY <1>1 DEF Chan
  <2>2. Append(c.ani, tone) \in Seq(Digit) BY <1>5, <2>1, AppendType
  <2>3. Len(c.dnis) # MaxDigits - 1 => Append(c.dnis, tone) \in Number
    BY <1>1, <1>5, DnisFits
  <2> QED BY <1>1, <2>2, <2>3, LiveDigits
<1>6. ASSUME NEW d \in Live, Same(c, d) PROVE d \in Back BY <1>6, BackSame DEF Same
<1> QED BY <1>2, <1>3, <1>4, <1>5, <1>6

\* Starting and cancelling a timer that supervises no CAS state.
LEMMA TimerRoles ==
  ASSUME NEW w \in BOOLEAN, NEW c, NEW name \in TimerName \ Supervisors,
         name = "dtmf_start_dial" => Ctx.dial_with_dtmf
  PROVE  /\ c \in Fore(w) => add_timer(c, name) \in Fore(w) /\ cancel_timer(c, name) \in Fore(w)
         /\ c \in Back => add_timer(c, name) \in Back /\ cancel_timer(c, name) \in Back
<1> DEFINE d == add_timer(c, name)
           e == cancel_timer(c, name)
<1>1. ASSUME c \in Live
      PROVE  d \in Live /\ Same(c, d) /\ e \in Live /\ Same(c, e)
  <2>1. c \in Chan /\ name \in TimerName /\ c \in Calm BY <1>1, Kinds
  <2>2. d \in Live /\ Same(c, d) BY <1>1, <2>1, AddTimerLive, AddTimerSame
  <2>3. e \in Live /\ Same(c, e) BY <1>1, <2>1, CancelTimerCalm, CancelSame
  <2> QED BY <2>2, <2>3
<1> HIDE DEF d, e
<1>2. c \in Fore(w) => d \in Fore(w) /\ e \in Fore(w) BY <1>1, RoleKinds, ForeSame
<1>3. c \in Back => d \in Back /\ e \in Back BY <1>1, RoleKinds, BackSame DEF Same
<1> QED BY <1>2, <1>3 DEF d, e

\* The tone being received.
LEMMA ReadRoles ==
  ASSUME NEW w \in BOOLEAN, NEW c, NEW tone \in Tone
  PROVE  /\ c \in Fore(w) => [c EXCEPT !.mf_read_tone = tone] \in Fore(w)
         /\ c \in Back => [c EXCEPT !.mf_read_tone = tone] \in Back
         /\ c \in Rest => [c EXCEPT !.mf_read_tone = 0] \in Rest
         /\ c \in Ended => [c EXCEPT !.mf_read_tone = 0] \in Ended
<1> DEFINE d == [c EXCEPT !.mf_read_tone = tone]
           e == [c EXCEPT !.mf_read_tone = 0]
<1>1. ASSUME c \in Live PROVE d \in Live /\ Same(c, d)
  <2>1. c \in Chan BY <1>1, Kinds
  <2>2. d \in Live BY <1>1 DEF Live, Loose, Chan
  <2> QED BY <2>1, <2>2, OtherSame
<1>2. ASSUME c \in AtRest
      PROVE  e \in AtRest /\ e.r2_state = c.r2_state /\ e.wire = c.wire
             /\ e.fault = c.fault /\ e.ev = c.ev
  <2>1. c \in Chan BY <1>2, Kinds
  <2>2. e \in AtRest BY <1>2, AtRestMute
  <2> QED BY <2>1, <2>2 DEF Chan
<1> HIDE DEF d, e
<1>3. c \in Fore(w) => d \in Fore(w) BY <1>1, RoleKinds, ForeSame
<1>4. c \in Back => d \in Back BY <1>1, RoleKinds, BackSame DEF Same
<1>5. (c \in Rest => e \in Rest) /\ (c \in Ended => e \in Ended)
  BY <1>2, RoleKinds, RestSame
<1> QED BY <1>3, <1>4, <1>5 DEF d, e

\* The same two lemmas, and EmitRoles, for a received call.
LEMMA BackSteps ==
  ASSUME NEW c \in Back
  PROVE  /\ \A name \in TimerName \ Supervisors :
              name # "dtmf_start_dial" => add_timer(c, name) \in Back
                                          /\ cancel_timer(c, name) \in Back
         /\ \A tone \in Tone : [c EXCEPT !.mf_read_tone = tone] \in Back
         /\ \A cb \in Callback \ Reports, arg \in Arg : Emit(c, cb, arg) \in Back
<1>1. TRUE \in BOOLEAN OBVIOUS
<1>2. ASSUME NEW name \in TimerName \ Supervisors, name # "dtmf_start_dial"
      PROVE  add_timer(c, name) \in Back /\ cancel_timer(c, name) \in Back
  <2>1. \A w \in BOOLEAN : add_timer(c, name) \in Back /\ cancel_timer(c, name) \in Back
    BY <1>2, TimerRoles
  <2> QED BY <1>1, <2>1
<1>3. ASSUME NEW tone \in Tone PROVE [c EXCEPT !.mf_read_tone = tone] \in Back
  <2>1. \A w \in BOOLEAN : [c EXCEPT !.mf_read_tone = tone] \in Back BY ReadRoles
  <2> QED BY <1>1, <2>1
<1>4. ASSUME NEW cb \in Callback \ Reports, NEW arg \in Arg
      PROVE  Emit(c, cb, arg) \in Back
  <2>1. \A w \in BOOLEAN : Emit(c, cb, arg) \in Back BY EmitRoles
  <2> QED BY <1>1, <2>1
<1> QED BY <1>2, <1>3, <1>4

\* What follows a digit of the DNIS, or its end.
LEMMA AfterDnisBack ==
  ASSUME NEW c \in Back, NEW last, NEW asked
  PROVE  after_dnis_digit(c, last, asked) \in Back \cup Ended
BY RequestsBack DEF after_dnis_digit

\* mf_receive_expected_dnis.
LEMMA ReceiveDnisBack ==
  ASSUME NEW c \in Back, NEW tone \in Tone, NEW more
  PROVE  mf_receive_expected_dnis(c, tone, more) \in Back \cup Ended
<1>1. CASE tone \in Digit
  <2> DEFINE none == ""
             full == Len(c.dnis) = MaxDigits - 1
             d == [c EXCEPT !.dnis = Append(@, tone)]
             e == IF full THEN c ELSE d
             k == keep_dnis_digit(c, tone)
  <2>1. none \in Arg BY Zenon DEF Arg
  <2>2. k = Emit(e, "on_dnis_digit_received", none) BY Zenon DEF keep_dnis_digit
  <2> HIDE DEF none
  <2>3. "on_dnis_digit_received" \in Callback \ Reports BY DEF Callback, Reports
  <2>4. ~full => d \in Back
    <3>1. FALSE \in BOOLEAN OBVIOUS
    <3> QED BY <1>1, <3>1, DigitsBack
  <2> HIDE DEF d, full
  <2>5. e \in Back BY <2>4
  <2> HIDE DEF e, k
  <2>6. k \in Back BY <2>1, <2>2, <2>3, <2>5, BackSteps
  <2>7. mf_receive_expected_dnis(c, tone, more) = dnis_digit_received(k, more)
    BY <1>1 DEF mf_receive_expected_dnis, k
  <2> QED BY <2>6, <2>7, AfterDnisBack DEF dnis_digit_received
<1>2. CASE tone \notin Digit
  <2>1. handle_protocol_error(c, "INVALID_MF_TONE") \in Ended
    BY RolesOpen, ErrorEnds DEF ProtocolError
  <2> QED BY <1>2, <2>1, AfterDnisBack DEF mf_receive_expected_dnis
<1> QED BY <1>1, <1>2

\* mf_receive_expected_ani.
LEMMA ReceiveAniBack ==
  ASSUME NEW c \in Back, NEW tone \in Tone
  PROVE  mf_receive_expected_ani(c, tone) \in Back \cup Ended
<1>0. ASSUME NEW d \in Back PROVE done_getting_ani(d) \in Back \cup Ended
  BY RequestsBack DEF done_getting_ani
<1>1. CASE tone \in Digit
  <2> DEFINE none == ""
             d == [c EXCEPT !.ani = Append(@, tone)]
             k == Emit(d, "on_ani_digit_received", none)
  <2>1. none \in Arg BY Zenon DEF Arg
  <2>2. tone # 0 BY <1>1 DEF Digit
  <2>3. mf_receive_expected_ani(c, tone) = ani_digit_received(k)
    BY <1>1, <2>2, Zenon DEF mf_receive_expected_ani
  <2> HIDE DEF none
  <2>4. "on_ani_digit_received" \in Callback \ Reports BY DEF Callback, Reports
  <2>5. d \in Back
    <3>1. FALSE \in BOOLEAN OBVIOUS
    <3> QED BY <1>1, <3>1, DigitsBack
  <2> HIDE DEF d
  <2>6. k \in Back BY <2>1, <2>4, <2>5, BackSteps
  <2> HIDE DEF k
  <2> QED BY <1>0, <2>3, <2>6, RequestsBack DEF ani_digit_received
<1>2. CASE tone \notin Digit
  <2> DEFINE r == c.caller_ani_is_restricted \/ tone = Ctx.g1.caller_ani_is_restricted
             over == [c EXCEPT !.caller_ani_is_restricted = r]
  <2>1. over \in Back
    <3>1. r \in BOOLEAN OBVIOUS
    <3> HIDE DEF r
    <3> QED BY <3>1, DigitsBack
  <2>2. handle_protocol_error(c, "INVALID_MF_TONE") \in Ended
    BY RolesOpen, ErrorEnds DEF ProtocolError
  <2>3. \/ mf_receive_expected_ani(c, tone) = request_next_ani_digit(c)
        \/ mf_receive_expected_ani(c, tone) = done_getting_ani(over)
        \/ mf_receive_expected_ani(c, tone) = handle_protocol_error(c, "INVALID_MF_TONE")
    BY <1>2 DEF mf_receive_expected_ani
  <2> HIDE DEF over
  <2> QED BY <1>0, <2>1, <2>2, <2>3, RequestsBack
<1> QED BY <1>1, <1>2

\* The category, in group A or C.
LEMMA ReceiveCategoryBack ==
  ASSUME NEW c \in Back, NEW tone \in Tone
  PROVE  receive_category(c, tone) \in Back \cup Ended
<1> DEFINE d == [c EXCEPT !.caller_category = tone]
<1>1. d \in Back
  <2>1. FALSE \in BOOLEAN OBVIOUS
  <2> QED BY <2>1, DigitsBack
<1>2. receive_category(c, tone) = category_received(d) BY DEF receive_category
<1> HIDE DEF d
<1> QED BY <1>1, <1>2, RequestsBack DEF category_received

\* handle_forward_mf_tone, in every group and MF state.
LEMMA ForwardToneBack ==
  ASSUME NEW c0 \in Back, NEW tone \in Tone, NEW more
  PROVE  handle_forward_mf_tone(c0, tone, more) \in Back \cup Ended
<1> DEFINE c == cancel_timer(c0, "mf_back_cycle")
<1>1. c \in Back
  <2>1. "mf_back_cycle" \in TimerName \ Supervisors /\ "mf_back_cycle" # "dtmf_start_dial"
    BY DEF TimerName, Supervisors
  <2> QED BY <2>1, BackSteps
<1>2. handle_forward_mf_tone(c0, tone, more) = forward_mf_tone(c, tone, more)
  BY DEF handle_forward_mf_tone
<1> HIDE DEF c
<1>3. handle_protocol_error(c, "INVALID_MF_STATE") \in Ended
      /\ handle_protocol_error(c, "INVALID_MF_GROUP") \in Ended
  BY <1>1, RolesOpen, ErrorEnds DEF ProtocolError
<1>4. /\ mf_receive_expected_ani(c, tone) \in Back \cup Ended
      /\ mf_receive_expected_dnis(c, tone, more) \in Back \cup Ended
      /\ receive_category(c, tone) \in Back \cup Ended
      /\ OFFER_CALL(c) \in Back \cup Ended
  BY <1>1, ReceiveAniBack, ReceiveDnisBack, ReceiveCategoryBack, OfferRoles
<1>5. \/ forward_mf_tone(c, tone, more) = mf_receive_expected_ani(c, tone)
      \/ forward_mf_tone(c, tone, more) = mf_receive_expected_dnis(c, tone, more)
      \/ forward_mf_tone(c, tone, more) = receive_category(c, tone)
      \/ forward_mf_tone(c, tone, more) = OFFER_CALL(c)
      \/ forward_mf_tone(c, tone, more) = handle_protocol_error(c, "INVALID_MF_STATE")
      \/ forward_mf_tone(c, tone, more) = handle_protocol_error(c, "INVALID_MF_GROUP")
  BY DEF forward_mf_tone
<1> QED BY <1>2, <1>3, <1>4, <1>5

\* mf_accepted.
LEMMA AcceptedBack ==
  ASSUME NEW c \in Back
  PROVE  mf_accepted(c) \in Back
<1> DEFINE s == "ACCEPTED"
           o == turn_off_mf_engine(c)
           d == [o EXCEPT !.call_state = s]
<1>1. s \in BackCalls BY DEF BackCalls
<1>2. "r2_answer_delay" \in TimerName \ Supervisors /\ "r2_answer_delay" # "dtmf_start_dial"
  BY DEF TimerName, Supervisors
<1>3. mf_accepted(c) = add_timer(d, "r2_answer_delay") BY DEF mf_accepted
<1> HIDE DEF s
<1>4. o \in Back BY TurnOffNear, BackSame, BackFacts
<1> HIDE DEF o
<1>5. d \in Back
  <2>1. TRUE \in BOOLEAN OBVIOUS
  <2>2. \A w \in BOOLEAN : d \in Back BY <1>1, <1>4, CallRoles
  <2> QED BY <2>1, <2>2
<1> HIDE DEF d
<1> QED BY <1>2, <1>3, <1>5, BackSteps

\* openr2_chan_cancel_all_timers, on a received call.
LEMMA CancelAllBack ==
  ASSUME NEW c \in Back
  PROVE  cancel_all_timers(c) \in Back
<1> DEFINE d == cancel_all_timers(c)
<1>1. Received(c) /\ c \in Live /\ c \in Chan BY BackFacts
<1>2. d \in Live BY <1>1, CancelAllLive
<1>3. /\ d.direction = c.direction /\ d.fault = c.fault /\ d.ev = c.ev
      /\ d.sched = <<>> /\ d.r2_state = c.r2_state /\ d.call_state = c.call_state
      /\ d.mf_group = c.mf_group /\ d.wire = c.wire
  BY <1>1 DEF cancel_all_timers, Chan
<1> HIDE DEF d
<1>4. \A n : ~Pending(d.sched, n) BY <1>3 DEF Pending
<1>5. Single(d.sched, "r2_seize") BY <1>3 DEF Single
<1>6. Frame(c, d) BY <1>1, <1>3, <1>4, <1>5 DEF Frame, Quiet, Kept, Received
<1> QED BY <1>1, <1>2, <1>3, <1>6, BackMove DEF Received, d

\* handle_forward_mf_silence: muting may have failed the call.
LEMMA ForwardSilenceBack ==
  ASSUME NEW c0 \in Back
  PROVE  handle_forward_mf_silence(c0) \in Back \cup Ended
<1> DEFINE c == set_silence(c0)
<1>1. c \in Back \cup Failed
  <2>1. 0 \in Tone BY DEF Tone
  <2> QED BY <2>1, ToneBack
<1>2. handle_forward_mf_silence(c0) = forward_mf_silence(c) BY DEF handle_forward_mf_silence
<1> HIDE DEF c
<1>3. handle_protocol_error(c, "INVALID_MF_STATE") \in Ended
      /\ handle_protocol_error(c, "INVALID_MF_GROUP") \in Ended
  BY <1>1, RolesOpen, ErrorEnds DEF ProtocolError
<1>4. \/ c.mf_group \in {"GA", "GB"} /\ forward_mf_silence(c) = mf_accepted(c)
      \/ c.mf_group = "GB" /\ forward_mf_silence(c) = cancel_all_timers(c)
      \/ forward_mf_silence(c) = c
      \/ forward_mf_silence(c) = handle_protocol_error(c, "INVALID_MF_STATE")
      \/ forward_mf_silence(c) = handle_protocol_error(c, "INVALID_MF_GROUP")
  BY DEF forward_mf_silence
<1>5. c.mf_group \in {"GA", "GB"} => c \in Back BY <1>1, RoleKinds DEF AtRest
<1>6. c \in Back => mf_accepted(c) \in Back /\ cancel_all_timers(c) \in Back
  BY AcceptedBack, CancelAllBack
<1> QED BY <1>1, <1>2, <1>3, <1>4, <1>5, <1>6, RoleKinds

\* mf_back_cycle_timeout_expired.
LEMMA BackCycleBack ==
  ASSUME NEW c \in Back
  PROVE  mf_back_cycle_timeout_expired(c) \in Back \cup Ended
<1> DEFINE d == add_timer(c, "mf_back_resume_cycle")
           asked == Ctx.ani_can_come_first \/ Ctx.get_ani_first
<1>1. "mf_back_resume_cycle" \in TimerName \ Supervisors
      /\ "mf_back_resume_cycle" # "dtmf_start_dial"
  BY DEF TimerName, Supervisors
<1>2. d \in Back BY <1>1, BackSteps
<1>3. handle_protocol_error(c, "BACK_MF_TIMEOUT") \in Ended
  BY RolesOpen, ErrorEnds DEF ProtocolError
<1>4. \/ mf_back_cycle_timeout_expired(c) = after_dnis_digit(d, TRUE, asked)
      \/ mf_back_cycle_timeout_expired(c) = handle_protocol_error(c, "BACK_MF_TIMEOUT")
  BY DEF mf_back_cycle_timeout_expired
<1> HIDE DEF d, asked
<1> QED BY <1>2, <1>3, <1>4, AfterDnisBack

-----------------------------------------------------------------------------
(***************************************************************************)
(* The MF dialogue of a dialled call.                                      *)
(***************************************************************************)

\* A dialled call with a dialogue to go through: the seizure is acknowledged
\* and clear forward not yet sent.
Talk(w) == {c \in Fore(w) : ~Ctx.dial_with_dtmf /\ c.r2_state \notin Seizing \cup Clearing}

\* Another group, the same MF state.
Joins(c, g) == [c EXCEPT !.mf_group = g]

\* A dialled call with a dialogue goes through the groups and MF states of its
\* role.
LEMMA AskFore ==
  ASSUME NEW w \in BOOLEAN, NEW c \in Talk(w), NEW g \in ForeGroups,
         NEW m \in MfState \ {"OFF"}
  PROVE  Joins(c, g) \in Talk(w) /\ Says(c, m) \in Talk(w)
<1> DEFINE d == Joins(c, g)
           e == Says(c, m)
<1>1. Dialled(c) /\ c \in Live /\ c \in Chan /\ c \in Fore(w) BY ForeFacts DEF Talk
<1>2. g \in MfGroup BY DEF ForeGroups, MfGroup
<1>3. ~Ctx.dial_with_dtmf /\ c.r2_state \notin Seizing \cup Clearing BY DEF Talk
<1>4. d \in Live /\ e \in Live BY <1>1, <1>2, LiveGroup, LiveMf DEF Joins, Says
<1>5. /\ Frame(c, d) /\ d.r2_state = c.r2_state /\ d.call_state = c.call_state
      /\ d.mf_group = g /\ d.wire = c.wire
  <2>1. /\ d.direction = c.direction /\ d.fault = c.fault /\ d.ev = c.ev
        /\ d.sched = c.sched /\ d.r2_state = c.r2_state /\ d.call_state = c.call_state
        /\ d.mf_group = g /\ d.wire = c.wire
    BY <1>1 DEF Chan, Joins
  <2> HIDE DEF d
  <2> QED BY <2>1, FrameFields
<1>6. Near(c, e) /\ e.wire = c.wire BY <1>1, SetMf DEF Says
<1> HIDE DEF d, e
<1>7. GroupFits(d) /\ GroupFits(e) BY <1>3, <1>5, <1>6 DEF GroupFits, Near
<1>8. d \in Fore(w) BY <1>1, <1>4, <1>5, <1>7, ForeMove DEF Dialled
<1>9. e \in Fore(w) BY <1>1, <1>4, <1>6, <1>7, ForeMove DEF Dialled, Near
<1>10. d \in Talk(w) BY <1>3, <1>5, <1>8 DEF Talk
<1>11. e \in Talk(w) BY <1>3, <1>6, <1>9 DEF Talk, Near
<1> QED BY <1>10, <1>11 DEF d, e

\* The digits sent so far and the number that is being sent.
LEMMA PointFore ==
  ASSUME NEW w \in BOOLEAN, NEW c, NEW n \in Nat
  PROVE  /\ c \in Talk(w) => [c EXCEPT !.dnis_index = n] \in Talk(w)
         /\ c \in Fore(w) => [c EXCEPT !.ani_ptr = n] \in Fore(w)
         /\ c \in Ended => [c EXCEPT !.ani_ptr = n] \in Ended
<1> DEFINE d == [c EXCEPT !.dnis_index = n]
           e == [c EXCEPT !.ani_ptr = n]
<1>1. ASSUME c \in Live PROVE d \in Live /\ e \in Live /\ Same(c, d) /\ Same(c, e)
  <2>1. c \in Chan BY <1>1, Kinds
  <2>2. d \in Live /\ e \in Live BY <1>1, ZenonT(40) DEF Live, Loose, Chan
  <2> QED BY <2>1, <2>2, OtherSame
<1>2. ASSUME c \in AtRest
      PROVE  e \in AtRest /\ e.r2_state = c.r2_state /\ e.wire = c.wire
             /\ e.fault = c.fault /\ e.ev = c.ev
  <2>1. c \in Chan BY <1>2, Kinds
  <2>2. e \in AtRest BY <1>2, <2>1 DEF AtRest, Loose, Chan
  <2> QED BY <2>1, <2>2 DEF Chan
<1> HIDE DEF d, e
<1>3. ASSUME c \in Talk(w) PROVE d \in Talk(w)
  <2>1. c \in Fore(w) BY <1>3 DEF Talk
  <2>2. d \in Fore(w) /\ d.r2_state = c.r2_state
    BY <1>1, <2>1, RoleKinds, ForeSame DEF Same, Near
  <2> QED BY <1>3, <2>2 DEF Talk
<1>4. c \in Fore(w) => e \in Fore(w) BY <1>1, RoleKinds, ForeSame
<1>5. c \in Ended => e \in Ended BY <1>2, RoleKinds, RestSame
<1> QED BY <1>3, <1>4, <1>5 DEF d, e

\* Saying something with a tone, or with none.
LEMMA SayFore ==
  ASSUME NEW w \in BOOLEAN, NEW c \in Talk(w), NEW m \in MfState \ {"OFF"}, NEW tone \in Tone
  PROVE  /\ prepare_mf_tone(Says(c, m), tone) \in Fore(w) \cup Ended
         /\ wait_for_timeout(c) \in Fore(w)
<1>1. Says(c, m) \in Fore(w)
  <2>1. "GI" \in ForeGroups BY DEF ForeGroups
  <2> QED BY <2>1, AskFore DEF Talk
<1>2. prepare_mf_tone(Says(c, m), tone) \in Fore(w) \cup Ended
  BY <1>1, ToneRoles, RoleKinds
<1>3. Says(c, "WAITING_TIMEOUT") \in Fore(w)
  <2>1. "GI" \in ForeGroups /\ "WAITING_TIMEOUT" \in MfState \ {"OFF"}
    BY DEF ForeGroups, MfState
  <2> QED BY <2>1, AskFore DEF Talk
<1>4. "mf_fwd_safety" \in TimerName \ Supervisors /\ "mf_fwd_safety" # "dtmf_start_dial"
  BY DEF TimerName, Supervisors
<1>5. wait_for_timeout(c) = add_timer(Says(c, "WAITING_TIMEOUT"), "mf_fwd_safety")
  BY DEF wait_for_timeout, Says
<1> QED BY <1>2, <1>3, <1>4, <1>5, TimerRoles

\* mf_send_dnis, for every offset.
LEMMA SendDnisFore ==
  ASSUME NEW w \in BOOLEAN, NEW c0 \in Talk(w), NEW offset \in Int
  PROVE  mf_send_dnis(c0, offset) \in Fore(w) \cup Ended
<1> DEFINE back == IF c0.dnis_index + offset < 0 THEN 0 ELSE c0.dnis_index + offset
           d == [c0 EXCEPT !.dnis_index = back]
<1>1. ASSUME NEW c \in Talk(w)
      PROVE  send_dnis_at(c) \in Fore(w) \cup Ended
  <2>1. "DNIS_TXD" \in MfState \ {"OFF"} /\ "DNIS_END_TXD" \in MfState \ {"OFF"}
    BY DEF MfState
  <2>2. c \in Chan BY RoleKinds DEF Talk
  <2> DEFINE t == dnis_cell(c, c.dnis_index)
             u == Ctx.g1.no_more_dnis_available
  <2>3. t \in Tone
    <3>1. c \in Live /\ c.dnis_index \in Nat BY <2>2, RoleKinds DEF Chan, Talk
    <3> QED BY <3>1, CellType
  <2>4. \/ send_dnis_at(c) = prepare_mf_tone(Says(c, "DNIS_TXD"), t)
        \/ send_dnis_at(c) = prepare_mf_tone(Says(c, "DNIS_END_TXD"), u)
        \/ send_dnis_at(c) = wait_for_timeout(c)
    BY DEF send_dnis_at, Says
  <2>5. u \in Tone BY ForwardTones
  <2> HIDE DEF t, u
  <2> QED BY <2>1, <2>3, <2>4, <2>5, SayFore
<1>2. back \in Nat
  <2>1. c0 \in Chan BY RoleKinds DEF Talk
  <2>2. c0.dnis_index \in Nat BY <2>1 DEF Chan
  <2> QED BY <2>2
<1>3. mf_send_dnis(c0, offset) = send_dnis_at(d) BY DEF mf_send_dnis
<1> HIDE DEF back
<1>4. d \in Talk(w) BY <1>2, PointFore
<1> HIDE DEF d
<1> QED BY <1>1, <1>3, <1>4

\* mf_send_category.
LEMMA SendCategoryFore ==
  ASSUME NEW w \in BOOLEAN, NEW c \in Talk(w)
  PROVE  mf_send_category(c) \in Fore(w) \cup Ended
<1> DEFINE m == "CATEGORY_TXD"
           d == [c EXCEPT !.mf_state = m, !.category_sent = TRUE]
<1>1. Dialled(c) /\ c \in Live /\ c \in Chan /\ c \in Fore(w) BY ForeFacts DEF Talk
<1>2. m \in MfState \ {"OFF"} BY DEF MfState
<1>3. mf_send_category(c) = prepare_mf_tone(d, c.caller_category) BY DEF mf_send_category
<1> HIDE DEF m
<1>4. d \in Live BY <1>1, <1>2 DEF Live, Loose, Chan
<1>5. /\ d.direction = c.direction /\ d.fault = c.fault /\ d.ev = c.ev
      /\ d.sched = c.sched /\ d.r2_state = c.r2_state /\ d.call_state = c.call_state
      /\ d.mf_group = c.mf_group /\ d.wire = c.wire
  BY <1>1 DEF Chan
<1> HIDE DEF d
<1>6. Frame(c, d) BY <1>5, FrameFields
<1>7. GroupFits(d) BY <1>5 DEF Talk, GroupFits
<1>8. d \in Fore(w) BY <1>1, <1>4, <1>5, <1>6, <1>7, ForeMove DEF Dialled
<1>9. c.caller_category \in Tone BY <1>1 DEF Chan
<1> QED BY <1>3, <1>8, <1>9, ToneRoles, RoleKinds

\* mf_send_ani: ani_ptr is followed only while it points into the number.
LEMMA SendAniFore ==
  ASSUME NEW w \in BOOLEAN, NEW c \in Talk(w)
  PROVE  mf_send_ani(c) \in Fore(w) \cup Ended
<1> DEFINE restricted == Ctx.g1.caller_ani_is_restricted
           none_left == Ctx.g1.no_more_ani_available
           t == c.ani[c.ani_ptr]
           next == prepare_mf_tone(Says(c, "ANI_TXD"), t)
           on == next.ani_ptr + 1
           more == c.ani_ptr # 0 /\ c.ani_ptr <= Len(c.ani)
<1>1. c \in Chan BY RoleKinds DEF Talk
<1>2. more => t \in Tone
  <2>1. c.ani \in Seq(Digit) /\ c.ani_ptr \in Nat BY <1>1 DEF Chan
  <2>2. more => t \in Digit BY <2>1
  <2> QED BY <2>2 DEF Digit, Tone
<1>3. /\ "ANI_TXD" \in MfState \ {"OFF"} /\ "ANI_END_TXD" \in MfState \ {"OFF"}
      /\ "GI" \in ForeGroups
  BY DEF MfState, ForeGroups
<1>4. restricted \in Tone /\ none_left \in Tone BY ForwardTones
<1>5. \/ mf_send_ani(c) = mf_send_dnis(Joins(c, "GI"), 1)
      \/ mf_send_ani(c) = prepare_mf_tone(Says(c, "ANI_END_TXD"), restricted)
      \/ more /\ mf_send_ani(c) = [next EXCEPT !.ani_ptr = on]
      \/ mf_send_ani(c) = prepare_mf_tone(Says(c, "ANI_END_TXD"), none_left)
      \/ mf_send_ani(c) = wait_for_timeout(c)
  BY DEF mf_send_ani, send_end_of_ani, Says, Joins
<1> HIDE DEF t, restricted, none_left, more
<1>6. more => next \in Fore(w) \cup Ended BY <1>2, <1>3, SayFore
<1>7. next \in Fore(w) \cup Ended => on \in Nat
  <2> HIDE DEF next
  <2>1. next \in Fore(w) \cup Ended => next \in Chan BY RoleKinds
  <2> QED BY <2>1 DEF Chan
<1> HIDE DEF next, on
<1>8. more => [next EXCEPT !.ani_ptr = on] \in Fore(w) \cup Ended
  BY <1>6, <1>7, PointFore
<1>9. mf_send_dnis(Joins(c, "GI"), 1) \in Fore(w) \cup Ended
  <2>1. Joins(c, "GI") \in Talk(w) BY <1>3, AskFore
  <2> QED BY <2>1, SendDnisFore
<1>10. /\ prepare_mf_tone(Says(c, "ANI_END_TXD"), restricted) \in Fore(w) \cup Ended
       /\ prepare_mf_tone(Says(c, "ANI_END_TXD"), none_left) \in Fore(w) \cup Ended
       /\ wait_for_timeout(c) \in Fore(w) \cup Ended
  BY <1>3, <1>4, SayFore
<1> QED BY <1>5, <1>8, <1>9, <1>10

\* The far end answers, in whatever state of the conversation.
Answered(c) == [c EXCEPT !.r2_state = "ANSWER_RXD", !.call_state = "ANSWERED",
                         !.answered = TRUE]

\* The answer is reported of a dialled call that is not being cleared.
LEMMA AnsweredFore ==
  ASSUME NEW w \in BOOLEAN, NEW c \in Fore(w), c.r2_state \notin Seizing \cup Clearing
  PROVE  /\ Answered(c) \in Fore(w)
         /\ Emit(Answered(c), "on_call_answered", "") \in Fore(w)
<1> DEFINE s == "ANSWER_RXD"
           n == "ANSWERED"
           none == ""
           d == Answered(c)
<1>1. Dialled(c) /\ c \in Live /\ c \in Chan BY ForeFacts
<1>2. s \in R2State \ IdleStates /\ s \in Talking /\ s \notin Seizing \cup Clearing
      /\ n \in ForeCalls
  BY DEF R2State, IdleStates, Talking, ForeCalls, Seizing, Clearing
<1>3. d \in Live
  <2>1. "ANSWERED" \in CallState BY DEF CallState
  <2> QED BY <1>1, <1>2, <2>1 DEF Live, Loose, Chan, Answered
<1>4. /\ d.direction = c.direction /\ d.fault = c.fault /\ d.ev = c.ev
      /\ d.sched = c.sched /\ d.r2_state = s /\ d.call_state = n
      /\ d.mf_group = c.mf_group /\ d.mf_state = c.mf_state /\ d.wire = c.wire
  BY <1>1 DEF Chan, Answered
<1> HIDE DEF d, s, n
<1>5. Frame(c, d) BY <1>4, FrameFields
<1>6. GroupFits(d) BY <1>1, <1>2, <1>4 DEF Dialled, GroupFits
<1>7. d \in Fore(w) BY <1>1, <1>2, <1>3, <1>4, <1>5, <1>6, ForeMove DEF Dialled
<1>8. none \in Arg BY Zenon DEF Arg
<1>9. "on_call_answered" \in Callback \ Reports BY DEF Callback, Reports
<1> HIDE DEF none
<1>10. Emit(d, "on_call_answered", none) \in Fore(w) BY <1>7, <1>8, <1>9, EmitRoles
<1> QED BY <1>7, <1>10, Zenon DEF d, none

\* The answer of a call that survived on_call_accepted.
LEMMA AnsweredAfterFore ==
  ASSUME NEW w \in BOOLEAN, NEW c \in Fore(w), c.r2_state \notin Seizing \cup Clearing
  PROVE  answered_after_accept(c) \in Fore(w)
<1> DEFINE e == cancel_timer(c, "r2_answer")
           o == turn_off_mf_engine(e)
<1>1. "r2_answer" \in TimerName \ Supervisors /\ "r2_answer" # "dtmf_start_dial"
      /\ "r2_answer" \in TimerName
  BY DEF TimerName, Supervisors
<1>2. c \in Live /\ c \in Chan BY ForeFacts
<1>3. e \in Fore(w) /\ e.r2_state = c.r2_state
  BY <1>1, <1>2, TimerRoles, CancelSame DEF Same, Near
<1>4. answered_after_accept(c) = Emit(Answered(o), "on_call_answered", "")
  BY Zenon DEF answered_after_accept, Answered
<1> HIDE DEF e
<1>5. o \in Fore(w) /\ o.r2_state = e.r2_state
  <2>1. e \in Live BY <1>3, RoleKinds
  <2>2. o \in Live /\ Near(e, o) /\ o.wire = e.wire /\ o.mf_state = "OFF" BY <2>1, TurnOffNear
  <2> HIDE DEF o
  <2>3. Dialled(e) BY <1>3, ForeFacts
  <2>4. GroupFits(o) BY <2>2, <2>3 DEF Near, Dialled, GroupFits
  <2> QED BY <1>3, <2>2, <2>3, <2>4, ForeMove DEF Near, Dialled
<1> HIDE DEF o
<1>6. o \in Fore(w) /\ o.r2_state \notin Seizing \cup Clearing BY <1>3, <1>5
<1> QED BY <1>4, <1>6, AnsweredFore, Zenon
\* handle_accept_tone, with a user who may clear from within on_call_accepted.
LEMMA AcceptToneFore ==
  ASSUME NEW w \in BOOLEAN, NEW c \in Talk(w), NEW mode \in Mode
  PROVE  handle_accept_tone(c, mode) \in Fore(w) \cup Ended
<1> DEFINE s == "ACCEPT_RXD"
           d == [c EXCEPT !.r2_state = s]
           e == add_timer(d, "r2_answer")
           told == on_call_accepted(d, mode)
<1>1. s \in Talking /\ s \notin Seizing \cup Clearing
  BY DEF Talking, Seizing, Clearing
<1>2. c \in Fore(w) /\ c.r2_state \notin Seizing \cup Clearing /\ Dialled(c)
  BY ForeFacts DEF Talk
<1>3. "r2_answer" \in TimerName \ Supervisors /\ "r2_answer" # "dtmf_start_dial"
  BY DEF TimerName, Supervisors
<1>4. \/ handle_accept_tone(c, mode) = on_call_accepted(e, mode)
      \/ handle_accept_tone(c, mode) = told
      \/ /\ handle_accept_tone(c, mode) = answered_after_accept(told)
         /\ told.r2_state = s /\ told.call_state = c.call_state
  BY DEF handle_accept_tone, answer_was_pending
<1> HIDE DEF s
<1>5. d \in Fore(w) BY <1>1, <1>2, ForeState
<1> HIDE DEF d
<1>6. e \in Fore(w) BY <1>3, <1>5, TimerRoles
<1> HIDE DEF e
<1>7. told \in Fore(w) \cup Ended /\ on_call_accepted(e, mode) \in Fore(w) \cup Ended
  BY <1>5, <1>6, AcceptedRoles
<1> HIDE DEF told
<1>8. told.call_state = c.call_state => told \in Fore(w)
  <2>1. c.call_state # "IDLE" BY <1>2 DEF Dialled, ForeCalls
  <2>2. told \in Ended => told.call_state = "IDLE" BY DEF Ended, AtRest
  <2> QED BY <1>7, <2>1, <2>2
<1>9. told.r2_state = s /\ told.call_state = c.call_state
        => answered_after_accept(told) \in Fore(w)
  BY <1>1, <1>8, AnsweredAfterFore
<1> QED BY <1>4, <1>7, <1>9

\* A rejection by tone.
LEMMA ClearBackToneFore ==
  ASSUME NEW w \in BOOLEAN, NEW c \in Talk(w), NEW cause \in Cause
  PROVE  clear_back_tone(c, cause) \in Fore(w) \cup Ended
<1> DEFINE s == "CLEAR_BACK_TONE_RXD"
           d == [c EXCEPT !.r2_state = s]
<1>1. s \in Talking BY DEF Talking
<1>2. clear_back_tone(c, cause) = report_call_disconnection(d, cause)
  BY DEF clear_back_tone
<1> HIDE DEF s
<1>3. d \in Fore(w) BY <1>1, ForeState DEF Talk
<1> HIDE DEF d
<1> QED BY <1>2, <1>3, FarHangUp

\* A request of group A.
LEMMA GroupAFore ==
  ASSUME NEW w \in BOOLEAN, NEW c \in Talk(w), NEW tone
  PROVE  handle_group_a_request(c, tone) \in Fore(w) \cup Ended
<1>1. "GII" \in ForeGroups /\ "GIII" \in ForeGroups /\ "CATEGORY_TXD" \in MfState \ {"OFF"}
  BY DEF ForeGroups, MfState
<1>2. Joins(c, "GII") \in Talk(w) /\ Joins(c, "GIII") \in Talk(w) BY <1>1, AskFore
<1>3. "WITH_CHARGE" \in Mode /\ "NETWORK_CONGESTION" \in Cause
  BY DEF Mode, Cause
<1>4. handle_protocol_error(c, "INVALID_MF_TONE") \in Ended
  BY RolesOpen, ErrorEnds DEF ProtocolError, Talk
<1>5. handle_dnis_request(c, tone) \in Fore(w) \cup Ended
  <2>1. c \in Chan BY RoleKinds DEF Talk
  <2>2. c.dnis_index \in Nat BY <2>1 DEF Chan
  <2>3. -c.dnis_index \in Int /\ -1 \in Int /\ -2 \in Int /\ -3 \in Int /\ 1 \in Int
    BY <2>2
  <2>4. \A n \in Int : mf_send_dnis(c, n) \in Fore(w) \cup Ended BY SendDnisFore
  <2> QED BY <2>3, <2>4 DEF handle_dnis_request
<1>6. /\ mf_send_ani(c) \in Fore(w) \cup Ended
      /\ mf_send_category(c) \in Fore(w) \cup Ended
      /\ mf_send_category(Joins(c, "GII")) \in Fore(w) \cup Ended
      /\ mf_send_category(Joins(c, "GIII")) \in Fore(w) \cup Ended
      /\ handle_accept_tone(c, "WITH_CHARGE") \in Fore(w) \cup Ended
      /\ clear_back_tone(c, "NETWORK_CONGESTION") \in Fore(w) \cup Ended
  BY <1>2, <1>3, SendAniFore, SendCategoryFore, AcceptToneFore, ClearBackToneFore
<1>7. \/ handle_group_a_request(c, tone) = handle_dnis_request(c, tone)
      \/ handle_group_a_request(c, tone) = mf_send_ani(c)
      \/ handle_group_a_request(c, tone) = mf_send_category(c)
      \/ handle_group_a_request(c, tone) = mf_send_category(Joins(c, "GII"))
      \/ handle_group_a_request(c, tone) = mf_send_category(Joins(c, "GIII"))
      \/ handle_group_a_request(c, tone) = handle_accept_tone(c, "WITH_CHARGE")
      \/ handle_group_a_request(c, tone) = clear_back_tone(c, "NETWORK_CONGESTION")
      \/ handle_group_a_request(c, tone) = handle_protocol_error(c, "INVALID_MF_TONE")
  BY DEF handle_group_a_request, Joins
<1> QED BY <1>4, <1>5, <1>6, <1>7

\* A request of group C.
LEMMA GroupCFore ==
  ASSUME NEW w \in BOOLEAN, NEW c \in Talk(w), NEW tone
  PROVE  handle_group_c_request(c, tone) \in Fore(w) \cup Ended
<1>1. "GII" \in ForeGroups /\ "GI" \in ForeGroups /\ "CATEGORY_TXD" \in MfState \ {"OFF"}
  BY DEF ForeGroups, MfState
<1>2. Joins(c, "GII") \in Talk(w) /\ Joins(c, "GI") \in Talk(w) BY <1>1, AskFore
<1>3. "NETWORK_CONGESTION" \in Cause BY DEF Cause
<1>4. handle_protocol_error(c, "INVALID_MF_TONE") \in Ended
  BY RolesOpen, ErrorEnds DEF ProtocolError, Talk
<1>5. /\ mf_send_ani(c) \in Fore(w) \cup Ended
      /\ mf_send_category(Joins(c, "GII")) \in Fore(w) \cup Ended
      /\ mf_send_dnis(Joins(c, "GI"), 1) \in Fore(w) \cup Ended
      /\ clear_back_tone(c, "NETWORK_CONGESTION") \in Fore(w) \cup Ended
  BY <1>2, <1>3, SendAniFore, SendCategoryFore, SendDnisFore, ClearBackToneFore
<1>6. \/ handle_group_c_request(c, tone) = mf_send_ani(c)
      \/ handle_group_c_request(c, tone) = mf_send_category(Joins(c, "GII"))
      \/ handle_group_c_request(c, tone) = mf_send_dnis(Joins(c, "GI"), 1)
      \/ handle_group_c_request(c, tone) = clear_back_tone(c, "NETWORK_CONGESTION")
      \/ handle_group_c_request(c, tone) = handle_protocol_error(c, "INVALID_MF_TONE")
  BY DEF handle_group_c_request, Joins
<1> QED BY <1>4, <1>5, <1>6

\* A signal of group B.
LEMMA GroupBFore ==
  ASSUME NEW w \in BOOLEAN, NEW c \in Talk(w), NEW tone
  PROVE  handle_group_b_request(c, tone) \in Fore(w) \cup Ended
<1>1. get_mode_from_tone(tone) \in Mode BY DEF get_mode_from_tone, Mode
<1>2. group_b_cause(tone) \in Cause BY DEF group_b_cause, Cause
<1>3. handle_protocol_error(c, "INVALID_MF_TONE") \in Ended
  BY RolesOpen, ErrorEnds DEF ProtocolError, Talk
<1>4. /\ handle_accept_tone(c, get_mode_from_tone(tone)) \in Fore(w) \cup Ended
      /\ clear_back_tone(c, group_b_cause(tone)) \in Fore(w) \cup Ended
  BY <1>1, <1>2, AcceptToneFore, ClearBackToneFore
<1>5. \/ handle_group_b_request(c, tone) = handle_accept_tone(c, get_mode_from_tone(tone))
      \/ handle_group_b_request(c, tone) = clear_back_tone(c, group_b_cause(tone))
      \/ handle_group_b_request(c, tone) = handle_protocol_error(c, "INVALID_MF_TONE")
  BY DEF handle_group_b_request
<1> QED BY <1>3, <1>4, <1>5

\* handle_backward_mf_silence: while the MF engine is on, a call in group I, II
\* or III is one with a dialogue.
LEMMA BackwardSilenceFore ==
  ASSUME NEW w \in BOOLEAN, NEW c \in Fore(w), c.mf_state # "OFF", NEW tone
  PROVE  handle_backward_mf_silence(c, tone) \in Fore(w) \cup Ended
<1>1. Dialled(c) BY ForeFacts
<1>2. c.mf_group \in DialogueGroups => c \in Talk(w)
  BY <1>1 DEF Dialled, GroupFits, Talk
<1>3. handle_protocol_error(c, "INVALID_MF_GROUP") \in Ended
  BY RolesOpen, ErrorEnds DEF ProtocolError
<1>4. c \in Talk(w) => /\ handle_group_a_request(c, tone) \in Fore(w) \cup Ended
                       /\ handle_group_b_request(c, tone) \in Fore(w) \cup Ended
                       /\ handle_group_c_request(c, tone) \in Fore(w) \cup Ended
  BY GroupAFore, GroupBFore, GroupCFore
<1>5. \/ /\ c.mf_group \in DialogueGroups
         /\ \/ handle_backward_mf_silence(c, tone) = handle_group_a_request(c, tone)
            \/ handle_backward_mf_silence(c, tone) = handle_group_b_request(c, tone)
            \/ handle_backward_mf_silence(c, tone) = handle_group_c_request(c, tone)
      \/ handle_backward_mf_silence(c, tone) = handle_protocol_error(c, "INVALID_MF_GROUP")
  BY DEF handle_backward_mf_silence, DialogueGroups
<1> QED BY <1>2, <1>3, <1>4, <1>5

\* handle_backward_mf_tone.
LEMMA BackwardToneFore ==
  ASSUME NEW w \in BOOLEAN, NEW c \in Fore(w)
  PROVE  handle_backward_mf_tone(c) \in Fore(w) \cup Ended
<1> DEFINE d == cancel_timer(c, "mf_fwd_safety")
<1>1. "mf_fwd_safety" \in TimerName \ Supervisors /\ "mf_fwd_safety" # "dtmf_start_dial"
      /\ 0 \in Tone
  BY DEF TimerName, Supervisors, Tone
<1>2. d \in Fore(w) BY <1>1, TimerRoles
<1>3. handle_backward_mf_tone(c) = set_silence(d) BY DEF handle_backward_mf_tone
<1> HIDE DEF d
<1> QED BY <1>1, <1>2, <1>3, ToneRoles, RoleKinds

-----------------------------------------------------------------------------
(***************************************************************************)
(* What a handler leaves of a channel of each set.                         *)
(***************************************************************************)
\* No call, and nothing has been reported in this step.
Untold == {c \in Rest : ~Made(c.ev, Reports)}

\* A step from c to d of one role, or of none.
Leads(w, c, d) == /\ c \in Fore(w) => d \in Fore(w) \cup Ended
                  /\ c \in Back => d \in Back \cup Ended
                  /\ c \in Untold => d \in Fore(w) \cup Back \cup Rest

\* The sets in which a step starts.
Start(w) == Fore(w) \cup Back \cup Untold

\* What is no call has neither direction nor call state.
LEMMA NoCall ==
  ASSUME NEW w, NEW c
  PROVE  /\ c \in Fore(w) => c.direction = "FORWARD" /\ c.call_state # "IDLE"
         /\ c \in Back => c.direction = "BACKWARD" /\ c.call_state # "IDLE"
         /\ c \in Rest \cup Ended => c.direction = "STOPPED" /\ c.call_state = "IDLE"
<1>1. c \in Fore(w) => c.direction = "FORWARD" /\ c.call_state # "IDLE"
  BY ForeFacts DEF Dialled, ForeCalls
<1>2. c \in Back => c.direction = "BACKWARD" /\ c.call_state # "IDLE"
  BY BackFacts DEF Received, BackCalls
<1> QED BY <1>1, <1>2 DEF Rest, Ended, AtRest

\* A library error on a channel at rest.
LEMMA RestError ==
  ASSUME NEW c \in Rest, NEW reason \in ProtocolError
  PROVE  handle_protocol_error(c, reason) \in Rest
BY ErrorRest, RoleKinds DEF Rest, Resting

\* A tone starts.
LEMMA ToneOnRoles ==
  ASSUME NEW w \in BOOLEAN, NEW c0, NEW tone \in Tone, NEW more
  PROVE  /\ c0 \in Fore(w) => mf_tone_on(c0, tone, more) \in Fore(w) \cup Ended
         /\ c0 \in Back => mf_tone_on(c0, tone, more) \in Back \cup Ended
         /\ c0 \in Rest => mf_tone_on(c0, tone, more) \in Rest
<1> DEFINE c == [c0 EXCEPT !.mf_read_tone = tone]
           broken == handle_protocol_error(c0, "BROKEN_MF_SEQUENCE")
           bug == handle_protocol_error(c, "LIBRARY_BUG")
<1>1. "BROKEN_MF_SEQUENCE" \in ProtocolError /\ "LIBRARY_BUG" \in ProtocolError
  BY DEF ProtocolError
<1>2. c0 \in Fore(w) \cup Back => broken \in Ended BY <1>1, RolesOpen, ErrorEnds
<1>3. c0 \in Rest => broken \in Rest BY <1>1, RestError
<1>4. (c0 \in Fore(w) => c \in Fore(w)) /\ (c0 \in Back => c \in Back) BY ReadRoles
<1>5. c0 \in Rest => bug \in Rest /\ c.direction = "STOPPED"
  <2> SUFFICES ASSUME c0 \in Rest PROVE bug \in Rest /\ c.direction = "STOPPED" OBVIOUS
  <2>1. c0 \in Loose /\ c0 \in Chan BY RoleKinds
  <2>2. c \in Loose /\ c.fault = c0.fault /\ c.ev = c0.ev /\ c.direction = c0.direction
    BY <2>1 DEF Loose, Chan
  <2> HIDE DEF c
  <2>3. bug \in Rest BY <1>1, <2>2, ErrorRest DEF Rest, Resting
  <2>4. c0.direction = "STOPPED" BY NoCall
  <2> QED BY <2>2, <2>3, <2>4
<1>6. \/ mf_tone_on(c0, tone, more) = broken
      \/ c.direction = "BACKWARD"
         /\ mf_tone_on(c0, tone, more) = handle_forward_mf_tone(c, tone, more)
      \/ c.direction = "FORWARD"
         /\ mf_tone_on(c0, tone, more) = handle_backward_mf_tone(c)
      \/ c.direction \notin {"FORWARD", "BACKWARD"} /\ mf_tone_on(c0, tone, more) = bug
  BY DEF mf_tone_on
<1> HIDE DEF c, broken, bug
<1>7. c \in Back => handle_forward_mf_tone(c, tone, more) \in Back \cup Ended
  BY ForwardToneBack
<1>8. c \in Fore(w) => handle_backward_mf_tone(c) \in Fore(w) \cup Ended
  BY BackwardToneFore
<1>9. (c \in Fore(w) => c.direction = "FORWARD") /\ (c \in Back => c.direction = "BACKWARD")
  BY NoCall
<1>10. CASE c0 \in Fore(w) BY <1>2, <1>3, <1>4, <1>6, <1>8, <1>9, <1>10, NoCall
<1>11. CASE c0 \in Back
  <2>1. mf_tone_on(c0, tone, more) \in Back \cup Ended
    BY <1>2, <1>4, <1>6, <1>7, <1>9, <1>11
  <2>2. c0 \notin Fore(w) /\ c0 \notin Rest BY <1>11, NoCall
  <2> QED BY <2>1, <2>2
<1>12. CASE c0 \in Rest
  <2>1. mf_tone_on(c0, tone, more) \in Rest BY <1>3, <1>5, <1>6, <1>12
  <2>2. c0 \notin Fore(w) /\ c0 \notin Back BY <1>12, NoCall
  <2> QED BY <2>1, <2>2
<1> QED
  <2>1. (c0 \in Fore(w) => c0 \notin Back \cup Rest) /\ (c0 \in Back => c0 \notin Rest)
    BY NoCall
  <2> QED BY <1>10, <1>11, <1>12, <2>1

\* A tone stops during a call.
LEMMA ToneOffRoles ==
  ASSUME NEW w \in BOOLEAN, NEW c, c.mf_state # "OFF"
  PROVE  /\ c \in Fore(w) => mf_tone_off(c) \in Fore(w) \cup Ended
         /\ c \in Back => mf_tone_off(c) \in Back \cup Ended
<1> DEFINE done == CASE c.direction = "BACKWARD" -> handle_forward_mf_silence(c)
                     [] c.direction = "FORWARD"  ->
                          handle_backward_mf_silence(c, c.mf_read_tone)
                     [] OTHER -> handle_protocol_error(c, "LIBRARY_BUG")
           d == [done EXCEPT !.mf_read_tone = 0]
<1>1. mf_tone_off(c) = d BY DEF mf_tone_off
<1>2. c.direction = "BACKWARD" => done = handle_forward_mf_silence(c) OBVIOUS
<1>3. c.direction = "FORWARD" => done = handle_backward_mf_silence(c, c.mf_read_tone) OBVIOUS
<1> HIDE DEF done
<1>4. c \in Fore(w) => done \in Fore(w) \cup Ended
  BY <1>3, NoCall, BackwardSilenceFore
<1>5. c \in Back => done \in Back \cup Ended
  BY <1>2, NoCall, ForwardSilenceBack
<1>6. 0 \in Tone BY DEF Tone
<1>7. /\ done \in Fore(w) => d \in Fore(w)
      /\ done \in Back => d \in Back
      /\ done \in Ended => d \in Ended
  BY <1>6, ReadRoles
<1> HIDE DEF d
<1> QED BY <1>1, <1>4, <1>5, <1>7

\* handle_mf_tone: at rest no tone is being received, so none can stop.
LEMMA ToneLeads ==
  ASSUME NEW w \in BOOLEAN, NEW c \in Start(w), NEW tone \in Tone, NEW more,
         c.mf_state # "OFF"
  PROVE  Leads(w, c, handle_mf_tone(c, tone, more))
<1> DEFINE d == handle_mf_tone(c, tone, more)
<1>1. \/ d = c
      \/ d = mf_tone_on(c, tone, more)
      \/ d = mf_tone_off(c) /\ c.mf_read_tone # 0
  BY DEF handle_mf_tone
<1> HIDE DEF d
<1>2. c \in Rest => c.mf_read_tone = 0 BY DEF Rest, AtRest
<1>3. c \in Fore(w) => d \in Fore(w) \cup Ended BY <1>1, ToneOnRoles, ToneOffRoles
<1>4. c \in Back => d \in Back \cup Ended BY <1>1, ToneOnRoles, ToneOffRoles
<1>5. c \in Rest => d \in Rest BY <1>1, <1>2, ToneOnRoles
<1> QED BY <1>3, <1>4, <1>5 DEF Leads, Untold, d

-----------------------------------------------------------------------------
(***************************************************************************)
(* The CAS machine: a received call.                                       *)
(***************************************************************************)
\* openr2_chan_ack_seize, done by the library: with writes that succeed the
\* line then carries what the state says.
LEMMA AckBack ==
  ASSUME NEW c \in Live, c.fault \subseteq Faults, ~Made(c.ev, Reports),
         c.direction = "BACKWARD", c.r2_state = "SEIZE_ACK_TXD",
         c.call_state \in BackCalls, c.mf_group \in BackGroups,
         \A n \in Supervisors : ~Pending(c.sched, n)
  PROVE  ack_call(c) \in Back \cup Rest
<1> DEFINE d == set_cas_signal(c, "SEIZE_ACK")
           error == handle_protocol_error(d, "INTERNAL_ERROR")
<1>1. "SEIZE_ACK" \in CasSignal /\ "INTERNAL_ERROR" \in ProtocolError
      /\ "SEIZE_ACK_TXD" \in BackwardStates
  BY DEF CasSignal, ProtocolError, BackwardStates
<1>2. c \in Chan BY Kinds
<1>3. /\ d \in Live /\ Near(c, d) /\ d.sched = c.sched /\ d.ev = c.ev
      /\ LineOk => d.wire = CAS.SEIZE_ACK
  BY <1>1, <1>2, SetCas, SetCasNear
<1>4. ack_call(c) = error \/ ack_call(c) = d BY DEF ack_call
<1> HIDE DEF d
<1>5. d.fault \subseteq Faults /\ d.direction = "BACKWARD" /\ d.r2_state = "SEIZE_ACK_TXD"
      /\ d.call_state \in BackCalls /\ d.mf_group \in BackGroups
  BY <1>3 DEF Near, Frame
<1>6. Received(d) BY <1>1, <1>3, <1>5, BackBits DEF Received
<1>7. d \in Back BY <1>3, <1>6 DEF Back
<1>8. ~Made(d.ev, {"on_call_end"}) BY <1>3 DEF Made, Reports
<1>9. error \in Rest BY <1>1, <1>3, <1>5, <1>8, ErrorRest, Kinds
<1> QED BY <1>4, <1>7, <1>9

\* A seizure on an idle line starts a call, or is refused.
LEMMA IncomingRoles ==
  ASSUME NEW c \in Untold, ~c.inalarm
  PROVE  handle_incoming_call(c) \in Back \cup Rest
<1> DEFINE none == ""
           mfc == [c EXCEPT !.mf_state = "SEIZE_ACK_TXD", !.mf_group = "BACK_INIT"]
           dtmf == [c EXCEPT !.mf_state = "DETECTING_DTMF",
                             !.mf_group = "DTMF_BACK_INIT", !.detecting_dtmf = TRUE]
           pick == IF Ctx.detect_dtmf THEN dtmf ELSE mfc
           begun == [pick EXCEPT !.r2_state = "SEIZE_ACK_TXD",
                                 !.call_state = "COLLECTING", !.direction = "BACKWARD"]
           call == Emit(begun, "on_call_init", none)
           error == handle_protocol_error(c, "INTERNAL_ERROR")
<1>1. /\ "SEIZE_ACK_TXD" \in MfState \ {"OFF"} /\ "DETECTING_DTMF" \in MfState \ {"OFF"}
      /\ "BACK_INIT" \in MfGroup /\ "DTMF_BACK_INIT" \in MfGroup
      /\ "BACK_INIT" \in BackGroups /\ "DTMF_BACK_INIT" \in BackGroups
  BY DEF MfState, MfGroup, BackGroups
<1>2. /\ "SEIZE_ACK_TXD" \in R2State \ IdleStates /\ "COLLECTING" \in CallState \ {"IDLE"}
      /\ "BACKWARD" \in Direction /\ "SEIZE_ACK_TXD" \in BackwardStates
      /\ "COLLECTING" \in BackCalls
  BY DEF R2State, IdleStates, CallState, Direction, BackwardStates, BackCalls
<1>3. c \in Rest /\ c \in AtRest /\ c \in Chan /\ ~Made(c.ev, Reports)
      /\ c.fault \subseteq Faults
  BY RoleKinds DEF Untold, Rest, Resting
<1>4. /\ mfc \in Chan /\ mfc.mf_state # "OFF" /\ ~mfc.inalarm
      /\ mfc.mf_group \in BackGroups /\ mfc.fault = c.fault /\ mfc.ev = c.ev
      /\ mfc.sched = c.sched
  BY <1>1, <1>3 DEF Chan
<1>5. Ctx.detect_dtmf =>
        /\ dtmf \in Chan /\ dtmf.mf_state # "OFF" /\ ~dtmf.inalarm
        /\ dtmf.mf_group \in BackGroups /\ dtmf.fault = c.fault /\ dtmf.ev = c.ev
        /\ dtmf.sched = c.sched
  BY <1>1, <1>3 DEF Chan
<1>11. \/ handle_incoming_call(c) = error
       \/ handle_incoming_call(c) = ack_call(call) /\ Ctx.auto_seize_ack
       \/ handle_incoming_call(c) = call /\ ~Ctx.auto_seize_ack
  BY Zenon DEF handle_incoming_call
<1> HIDE DEF mfc, dtmf
<1>6. /\ pick \in Chan /\ pick.mf_state # "OFF" /\ ~pick.inalarm
      /\ pick.mf_group \in BackGroups /\ pick.fault = c.fault /\ pick.ev = c.ev
      /\ pick.sched = c.sched
  BY <1>4, <1>5
<1> HIDE DEF pick
<1>7. begun \in Chan BY <1>2, <1>6 DEF Chan
<1>8. begun \in Live BY <1>2, <1>6, <1>7 DEF Live, Loose, Chan
<1>9. /\ begun.fault = c.fault /\ begun.ev = c.ev /\ begun.sched = c.sched
      /\ begun.direction = "BACKWARD" /\ begun.r2_state = "SEIZE_ACK_TXD"
      /\ begun.call_state = "COLLECTING" /\ begun.mf_group \in BackGroups
  BY <1>6 DEF Chan
<1> HIDE DEF begun
<1>10. "on_call_init" \in Callback \ Reports /\ none \in Arg
  <2>1. none \in Arg BY Zenon DEF Arg
  <2> HIDE DEF none
  <2> QED BY <2>1 DEF Callback, Reports
<1> HIDE DEF none
<1>12. call \in Live /\ Same(begun, call) /\ call.sched = begun.sched
  BY <1>7, <1>8, <1>10, EmitType, EmitSame
<1> HIDE DEF call
<1>13. /\ call.fault \subseteq Faults /\ ~Made(call.ev, Reports)
       /\ call.direction = "BACKWARD" /\ call.r2_state = "SEIZE_ACK_TXD"
       /\ call.call_state \in BackCalls /\ call.mf_group \in BackGroups
       /\ call.sched = c.sched
  BY <1>2, <1>3, <1>9, <1>12 DEF Same, Near, Frame, Quiet
<1>14. \A n \in Supervisors : ~Pending(call.sched, n)
  <2>1. OnlyPersistence(call.sched) BY <1>3, <1>13 DEF AtRest
  <2> QED BY <2>1 DEF OnlyPersistence, Pending, Supervisors
<1>15. ack_call(call) \in Back \cup Rest BY <1>12, <1>13, <1>14, AckBack
<1>16. ~Ctx.auto_seize_ack => call \in Back
  BY <1>2, <1>12, <1>13, <1>14 DEF Back, Received, LineOk
<1>17. error \in Rest BY <1>3, RestError DEF ProtocolError
<1> QED BY <1>11, <1>15, <1>16, <1>17

\* A channel that has no call reads a pattern.
LEMMA CasRest ==
  ASSUME NEW c \in Untold, ~c.inalarm, NEW cas
  PROVE  /\ cas_in_idle(c, cas) \in Back \cup Rest
         /\ cas_in_init(c, cas) \in Rest /\ cas_in_blocked(c, cas) \in Rest
<1> DEFINE none == ""
           blocked == Emit(c, "on_line_blocked", none)
           idle == Emit(c, "on_line_idle", none)
<1>1. none \in Arg BY Zenon DEF Arg
<1>2. c \in Rest BY DEF Untold
<1>3. cas_in_idle(c, cas) =
        CASE cas = CAS.BLOCK -> blocked
          [] cas = CAS.IDLE  -> idle
          [] cas = CAS.SEIZE -> handle_incoming_call(c)
          [] OTHER           -> handle_protocol_error(c, "INVALID_CAS_BITS")
  BY Zenon DEF cas_in_idle, invalid_bits
<1>4. cas_in_init(c, cas) =
        CASE cas = CAS.IDLE  -> idle
          [] cas = CAS.BLOCK -> blocked
          [] OTHER -> handle_protocol_error(c, "INVALID_R2_STATE")
  BY Zenon DEF cas_in_init
<1>5. cas_in_blocked(c, cas) = idle \/ cas_in_blocked(c, cas) = c
  BY Zenon DEF cas_in_blocked
<1> HIDE DEF none
<1>6. "on_line_blocked" \in Callback \ Reports /\ "on_line_idle" \in Callback \ Reports
  BY DEF Callback, Reports
<1>7. blocked \in Rest /\ idle \in Rest
  <2>1. TRUE \in BOOLEAN OBVIOUS
  <2>2. \A w \in BOOLEAN : blocked \in Rest /\ idle \in Rest
    BY <1>1, <1>2, <1>6, EmitRoles
  <2> QED BY <2>1, <2>2
<1>8. "INVALID_CAS_BITS" \in ProtocolError /\ "INVALID_R2_STATE" \in ProtocolError
  BY DEF ProtocolError
<1> HIDE DEF blocked, idle
<1> QED BY <1>2, <1>3, <1>4, <1>5, <1>7, <1>8, RestError, IncomingRoles

\* An unexpected pattern ends a call.
LEMMA InvalidEnds ==
  ASSUME NEW c, Open(c)
  PROVE  invalid_bits(c) \in Ended
BY ErrorEnds DEF invalid_bits, ProtocolError

\* A received call reads a pattern.
LEMMA CasBack ==
  ASSUME NEW c \in Back, NEW cas
  PROVE  /\ cas_in_received_call(c, cas) \in Back \cup Ended
         /\ cas_in_cleared_backward(c, cas) \in Ended
<1> DEFINE s == "CLEAR_FWD_RXD"
           d == [c EXCEPT !.r2_state = s]
<1>1. Received(c) /\ c \in Live /\ c \in Chan /\ Open(c) BY BackFacts, RolesOpen
<1>2. s \in R2State \ IdleStates BY DEF R2State, IdleStates
<1>3. "NORMAL_CLEARING" \in Cause BY DEF Cause
<1>4. \/ cas_in_received_call(c, cas) = report_call_disconnection(d, "NORMAL_CLEARING")
      \/ cas_in_received_call(c, cas) = invalid_bits(c)
  BY DEF cas_in_received_call
<1>5. c.wire \in OnWire(s) BY <1>1, RestBits DEF Chan
<1>6. d \in Live /\ Frame(c, d) /\ d.r2_state = s /\ d.call_state = c.call_state
      /\ d.mf_group = c.mf_group /\ d.wire = c.wire
  BY <1>1, <1>2, LiveR2, SetState
<1> HIDE DEF d
<1>7. d \in Back BY <1>1, <1>5, <1>6, BackMove DEF Received
<1>8. report_call_disconnection(d, "NORMAL_CLEARING") \in Back \cup Ended
  <2>1. TRUE \in BOOLEAN OBVIOUS
  <2>2. \A w \in BOOLEAN : report_call_disconnection(d, "NORMAL_CLEARING") \in Back \cup Ended
    BY <1>3, <1>7, FarHangUp
  <2> QED BY <2>1, <2>2
<1>9. cas_in_cleared_backward(c, cas) \in Ended
  BY <1>1, InvalidEnds, CallEndEnds DEF cas_in_cleared_backward
<1> QED BY <1>1, <1>4, <1>8, <1>9, InvalidEnds

-----------------------------------------------------------------------------
(***************************************************************************)
(* The CAS machine: a dialled call.                                        *)
(***************************************************************************)
\* The first digit goes out, or the DTMF dialling timer starts.
LEMMA StartDiallingFore ==
  ASSUME NEW w \in BOOLEAN, NEW c \in Fore(w), c.r2_state = "SEIZE_ACK_RXD"
  PROVE  start_dialling(c) \in Fore(w) \cup Ended
<1>1. CASE ~Ctx.dial_with_dtmf
  <2>1. c \in Talk(w) BY <1>1 DEF Talk, Seizing, Clearing
  <2>2. "GI" \in ForeGroups /\ "DNIS_TXD" \in MfState \ {"OFF"} BY DEF ForeGroups, MfState
  <2>3. Joins(c, "GI") \in Talk(w) BY <2>1, <2>2, AskFore
  <2>4. start_dialling(c) = mf_send_dnis(Joins(c, "GI"), 0)
    BY <1>1 DEF start_dialling, Joins
  <2> QED BY <2>3, <2>4, SendDnisFore
<1>2. CASE Ctx.dial_with_dtmf
  <2> DEFINE d == add_timer(c, "dtmf_start_dial")
  <2>1. /\ "dtmf_start_dial" \in TimerName \ Supervisors
        /\ "r2_answer" \in TimerName \ Supervisors
    BY DEF TimerName, Supervisors
  <2>2. start_dialling(c) = add_timer(d, "r2_answer") BY <1>2 DEF start_dialling
  <2>3. d \in Fore(w) BY <1>2, <2>1, TimerRoles
  <2> HIDE DEF d
  <2> QED BY <1>2, <2>1, <2>2, <2>3, TimerRoles
<1> QED BY <1>1, <1>2

\* The answer to a seizure stops the timer of the seizure.
LEMMA SeizureAnswered ==
  ASSUME NEW w \in BOOLEAN, NEW c \in Fore(w), c.r2_state \in Seizing,
         NEW s \in {"SEIZE_ACK_RXD", "DOUBLE_SEIZURE"}
  PROVE  LET d == cancel_timer(c, "r2_seize")
         IN  /\ d \in Unwatched(w) /\ d.r2_state = c.r2_state
             /\ [d EXCEPT !.r2_state = s] \in Fore(w)
<1> DEFINE d == cancel_timer(c, "r2_seize")
           e == [d EXCEPT !.r2_state = s]
<1>1. "r2_seize" \in TimerName BY DEF TimerName
<1>2. Dialled(c) /\ c \in Live BY ForeFacts
<1>3. /\ d \in Live /\ d.ev = c.ev /\ d.wire = c.wire /\ d.fault = c.fault
      /\ d.direction = c.direction /\ d.r2_state = c.r2_state
      /\ d.call_state = c.call_state /\ d.mf_group = c.mf_group
      /\ d.mf_state = c.mf_state
      /\ \A n : Pending(d.sched, n) => Pending(c.sched, n)
      /\ Single(c.sched, "r2_seize")
           => Single(d.sched, "r2_seize") /\ ~Pending(d.sched, "r2_seize")
  BY <1>1, <1>2, CancelOnly
<1> HIDE DEF d
<1>4. /\ s \in R2State \ IdleStates /\ s \in Talking /\ s \notin Seizing \cup Clearing
      /\ c.r2_state \notin Clearing /\ s # "DOUBLE_SEIZURE_CLEAR_FWD_PENDING"
  BY DEF R2State, IdleStates, Talking, Seizing, Clearing
<1>5. d \in Chan BY <1>3, Kinds
<1>6. /\ e.direction = d.direction /\ e.fault = d.fault /\ e.ev = d.ev
      /\ e.sched = d.sched /\ e.r2_state = s /\ e.call_state = d.call_state
      /\ e.mf_group = d.mf_group /\ e.mf_state = d.mf_state /\ e.wire = d.wire
  BY <1>5 DEF Chan
<1>7. e \in Live BY <1>3, <1>4, LiveR2
<1> HIDE DEF e
<1>8. Dialled(d) BY <1>2, <1>3 DEF Dialled, GroupFits
<1>9. Dialled(e) BY <1>2, <1>3, <1>4, <1>6 DEF Dialled, GroupFits, WireOf
<1>10. ASSUME w, ~Made(c.ev, Overflow)
       PROVE  Single(d.sched, "r2_seize") /\ Watched(s, e.sched)
  <2>1. Watched(c.r2_state, c.sched) BY <1>10 DEF Fore
  <2> QED BY <1>3, <1>4, <1>6, <2>1 DEF Watched
<1>11. d \in Unwatched(w) BY <1>3, <1>8, <1>10 DEF Unwatched
<1>12. e \in Fore(w) BY <1>3, <1>6, <1>7, <1>9, <1>10 DEF Fore
<1> QED BY <1>3, <1>11, <1>12 DEF d, e

\* A pattern read while waiting for the acknowledgement of a seizure.
LEMMA SeizeTxdFore ==
  ASSUME NEW w \in BOOLEAN, NEW c \in Fore(w), c.r2_state \in Seizing, NEW cas
  PROVE  cas_in_seize_txd(c, cas) \in Fore(w) \cup Ended
<1> DEFINE none == ""
           d == cancel_timer(c, "r2_seize")
           a == [d EXCEPT !.r2_state = "SEIZE_ACK_RXD"]
           g == [d EXCEPT !.r2_state = "DOUBLE_SEIZURE"]
           dialling == start_dialling(a)
           proceed == Emit(dialling, "on_call_proceed", none)
           told == report_call_disconnection(g, "GLARE")
<1>1. seize_acked(d) = IF d.r2_state = "SEIZE_TXD_CLEAR_FWD_PENDING"
                       THEN send_clear_forward(d) ELSE proceed
  BY Zenon DEF seize_acked
<1>2. \/ cas_in_seize_txd(c, cas) = seize_acked(d) \/ cas_in_seize_txd(c, cas) = told
      \/ cas_in_seize_txd(c, cas) = invalid_bits(c)
  BY DEF cas_in_seize_txd, glare
<1>3. none \in Arg BY Zenon DEF Arg
<1>4. d \in Unwatched(w) /\ a \in Fore(w) /\ g \in Fore(w) BY SeizureAnswered
<1>5. d \in Chan BY <1>4, RoleKinds
<1>6. a.r2_state = "SEIZE_ACK_RXD" BY <1>5 DEF Chan
<1> HIDE DEF none, d, a, g
<1>7. dialling \in Fore(w) \cup Ended BY <1>4, <1>6, StartDiallingFore
<1> HIDE DEF dialling
<1>8. "on_call_proceed" \in Callback \ Reports /\ "GLARE" \in Cause
  BY DEF Callback, Reports, Cause
<1>9. proceed \in Fore(w) \cup Ended BY <1>3, <1>7, <1>8, EmitRoles
<1>10. told \in Fore(w) \cup Ended BY <1>4, <1>8, FarHangUp
<1>11. send_clear_forward(d) \in Fore(w) BY <1>4, ClearForwardFore
<1>12. invalid_bits(c) \in Ended BY RolesOpen, InvalidEnds
<1> QED BY <1>1, <1>2, <1>9, <1>10, <1>11, <1>12

\* A pattern read after glare, and one that ends the call or is unexpected.
LEMMA DoubleSeizureFore ==
  ASSUME NEW w \in BOOLEAN, NEW c \in Fore(w), NEW cas
  PROVE  /\ c.r2_state \in {"DOUBLE_SEIZURE", "DOUBLE_SEIZURE_CLEAR_FWD_PENDING"}
              => cas_in_double_seizure(c, cas) \in Fore(w) \cup Ended
         /\ cas_waiting_idle(c, cas) \in Ended
<1>1. invalid_bits(c) \in Ended /\ report_call_end(c) \in Ended
  BY RolesOpen, InvalidEnds, CallEndEnds
<1>2. "CLEAR_FWD_RXD" \in Talking BY DEF Talking
<1>3. c.r2_state = "DOUBLE_SEIZURE" => [c EXCEPT !.r2_state = "CLEAR_FWD_RXD"] \in Fore(w)
  <2> SUFFICES ASSUME c.r2_state = "DOUBLE_SEIZURE"
               PROVE  [c EXCEPT !.r2_state = "CLEAR_FWD_RXD"] \in Fore(w)
    OBVIOUS
  <2>1. c.r2_state \notin Seizing \cup Clearing BY DEF Seizing, Clearing
  <2> QED BY <1>2, <2>1, ForeState
<1> QED BY <1>1, <1>3 DEF cas_in_double_seizure, cas_waiting_idle

\* The called end clears.
LEMMA ClearedFore ==
  ASSUME NEW w \in BOOLEAN, NEW c \in Fore(w), c.r2_state \notin Seizing \cup Clearing, NEW cas
  PROVE  /\ [c EXCEPT !.r2_state = disconnection_state(cas)] \in Fore(w)
         /\ cleared_by_far_end(c, cas) \in Fore(w) \cup Ended
<1> DEFINE d == [c EXCEPT !.r2_state = disconnection_state(cas)]
<1>1. disconnection_state(cas) \in Talking BY DEF Talking, disconnection_state
<1>2. disconnection_cause(cas) \in Cause BY DEF Cause, disconnection_cause
<1>3. d \in Fore(w) BY <1>1, ForeState
<1>4. cleared_by_far_end(c, cas) = report_call_disconnection(d, disconnection_cause(cas))
  BY DEF cleared_by_far_end
<1> HIDE DEF d
<1>5. cleared_by_far_end(c, cas) \in Fore(w) \cup Ended BY <1>2, <1>3, <1>4, FarHangUp
<1> QED BY <1>3, <1>5 DEF d

\* The called end answers.
LEMMA FarAnswerFore ==
  ASSUME NEW w \in BOOLEAN, NEW c \in Fore(w), c.r2_state \notin Seizing \cup Clearing
  PROVE  answered_by_far_end(c) \in Fore(w)
<1> DEFINE e == cancel_timer(c, "r2_answer")
<1>1. "r2_answer" \in TimerName \ Supervisors /\ "r2_answer" # "dtmf_start_dial"
  BY DEF TimerName, Supervisors
<1>2. c \in Chan BY ForeFacts
<1>3. e \in Fore(w) /\ e.r2_state = c.r2_state
  BY <1>1, <1>2, TimerRoles, CancelSame DEF Same, Near
<1>4. answered_by_far_end(c) = Emit(Answered(e), "on_call_answered", "")
  BY Zenon DEF answered_by_far_end, Answered
<1> HIDE DEF e
<1>5. e.r2_state \notin Seizing \cup Clearing BY <1>3
<1> QED BY <1>3, <1>4, <1>5, AnsweredFore, Zenon

\* A pattern read while the called end is to answer.
LEMMA AcceptFore ==
  ASSUME NEW w \in BOOLEAN, NEW c \in Fore(w), c.r2_state \notin Seizing \cup Clearing, NEW cas
  PROVE  /\ cas_in_accept_rxd(c, cas) \in Fore(w) \cup Ended
         /\ cas_in_seize_ack_rxd(c, cas) \in Fore(w) \cup Ended
<1> DEFINE o == turn_off_mf_engine(c)
<1>1. Dialled(c) /\ c \in Live BY ForeFacts
<1>2. o \in Live /\ Near(c, o) /\ o.wire = c.wire /\ o.mf_state = "OFF" BY <1>1, TurnOffNear
<1>3. /\ cas_in_accept_rxd(c, cas) \in {answered_by_far_end(o), cleared_by_far_end(c, cas),
                                        invalid_bits(c)}
      /\ cas_in_seize_ack_rxd(c, cas) \in
           {answered_by_far_end(c), [c EXCEPT !.r2_state = "ANSWER_RXD_MF_PENDING"],
            cleared_by_far_end(c, cas), invalid_bits(c)}
  BY DEF cas_in_accept_rxd, cas_in_seize_ack_rxd
<1> HIDE DEF o
<1>4. GroupFits(o) BY <1>1, <1>2 DEF Near, Dialled, GroupFits
<1>5. o \in Fore(w) /\ o.r2_state = c.r2_state BY <1>1, <1>2, <1>4, ForeMove DEF Near, Dialled
<1>6. answered_by_far_end(o) \in Fore(w) BY <1>5, FarAnswerFore
<1>7. answered_by_far_end(c) \in Fore(w) BY FarAnswerFore
<1>8. cleared_by_far_end(c, cas) \in Fore(w) \cup Ended BY ClearedFore
<1>9. invalid_bits(c) \in Ended BY RolesOpen, InvalidEnds
<1>10. [c EXCEPT !.r2_state = "ANSWER_RXD_MF_PENDING"] \in Fore(w)
  BY ForeState DEF Talking
<1> QED BY <1>3, <1>6, <1>7, <1>8, <1>9, <1>10

\* A pattern read in an answered call.
LEMMA AnswerRxdFore ==
  ASSUME NEW w \in BOOLEAN, NEW c \in Fore(w), c.r2_state \notin Seizing \cup Clearing, NEW cas
  PROVE  cas_in_answer_rxd(c, cas) \in Fore(w) \cup Ended
<1> DEFINE d == [c EXCEPT !.r2_state = disconnection_state(cas)]
           e == [c EXCEPT !.r2_state = "CLEAR_FWD_RXD"]
<1>1. cas_in_answer_rxd(c, cas) \in
        {cleared_by_far_end(c, cas), add_timer(d, "r2_metering_pulse"),
         report_call_disconnection(e, "NORMAL_CLEARING"), invalid_bits(c)}
  BY DEF cas_in_answer_rxd
<1>2. cleared_by_far_end(c, cas) \in Fore(w) \cup Ended /\ d \in Fore(w) BY ClearedFore
<1>3. invalid_bits(c) \in Ended BY RolesOpen, InvalidEnds
<1>4. "CLEAR_FWD_RXD" \in Talking /\ "NORMAL_CLEARING" \in Cause BY DEF Talking, Cause
<1>5. e \in Fore(w) BY <1>4, ForeState
<1>6. "r2_metering_pulse" \in TimerName \ Supervisors /\ "r2_metering_pulse" # "dtmf_start_dial"
  BY DEF TimerName, Supervisors
<1> HIDE DEF d, e
<1>7. add_timer(d, "r2_metering_pulse") \in Fore(w) BY <1>2, <1>6, TimerRoles
<1>8. report_call_disconnection(e, "NORMAL_CLEARING") \in Fore(w) \cup Ended
  BY <1>4, <1>5, FarHangUp
<1> QED BY <1>1, <1>2, <1>3, <1>7, <1>8

\* A pattern read by a caller that is clearing.
LEMMA ClearFwdTxdFore ==
  ASSUME NEW w \in BOOLEAN, NEW c \in Fore(w), c.r2_state \in Clearing, NEW cas
  PROVE  cas_in_clear_fwd_txd(c, cas) \in Fore(w) \cup Ended
<1> DEFINE s == "CLEAR_BACK_AFTER_CLEAR_FWD_RXD"
           d == [c EXCEPT !.r2_state = s]
<1>1. Dialled(c) /\ c \in Live /\ c \in Chan BY ForeFacts
<1>2. s \in R2State \ IdleStates /\ s \in Clearing /\ s \notin Seizing
      /\ c.r2_state \notin Seizing
  BY DEF R2State, IdleStates, Clearing, Seizing
<1>3. cas_in_clear_fwd_txd(c, cas) \in {report_call_end(c), d, invalid_bits(c)}
  BY DEF cas_in_clear_fwd_txd
<1>4. /\ Frame(c, d) /\ d.r2_state = s /\ d.call_state = c.call_state
      /\ d.mf_group = c.mf_group /\ d.mf_state = c.mf_state /\ d.wire = c.wire
  BY <1>1, SetState
<1>5. d \in Live BY <1>1, <1>2, LiveR2
<1> HIDE DEF d, s
<1>6. GroupFits(d) BY <1>1, <1>2, <1>4 DEF Dialled, GroupFits
<1>7. d \in Fore(w) BY <1>1, <1>2, <1>4, <1>5, <1>6, ForeMove DEF Dialled
<1>8. report_call_end(c) \in Ended /\ invalid_bits(c) \in Ended
  BY RolesOpen, CallEndEnds, InvalidEnds
<1> QED BY <1>3, <1>7, <1>8

\* A clear back that turns out to be a metering pulse.
LEMMA DisconnectionFore ==
  ASSUME NEW w \in BOOLEAN, NEW c \in Fore(w), c.r2_state \notin Seizing \cup Clearing, NEW cas
  PROVE  cas_in_disconnection_rxd(c, cas) \in Fore(w) \cup Ended
<1> DEFINE none == ""
           d == cancel_timer(c, "r2_metering_pulse")
           e == [d EXCEPT !.r2_state = "ANSWER_RXD"]
           billed == Emit(e, "on_billing_pulse_received", none)
<1>1. none \in Arg BY Zenon DEF Arg
<1>2. cas_in_disconnection_rxd(c, cas) = billed \/ cas_in_disconnection_rxd(c, cas) = invalid_bits(c)
  BY Zenon DEF cas_in_disconnection_rxd
<1> HIDE DEF none
<1>3. "r2_metering_pulse" \in TimerName \ Supervisors /\ "r2_metering_pulse" # "dtmf_start_dial"
      /\ "on_billing_pulse_received" \in Callback \ Reports /\ "ANSWER_RXD" \in Talking
  BY DEF TimerName, Supervisors, Callback, Reports, Talking
<1>4. c \in Chan BY ForeFacts
<1>5. d \in Fore(w) /\ d.r2_state = c.r2_state
  BY <1>3, <1>4, TimerRoles, CancelSame DEF Same, Near
<1> HIDE DEF d
<1>6. e \in Fore(w) BY <1>3, <1>5, ForeState
<1> HIDE DEF e
<1>7. billed \in Fore(w) BY <1>1, <1>3, <1>6, EmitRoles
<1>8. invalid_bits(c) \in Ended BY RolesOpen, InvalidEnds
<1> QED BY <1>2, <1>7, <1>8

-----------------------------------------------------------------------------
(***************************************************************************)
(* Reading the line.                                                       *)
(***************************************************************************)
\* The sets of c are sets of d.
Keeps(w, c, d) == /\ c \in Fore(w) => d \in Fore(w)
                  /\ c \in Back => d \in Back
                  /\ c \in Rest => d \in Rest
                  /\ c \in Ended => d \in Ended
                  /\ c \in Untold => d \in Untold

\* What no set depends on may change, timers that supervise no call included.
LEMMA SameKeeps ==
  ASSUME NEW w \in BOOLEAN, NEW c, NEW d, c \in Live => d \in Live,
         c \in AtRest => d \in AtRest, Same(c, d), d.ev = c.ev
  PROVE  Keeps(w, c, d)
<1>1. /\ d.r2_state = c.r2_state /\ d.wire = c.wire /\ d.fault = c.fault /\ Near(c, d)
  BY DEF Same, Near, Frame
<1>2. c \in Fore(w) => d \in Fore(w) BY ForeSame, RoleKinds
<1>3. c \in Back => d \in Back BY <1>1, BackSame, RoleKinds
<1>4. (c \in Rest => d \in Rest) /\ (c \in Ended => d \in Ended) BY <1>1, RestSame, RoleKinds
<1> QED BY <1>2, <1>3, <1>4 DEF Keeps, Untold

\* What the channel has read of the line.
LEMMA ReadKeeps ==
  ASSUME NEW w \in BOOLEAN, NEW c \in Calm, NEW cas \in cas_r2_bits,
         NEW p \in cas_r2_bits \cup {NoPattern}, NEW b \in BOOLEAN
  PROVE  /\ Keeps(w, c, [c EXCEPT !.cas_read = cas])
         /\ Keeps(w, c, [c EXCEPT !.persist = p])
         /\ Keeps(w, c, [c EXCEPT !.persist_id = b])
<1> DEFINE d == [c EXCEPT !.cas_read = cas]
           e == [c EXCEPT !.persist = p]
           f == [c EXCEPT !.persist_id = b]
<1>1. c \in Chan BY Kinds
<1>2. Same(c, d) /\ Same(c, e) /\ Same(c, f) BY <1>1, OtherSame
<1>3. d.ev = c.ev /\ e.ev = c.ev /\ f.ev = c.ev BY <1>1 DEF Chan
<1>4. d \in Chan /\ e \in Chan /\ f \in Chan BY <1>1, ZenonT(40) DEF Chan
<1>5. (c \in Live => d \in Live) /\ (c \in AtRest => d \in AtRest) BY ReadBits
<1>6. (c \in Live => e \in Live) /\ (c \in AtRest => e \in AtRest)
  <2>1. c \in Live => e \in Live BY <1>4 DEF Live, Loose, Chan
  <2>2. c \in AtRest => e \in AtRest BY <1>4 DEF AtRest, Loose, Chan
  <2> QED BY <2>1, <2>2
<1>10. (c \in Live => f \in Live) /\ (c \in AtRest => f \in AtRest)
  <2>1. c \in Live => f \in Live BY <1>4 DEF Live, Loose, Chan
  <2>2. c \in AtRest => f \in AtRest BY <1>4 DEF AtRest, Loose, Chan
  <2> QED BY <2>1, <2>2
<1> HIDE DEF d, e, f
<1>7. Keeps(w, c, d) BY <1>2, <1>3, <1>5, SameKeeps
<1>8. Keeps(w, c, e) BY <1>2, <1>3, <1>6, SameKeeps
<1>9. Keeps(w, c, f) BY <1>2, <1>3, <1>10, SameKeeps
<1> QED BY <1>7, <1>8, <1>9 DEF d, e, f

\* What follows a step that keeps the sets.
LEMMA KeepsLeads ==
  ASSUME NEW w, NEW c, NEW d, Keeps(w, c, d)
  PROVE  /\ \A e : Keeps(w, d, e) => Keeps(w, c, e)
         /\ \A e : Leads(w, d, e) => Leads(w, c, e)
         /\ Leads(w, c, d)
         /\ c \in Start(w) => d \in Start(w)
BY DEF Keeps, Leads, Start, Untold

\* openr2_proto_handle_cas from the label handlecas on, for a dialled call.
LEMMA PatternFore ==
  ASSUME NEW w \in BOOLEAN, NEW c0 \in Fore(w), ~c0.inalarm, NEW cas \in cas_r2_bits
  PROVE  handle_pattern(c0, cas) \in Fore(w) \cup Ended
<1> DEFINE c == [c0 EXCEPT !.cas_read = cas]
<1>1. c0 \in Calm BY RoleKinds
<1>2. c \in Fore(w) /\ c.r2_state = c0.r2_state
  <2>1. Keeps(w, c0, c) BY <1>1, ReadKeeps
  <2>2. c0 \in Chan BY RoleKinds
  <2> QED BY <2>1, <2>2 DEF Keeps, Chan
<1>3. c.r2_state \in Talking \cup Seizing \cup Clearing \cup {"DOUBLE_SEIZURE_CLEAR_FWD_PENDING"}
  BY <1>2, ForeFacts DEF Dialled
<1>4. \/ c.r2_state \in Seizing /\ handle_pattern(c0, cas) = cas_in_seize_txd(c, cas)
      \/ c.r2_state \in Clearing /\ handle_pattern(c0, cas) = cas_in_clear_fwd_txd(c, cas)
      \/ handle_pattern(c0, cas) = cas_waiting_idle(c, cas)
      \/ handle_pattern(c0, cas) = handle_protocol_error(c, "INVALID_R2_STATE")
      \/ /\ c.r2_state \notin Seizing \cup Clearing
         /\ \/ /\ c.r2_state \in {"DOUBLE_SEIZURE", "DOUBLE_SEIZURE_CLEAR_FWD_PENDING"}
               /\ handle_pattern(c0, cas) = cas_in_double_seizure(c, cas)
            \/ handle_pattern(c0, cas) = cas_in_accept_rxd(c, cas)
            \/ handle_pattern(c0, cas) = cas_in_seize_ack_rxd(c, cas)
            \/ handle_pattern(c0, cas) = cas_in_answer_rxd(c, cas)
            \/ handle_pattern(c0, cas) = cas_in_disconnection_rxd(c, cas)
  <2>1. c.r2_state \in {"SEIZE_TXD", "SEIZE_TXD_CLEAR_FWD_PENDING", "CLEAR_FWD_TXD",
                        "CLEAR_BACK_AFTER_CLEAR_FWD_RXD", "SEIZE_ACK_RXD",
                        "CLEAR_BACK_TONE_RXD", "ACCEPT_RXD", "ANSWER_RXD", "CLEAR_BACK_RXD",
                        "ANSWER_RXD_MF_PENDING", "FORCED_RELEASE_RXD", "DOUBLE_SEIZURE",
                        "CLEAR_FWD_RXD", "DOUBLE_SEIZURE_CLEAR_FWD_PENDING"}
    BY <1>3 DEF Talking, Seizing, Clearing
  <2> HIDE DEF c
  <2>2. /\ c.r2_state \in {"SEIZE_TXD", "SEIZE_TXD_CLEAR_FWD_PENDING"}
             => handle_pattern(c0, cas) = cas_in_seize_txd(c, cas)
        /\ c.r2_state = "CLEAR_FWD_TXD"
             => handle_pattern(c0, cas) = cas_in_clear_fwd_txd(c, cas)
        /\ c.r2_state \in {"CLEAR_BACK_AFTER_CLEAR_FWD_RXD", "CLEAR_BACK_TONE_RXD"}
             => handle_pattern(c0, cas) = cas_waiting_idle(c, cas)
        /\ c.r2_state = "CLEAR_FWD_RXD"
             => handle_pattern(c0, cas) = handle_protocol_error(c, "INVALID_R2_STATE")
        /\ c.r2_state \in {"DOUBLE_SEIZURE", "DOUBLE_SEIZURE_CLEAR_FWD_PENDING"}
             => handle_pattern(c0, cas) = cas_in_double_seizure(c, cas)
        /\ c.r2_state = "ACCEPT_RXD" => handle_pattern(c0, cas) = cas_in_accept_rxd(c, cas)
        /\ c.r2_state = "SEIZE_ACK_RXD"
             => handle_pattern(c0, cas) = cas_in_seize_ack_rxd(c, cas)
        /\ c.r2_state \in {"ANSWER_RXD", "ANSWER_RXD_MF_PENDING"}
             => handle_pattern(c0, cas) = cas_in_answer_rxd(c, cas)
        /\ c.r2_state \in {"CLEAR_BACK_RXD", "FORCED_RELEASE_RXD"}
             => handle_pattern(c0, cas) = cas_in_disconnection_rxd(c, cas)
    BY DEF handle_pattern, c
  <2> QED BY <2>1, <2>2 DEF Seizing, Clearing
<1> HIDE DEF c
<1>5. c.r2_state \in Seizing => cas_in_seize_txd(c, cas) \in Fore(w) \cup Ended
  BY <1>2, SeizeTxdFore
<1>6. c.r2_state \in Clearing => cas_in_clear_fwd_txd(c, cas) \in Fore(w) \cup Ended
  BY <1>2, ClearFwdTxdFore
<1>7. handle_protocol_error(c, "INVALID_R2_STATE") \in Ended
  BY <1>2, RolesOpen, ErrorEnds DEF ProtocolError
<1>8. cas_waiting_idle(c, cas) \in Ended BY <1>2, DoubleSeizureFore
<1>9. c.r2_state \in {"DOUBLE_SEIZURE", "DOUBLE_SEIZURE_CLEAR_FWD_PENDING"}
        => cas_in_double_seizure(c, cas) \in Fore(w) \cup Ended
  BY <1>2, DoubleSeizureFore
<1>10. c.r2_state \notin Seizing \cup Clearing
         => /\ cas_in_accept_rxd(c, cas) \in Fore(w) \cup Ended
            /\ cas_in_seize_ack_rxd(c, cas) \in Fore(w) \cup Ended
            /\ cas_in_answer_rxd(c, cas) \in Fore(w) \cup Ended
            /\ cas_in_disconnection_rxd(c, cas) \in Fore(w) \cup Ended
  BY <1>2, AcceptFore, AnswerRxdFore, DisconnectionFore
<1> QED BY <1>4, <1>5, <1>6, <1>7, <1>8, <1>9, <1>10

\* And for a received call.
LEMMA PatternBack ==
  ASSUME NEW c0 \in Back, ~c0.inalarm, NEW cas \in cas_r2_bits
  PROVE  handle_pattern(c0, cas) \in Back \cup Ended
<1> DEFINE c == [c0 EXCEPT !.cas_read = cas]
<1>1. c0 \in Calm /\ c0 \in Chan BY RoleKinds
<1>2. c \in Back
  <2>1. TRUE \in BOOLEAN OBVIOUS
  <2>2. Keeps(TRUE, c0, c) BY <1>1, <2>1, ReadKeeps
  <2> QED BY <2>2 DEF Keeps
<1>3. c.r2_state \in BackwardStates \cup {"CLEAR_FWD_RXD"} BY <1>2, BackFacts DEF Received
<1>4. c.r2_state = c0.r2_state BY <1>1 DEF Chan
<1>5. \/ handle_pattern(c0, cas) = cas_in_received_call(c, cas)
      \/ handle_pattern(c0, cas) = cas_in_cleared_backward(c, cas)
      \/ handle_pattern(c0, cas) = handle_protocol_error(c, "INVALID_R2_STATE")
  <2>1. c.r2_state \in {"SEIZE_ACK_TXD", "ANSWER_TXD", "EXECUTING_DOUBLE_ANSWER",
                        "CLEAR_BACK_TXD", "FORCED_RELEASE_TXD", "CLEAR_FWD_RXD"}
    BY <1>3 DEF BackwardStates
  <2> HIDE DEF c
  <2>2. /\ c.r2_state \in {"SEIZE_ACK_TXD", "ANSWER_TXD", "EXECUTING_DOUBLE_ANSWER"}
             => handle_pattern(c0, cas) = cas_in_received_call(c, cas)
        /\ c.r2_state \in {"CLEAR_BACK_TXD", "FORCED_RELEASE_TXD"}
             => handle_pattern(c0, cas) = cas_in_cleared_backward(c, cas)
        /\ c.r2_state = "CLEAR_FWD_RXD"
             => handle_pattern(c0, cas) = handle_protocol_error(c, "INVALID_R2_STATE")
    BY DEF handle_pattern, c
  <2> QED BY <2>1, <2>2
<1> HIDE DEF c
<1>6. handle_protocol_error(c, "INVALID_R2_STATE") \in Ended
  <2>1. Open(c) BY <1>2, RolesOpen
  <2> QED BY <2>1, ErrorEnds DEF ProtocolError
<1> QED BY <1>2, <1>5, <1>6, CasBack

\* A callback that is no report keeps the sets.
LEMMA EmitKeeps ==
  ASSUME NEW w \in BOOLEAN, NEW c \in Calm, NEW cb \in Callback \ Reports, NEW arg \in Arg
  PROVE  Keeps(w, c, Emit(c, cb, arg))
<1> DEFINE d == Emit(c, cb, arg)
<1>1. c \in Chan /\ cb \in Callback BY Kinds
<1>2. Made(d.ev, Reports) <=> Made(c.ev, Reports) BY <1>1, EmitSame
<1>3. /\ c \in Fore(w) => d \in Fore(w)
      /\ c \in Back => d \in Back
      /\ c \in Rest => d \in Rest
      /\ c \in Ended => d \in Ended
  BY EmitRoles
<1> HIDE DEF d
<1>4. Keeps(w, c, d) BY <1>2, <1>3 DEF Keeps, Untold
<1> QED BY <1>4 DEF d

\* Starting and cancelling a persistence check.
LEMMA CheckTimerKeeps ==
  ASSUME NEW w \in BOOLEAN, NEW c \in Calm
  PROVE  /\ Keeps(w, c, add_timer(c, "cas_persistence_check"))
         /\ Keeps(w, c, cancel_timer(c, "cas_persistence_check"))
<1> DEFINE n == "cas_persistence_check"
           d == cancel_timer(c, n)
           e == [c EXCEPT !.sched = Disown(@, n)]
           f == add_timer(c, n)
<1>1. n \in TimerName \ Supervisors /\ n \in TimerName /\ n # "dtmf_start_dial"
      /\ n \in Arg /\ "no_time_slots" \in Callback \ Reports
  BY DEF TimerName, Supervisors, Arg, Callback, Reports
<1>2. c \in Chan BY Kinds
<1>3. Same(c, d) BY <1>1, <1>2, CancelSame
<1>4. d.ev = c.ev
  <2>1. d = c \/ \E k : d = [c EXCEPT !.sched = RemoveTimer(@, k)] BY DEF cancel_timer
  <2> HIDE DEF d
  <2> QED BY <1>2, <2>1 DEF Chan
<1>5. (c \in Live => d \in Live) /\ (c \in AtRest => d \in AtRest) BY <1>1, CancelTimerCalm
<1> HIDE DEF d
<1>6. Keeps(w, c, d) BY <1>3, <1>4, <1>5, SameKeeps
<1>7. /\ c \in Fore(w) => f \in Fore(w)
      /\ c \in Back => f \in Back
  BY <1>1, TimerRoles
<1>8. ASSUME c \in AtRest
      PROVE  /\ c \in Rest => f \in Rest
             /\ c \in Ended => f \in Ended
             /\ c \in Untold => f \in Untold
  <2>1. Same(c, f) /\ f \in AtRest BY <1>1, <1>2, <1>8, AddTimerSame, AddTimerAtRest
  <2>2. f.r2_state = c.r2_state /\ f.wire = c.wire /\ f.fault = c.fault
    BY <2>1 DEF Same, Near, Frame
  <2>3. c.ev \in Seq(Event) BY <1>2 DEF Chan
  <2>4. f.ev = c.ev \/ f.ev = Append(c.ev, [cb |-> "no_time_slots", arg |-> n])
    <3>1. e.ev = c.ev BY <1>2 DEF Chan
    <3>2. e \in Chan
      <4>1. c.sched \in Seq(Timer) BY <1>2, SchedSeq
      <4>2. Disown(c.sched, n) \in Seq(Timer) BY <1>1, <4>1, DisownType
      <4> QED BY <1>2, <4>2, SchedType
    <3>3. f = schedule(e, n, TRUE) BY DEF add_timer
    <3> HIDE DEF e, f
    <3>4. \/ f = [e EXCEPT !.ev = Append(@, [cb |-> "no_time_slots", arg |-> n])]
          \/ f = [e EXCEPT !.sched = Append(@, [name |-> n, ref |-> TRUE])]
      BY <3>3 DEF schedule, Emit
    <3> QED BY <3>1, <3>2, <3>4 DEF Chan
  <2> HIDE DEF f
  <2> DEFINE t == [cb |-> "no_time_slots", arg |-> n]
  <2>5. t \in Event /\ t.cb = "no_time_slots" BY <1>1, EventType
  <2> HIDE DEF t
  <2>6. ASSUME NEW cbs, "no_time_slots" \notin cbs
        PROVE  /\ Made(f.ev, cbs) <=> Made(c.ev, cbs)
               /\ MadeOnce(c.ev, cbs) => MadeOnce(f.ev, cbs)
    <3>1. f.ev = c.ev \/ f.ev = Append(c.ev, t) BY <2>4 DEF t
    <3>2. /\ Made(Append(c.ev, t), cbs) <=> Made(c.ev, cbs) \/ t.cb \in cbs
          /\ MadeOnce(c.ev, cbs) /\ t.cb \notin cbs => MadeOnce(Append(c.ev, t), cbs)
      BY <2>3, <2>5, EvAppend
    <3> QED BY <2>5, <2>6, <3>1, <3>2
  <2>7. "no_time_slots" \notin Reports /\ "no_time_slots" \notin {"on_call_end"} BY <1>1
  <2>8. /\ Made(f.ev, Reports) <=> Made(c.ev, Reports)
        /\ MadeOnce(c.ev, Reports) => MadeOnce(f.ev, Reports)
        /\ Made(f.ev, {"on_call_end"}) <=> Made(c.ev, {"on_call_end"})
    BY <2>6, <2>7
  <2> QED BY <2>1, <2>2, <2>8 DEF Rest, Ended, Untold, Resting
<1>9. c \in Rest \cup Ended \cup Untold => c \in AtRest BY RoleKinds DEF Untold
<1> HIDE DEF f
<1>10. Keeps(w, c, f) BY <1>7, <1>8, <1>9 DEF Keeps
<1> QED BY <1>6, <1>10 DEF d, f

\* The same, with what is stored of the check.
LEMMA CheckKeeps ==
  ASSUME NEW w \in BOOLEAN, NEW c \in Calm, NEW cas \in cas_r2_bits
  PROVE  /\ Keeps(w, c, start_persistence_check(c, cas))
         /\ Keeps(w, c, cancel_persistence_check(c))
<1> DEFINE d == [c EXCEPT !.persist = cas]
           e == add_timer(d, "cas_persistence_check")
           f == cancel_timer(c, "cas_persistence_check")
           b == /\ f.persist_id
                /\ \A i \in 1..Len(c.sched) : ~Owned(c.sched, "cas_persistence_check", i)
<1>1. d \in Calm BY PersistCalm
<1>2. Keeps(w, c, d) BY ReadKeeps
<1>3. start_persistence_check(c, cas) = [e EXCEPT !.persist_id = TRUE]
  BY DEF start_persistence_check
<1>4. cancel_persistence_check(c) = [f EXCEPT !.persist_id = b]
  BY DEF cancel_persistence_check
<1>5. b \in BOOLEAN OBVIOUS
<1> HIDE DEF d
<1>6. e \in Calm BY <1>1, AddTimerLive, AddTimerAtRest DEF Calm, TimerName
<1>7. f \in Calm BY CancelTimerCalm DEF Calm, TimerName
<1>8. Keeps(w, d, e) /\ Keeps(w, c, f) BY <1>1, CheckTimerKeeps
<1> HIDE DEF e, f, b
<1>9. Keeps(w, e, [e EXCEPT !.persist_id = TRUE]) BY <1>6, ReadKeeps
<1>10. Keeps(w, f, [f EXCEPT !.persist_id = b]) BY <1>5, <1>7, ReadKeeps
<1>11. Keeps(w, c, [e EXCEPT !.persist_id = TRUE]) BY <1>2, <1>8, <1>9, KeepsLeads
<1>12. Keeps(w, c, [f EXCEPT !.persist_id = b]) BY <1>8, <1>10, KeepsLeads
<1> QED BY <1>3, <1>4, <1>11, <1>12

\* openr2_proto_handle_cas from the label handlecas on, without a call.
LEMMA PatternRest ==
  ASSUME NEW c0 \in Untold, NEW cas \in cas_r2_bits
  PROVE  handle_pattern(c0, cas) \in Back \cup Rest
<1> DEFINE c == [c0 EXCEPT !.cas_read = cas]
<1>1. c0 \in Rest /\ c0 \in AtRest /\ c0 \in Calm /\ c0 \in Chan BY RoleKinds DEF Untold
<1>2. CASE c0.inalarm
  <2>1. handle_pattern(c0, cas) = c0 BY <1>2 DEF handle_pattern
  <2> QED BY <1>1, <2>1
<1>3. CASE ~c0.inalarm
  <2>1. c \in Untold
    <3>1. TRUE \in BOOLEAN OBVIOUS
    <3>2. Keeps(TRUE, c0, c) BY <1>1, <3>1, ReadKeeps
    <3> QED BY <3>2 DEF Keeps
  <2>2. c.r2_state = c0.r2_state /\ c.inalarm = c0.inalarm BY <1>1 DEF Chan
  <2>3. c.r2_state \in {"IDLE", "BLOCKED", "INIT"} BY <1>1, <2>2 DEF AtRest, IdleStates
  <2> HIDE DEF c
  <2>4. /\ c.r2_state = "IDLE" => handle_pattern(c0, cas) = cas_in_idle(c, cas)
        /\ c.r2_state = "BLOCKED" => handle_pattern(c0, cas) = cas_in_blocked(c, cas)
        /\ c.r2_state = "INIT" => handle_pattern(c0, cas) = cas_in_init(c, cas)
    BY <1>3 DEF handle_pattern, c
  <2>5. ~c.inalarm BY <1>3, <2>2
  <2>6. /\ cas_in_idle(c, cas) \in Back \cup Rest
        /\ cas_in_init(c, cas) \in Rest /\ cas_in_blocked(c, cas) \in Rest
    BY <2>1, <2>5, CasRest
  <2> QED BY <2>3, <2>4, <2>6
<1> QED BY <1>2, <1>3

\* Every pattern leads from one role to the same role or to none.
LEMMA PatternLeads ==
  ASSUME Orderly, NEW w \in BOOLEAN, NEW c \in Start(w), NEW cas \in cas_r2_bits
  PROVE  Leads(w, c, handle_pattern(c, cas))
<1> DEFINE d == handle_pattern(c, cas)
<1>1. c \in Fore(w) \cup Back => ~c.inalarm
  <2>1. c \in Fore(w) \cup Back => c \in Live BY RoleKinds
  <2> QED BY <2>1 DEF Live
<1>2. c \in Fore(w) => d \in Fore(w) \cup Ended BY <1>1, PatternFore
<1>3. c \in Back => d \in Back \cup Ended BY <1>1, PatternBack
<1>4. c \in Untold => d \in Back \cup Rest BY PatternRest
<1> HIDE DEF d
<1>5. Leads(w, c, d) BY <1>2, <1>3, <1>4 DEF Leads
<1> QED BY <1>5 DEF d

\* The channels a step starts in are calm.
LEMMA StartCalm ==
  ASSUME NEW w, NEW c \in Start(w)
  PROVE  c \in Calm
BY RoleKinds DEF Start, Untold

\* openr2_proto_handle_cas.
LEMMA HandleCasLeads ==
  ASSUME Orderly, NEW w \in BOOLEAN, NEW c \in Start(w), NEW l \in cas_r2_bits
  PROVE  Leads(w, c, handle_cas(c, l))
<1> DEFINE p == IF persisted(c) THEN NoPattern ELSE c.persist
           cas == IF persisted(c) THEN c.persist ELSE l
           taken == [c EXCEPT !.persist = p]
           cancelled == cancel_persistence_check(c)
           started == start_persistence_check(cancelled, l)
           dropped == [cancelled EXCEPT !.persist = NoPattern]
<1>1. c \in Calm BY StartCalm
<1>2. c.persist \in cas_r2_bits \cup {NoPattern}
  <2>1. c \in Chan BY <1>1, Kinds
  <2> QED BY <2>1 DEF Chan
<1>3. p \in cas_r2_bits \cup {NoPattern} /\ cas \in cas_r2_bits
  BY <1>2 DEF persisted
<1>4. \/ handle_cas(c, l) = handle_pattern(taken, cas)
      \/ handle_cas(c, l) = started
      \/ handle_cas(c, l) = dropped
      \/ handle_cas(c, l) = c
  BY DEF handle_cas
<1> HIDE DEF p, cas
<1>5. Keeps(w, c, taken) BY <1>1, <1>3, ReadKeeps
<1> HIDE DEF taken
<1>6. taken \in Start(w) BY <1>5, KeepsLeads
<1>7. Leads(w, taken, handle_pattern(taken, cas)) BY <1>3, <1>6, PatternLeads
<1>8. Leads(w, c, handle_pattern(taken, cas)) BY <1>5, <1>7, KeepsLeads
<1>9. cancelled \in Calm /\ Keeps(w, c, cancelled) BY <1>1, CancelCheck, CheckKeeps
<1> HIDE DEF cancelled
<1>10. Keeps(w, cancelled, started) /\ Keeps(w, cancelled, dropped)
  BY <1>9, CheckKeeps, ReadKeeps
<1> HIDE DEF started, dropped
<1>11. Leads(w, c, started) /\ Leads(w, c, dropped)
  <2>1. Keeps(w, c, started) /\ Keeps(w, c, dropped) BY <1>9, <1>10, KeepsLeads
  <2> QED BY <2>1, KeepsLeads
<1>12. Leads(w, c, c) BY DEF Leads, Untold
<1> QED BY <1>4, <1>8, <1>11, <1>12

\* persistence_check_expired.
LEMMA CheckExpiredLeads ==
  ASSUME Orderly, NEW w \in BOOLEAN, NEW c0 \in Start(w), NEW l \in cas_r2_bits
  PROVE  Leads(w, c0, persistence_check_expired(c0, l))
<1> DEFINE c == [c0 EXCEPT !.persist_id = FALSE]
           dropped == [c EXCEPT !.persist = NoPattern]
<1>1. c0 \in Calm BY StartCalm
<1>2. c \in Calm /\ Keeps(w, c0, c) BY <1>1, PersistCalm, ReadKeeps
<1>3. \/ persistence_check_expired(c0, l) = c
      \/ persistence_check_expired(c0, l) = handle_cas(c, l)
      \/ persistence_check_expired(c0, l) = start_persistence_check(c, l)
      \/ persistence_check_expired(c0, l) = dropped
  BY DEF persistence_check_expired
<1> HIDE DEF c
<1>4. c \in Start(w) BY <1>2, KeepsLeads
<1>5. Keeps(w, c, dropped) BY <1>2, ReadKeeps
<1> HIDE DEF dropped
<1>6. Keeps(w, c, start_persistence_check(c, l)) BY <1>2, CheckKeeps
<1>7. Leads(w, c, handle_cas(c, l)) BY <1>4, HandleCasLeads
<1>8. Leads(w, c0, handle_cas(c, l)) BY <1>2, <1>7, KeepsLeads
<1>9. Leads(w, c0, c) BY <1>2, KeepsLeads
<1>10. Leads(w, c0, dropped)
  <2>1. Leads(w, c, dropped) BY <1>5, KeepsLeads
  <2> QED BY <1>2, <2>1, KeepsLeads
<1>11. Leads(w, c0, start_persistence_check(c, l))
  <2>1. Leads(w, c, start_persistence_check(c, l)) BY <1>6, KeepsLeads
  <2> QED BY <1>2, <2>1, KeepsLeads
<1> QED BY <1>3, <1>8, <1>9, <1>10, <1>11

-----------------------------------------------------------------------------
(***************************************************************************)
(* Alarms.                                                                 *)
(***************************************************************************)
\* What was last read and written is forgotten.
Forgets(c) == [c EXCEPT !.cas_read = 0, !.cas_write = 0]

\* It is forgotten of a channel without a call, which stays one.
LEMMA ForgetKeeps ==
  ASSUME NEW c \in AtRest
  PROVE  (c \in Ended => Forgets(c) \in Ended) /\ (c \in Rest => Forgets(c) \in Rest)
<1> DEFINE d == Forgets(c)
<1>1. 0 \in cas_r2_bits BY DEF cas_r2_bits
<1>2. c \in Chan BY Kinds
<1>3. d \in Chan BY <1>1, <1>2 DEF Chan, Forgets
<1>4. d \in AtRest BY <1>3 DEF AtRest, Loose, Chan, Forgets
<1>5. d.r2_state = c.r2_state /\ d.wire = c.wire /\ d.fault = c.fault /\ d.ev = c.ev
  BY <1>2 DEF Chan, Forgets
<1> HIDE DEF d
<1>6. (c \in Ended => d \in Ended) /\ (c \in Rest => d \in Rest) BY <1>4, <1>5, RestSame
<1> QED BY <1>6 DEF d

\* The line comes out of alarm, or the user resets it, and is read again.
LEMMA ResetRests ==
  ASSUME NEW c \in Loose, c.fault \subseteq Faults, ~Made(c.ev, Reports)
  PROVE  set_idle(c) \in Untold /\ set_blocked(c) \in Untold
<1> DEFINE i == set_idle(c)
           b == set_blocked(c)
<1>1. i \in AtRest /\ Resting(i) /\ i.ev = c.ev BY SetIdleKeeps
<1>2. b \in AtRest /\ Resting(b) /\ b.ev = c.ev BY SetBlockedKeeps
<1>3. ~Made(c.ev, {"on_call_end"}) BY DEF Made, Reports
<1> HIDE DEF i, b
<1>4. i \in Untold BY <1>1, <1>3 DEF Untold, Rest
<1>5. b \in Untold BY <1>2, <1>3 DEF Untold, Rest
<1> QED BY <1>4, <1>5 DEF i, b

\* openr2_proto_handle_alarm_state.
LEMMA AlarmStateRoles ==
  ASSUME Orderly, NEW w \in BOOLEAN, NEW c \in Loose, c.fault \subseteq Faults,
         ~Made(c.ev, Reports), NEW l \in cas_r2_bits
  PROVE  /\ c.inalarm /\ c.call_state # "IDLE" => handle_alarm_state(c, l) \in Ended
         /\ c.inalarm /\ c.call_state = "IDLE" /\ c \in Rest => handle_alarm_state(c, l) \in Rest
         /\ ~c.inalarm => handle_alarm_state(c, l) \in Fore(w) \cup Back \cup Rest
<1>1. ASSUME c.inalarm, c.call_state # "IDLE"
      PROVE  handle_alarm_state(c, l) \in Ended
  <2> DEFINE d == handle_protocol_error(c, "ALARM_RAISED")
  <2>1. handle_alarm_state(c, l) = Forgets(d)
    BY <1>1 DEF handle_alarm_state, Forgets
  <2>2. Open(c) BY DEF Open
  <2>3. d \in Ended BY <2>2, ErrorEnds DEF ProtocolError
  <2> HIDE DEF d
  <2>4. d \in AtRest BY <2>3 DEF Ended
  <2> QED BY <2>1, <2>3, <2>4, ForgetKeeps
<1>2. ASSUME c.inalarm, c.call_state = "IDLE", c \in Rest
      PROVE  handle_alarm_state(c, l) \in Rest
  <2>1. handle_alarm_state(c, l) = Forgets(c)
    BY <1>2 DEF handle_alarm_state, Forgets
  <2>2. c \in AtRest BY <1>2 DEF Rest
  <2> QED BY <1>2, <2>1, <2>2, ForgetKeeps
<1>3. ASSUME ~c.inalarm
      PROVE  handle_alarm_state(c, l) \in Fore(w) \cup Back \cup Rest
  <2> DEFINE i == set_idle(c)
             b == set_blocked(c)
  <2>1. i \in Untold /\ b \in Untold BY ResetRests
  <2>2. handle_alarm_state(c, l) \in {handle_cas(i, l), handle_cas(b, l)}
    BY <1>3 DEF handle_alarm_state
  <2> HIDE DEF i, b
  <2>3. i \in Start(w) /\ b \in Start(w) BY <2>1 DEF Start
  <2>4. Leads(w, i, handle_cas(i, l)) /\ Leads(w, b, handle_cas(b, l))
    BY <2>3, HandleCasLeads
  <2> QED BY <2>1, <2>2, <2>4 DEF Leads
<1> QED BY <1>1, <1>2, <1>3

\* An alarm raised or cleared.
LEMMA AlarmLeads ==
  ASSUME Orderly, NEW w \in BOOLEAN, NEW c \in Start(w), NEW l \in cas_r2_bits
  PROVE  Leads(w, c, handle_alarm_event(c, ~c.inalarm, l))
<1> DEFINE on == ~c.inalarm
           none == ""
           d == [c EXCEPT !.inalarm = on]
           e == Emit(d, "on_hardware_alarm", none)
           r == handle_alarm_state(e, l)
<1>1. none \in Arg BY Zenon DEF Arg
<1>2. handle_alarm_event(c, ~c.inalarm, l) = r BY Zenon DEF handle_alarm_event
<1> HIDE DEF none
<1>3. c \in Calm /\ c \in Loose /\ c \in Chan BY StartCalm, Kinds
<1>4. on \in BOOLEAN OBVIOUS
<1> HIDE DEF on
<1>5. d \in Chan BY <1>3, <1>4 DEF Chan
<1>6. /\ d \in Loose /\ d.call_state = c.call_state /\ d.fault = c.fault /\ d.ev = c.ev
      /\ d.r2_state = c.r2_state /\ d.wire = c.wire /\ d.inalarm = on
  BY <1>3, <1>5 DEF Loose, Chan
<1>7. c \in AtRest => d \in AtRest BY <1>5 DEF AtRest, Loose, Chan
<1>8. c.fault \subseteq Faults /\ ~Made(c.ev, Reports)
  BY DEF Start, Fore, Dialled, Back, Received, Untold, Rest, Resting
<1> HIDE DEF d
<1>9. "on_hardware_alarm" \in Callback \ Reports BY DEF Callback, Reports
<1>10. e \in Chan /\ e.inalarm = d.inalarm /\ e.mf_state = d.mf_state
       /\ e.dialing_dtmf = d.dialing_dtmf /\ e.detecting_dtmf = d.detecting_dtmf
  <2>1. e \in Chan BY <1>1, <1>5, <1>9, EmitType
  <2> QED BY <1>5, <2>1 DEF Chan, Emit
<1>11. Same(d, e) BY <1>1, <1>5, <1>9, EmitSame
<1>12. d \in Rest => e \in Rest BY <1>1, <1>9, EmitRoles
<1> HIDE DEF e
<1>13. e \in Loose BY <1>6, <1>10 DEF Loose
<1>14. e.fault \subseteq Faults /\ ~Made(e.ev, Reports) /\ e.call_state = c.call_state
       /\ e.inalarm = on
  BY <1>6, <1>8, <1>10, <1>11 DEF Same, Near, Frame, Quiet
<1>15. /\ e.inalarm /\ e.call_state # "IDLE" => r \in Ended
       /\ e.inalarm /\ e.call_state = "IDLE" /\ e \in Rest => r \in Rest
       /\ ~e.inalarm => r \in Fore(w) \cup Back \cup Rest
  BY <1>13, <1>14, AlarmStateRoles
<1> HIDE DEF r
<1>16. c \in Fore(w) \cup Back => on /\ c.call_state # "IDLE"
  <2>1. c \in Fore(w) \cup Back => c \in Live BY RoleKinds
  <2> QED BY <2>1 DEF Live, on
<1>17. c \in Untold => c.call_state = "IDLE" /\ e \in Rest
  <2>1. c \in Untold => c \in Rest /\ c \in AtRest BY RoleKinds DEF Untold
  <2>2. c \in Untold => d \in Rest BY <1>6, <1>7, <2>1, RestSame
  <2> QED BY <1>12, <2>1, <2>2 DEF AtRest
<1>18. c \in Fore(w) \cup Back => r \in Ended BY <1>14, <1>15, <1>16
<1>19. c \in Untold => r \in Fore(w) \cup Back \cup Rest BY <1>4, <1>14, <1>15, <1>17
<1>20. Leads(w, c, r) BY <1>18, <1>19 DEF Leads
<1> QED BY <1>2, <1>20

-----------------------------------------------------------------------------
(***************************************************************************)
(* Dialling.                                                               *)
(***************************************************************************)
\* The timer of a seizure is the only supervisor of a new call, unless the
\* list is full.
LEMMA SeizeTimer ==
  ASSUME NEW c \in Chan, OnlyPersistence(c.sched)
  PROVE  LET d == add_timer(c, "r2_seize")
         IN  /\ d \in Chan /\ d.fault = c.fault /\ d.wire = c.wire
             /\ d.r2_state = c.r2_state /\ d.mf_group = c.mf_group
             /\ Made(d.ev, Reports) => Made(c.ev, Reports)
             /\ \/ Made(d.ev, Overflow)
                \/ Single(d.sched, "r2_seize") /\ Pending(d.sched, "r2_seize")
             /\ \A n \in {"r2_seize_persist", "r2_set_call_down", "dtmf_start_dial"} :
                  ~Pending(d.sched, n)
<1> DEFINE m == "r2_seize"
           others == {"r2_seize_persist", "r2_set_call_down", "dtmf_start_dial"}
           q == Disown(c.sched, m)
           e == [c EXCEPT !.sched = q]
           t == [name |-> m, ref |-> TRUE]
           told == Emit(e, "no_time_slots", m)
           timed == [e EXCEPT !.sched = Append(@, t)]
           d == add_timer(c, m)
<1>1. m \in TimerName /\ m \in Arg /\ "no_time_slots" \in Callback \ Reports
      /\ "no_time_slots" \in Callback /\ m \notin others
  BY DEF TimerName, Arg, Callback, Reports
<1>2. t \in Timer /\ t.name = m /\ t.ref BY <1>1 DEF Timer
<1>3. c.sched \in Seq(Timer) BY SchedSeq
<1>4. q \in Seq(Timer) BY <1>1, <1>3, DisownType
<1>5. \A n : n \in others \cup {m} => ~Pending(c.sched, n)
  BY DEF OnlyPersistence, Pending
<1>6. \A n : Pending(q, n) <=> Pending(c.sched, n) BY <1>3, DisownPending
<1>7. d = told \/ d = timed BY DEF add_timer, schedule
<1> HIDE DEF q, m, t, others
<1>8. e \in Chan /\ e.sched = q /\ e.ev = c.ev /\ e.fault = c.fault /\ e.wire = c.wire
      /\ e.r2_state = c.r2_state /\ e.mf_group = c.mf_group
  BY <1>4 DEF Chan
<1> HIDE DEF e
<1>9. /\ told \in Chan /\ told.fault = e.fault /\ told.wire = e.wire
      /\ told.r2_state = e.r2_state /\ told.mf_group = e.mf_group /\ told.sched = e.sched
      /\ Made(told.ev, Overflow) /\ (Made(told.ev, Reports) => Made(e.ev, Reports))
  <2>1. told \in Chan BY <1>1, <1>8, EmitType
  <2>2. told.sched = e.sched /\ Made(told.ev, Overflow) /\ Same(e, told)
    BY <1>1, <1>8, EmitSame
  <2> HIDE DEF told
  <2> QED BY <2>1, <2>2 DEF Same, Near, Frame, Quiet
<1>10. Append(q, t) \in Seq(Timer) BY <1>2, <1>4, AppendType
<1>11. /\ timed \in Chan /\ timed.fault = e.fault /\ timed.wire = e.wire
       /\ timed.r2_state = e.r2_state /\ timed.mf_group = e.mf_group /\ timed.ev = e.ev
       /\ timed.sched = Append(q, t)
  BY <1>8, <1>10 DEF Chan
<1> HIDE DEF told, timed, d
<1>12. \A n : Pending(Append(q, t), n) <=> Pending(q, n) \/ t.name = n
  BY <1>2, <1>4, AppendPending
<1>13. Single(Append(q, t), m)
  <2>1. ~Pending(q, m) BY <1>5, <1>6
  <2> QED BY <1>2, <1>4, <2>1, AppendPending
<1>14. Pending(Append(q, t), m) BY <1>2, <1>12
<1>15. \A n \in others : ~Pending(q, n) /\ ~Pending(Append(q, t), n)
  BY <1>1, <1>2, <1>5, <1>6, <1>12
<1>16. /\ d \in Chan /\ d.fault = c.fault /\ d.wire = c.wire
       /\ d.r2_state = c.r2_state /\ d.mf_group = c.mf_group
       /\ Made(d.ev, Reports) => Made(c.ev, Reports)
       /\ Made(d.ev, Overflow) \/ (Single(d.sched, m) /\ Pending(d.sched, m))
       /\ \A n \in others : ~Pending(d.sched, n)
  BY <1>7, <1>8, <1>9, <1>11, <1>13, <1>14, <1>15
<1> QED BY <1>16 DEF d, m, others

\* openr2_proto_make_call.
LEMMA DialLeads ==
  ASSUME NEW w \in BOOLEAN, NEW c \in Start(w), NEW ani \in Seq(Digit), NEW known,
         NEW dnis \in Seq(Digit), NEW numeric, NEW restricted \in BOOLEAN
  PROVE  Leads(w, c, make_call(c, ani, known, dnis, numeric, restricted))
<1> DEFINE m == make_call(c, ani, known, dnis, numeric, restricted)
           seized == set_cas_signal(c, "SEIZE")
           taken == [seized EXCEPT !.r2_state = "SEIZE_TXD"]
           timed == add_timer(taken, "r2_seize")
           ptr == IF known THEN 1 ELSE 0
           cat == Ctx.g2.national_subscriber
           from == IF known THEN stored(ani) ELSE <<>>
           to == IF numeric THEN stored(dnis) ELSE <<>>
           old == IF numeric THEN <<>> ELSE timed.dnis_old
           call == [timed EXCEPT
                      !.ani = from, !.ani_ptr = ptr,
                      !.caller_ani_is_restricted = restricted,
                      !.dnis = to, !.dnis_old = old, !.dnis_index = 0,
                      !.call_state = "DIALING", !.direction = "FORWARD",
                      !.caller_category = cat]
           joined(g) == [call EXCEPT !.mf_group = g]
<1>1. CASE ~may_dial(c) BY <1>1 DEF make_call, Leads, Untold
<1>2. CASE may_dial(c)
  <2>1. c \in Untold /\ c \in Rest /\ c \in AtRest /\ c \in Chan
    <3>1. c \notin Fore(w) \cup Back BY <1>2, NoCall DEF may_dial
    <3> QED BY <3>1, RoleKinds DEF Start, Untold
  <2>2. /\ c.fault \subseteq Faults /\ ~Made(c.ev, Reports) /\ OnlyPersistence(c.sched)
        /\ c.mf_group = "NO_GROUP"
    BY <2>1 DEF Untold, Rest, Resting, AtRest
  <2>3. "SEIZE" \in CasSignal BY DEF CasSignal
  <2>4. /\ seized \in AtRest /\ Near(c, seized) /\ seized.sched = c.sched
        /\ seized.ev = c.ev /\ (IoFails(c) => seized.wire = c.wire)
        /\ LineOk => seized.wire = CAS.SEIZE
    BY <2>1, <2>2, <2>3, SetCas, SetCasNear
  <2>5. m \in Calm BY <2>1, Kinds, Dial
  <2>6. \/ (m = seized /\ IoFails(c)) \/ m = call
        \/ m = joined("FWD_INIT") \/ m = joined("DTMF_FWD_INIT")
    BY <1>2 DEF make_call
  <2> HIDE DEF m, seized
  <2>7. m = seized /\ IoFails(c) => m \in Rest
    BY <2>1, <2>4, RestSame DEF Near, Frame
  <2>8. seized \in Chan BY <2>4, Kinds
  <2>9. /\ "SEIZE_TXD" \in R2State \ IdleStates /\ "DIALING" \in ForeCalls
        /\ "SEIZE_TXD" \in Seizing /\ "SEIZE_TXD" \notin Clearing
    BY DEF R2State, IdleStates, ForeCalls, Seizing, Clearing
  <2>10. /\ taken \in Chan /\ taken.r2_state = "SEIZE_TXD" /\ taken.fault = seized.fault
         /\ taken.wire = seized.wire /\ taken.sched = seized.sched /\ taken.ev = seized.ev
         /\ taken.mf_group = seized.mf_group
    BY <2>8, <2>9 DEF Chan
  <2> HIDE DEF taken
  <2>11. OnlyPersistence(taken.sched) BY <2>2, <2>4, <2>10
  <2>12. /\ timed \in Chan /\ timed.fault = taken.fault /\ timed.wire = taken.wire
         /\ timed.r2_state = taken.r2_state /\ timed.mf_group = taken.mf_group
         /\ Made(timed.ev, Reports) => Made(taken.ev, Reports)
         /\ \/ Made(timed.ev, Overflow)
            \/ Single(timed.sched, "r2_seize") /\ Pending(timed.sched, "r2_seize")
         /\ ~Pending(timed.sched, "r2_seize_persist")
         /\ ~Pending(timed.sched, "r2_set_call_down")
         /\ ~Pending(timed.sched, "dtmf_start_dial")
    BY <2>10, <2>11, SeizeTimer
  <2> HIDE DEF timed
  <2>13. /\ timed.fault \subseteq Faults /\ ~Made(timed.ev, Reports)
         /\ timed.r2_state = "SEIZE_TXD" /\ timed.mf_group = "NO_GROUP"
         /\ LineOk => timed.wire = CAS.SEIZE
    BY <2>2, <2>4, <2>10, <2>12 DEF Near, Frame
  <2>17. from \in Seq(Digit) /\ to \in Number
    <3>1. <<>> \in Number BY MaxDigitsAssumption DEF Number
    <3>2. stored(ani) \in Seq(Digit) /\ stored(dnis) \in Number BY StoredFits
    <3> QED BY <3>1, <3>2
  <2>18. old \in Seq(Tone) BY <2>12 DEF Chan
  <2> HIDE DEF ptr, cat, from, to, old
  <2>14. ASSUME m # seized \/ ~IoFails(c)
         PROVE  m \in Fore(w)
    <3>1. /\ m.fault = timed.fault /\ m.wire = timed.wire /\ m.r2_state = timed.r2_state
          /\ m.ev = timed.ev /\ m.sched = timed.sched /\ m.call_state = "DIALING"
          /\ m.direction = "FORWARD"
          /\ m.mf_group \in {"NO_GROUP", "FWD_INIT", "DTMF_FWD_INIT"}
      <4>1. /\ "DIALING" \in CallState /\ "FORWARD" \in Direction
            /\ "FWD_INIT" \in MfGroup /\ "DTMF_FWD_INIT" \in MfGroup
        BY DEF CallState, Direction, MfGroup
      <4>2. ptr \in Nat /\ cat \in Tone /\ 0 \in Nat BY ForwardTones DEF ptr, cat
      <4>3. call \in Chan BY <2>12, <2>17, <2>18, <4>1, <4>2 DEF Chan
      <4>4. /\ call.fault = timed.fault /\ call.wire = timed.wire
            /\ call.r2_state = timed.r2_state /\ call.ev = timed.ev
            /\ call.sched = timed.sched /\ call.call_state = "DIALING"
            /\ call.direction = "FORWARD" /\ call.mf_group = timed.mf_group
        BY <2>12 DEF Chan
      <4> HIDE DEF call
      <4>5. m = call \/ m = [call EXCEPT !.mf_group = "FWD_INIT"]
            \/ m = [call EXCEPT !.mf_group = "DTMF_FWD_INIT"]
        BY <2>6, <2>14
      <4> QED BY <2>13, <4>3, <4>4, <4>5 DEF Chan
    <3>2. m \in Live BY <2>5, <3>1 DEF Calm, AtRest
    <3>3. GroupFits(m) /\ m.mf_group \in ForeGroups
      BY <3>1 DEF GroupFits, DialogueGroups, ForeGroups
    <3>4. Dialled(m) BY <2>9, <2>12, <2>13, <3>1, <3>3 DEF Dialled, WireOf
    <3>5. Made(m.ev, Overflow) \/ Watched(m.r2_state, m.sched)
      BY <2>9, <2>12, <2>13, <3>1 DEF Watched
    <3> QED BY <3>2, <3>4, <3>5 DEF Fore
  <2>15. m \in Rest \cup Fore(w) BY <2>7, <2>14
  <2>16. c \notin Fore(w) \cup Back BY <1>2, NoCall DEF may_dial
  <2>19. Leads(w, c, m) BY <2>15, <2>16 DEF Leads
  <2> QED BY <2>19 DEF m
<1> QED BY <1>1, <1>2

-----------------------------------------------------------------------------
(***************************************************************************)
(* DTMF in place of MF tones, and the double answer.                       *)
(***************************************************************************)
\* The MF engine of a call is released.
LEMMA TurnOffRoles ==
  ASSUME NEW w \in BOOLEAN, NEW c
  PROVE  /\ c \in Fore(w) => turn_off_mf_engine(c) \in Fore(w)
         /\ c \in Back => turn_off_mf_engine(c) \in Back
<1> DEFINE o == turn_off_mf_engine(c)
<1>1. ASSUME c \in Live
      PROVE  o \in Live /\ Near(c, o) /\ o.wire = c.wire /\ o.mf_state = "OFF"
  BY <1>1, TurnOffNear
<1> HIDE DEF o
<1>2. ASSUME c \in Fore(w)
      PROVE  o \in Fore(w)
  <2>1. Dialled(c) /\ c \in Live BY <1>2, ForeFacts
  <2>2. GroupFits(o) BY <1>1, <2>1 DEF Near, Dialled, GroupFits
  <2> QED BY <1>1, <1>2, <2>1, <2>2, ForeMove DEF Near, Dialled
<1>3. ASSUME c \in Back
      PROVE  o \in Back
  BY <1>1, <1>3, BackFacts, BackSame
<1> QED BY <1>2, <1>3 DEF o

\* handle_dtmf_end: the number is dialled, or was received.
LEMMA DtmfEndLeads ==
  ASSUME NEW w \in BOOLEAN, NEW c \in Fore(w) \cup Back
  PROVE  Leads(w, c, handle_dtmf_end(c))
<1> DEFINE o == turn_off_mf_engine(c)
           cat == Ctx.g2.national_subscriber
           n == [o EXCEPT !.caller_category = cat]
           d == handle_dtmf_end(c)
<1>1. d = IF c.direction = "FORWARD" THEN on_call_accepted(o, "UNKNOWN") ELSE OFFER_CALL(n)
  BY DEF handle_dtmf_end
<1>2. cat \in Tone BY ForwardTones
<1> HIDE DEF cat, d
<1>3. (c \in Fore(w) => o \in Fore(w)) /\ (c \in Back => o \in Back) BY TurnOffRoles
<1> HIDE DEF o
<1>4. c \in Back => n \in Back /\ c.direction = "BACKWARD"
  BY <1>2, <1>3, DigitsBack, NoCall
<1> HIDE DEF n
<1>5. c \in Fore(w) => c.direction = "FORWARD" BY NoCall
<1>6. c \in Back => OFFER_CALL(n) \in Back \cup Ended BY <1>4, OfferRoles
<1>7. c \in Fore(w) => on_call_accepted(o, "UNKNOWN") \in Fore(w) \cup Ended
  BY <1>3, AcceptedRoles DEF Mode
<1>8. c \notin Untold
  <2>1. c.direction # "STOPPED" BY NoCall
  <2> QED BY <2>1, NoCall DEF Untold
<1>9. Leads(w, c, d) BY <1>1, <1>4, <1>5, <1>6, <1>7, <1>8 DEF Leads
<1> QED BY <1>9 DEF d

\* on_dtmf_received.
LEMMA DtmfDigitLeads ==
  ASSUME NEW w \in BOOLEAN, NEW c \in Fore(w) \cup Back, c.detecting_dtmf,
         NEW digit \in Digit, NEW more \in BOOLEAN
  PROVE  Leads(w, c, on_dtmf_received(c, digit, more))
<1> DEFINE none == ""
           q == Append(c.dnis, digit)
           d == [c EXCEPT !.dnis = q]
           e == Emit(d, "on_dnis_digit_received", none)
           f == [e EXCEPT !.dnis_callback = more]
<1>1. none \in Arg BY Zenon DEF Arg
<1>2. on_dtmf_received(c, digit, more) = c \/ on_dtmf_received(c, digit, more) = f
  BY Zenon DEF on_dtmf_received
<1> HIDE DEF none
<1>3. c \in Live /\ c \in Chan BY RoleKinds
<1>4. c.dnis \in Seq(Digit) /\ Ctx.detect_dtmf BY <1>3 DEF Chan, Number
<1>5. q \in Number BY <1>4, AppendType DEF Number
<1> HIDE DEF q
<1>6. d \in Live /\ Same(c, d) /\ d.ev = c.ev
  BY <1>3, <1>5, LiveDigits, OtherSame DEF Chan
<1>7. c \notin AtRest BY <1>3 DEF AtRest, Live
<1> HIDE DEF d
<1>8. Keeps(w, c, d) BY <1>6, <1>7, SameKeeps
<1>9. "on_dnis_digit_received" \in Callback \ Reports BY DEF Callback, Reports
<1>10. d \in Calm /\ d \in Chan BY <1>6, Kinds
<1>11. Keeps(w, d, e) BY <1>1, <1>9, <1>10, EmitKeeps
<1>12. e \in Live BY <1>1, <1>6, <1>9, <1>10, EmitType
<1> HIDE DEF e
<1>13. f \in Live BY <1>12 DEF Live, Loose, Chan
<1>14. Same(e, f) /\ f.ev = e.ev
  <2>1. e \in Chan BY <1>12, Kinds
  <2> QED BY <2>1, OtherSame DEF Chan
<1>15. e \notin AtRest BY <1>12 DEF AtRest, Live
<1> HIDE DEF f
<1>16. Keeps(w, e, f) BY <1>13, <1>14, <1>15, SameKeeps
<1>17. Keeps(w, c, f)
  <2>1. Keeps(w, c, e) BY <1>8, <1>11, KeepsLeads
  <2> QED BY <1>16, <2>1, KeepsLeads
<1>18. Leads(w, c, f) BY <1>17, KeepsLeads
<1>19. Leads(w, c, c) BY DEF Leads, Untold
<1> QED BY <1>2, <1>18, <1>19

\* The first half of a double answer clears, the second answers again.
LEMMA DoubleAnswerLeads ==
  ASSUME NEW w \in BOOLEAN, NEW c
  PROVE  /\ c \in Fore(w) => double_answer_handler(c) \in Fore(w)
         /\ c \in Back => double_answer_handler(c) \in Back
<1> DEFINE bug == Emit(c, "library_bug", "r2_double_answer")
           b == send_clear_backward(c)
           x == [b EXCEPT !.r2_state = "EXECUTING_DOUBLE_ANSWER"]
           a == set_cas_signal(c, "ANSWER")
           y == [a EXCEPT !.r2_state = "ANSWER_TXD"]
<1>1. /\ "library_bug" \in Callback \ Reports /\ "r2_double_answer" \in Arg
      /\ "r2_double_answer" \in TimerName \ Supervisors
      /\ "r2_double_answer" # "dtmf_start_dial" /\ "ANSWER" \in CasSignal
      /\ "EXECUTING_DOUBLE_ANSWER" \in BackwardStates /\ "ANSWER_TXD" \in BackwardStates
      /\ "EXECUTING_DOUBLE_ANSWER" \in R2State \ IdleStates
      /\ "ANSWER_TXD" \in R2State \ IdleStates
  BY DEF Callback, Reports, Arg, TimerName, Supervisors, CasSignal, BackwardStates,
         R2State, IdleStates
<1>2. ASSUME c \in Fore(w)
      PROVE  double_answer_handler(c) \in Fore(w)
  <2>1. c.r2_state \notin {"ANSWER_TXD", "EXECUTING_DOUBLE_ANSWER"}
    BY <1>2, ForeFacts DEF Dialled, Talking, Seizing, Clearing
  <2>2. double_answer_handler(c) = bug BY <2>1 DEF double_answer_handler
  <2> QED BY <1>1, <1>2, <2>2, EmitRoles
<1>3. ASSUME c \in Back
      PROVE  double_answer_handler(c) \in Back
  <2>1. \/ double_answer_handler(c) = bug
        \/ double_answer_handler(c) = b
        \/ double_answer_handler(c) = add_timer(x, "r2_double_answer")
        \/ double_answer_handler(c) = a /\ IoFails(c)
        \/ double_answer_handler(c) = y /\ ~IoFails(c)
    BY DEF double_answer_handler
  <2>2. Received(c) /\ c \in Live /\ c \in Chan BY <1>3, BackFacts
  <2>3. b \in Back /\ b.r2_state = "CLEAR_BACK_TXD" BY <1>3, ClearBackwardBack
  <2>4. a \in Live /\ Near(c, a) /\ (IoFails(c) => a.wire = c.wire)
        /\ (LineOk => a.wire = CAS.ANSWER)
    BY <1>1, <2>2, SetCas, SetCasNear DEF Received
  <2> HIDE DEF b, a
  <2>5. x \in Back
    <3>1. Received(b) /\ b \in Live /\ b \in Chan BY <2>3, BackFacts
    <3>2. x \in Live BY <1>1, <3>1, LiveR2
    <3>3. /\ Frame(b, x) /\ x.r2_state = "EXECUTING_DOUBLE_ANSWER"
          /\ x.call_state = b.call_state /\ x.mf_group = b.mf_group /\ x.wire = b.wire
      BY <3>1, SetState
    <3> HIDE DEF x
    <3>4. LineOk => x.wire \in OnWire(x.r2_state) BY <2>3, <3>1, <3>3, BackBits DEF Received
    <3> QED BY <1>1, <2>3, <3>1, <3>2, <3>3, <3>4, BackMove DEF Received
  <2>6. IoFails(c) => ~LineOk BY <2>2 DEF IoFails, LineOk, Received
  <2>7. IoFails(c) => a \in Back
    BY <1>3, <2>2, <2>4, BackSame
  <2>8. y \in Back
    <3>1. a \in Chan BY <2>4, Kinds
    <3>2. y \in Live BY <1>1, <2>4, LiveR2
    <3>3. /\ Frame(a, y) /\ y.r2_state = "ANSWER_TXD"
          /\ y.call_state = a.call_state /\ y.mf_group = a.mf_group /\ y.wire = a.wire
      BY <3>1, SetState
    <3> HIDE DEF y
    <3>4. Frame(c, y) BY <2>4, <3>3, SameTrans
    <3>5. LineOk => y.wire \in OnWire(y.r2_state) BY <2>4, <3>3, BackBits
    <3>6. y.call_state \in BackCalls /\ y.mf_group \in BackGroups
      BY <2>2, <2>4, <3>3 DEF Near, Received
    <3> QED BY <1>1, <1>3, <3>2, <3>3, <3>4, <3>5, <3>6, BackMove
  <2> HIDE DEF x, y
  <2>9. TRUE \in BOOLEAN OBVIOUS
  <2>10. \A v \in BOOLEAN : bug \in Back /\ add_timer(x, "r2_double_answer") \in Back
    BY <1>1, <1>3, <2>5, EmitRoles, TimerRoles
  <2> QED BY <2>1, <2>3, <2>7, <2>8, <2>9, <2>10
<1> QED BY <1>2, <1>3

-----------------------------------------------------------------------------
(***************************************************************************)
(* Timers.                                                                 *)
(***************************************************************************)
\* The DTMF dialling of a call starts.
LEMMA StartDtmfRoles ==
  ASSUME NEW w \in BOOLEAN, NEW c
  PROVE  /\ c \in Fore(w) /\ Ctx.dial_with_dtmf => start_dialing_dtmf(c) \in Fore(w)
         /\ c \in Back => start_dialing_dtmf(c) \in Back
<1> DEFINE d == start_dialing_dtmf(c)
<1>1. ASSUME c \in Live
      PROVE  d \in Live /\ Near(c, d) /\ d.wire = c.wire
  <2>1. d \in Live BY <1>1, StartDtmf
  <2>2. c \in Chan BY <1>1, Kinds
  <2>3. /\ d.direction = c.direction /\ d.fault = c.fault /\ d.ev = c.ev
        /\ d.sched = c.sched /\ d.r2_state = c.r2_state /\ d.call_state = c.call_state
        /\ d.mf_group = c.mf_group /\ d.wire = c.wire
    BY <2>2 DEF Chan, start_dialing_dtmf
  <2> HIDE DEF d
  <2>4. Frame(c, d) BY <2>3, FrameFields
  <2> QED BY <2>1, <2>3, <2>4 DEF Near
<1> HIDE DEF d
<1>2. ASSUME c \in Fore(w), Ctx.dial_with_dtmf
      PROVE  d \in Fore(w)
  <2>1. Dialled(c) /\ c \in Live BY <1>2, ForeFacts
  <2>2. GroupFits(d) BY <1>1, <1>2, <2>1 DEF Near, Dialled, GroupFits
  <2> QED BY <1>1, <1>2, <2>1, <2>2, ForeMove DEF Near, Dialled
<1>3. ASSUME c \in Back
      PROVE  d \in Back
  BY <1>1, <1>3, BackFacts, BackSame
<1> QED BY <1>2, <1>3 DEF d

\* The timers of a dialled call that do not supervise it.
LEMMA RunFore ==
  ASSUME Orderly, NEW w \in BOOLEAN, NEW c \in Fore(w), NEW name \in TimerName \ Supervisors,
         name = "dtmf_start_dial" => Ctx.dial_with_dtmf, NEW l \in cas_r2_bits
  PROVE  run_timer(c, name, l) \in Fore(w) \cup Ended
<1>1. Open(c) BY RolesOpen
<1>2. /\ "FWD_SAFETY_TIMEOUT" \in ProtocolError /\ "BACK_MF_TIMEOUT" \in ProtocolError
      /\ "NO_ANSWER" \in Cause /\ "FORCED_RELEASE" \in Cause /\ "NORMAL_CLEARING" \in Cause
      /\ "UNKNOWN" \in Mode
  BY DEF ProtocolError, Cause, Mode
<1>3. mf_fwd_safety_timeout_expired(c) \in Ended
  BY <1>1, <1>2, ErrorEnds DEF mf_fwd_safety_timeout_expired
<1>4. mf_back_cycle_timeout_expired(c) \in Ended
  <2>1. c.mf_group # "GA" BY ForeFacts DEF Dialled, ForeGroups
  <2>2. mf_back_cycle_timeout_expired(c) = handle_protocol_error(c, "BACK_MF_TIMEOUT")
    BY <2>1 DEF mf_back_cycle_timeout_expired
  <2> QED BY <1>1, <1>2, <2>2, ErrorEnds
<1>5. /\ r2_answer_timeout_expired(c) \in Fore(w) \cup Ended
      /\ r2_metering_pulse(c) \in Fore(w) \cup Ended
  BY <1>2, FarHangUp DEF r2_answer_timeout_expired, r2_metering_pulse
<1>6. double_answer_handler(c) \in Fore(w) BY DoubleAnswerLeads
<1>7. mf_back_resume_cycle(c) \in Fore(w) \cup Ended
  <2>1. 0 \in Tone BY DEF Tone
  <2>2. set_silence(c) \in Fore(w) \cup Failed BY <2>1, ToneRoles
  <2> QED BY <2>2, RoleKinds DEF mf_back_resume_cycle
<1>8. r2_answer_delay_expired(c) \in Fore(w) \cup Ended
  BY <1>2, AcceptedRoles DEF r2_answer_delay_expired
<1>9. name = "dtmf_start_dial" => start_dialing_dtmf(c) \in Fore(w) BY StartDtmfRoles
<1>10. persistence_check_expired(c, l) \in Fore(w) \cup Ended
  BY CheckExpiredLeads DEF Start, Leads
<1> QED BY <1>3, <1>4, <1>5, <1>6, <1>7, <1>8, <1>9, <1>10
        DEF run_timer, TimerName, Supervisors

\* The timers of a received call.
LEMMA RunBack ==
  ASSUME Orderly, NEW c \in Back, NEW name \in TimerName \ Supervisors, NEW l \in cas_r2_bits
  PROVE  run_timer(c, name, l) \in Back \cup Ended
<1>1. Open(c) BY RolesOpen
<1>2. /\ "FWD_SAFETY_TIMEOUT" \in ProtocolError /\ "UNKNOWN" \in Mode
      /\ "NO_ANSWER" \in Cause /\ "FORCED_RELEASE" \in Cause /\ "NORMAL_CLEARING" \in Cause
  BY DEF ProtocolError, Cause, Mode
<1>3. TRUE \in BOOLEAN /\ 0 \in Tone BY DEF Tone
<1>4. mf_fwd_safety_timeout_expired(c) \in Ended
  BY <1>1, <1>2, ErrorEnds DEF mf_fwd_safety_timeout_expired
<1>5. \A w \in BOOLEAN : /\ r2_answer_timeout_expired(c) \in Back \cup Ended
                         /\ r2_metering_pulse(c) \in Back \cup Ended
  BY <1>2, FarHangUp DEF r2_answer_timeout_expired, r2_metering_pulse
<1>6. \A w \in BOOLEAN : /\ double_answer_handler(c) \in Back
                         /\ start_dialing_dtmf(c) \in Back
  BY DoubleAnswerLeads, StartDtmfRoles
<1>7. mf_back_resume_cycle(c) \in Back \cup Ended
  <2>1. set_silence(c) \in Back \cup Failed BY <1>3, ToneBack
  <2>2. \A w \in BOOLEAN : Failed \subseteq Ended BY RoleKinds
  <2> QED BY <1>3, <2>1, <2>2 DEF mf_back_resume_cycle
<1>8. \A w \in BOOLEAN : r2_answer_delay_expired(c) \in Back
  BY <1>2, AcceptedRoles DEF r2_answer_delay_expired
<1>9. \A w \in BOOLEAN : persistence_check_expired(c, l) \in Back \cup Ended
  BY CheckExpiredLeads DEF Start, Leads
<1>10. mf_back_cycle_timeout_expired(c) \in Back \cup Ended BY BackCycleBack
<1> QED BY <1>3, <1>4, <1>5, <1>6, <1>7, <1>8, <1>9, <1>10
        DEF run_timer, TimerName, Supervisors

\* The supervisors: a seizure that was not answered, one that is to be given
\* up after glare, and a clear forward that was not answered.
LEMMA RunSupervisor ==
  ASSUME NEW w \in BOOLEAN, NEW c \in Unwatched(w), NEW name \in Supervisors, NEW l
  PROVE  run_timer(c, name, l) \in Fore(w) \cup Ended
<1>1. Open(c) BY RolesOpen
<1>2. seize_timeout_expired(c) \in Ended
  BY <1>1, ErrorEnds DEF seize_timeout_expired, ProtocolError
<1>3. r2_set_call_down(c) \in Ended BY <1>1, CallEndEnds DEF r2_set_call_down
<1>4. r2_seize_persist_expired(c) \in Fore(w) BY ClearForwardFore DEF r2_seize_persist_expired
<1> QED BY <1>2, <1>3, <1>4 DEF run_timer, Supervisors

\* openr2_chan_handle_timers with one expired timer.
LEMMA ExpireLeads ==
  ASSUME Orderly, NEW w \in BOOLEAN, NEW c \in Start(w), NEW i \in 1..Len(c.sched),
         NEW l \in cas_r2_bits
  PROVE  Leads(w, c, expire_one(c, i, l))
<1> DEFINE r == RemoveTimer(c.sched, i)
           d == [c EXCEPT !.sched = r]
           name == c.sched[i].name
           e == run_timer(d, name, l)
<1>1. expire_one(c, i, l) = e BY DEF expire_one
<1>2. c \in Calm /\ c \in Chan BY StartCalm, Kinds
<1>3. c.sched \in Seq(Timer) BY <1>2, SchedSeq
<1>4. r \in Seq(Timer) BY <1>3, RemoveTimerType
<1>5. name \in TimerName
  <2>1. c.sched[i] \in Timer BY <1>3
  <2> QED BY <2>1 DEF Timer
<1>6. Pending(c.sched, name) BY DEF Pending
<1>7. name \notin Supervisors => Kept(c.sched, r) BY <1>3, RemoveKept
<1>8. \A n : Pending(r, n) => Pending(c.sched, n) BY <1>3, RemovePending
<1>9. Single(c.sched, "r2_seize") => Single(r, "r2_seize") BY <1>3, RemovePending
<1>10. c \in AtRest => name = "cas_persistence_check" /\ OnlyPersistence(r)
  <2>1. c \in AtRest => OnlyPersistence(c.sched) BY DEF AtRest
  <2>2. c \in AtRest => OnlyPersistence(r) BY <1>3, <2>1, RemoveOnly
  <2> QED BY <2>1, <2>2 DEF OnlyPersistence
<1> HIDE DEF r, name
<1>11. (c \in Live => d \in Live) /\ (c \in AtRest => d \in AtRest)
  BY <1>4, <1>10, LiveSched, AtRestSched
<1>12. d.sched = r /\ d.ev = c.ev /\ (Kept(c.sched, r) => Same(c, d))
  BY <1>2, <1>4, SchedSame
<1>13. /\ d.direction = c.direction /\ d.fault = c.fault /\ d.r2_state = c.r2_state
       /\ d.call_state = c.call_state /\ d.mf_group = c.mf_group /\ d.wire = c.wire
       /\ d.mf_state = c.mf_state
  BY <1>2 DEF Chan
<1> HIDE DEF d
<1>14. name \notin Supervisors => Keeps(w, c, d) BY <1>7, <1>11, <1>12, SameKeeps
<1>15. c \in Fore(w) => e \in Fore(w) \cup Ended
  <2> SUFFICES ASSUME c \in Fore(w) PROVE e \in Fore(w) \cup Ended OBVIOUS
  <2>1. Dialled(c) /\ c \in Live BY ForeFacts
  <2>2. CASE name \in Supervisors
    <3>1. Dialled(d) BY <1>8, <1>12, <1>13, <2>1 DEF Dialled, GroupFits
    <3>2. w => Made(d.ev, Overflow) \/ Single(d.sched, "r2_seize")
      BY <1>9, <1>12 DEF Fore, Watched
    <3>3. d \in Unwatched(w) BY <1>11, <2>1, <3>1, <3>2 DEF Unwatched
    <3> QED BY <2>2, <3>3, RunSupervisor
  <2>3. CASE name \notin Supervisors
    <3>1. d \in Fore(w) BY <1>14, <2>3 DEF Keeps
    <3>2. name = "dtmf_start_dial" => Ctx.dial_with_dtmf BY <1>6, <2>1 DEF Dialled
    <3> QED BY <1>5, <2>3, <3>1, <3>2, RunFore
  <2> QED BY <2>2, <2>3
<1>16. c \in Back => e \in Back \cup Ended
  <2> SUFFICES ASSUME c \in Back PROVE e \in Back \cup Ended OBVIOUS
  <2>1. name \notin Supervisors BY <1>6, BackFacts DEF Received
  <2>2. d \in Back BY <1>14, <2>1 DEF Keeps
  <2> QED BY <1>5, <2>1, <2>2, RunBack
<1>17. c \in Untold => e \in Fore(w) \cup Back \cup Rest
  <2> SUFFICES ASSUME c \in Untold PROVE e \in Fore(w) \cup Back \cup Rest OBVIOUS
  <2>1. name = "cas_persistence_check" BY <1>10, RoleKinds DEF Untold
  <2>2. name \notin Supervisors BY <2>1 DEF Supervisors
  <2>3. d \in Untold BY <1>14, <2>2 DEF Keeps
  <2>4. d \in Start(w) BY <2>3 DEF Start
  <2>5. e = persistence_check_expired(d, l) BY <2>1 DEF run_timer
  <2>6. Leads(w, d, persistence_check_expired(d, l)) BY <2>4, CheckExpiredLeads
  <2> QED BY <2>3, <2>5, <2>6 DEF Leads
<1> HIDE DEF e
<1>18. Leads(w, c, e) BY <1>15, <1>16, <1>17 DEF Leads
<1> QED BY <1>1, <1>18

-----------------------------------------------------------------------------
(***************************************************************************)
(* The user.                                                               *)
(***************************************************************************)
\* Accepting and disconnecting.
LEMMA AcceptLeads ==
  ASSUME NEW w \in BOOLEAN, NEW c \in Start(w), NEW mode \in Mode, NEW cause
  PROVE  Leads(w, c, accept_call(c, mode)) /\ Leads(w, c, disconnect_call(c, cause))
<1> DEFINE a == accept_call(c, mode)
           d == disconnect_call(c, cause)
<1>1. /\ c \in Back => a \in Back \cup Ended
      /\ c \in Fore(w) \cup Rest => a = c
  BY AcceptRoles, RoleKinds
<1>2. /\ c \in Fore(w) => d \in Fore(w) \cup Ended
      /\ c \in Back => d \in Back \cup Ended
      /\ c \in AtRest => d = c
  BY DisconnectRoles
<1>3. c \in Untold => c \in Rest /\ c \in AtRest BY RoleKinds DEF Untold
<1> HIDE DEF a, d
<1>4. Leads(w, c, a) BY <1>1, <1>3 DEF Leads
<1>5. Leads(w, c, d) BY <1>2, <1>3 DEF Leads
<1> QED BY <1>4, <1>5 DEF a, d

\* Answering.
LEMMA AnswerLeads ==
  ASSUME Orderly, NEW w \in BOOLEAN, NEW c \in Start(w),
         AnswerEarly \/ c.call_state \in {"OFFERED", "ACCEPTED"}, NEW double
  PROVE  Leads(w, c, answer_call(c, double))
<1>1. c \in Back => answer_call(c, double) \in Back BY AnswerBack
<1>2. ASSUME c \notin Back
      PROVE  answer_call(c, double) = c
  <2>1. c \in Fore(w) => c.call_state \in ForeCalls BY ForeFacts DEF Dialled
  <2>2. c \in Untold => c.call_state = "IDLE" BY NoCall DEF Untold
  <2>3. c.call_state \notin {"OFFERED", "ACCEPTED"}
    BY <1>2, <2>1, <2>2 DEF Start, ForeCalls
  <2>4. ~IS_DTMF_R2 BY <2>3 DEF Orderly
  <2> QED BY <2>3, <2>4 DEF answer_call
<1>3. Leads(w, c, c) BY DEF Leads, Untold
<1>4. CASE c \in Back
  <2>1. c \notin Fore(w) /\ c \notin Untold BY <1>4, NoCall DEF Untold
  <2> QED BY <1>1, <1>4, <2>1 DEF Leads
<1> QED BY <1>2, <1>3, <1>4

\* openr2_chan_ack_seize by a user who has switched the library's own
\* acknowledgement off.
LEMMA AckLeads ==
  ASSUME ~Ctx.auto_seize_ack, NEW w \in BOOLEAN, NEW c \in Start(w)
  PROVE  Leads(w, c, ack_call(c))
<1> DEFINE d == set_cas_signal(c, "SEIZE_ACK")
           error == handle_protocol_error(d, "INTERNAL_ERROR")
           r == ack_call(c)
<1>1. "SEIZE_ACK" \in CasSignal /\ "INTERNAL_ERROR" \in ProtocolError
  BY DEF CasSignal, ProtocolError
<1>2. c \in Calm /\ c \in Chan BY StartCalm, Kinds
<1>3. /\ (c \in Live => d \in Live) /\ (c \in AtRest => d \in AtRest)
      /\ Near(c, d) /\ d.mf_state = c.mf_state /\ d.sched = c.sched /\ d.ev = c.ev
  BY <1>1, <1>2, SetCas, SetCasNear
<1>4. r = error \/ r = d BY DEF ack_call
<1> HIDE DEF d, r
<1>5. ~LineOk BY DEF LineOk
<1>6. /\ d.fault = c.fault /\ d.direction = c.direction /\ d.r2_state = c.r2_state
      /\ d.call_state = c.call_state /\ d.mf_group = c.mf_group
  BY <1>3 DEF Near, Frame
<1>7. ASSUME c \in Fore(w)
      PROVE  d \in Fore(w) /\ error \in Ended
  <2>1. Dialled(c) /\ c \in Live BY <1>7, ForeFacts
  <2>2. Dialled(d) BY <1>3, <1>5, <1>6, <2>1 DEF Dialled, GroupFits
  <2>3. d \in Fore(w) BY <1>3, <1>6, <1>7, <2>1, <2>2 DEF Fore
  <2> QED BY <1>1, <2>3, RolesOpen, ErrorEnds
<1>8. ASSUME c \in Back
      PROVE  d \in Back /\ error \in Ended
  <2>1. Received(c) /\ c \in Live BY <1>8, BackFacts
  <2>2. Received(d) BY <1>3, <1>5, <1>6, <2>1 DEF Received
  <2>3. d \in Back BY <1>3, <2>1, <2>2 DEF Back
  <2>4. Open(d) BY <2>3, RolesOpen
  <2> QED BY <1>1, <2>3, <2>4, ErrorEnds
<1>9. ASSUME c \in Untold
      PROVE  d \in Rest /\ error \in Rest
  <2>1. c \in Rest /\ c \in AtRest BY <1>9, RoleKinds DEF Untold
  <2>2. d \in Rest BY <1>3, <1>5, <1>6, <2>1 DEF Rest, Resting
  <2> QED BY <1>1, <2>2, RestError
<1> HIDE DEF error
<1>10. Leads(w, c, r) BY <1>4, <1>7, <1>8, <1>9 DEF Leads
<1> QED BY <1>10 DEF r

-----------------------------------------------------------------------------
(***************************************************************************)
(* The channel on its line.                                                *)
(***************************************************************************)
\* Between two handlers a channel has dialled a call, has received one, or
\* has none.
Roles(w) == Fore(w) \cup Back \cup Rest \cup Ended

RoleInv(w) == chan \in Roles(w) /\ line \in cas_r2_bits

\* Forgetting the callbacks of the last step, and a layer below that fails or
\* recovers.
Recovers(c, f) == [c EXCEPT !.ev = <<>>, !.fault = f]

\* A step starts in the role in which the last one ended; only the
\* supervision needs a last step in which no timer was refused.
LEMMA FreshStarts ==
  ASSUME NEW w \in BOOLEAN, NEW c \in Roles(w), w => ~Made(c.ev, Overflow),
         NEW f, f = c.fault \/ f \in SUBSET Faults
  PROVE  LET d == Recovers(c, f)
         IN  /\ d \in Start(w) /\ d.ev = <<>> /\ d.call_state = c.call_state
             /\ d.mf_state = c.mf_state /\ d.sched = c.sched /\ d.inalarm = c.inalarm
             /\ d.mf_read_tone = c.mf_read_tone
             /\ d.dialing_dtmf = c.dialing_dtmf /\ d.detecting_dtmf = c.detecting_dtmf
<1> DEFINE d == Recovers(c, f)
<1>1. c \in Chan /\ c.fault \subseteq Faults
  BY RoleKinds DEF Roles, Fore, Dialled, Back, Received, Rest, Ended, Resting
<1>2. f \subseteq Faults /\ f \in SUBSET {"io", "mf"} /\ <<>> \in Seq(Event)
  <2>1. Faults \subseteq {"io", "mf"} BY LineAssumption
  <2>2. f \subseteq Faults BY <1>1
  <2> QED BY <2>1, <2>2
<1>3. d \in Chan BY <1>1, <1>2 DEF Chan, Recovers
<1>4. c \in Live => d \in Live BY <1>3 DEF Live, Loose, Chan, Recovers
<1>5. c \in AtRest => d \in AtRest BY <1>3 DEF AtRest, Loose, Chan, Recovers
<1>6. /\ d.ev = <<>> /\ d.fault = f /\ d.direction = c.direction
      /\ d.r2_state = c.r2_state /\ d.call_state = c.call_state
      /\ d.mf_group = c.mf_group /\ d.mf_state = c.mf_state
      /\ d.sched = c.sched /\ d.wire = c.wire
  BY <1>1 DEF Chan, Recovers
<1>7. /\ d.inalarm = c.inalarm /\ d.mf_read_tone = c.mf_read_tone
      /\ d.dialing_dtmf = c.dialing_dtmf /\ d.detecting_dtmf = c.detecting_dtmf
  BY <1>1 DEF Chan, Recovers
<1> HIDE DEF d
<1>8. \A cbs : ~Made(d.ev, cbs) BY <1>6 DEF Made
<1>9. c \in Fore(w) => d \in Fore(w)
  <2> SUFFICES ASSUME c \in Fore(w) PROVE d \in Fore(w) OBVIOUS
  <2>1. Dialled(c) /\ c \in Live BY ForeFacts
  <2>2. Dialled(d) BY <1>2, <1>6, <1>8, <2>1 DEF Dialled, GroupFits
  <2>3. w => Watched(d.r2_state, d.sched) BY <1>6 DEF Fore
  <2> QED BY <1>4, <2>1, <2>2, <2>3 DEF Fore
<1>10. c \in Back => d \in Back
  <2> SUFFICES ASSUME c \in Back PROVE d \in Back OBVIOUS
  <2>1. Received(c) /\ c \in Live BY BackFacts
  <2>2. Received(d) BY <1>2, <1>6, <1>8, <2>1 DEF Received
  <2> QED BY <1>4, <2>1, <2>2 DEF Back
<1>11. c \in Rest \cup Ended => d \in Untold
  <2> SUFFICES ASSUME c \in Rest \cup Ended PROVE d \in Untold OBVIOUS
  <2>1. c \in AtRest /\ Resting(c) BY DEF Rest, Ended
  <2>2. Resting(d) BY <1>2, <1>6, <2>1 DEF Resting
  <2> QED BY <1>5, <1>8, <2>1, <2>2 DEF Untold, Rest
<1>12. d \in Start(w) BY <1>9, <1>10, <1>11 DEF Roles, Start
<1> QED BY <1>6, <1>7, <1>12 DEF d

\* The same for the operator of R2Line.
LEMMA FreshRole ==
  ASSUME NEW w \in BOOLEAN, chan \in Roles(w), w => ~Made(chan.ev, Overflow)
  PROVE  /\ Fresh \in Start(w) /\ Fresh.ev = <<>> /\ Fresh.call_state = chan.call_state
         /\ Fresh.mf_state = chan.mf_state /\ Fresh.sched = chan.sched
         /\ Fresh.inalarm = chan.inalarm
         /\ Fresh.dialing_dtmf = chan.dialing_dtmf
         /\ Fresh.detecting_dtmf = chan.detecting_dtmf
         /\ chan \in Chan
<1>1. chan \in Chan BY RoleKinds DEF Roles, Rest, Ended
<1>2. Fresh = Recovers(chan, chan.fault) BY <1>1 DEF Chan, Fresh, Recovers
<1> DEFINE f == chan.fault
<1>3. f = chan.fault OBVIOUS
<1> HIDE DEF f
<1>4. Fresh = Recovers(chan, f) BY <1>2, <1>3
<1> QED BY <1>1, <1>3, <1>4, FreshStarts

\* A user who resets the line.
Resets == /\ ResetInCall \/ chan.call_state = "IDLE"
          /\ chan' \in Rest /\ chan'.ev = <<>>

\* A layer below fails or recovers.
FaultStep(w) == /\ chan' \in Start(w) /\ chan'.ev = <<>>
                /\ chan'.call_state = chan.call_state

\* What a step of the line does.
Moves(w) == /\ Leads(w, Fresh, chan') \/ FaultStep(w) \/ Resets
            /\ line' \in cas_r2_bits

\* Every step leads from a role to the same role or to none.
LEMMA StepLeads ==
  ASSUME Orderly, NEW w \in BOOLEAN, RoleInv(w), w => ~Made(chan.ev, Overflow), Next
  PROVE  Moves(w)
<1>0. /\ Fresh \in Start(w) /\ Fresh.ev = <<>> /\ Fresh.call_state = chan.call_state
      /\ Fresh.mf_state = chan.mf_state /\ Fresh.sched = chan.sched
      /\ Fresh.inalarm = chan.inalarm
      /\ Fresh.dialing_dtmf = chan.dialing_dtmf
      /\ Fresh.detecting_dtmf = chan.detecting_dtmf
      /\ chan \in Chan /\ line \in cas_r2_bits /\ chan \in Roles(w)
  BY FreshRole DEF RoleInv
<1>a. Fresh.dialing_dtmf \/ Fresh.detecting_dtmf => Fresh \in Fore(w) \cup Back
  BY <1>0 DEF Start, Untold, Rest, AtRest
<1>1. CASE LineChanges
  <2>1. Leads(w, Fresh, Fresh) BY DEF Leads, Untold
  <2>2. chan' = Fresh /\ line' \in LinePatterns BY <1>1 DEF LineChanges
  <2>3. LinePatterns \subseteq cas_r2_bits BY LineAssumption
  <2> QED BY <2>1, <2>2, <2>3 DEF Moves
<1>2. CASE ToneStarts
  <2>1. FarEndTones \subseteq Tone BY LineAssumption DEF FarEndTones
  <2>2. PICK tone \in FarEndTones, more \in BOOLEAN :
          chan' = handle_mf_tone(Fresh, tone, more)
    BY <1>2 DEF ToneStarts
  <2>3. Fresh.mf_state # "OFF" /\ line' = line BY <1>0, <1>2 DEF ToneStarts, Listening
  <2>4. tone \in Tone BY <2>1
  <2>5. Leads(w, Fresh, chan') BY <1>0, <2>2, <2>3, <2>4, ToneLeads
  <2> QED BY <1>0, <2>3, <2>5 DEF Moves
<1>3. CASE ToneStops
  <2>1. 0 \in Tone BY DEF Tone
  <2>2. Fresh.mf_state # "OFF" /\ line' = line /\ chan' = handle_mf_tone(Fresh, 0, FALSE)
    BY <1>0, <1>3 DEF ToneStops, Listening
  <2>3. Leads(w, Fresh, chan') BY <1>0, <2>1, <2>2, ToneLeads
  <2> QED BY <1>0, <2>2, <2>3 DEF Moves
<1>4. CASE DtmfDigit
  <2>1. 1 \in Digit BY DEF Digit
  <2>2. PICK more \in BOOLEAN : chan' = on_dtmf_received(Fresh, 1, more)
    BY <1>4 DEF DtmfDigit
  <2>3. Fresh \in Fore(w) \cup Back /\ Fresh.detecting_dtmf /\ line' = line
    BY <1>0, <1>a, <1>4 DEF DtmfDigit
  <2>4. Leads(w, Fresh, chan') BY <2>1, <2>2, <2>3, DtmfDigitLeads
  <2> QED BY <1>0, <2>3, <2>4 DEF Moves
<1>5. CASE MakeCall
  <2>1. PICK call \in Calls :
          chan' = make_call(Fresh, call.ani, call.known, call.dnis, call.numeric,
                            call.restricted)
    BY <1>5 DEF MakeCall
  <2>2. call \in [ani : Seq(Digit), known : BOOLEAN, dnis : Seq(Digit),
                  numeric : BOOLEAN, restricted : BOOLEAN]
    BY LineAssumption
  <2>3. call.ani \in Seq(Digit) /\ call.dnis \in Seq(Digit) /\ call.restricted \in BOOLEAN
    BY <2>2
  <2>4. Leads(w, Fresh, chan') BY <1>0, <2>1, <2>3, DialLeads
  <2> QED BY <1>0, <1>5, <2>4 DEF MakeCall, Moves
<1>6. CASE AcceptCall
  <2>1. PICK mode \in Modes : chan' = accept_call(Fresh, mode) BY <1>6 DEF AcceptCall
  <2>2. mode \in Mode BY LineAssumption
  <2>3. \A cause : Leads(w, Fresh, chan') BY <1>0, <2>1, <2>2, AcceptLeads
  <2> QED BY <1>0, <1>6, <2>3 DEF AcceptCall, Moves
<1>7. CASE AnswerCall
  <2>1. PICK double \in BOOLEAN : chan' = answer_call(Fresh, double)
    BY <1>7 DEF AnswerCall
  <2>2. AnswerEarly \/ Fresh.call_state \in {"OFFERED", "ACCEPTED"}
    BY <1>0, <1>7 DEF AnswerCall
  <2>3. Leads(w, Fresh, chan') BY <1>0, <2>1, <2>2, AnswerLeads
  <2> QED BY <1>0, <1>7, <2>3 DEF AnswerCall, Moves
<1>8. CASE DisconnectCall
  <2>1. PICK cause \in Causes : chan' = disconnect_call(Fresh, cause)
    BY <1>8 DEF DisconnectCall
  <2>2. "UNKNOWN" \in Mode BY DEF Mode
  <2>3. Leads(w, Fresh, chan') BY <1>0, <2>1, <2>2, AcceptLeads
  <2> QED BY <1>0, <1>8, <2>3 DEF DisconnectCall, Moves
<1>9. CASE AckCall
  <2>1. Leads(w, Fresh, chan') BY <1>0, <1>9, AckLeads DEF AckCall
  <2> QED BY <1>0, <1>9, <2>1 DEF AckCall, Moves
<1>10. CASE SetIdle \/ SetBlocked
  <2>1. Fresh \in Loose BY <1>0, StartCalm, Kinds
  <2>2. Fresh.fault \subseteq Faults
    BY <1>0 DEF Start, Fore, Dialled, Back, Received, Untold, Rest, Resting
  <2>3. ~Made(Fresh.ev, Reports) BY <1>0 DEF Made
  <2>4. set_idle(Fresh) \in Rest /\ set_blocked(Fresh) \in Rest
    BY <2>1, <2>2, <2>3, ResetRests DEF Untold
  <2>5. set_idle(Fresh).ev = <<>> /\ set_blocked(Fresh).ev = <<>>
    BY <1>0, <2>1, <2>2, SetIdleKeeps, SetBlockedKeeps
  <2>6. Resets BY <1>10, <2>4, <2>5 DEF SetIdle, SetBlocked, MayReset, Resets
  <2> QED BY <1>0, <1>10, <2>6 DEF SetIdle, SetBlocked, Moves
<1>11. CASE Timers
  <2>1. PICK i \in 1..Len(chan.sched) : chan' = expire_one(Fresh, i, line)
    BY <1>11 DEF Timers, TimerExpires
  <2>2. line' = line BY <1>11 DEF Timers, TimerExpires
  <2>3. i \in 1..Len(Fresh.sched) BY <1>0
  <2>4. Leads(w, Fresh, chan') BY <1>0, <2>1, <2>3, ExpireLeads
  <2> QED BY <1>0, <2>2, <2>4 DEF Moves
<1>12. CASE CasEvent
  <2>1. Leads(w, Fresh, chan') BY <1>0, <1>12, HandleCasLeads DEF CasEvent
  <2> QED BY <1>0, <1>12, <2>1 DEF CasEvent, Moves
<1>13. CASE AlarmChanges
  <2>1. chan' = handle_alarm_event(Fresh, ~Fresh.inalarm, line) /\ line' = line
    BY <1>0, <1>13 DEF AlarmChanges
  <2>2. Leads(w, Fresh, chan') BY <1>0, <2>1, AlarmLeads
  <2> QED BY <1>0, <2>1, <2>2 DEF Moves
<1>14. CASE FaultChanges
  <2>1. PICK f \in SUBSET Faults : chan' = [Fresh EXCEPT !.fault = f]
    BY <1>14 DEF FaultChanges
  <2>2. chan' = Recovers(chan, f) BY <1>0, <2>1 DEF Chan, Fresh, Recovers
  <2>3. w => ~Made(chan.ev, Overflow) OBVIOUS
  <2>4. FaultStep(w) BY <1>0, <2>2, <2>3, FreshStarts DEF FaultStep
  <2> QED BY <1>0, <1>14, <2>4 DEF FaultChanges, Moves
<1>15. CASE DtmfEnd
  <2>1. Fresh \in Fore(w) \cup Back BY <1>0, <1>a, <1>15 DEF DtmfEnd
  <2>2. Leads(w, Fresh, chan') BY <1>15, <2>1, DtmfEndLeads DEF DtmfEnd
  <2> QED BY <1>0, <1>15, <2>2 DEF DtmfEnd, Moves
<1> QED
  BY <1>1, <1>2, <1>3, <1>4, <1>5, <1>6, <1>7, <1>8, <1>9, <1>10, <1>11, <1>12,
     <1>13, <1>14, <1>15 DEF Next, FarEnd, User

-----------------------------------------------------------------------------
(***************************************************************************)
(* The inductive invariant and what follows from it.                       *)
(***************************************************************************)
\* A channel just created has no call.
LEMMA InitRoles == ASSUME Orderly, NEW w \in BOOLEAN, Init PROVE RoleInv(w)
<1> DEFINE c == [chan_new EXCEPT !.inalarm = TRUE]
<1>1. chan_new \in AtRest /\ c \in AtRest BY NewRests
<1>2. /\ chan_new.r2_state = "INIT" /\ chan_new.fault = {} /\ chan_new.ev = <<>>
      /\ c.r2_state = "INIT" /\ c.fault = {} /\ c.ev = <<>>
      /\ c.inalarm /\ c.call_state = "IDLE" /\ chan_new.wire = 0 /\ c.wire = 0
  BY DEF chan_new
<1>3. 0 \in cas_r2_bits BY DEF cas_r2_bits
<1>4. line \in cas_r2_bits
  <2>1. LinePatterns \subseteq cas_r2_bits BY LineAssumption
  <2> QED BY <2>1 DEF Init
<1> HIDE DEF c
<1>5. Resting(chan_new) /\ Resting(c) BY <1>2, <1>3, RestBits DEF Resting
<1>6. \A cbs : ~Made(chan_new.ev, cbs) /\ ~Made(c.ev, cbs) BY <1>2 DEF Made
<1>7. chan_new \in Rest /\ c \in Rest BY <1>1, <1>5, <1>6 DEF Rest
<1>8. c \in Loose /\ c.fault \subseteq Faults BY <1>1, <1>2, Kinds
<1>9. handle_alarm_state(c, line) \in Rest
  BY <1>2, <1>4, <1>6, <1>7, <1>8, AlarmStateRoles
<1>10. chan \in Rest BY <1>7, <1>9 DEF Init, c
<1> QED BY <1>4, <1>10 DEF RoleInv, Roles

\* Every step leads from a role to a role.
LEMMA NextRoles ==
  ASSUME Orderly, NEW w \in BOOLEAN, RoleInv(w), w => ~Made(chan.ev, Overflow),
         [Next]_vars
  PROVE  RoleInv(w)'
<1>1. CASE UNCHANGED vars BY <1>1 DEF vars, RoleInv
<1>2. CASE Next
  <2>1. Moves(w) BY <1>2, StepLeads
  <2>2. Fresh \in Start(w)
    <3>1. chan \in Roles(w) BY DEF RoleInv
    <3> QED BY <3>1, FreshRole
  <2>3. Start(w) \subseteq Roles(w) BY DEF Start, Roles, Untold
  <2>4. chan' \in Roles(w)
    BY <2>1, <2>2, <2>3 DEF Moves, Leads, Start, Roles, FaultStep, Resets
  <2> QED BY <2>1, <2>4 DEF Moves, RoleInv
<1> QED BY <1>1, <1>2

\* The states of the roles are disjoint, and so are those of no call.
LEMMA StatesApart ==
  /\ ForwardStates = Seizing \cup Clearing \cup {"DOUBLE_SEIZURE_CLEAR_FWD_PENDING"}
                     \cup (Talking \ {"CLEAR_FWD_RXD"})
  /\ ForwardStates \cap BackwardStates = {} /\ "CLEAR_FWD_RXD" \notin BackwardStates
  /\ IdleStates \cap (ForwardStates \cup BackwardStates) = {}
BY DEF ForwardStates, BackwardStates, IdleStates, Seizing, Clearing, Talking

\* Between any two handlers a channel has dialled a call, has received one, or
\* has none.
THEOREM RolesInvariance == ASSUME Orderly PROVE Spec => []RoleInv(FALSE)
<1>1. FALSE \in BOOLEAN OBVIOUS
<1>2. Init => RoleInv(FALSE) BY <1>1, InitRoles
<1>3. RoleInv(FALSE) /\ [Next]_vars => RoleInv(FALSE)' BY <1>1, NextRoles
<1> QED BY <1>2, <1>3, PTL DEF Spec

\* RolesAgree for every context, far end and user: no order of tones, patterns,
\* timers, alarms and API calls takes a dialled call into a state, a call state
\* or an MF group of a received one, glare and failures below included.
THEOREM RolesNeverMix == ASSUME Orderly PROVE Spec => []RolesAgree
<1>1. RoleInv(FALSE) => RolesAgree
  <2> SUFFICES ASSUME RoleInv(FALSE) PROVE RolesAgree OBVIOUS
  <2>1. CASE chan \in Fore(FALSE)
    <3>1. Dialled(chan) BY <2>1, ForeFacts
    <3>2. chan.r2_state \notin BackwardStates
      BY <3>1, StatesApart DEF Dialled, Talking, Seizing, Clearing, BackwardStates
    <3> QED BY <3>1, <3>2 DEF Dialled, RolesAgree, ForeCalls, ForeGroups
  <2>2. CASE chan \in Back
    <3>1. Received(chan) BY <2>2, BackFacts
    <3>2. chan.r2_state \notin ForwardStates
      BY <3>1, StatesApart DEF Received, ForwardStates
    <3> QED BY <3>1, <3>2 DEF Received, RolesAgree, BackCalls, BackGroups
  <2>3. CASE chan \in Rest \cup Ended
    <3>1. chan \in AtRest BY <2>3, RoleKinds
    <3>2. chan.direction = "STOPPED" /\ chan.r2_state \in IdleStates BY <3>1 DEF AtRest
    <3>3. chan.r2_state \notin ForwardStates \cup BackwardStates
      BY <3>2, StatesApart
    <3> QED BY <3>2, <3>3 DEF RolesAgree
  <2> QED BY <2>1, <2>2, <2>3 DEF RoleInv, Roles
<1> QED BY <1>1, RolesInvariance, PTL

\* The pattern of a caller is the one its state stands for.
LEMMA WireFits ==
  ASSUME NEW state \in ForwardStates
  PROVE  WireOf(state) \in OnWire(state)
<1>1. /\ state \notin {"IDLE", "BLOCKED"}
      /\ Clearing = {"CLEAR_FWD_TXD", "CLEAR_BACK_AFTER_CLEAR_FWD_RXD"}
  BY DEF ForwardStates, Clearing
<1>2. CASE state \in Clearing
  <2>1. OnWire(state) = {CAS.CLEAR_FORWARD} BY <1>1, <1>2 DEF OnWire
  <2> QED BY <1>2, <2>1 DEF WireOf
<1>3. CASE state \notin Clearing
  <2>1. state \in ForwardStates \ {"CLEAR_FWD_TXD", "CLEAR_BACK_AFTER_CLEAR_FWD_RXD"}
        /\ state \notin BackwardStates
    BY <1>1, <1>3, StatesApart
  <2>2. OnWire(state) = {CAS.SEIZE} BY <1>1, <2>1 DEF OnWire, BackwardStates
  <2> QED BY <1>3, <2>2 DEF WireOf
<1> QED BY <1>2, <1>3

\* WireAgrees: while writes to the line succeed and the library acknowledges
\* seizures itself, the bits the far end sees are those of the CAS state,
\* whatever happens; a line at rest is never left seized.
THEOREM WireFollowsState == ASSUME Orderly, LineOk PROVE Spec => []WireAgrees
<1>1. RoleInv(FALSE) => WireAgrees
  <2> SUFFICES ASSUME RoleInv(FALSE) PROVE WireAgrees OBVIOUS
  <2>1. CASE chan \in Fore(FALSE)
    <3>1. Dialled(chan) /\ chan \in Chan BY <2>1, ForeFacts
    <3>2. chan.wire = WireOf(chan.r2_state) BY <3>1 DEF Dialled
    <3>3. chan.r2_state \in ForwardStates \/ chan.r2_state = "CLEAR_FWD_RXD"
      BY <3>1, StatesApart DEF Dialled
    <3>4. CASE chan.r2_state \in ForwardStates
      BY <3>2, <3>4, WireFits DEF WireAgrees
    <3>5. CASE chan.r2_state = "CLEAR_FWD_RXD"
      <4>1. chan.wire \in cas_r2_bits BY <3>1 DEF Chan
      <4> QED BY <3>5, <4>1, RestBits DEF WireAgrees
    <3> QED BY <3>3, <3>4, <3>5
  <2>2. CASE chan \in Back BY <2>2, BackFacts DEF Received, WireAgrees
  <2>3. CASE chan \in Rest \cup Ended BY <2>3 DEF Rest, Ended, Resting, WireAgrees
  <2> QED BY <2>1, <2>2, <2>3 DEF RoleInv, Roles
<1> QED BY <1>1, RolesInvariance, PTL

\* CasSupervised: as long as no timer is refused because the list is full, a
\* caller that waits for the far end has the timer that ends the wait, and the
\* timers that would destroy a healthy call are pending in no other state,
\* however often timers are cancelled, orphaned and scheduled again.
THEOREM WaitsAreSupervised ==
  ASSUME Orderly
  PROVE  Spec /\ [](~Made(chan.ev, Overflow)) => []CasSupervised
<1> DEFINE NoneRefused == ~Made(chan.ev, Overflow)
<1>1. TRUE \in BOOLEAN OBVIOUS
<1>2. Init => RoleInv(TRUE) BY <1>1, InitRoles
<1>3. NoneRefused /\ RoleInv(TRUE) /\ [Next]_vars => RoleInv(TRUE)' BY <1>1, NextRoles
<1>4. NoneRefused /\ RoleInv(TRUE) => CasSupervised
  <2> SUFFICES ASSUME NoneRefused, RoleInv(TRUE) PROVE CasSupervised OBVIOUS
  <2>1. CASE chan \in Fore(TRUE)
    <3>1. Watched(chan.r2_state, chan.sched) BY <2>1 DEF Fore
    <3> QED BY <3>1 DEF Watched, CasSupervised
  <2>2. CASE chan \in Back
    <3>1. Received(chan) BY <2>2, BackFacts
    <3>2. /\ ~Pending(chan.sched, "r2_seize") /\ ~Pending(chan.sched, "r2_seize_persist")
          /\ ~Pending(chan.sched, "r2_set_call_down")
      BY <3>1 DEF Received, Supervisors
    <3>3. chan.r2_state \notin Seizing \cup Clearing
                              \cup {"DOUBLE_SEIZURE_CLEAR_FWD_PENDING"}
      BY <3>1 DEF Received, BackwardStates, Seizing, Clearing
    <3> QED BY <3>2, <3>3 DEF CasSupervised
  <2>3. CASE chan \in Rest \cup Ended
    <3>1. chan \in AtRest BY <2>3, RoleKinds
    <3>2. OnlyPersistence(chan.sched) /\ chan.r2_state \in IdleStates BY <3>1 DEF AtRest
    <3>3. /\ ~Pending(chan.sched, "r2_seize") /\ ~Pending(chan.sched, "r2_seize_persist")
          /\ ~Pending(chan.sched, "r2_set_call_down")
      BY <3>2 DEF OnlyPersistence, Pending
    <3>4. chan.r2_state \notin Seizing \cup Clearing
                              \cup {"DOUBLE_SEIZURE_CLEAR_FWD_PENDING"}
      BY <3>2 DEF IdleStates, Seizing, Clearing
    <3> QED BY <3>3, <3>4 DEF CasSupervised
  <2> QED BY <2>1, <2>2, <2>3 DEF RoleInv, Roles
<1> QED BY <1>2, <1>3, <1>4, PTL DEF Spec

\* What the callbacks of a step say of the sets that Told counts.
LEMMA ToldMade ==
  /\ Told("on_call_end") # {} <=> Made(chan'.ev, {"on_call_end"})
  /\ Told("on_call_end") \cup Told("on_protocol_error") # {} <=> Made(chan'.ev, Reports)
  /\ Made(chan'.ev, {"on_call_end"}) => Made(chan'.ev, Reports)
  /\ MadeOnce(chan'.ev, Reports)
       => Cardinality(Told("on_call_end") \cup Told("on_protocol_error")) = 1
<1> DEFINE told == Told("on_call_end") \cup Told("on_protocol_error")
<1>1. told = {i \in 1..Len(chan'.ev) : chan'.ev[i].cb \in Reports} BY DEF Told, Reports
<1>2. Told("on_call_end") = {i \in 1..Len(chan'.ev) : chan'.ev[i].cb \in {"on_call_end"}}
  BY DEF Told
<1> HIDE DEF told
<1>3. told # {} <=> Made(chan'.ev, Reports) BY <1>1 DEF Made
<1>4. Told("on_call_end") # {} <=> Made(chan'.ev, {"on_call_end"}) BY <1>2 DEF Made
<1>5. Made(chan'.ev, {"on_call_end"}) => Made(chan'.ev, Reports) BY DEF Made, Reports
<1>6. ASSUME MadeOnce(chan'.ev, Reports) PROVE Cardinality(told) = 1
  <2>1. PICK i \in 1..Len(chan'.ev) :
          /\ chan'.ev[i].cb \in Reports
          /\ \A j \in 1..Len(chan'.ev) : chan'.ev[j].cb \in Reports => j = i
    BY <1>6 DEF MadeOnce
  <2>2. told = {i} BY <1>1, <2>1
  <2> QED BY <2>2, FS_Singleton
<1> QED BY <1>3, <1>4, <1>5, <1>6 DEF told

\* A call that ends does so by a report, or by a user who resets the line;
\* and on_call_end is made only when a call ends.
LEMMA EndsInEnded ==
  ASSUME Orderly, RoleInv(FALSE), Next
  PROVE  /\ CallEnds => chan' \in Ended \/ (ResetInCall /\ chan'.ev = <<>>)
         /\ Told("on_call_end") # {} => CallEnds
<1>1. FALSE \in BOOLEAN OBVIOUS
<1>2. Moves(FALSE) BY <1>1, StepLeads
<1>3. Fresh \in Start(FALSE) /\ Fresh.call_state = chan.call_state
  <2>1. chan \in Roles(FALSE) BY DEF RoleInv
  <2> QED BY <1>1, <2>1, FreshRole
<1>4. /\ \A c \in Fore(FALSE) \cup Back : c.call_state # "IDLE"
      /\ \A c \in Untold \cup Ended : c.call_state = "IDLE"
  BY NoCall DEF Untold
<1>5. \A c \in Fore(FALSE) \cup Back \cup Rest : ~Made(c.ev, {"on_call_end"})
  BY ForeFacts, BackFacts DEF Dialled, Received, Rest, Made, Reports
<1>6. chan'.ev = <<>> => Told("on_call_end") = {} BY DEF Told
<1>7. CASE Leads(FALSE, Fresh, chan')
  <2>1. CASE Fresh \in Untold
    <3>1. chan' \in Fore(FALSE) \cup Back \cup Rest BY <1>7, <2>1 DEF Leads
    <3>2. chan.call_state = "IDLE" BY <1>3, <1>4, <2>1
    <3>3. Told("on_call_end") = {} BY <1>5, <3>1, ToldMade
    <3> QED BY <3>2, <3>3 DEF CallEnds
  <2>2. CASE Fresh \in Fore(FALSE) \cup Back
    <3>1. chan' \in Fore(FALSE) \cup Back \cup Ended BY <1>7, <2>2 DEF Leads
    <3>2. CASE chan' \in Ended
      <4>1. CallEnds BY <1>3, <1>4, <2>2, <3>2 DEF CallEnds
      <4> QED BY <3>2, <4>1
    <3>3. CASE chan' \in Fore(FALSE) \cup Back
      <4>1. Told("on_call_end") = {} BY <1>5, <3>3, ToldMade
      <4>2. ~CallEnds BY <1>4, <3>3 DEF CallEnds
      <4> QED BY <4>1, <4>2
    <3> QED BY <3>1, <3>2, <3>3
  <2> QED BY <1>3, <2>1, <2>2 DEF Start
<1>8. CASE FaultStep(FALSE)
  <2>1. ~CallEnds BY <1>8 DEF FaultStep, CallEnds
  <2> QED BY <1>6, <1>8, <2>1 DEF FaultStep
<1>9. CASE Resets BY <1>6, <1>9 DEF Resets, CallEnds
<1> QED BY <1>2, <1>7, <1>8, <1>9 DEF Moves

\* EndReportedOnce: with a tone engine that works, every call that ends is
\* reported to the user by exactly one of on_call_end and on_protocol_error,
\* whoever clears first, whichever timer runs out and whatever the user calls
\* from within its callbacks; and on_call_end is never made for a call that
\* goes on or is already over.
THEOREM OneReportPerCall == ASSUME Orderly, MfOk PROVE Spec => EndReportedOnce
<1>1. RoleInv(FALSE) /\ Next => EndsOnce
  <2> SUFFICES ASSUME RoleInv(FALSE), Next PROVE EndsOnce OBVIOUS
  <2>1. chan' \in Ended => MadeOnce(chan'.ev, Reports) BY DEF Ended
  <2> QED BY <2>1, EndsInEnded, ToldMade DEF EndsOnce
<1>2. RoleInv(FALSE) /\ [Next]_vars => [EndsOnce]_vars BY <1>1
<1> QED BY <1>2, RolesInvariance, PTL DEF Spec, EndReportedOnce

\* EndsReported, for a tone engine that may fail: a handler may then report
\* more than one error, but no call ends in silence.
THEOREM NoSilentEnd == ASSUME Orderly PROVE Spec => [][EndsReported]_vars
<1>1. RoleInv(FALSE) /\ Next => EndsReported
  <2> SUFFICES ASSUME RoleInv(FALSE), Next PROVE EndsReported OBVIOUS
  <2>1. chan' \in Ended => Made(chan'.ev, Reports) BY DEF Ended
  <2> QED BY <2>1, EndsInEnded, ToldMade DEF EndsReported
<1>2. RoleInv(FALSE) /\ [Next]_vars => [EndsReported]_vars BY <1>1
<1> QED BY <1>2, RolesInvariance, PTL DEF Spec
=============================================================================
