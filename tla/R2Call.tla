------------------------------- MODULE R2Call -------------------------------
(***************************************************************************)
(* Two channels of openr2 at the ends of one line, and their users.        *)
(*                                                                         *)
(* Each end runs the handlers of R2Cas unchanged.  What one end writes is  *)
(* what the other reads: the CAS bits are a level, read by ioctl when the  *)
(* line reports a change, and a tone lasts until its sender stops it and   *)
(* is heard some time after it started.  Either end may dial, so glare     *)
(* occurs by itself.                                                       *)
(***************************************************************************)
EXTENDS R2Cas, FiniteSets

CONSTANTS
  Callers,     \* the ends whose user dials
  Numbers,     \* what is dialled: records [ani, known, dnis, numeric, restricted]
  Causes,      \* causes with which a user disconnects
  EarlyClear,  \* when a called user may clear, besides after the offer and
               \* the acceptance: "collecting" digits, "accepting" the call
  Alarms,      \* the ends whose span may go into alarm
  Prompt       \* both ends take notice of the line before a timer expires

Side == {"a", "b"}
peer(s) == IF s = "a" THEN "b" ELSE "a"

ASSUME CallAssumption ==
  /\ Callers \subseteq Side
  /\ Numbers \subseteq [ani : Seq(Digit), known : BOOLEAN, dnis : Seq(Digit),
                        numeric : BOOLEAN, restricted : BOOLEAN]
  /\ Causes \subseteq Cause /\ Alarms \subseteq Side
  /\ EarlyClear \subseteq {"collecting", "accepting"} /\ Prompt \in BOOLEAN
  /\ ~AnswerEarly    \* both users answer a call that they have accepted

VARIABLE ch    \* the channel at each end

vars == <<ch>>

-----------------------------------------------------------------------------
Fresh(s) == [ch[s] EXCEPT !.ev = <<>>]

\* One end acts; the callbacks of the other belong to an earlier step.
Acts(s, c) == ch' = [x \in Side |-> IF x = s THEN c ELSE Fresh(x)]

\* The tone on the line: openr2_chan_process generates it while the MF engine
\* is on.
Sounding(s) == IF ch[s].mf_state = "OFF" THEN 0 ELSE ch[s].mf_write_tone

\* The driver reports no change of the bits while the span is in alarm.
CasUnread(s) == ~ch[s].inalarm /\ ch[s].cas_read # ch[peer(s)].wire

ToneUnheard(s) ==
  /\ ch[s].mf_state # "OFF"
  /\ Sounding(peer(s)) # ch[s].mf_read_tone

Quiet == \A s \in Side : ~CasUnread(s) /\ ~ToneUnheard(s)

(***************************************************************************)
(* openr2_chan_process at one end.                                         *)
(***************************************************************************)
CasEvent(s) == CasUnread(s) /\ Acts(s, handle_cas(Fresh(s), ch[peer(s)].wire))

\* on_dnis_digit_received asks for more.
ToneEvent(s) ==
  ToneUnheard(s) /\ Acts(s, handle_mf_tone(Fresh(s), Sounding(peer(s)), TRUE))

\* The span of one end goes into alarm, or recovers.
AlarmChanges(s) ==
  s \in Alarms /\ Acts(s, handle_alarm_event(Fresh(s), ~ch[s].inalarm, ch[peer(s)].wire))

(***************************************************************************)
(* The durations of the two ends' timers compare in one case that matters: *)
(* the called end's cycle (2 s) was running when the caller began to wait  *)
(* for it to time out (30 s), and a later cycle starts with a tone, which  *)
(* ends the wait.                                                          *)
(***************************************************************************)
Due(s, i) ==
  /\ MayExpire(ch[s].sched, i)
  /\ Prompt =>
       /\ Quiet
       /\ ch[s].sched[i].name = "mf_fwd_safety"
            => ~Pending(ch[peer(s)].sched, "mf_back_cycle")

TimerExpires(s) ==
  \E i \in 1..Len(ch[s].sched) :
    /\ Due(s, i)
    /\ Acts(s, expire_one(Fresh(s), i, ch[peer(s)].wire))

(***************************************************************************)
(* The users.  They call a function once, when it makes sense to them.     *)
(***************************************************************************)
HungUp(s) ==
  \/ ch[s].r2_state \in {"SEIZE_TXD_CLEAR_FWD_PENDING", "CLEAR_FWD_TXD",
                         "DOUBLE_SEIZURE_CLEAR_FWD_PENDING",
                         "CLEAR_BACK_AFTER_CLEAR_FWD_RXD",
                         "CLEAR_BACK_TXD", "FORCED_RELEASE_TXD"}
  \/ ch[s].mf_state = "DISCONNECT_TXD" /\ ch[s].r2_state = "SEIZE_ACK_TXD"

MakeCall(s) ==
  /\ s \in Callers /\ may_dial(ch[s])
  /\ \E n \in Numbers :
       Acts(s, make_call(Fresh(s), n.ani, n.known, n.dnis, n.numeric, n.restricted))

AcceptCall(s) ==
  /\ ch[s].call_state = "OFFERED" /\ ch[s].mf_state = "CHG_GII_TXD"
  /\ Acts(s, accept_call(Fresh(s), "WITH_CHARGE"))

AnswerCall(s) ==
  /\ ch[s].call_state = "ACCEPTED" /\ ~Pending(ch[s].sched, "r2_answer_delay")
  /\ ~HungUp(s)
  /\ Acts(s, answer_call(Fresh(s), Ctx.double_answer))

DisconnectCall(s) ==
  /\ ch[s].call_state # "IDLE" /\ ~HungUp(s)
  /\ ch[s].call_state = "COLLECTING" => "collecting" \in EarlyClear
  /\ ch[s].mf_state = "ACCEPTED_TXD" => "accepting" \in EarlyClear
  /\ \E cause \in Causes : Acts(s, disconnect_call(Fresh(s), cause))

-----------------------------------------------------------------------------
\* Both ends were created and set idle, and have read the line.
Init == ch = [s \in Side |-> handle_cas(set_idle(chan_new), CAS.IDLE)]

Next == \E s \in Side :
          \/ CasEvent(s) \/ ToneEvent(s) \/ TimerExpires(s) \/ AlarmChanges(s)
          \/ MakeCall(s) \/ AcceptCall(s) \/ AnswerCall(s) \/ DisconnectCall(s)

Spec == Init /\ [][Next]_vars

(***************************************************************************)
(* Both applications keep processing their channel.  Nothing is assumed of *)
(* the users but that they clear a call that was reported disconnected.    *)
(***************************************************************************)
ClearsAfterReport(s) == ch[s].call_state = "DISCONNECTED" /\ DisconnectCall(s)

FairSpec ==
  /\ Spec
  /\ \A s \in Side :
       /\ WF_vars(CasEvent(s)) /\ WF_vars(ToneEvent(s))
       /\ WF_vars(ClearsAfterReport(s))
       /\ SF_vars(TimerExpires(s))

-----------------------------------------------------------------------------
\* Both channels hold values the code uses their fields for; in particular a
\* DNIS sent or received fits its array.
TypeOK == ch \in [Side -> Chan]

(***************************************************************************)
(* A caller that dials a number with digits never reads beyond the zero    *)
(* that ends it, in either string: the two ends keep count together,       *)
(* although only the called one decides what is asked for                  *)
(* (mf_send_dnis, mf_send_ani).  The code itself has no bound.             *)
(***************************************************************************)
CursorsInNumber ==
  \A s \in Side : ch[s].direction = "FORWARD" =>
    /\ ch[s].dnis_index <= Len(ch[s].dnis)
    /\ ch[s].ani_ptr <= Len(ch[s].ani) + 1

(***************************************************************************)
(* What a caller sends as a digit of the DNIS is one of the number dialled *)
(* ("if there are still some DNIS to send out", r2proto.c:1039).           *)
(***************************************************************************)
DigitsOfNumber ==
  \A s \in Side :
    ch[s].direction = "FORWARD" /\ ch[s].mf_state = "DNIS_TXD"
      => ch[s].dnis_index < Len(ch[s].dnis)

First(n, number) == SubSeq(number, 1, IF Len(number) < n THEN Len(number) ELSE n)

Connected(s) ==
  /\ ch[s].direction = "BACKWARD" /\ ch[peer(s)].direction = "FORWARD"
  /\ ch[s].call_state \in {"OFFERED", "ACCEPTED", "ANSWERED"}

(***************************************************************************)
(* The call that is offered at one end is the call that was dialled at the *)
(* other: as much of both numbers as the context wants, in order, and the  *)
(* category.  Every digit takes four tone events, two at each end.         *)
(***************************************************************************)
NumberDelivered ==
  \A s \in Side : Connected(s) =>
    /\ ch[s].dnis = First(Ctx.max_dnis, ch[peer(s)].dnis)
    /\ ch[s].ani = First(Ctx.max_ani, ch[peer(s)].ani)
    /\ ch[s].caller_category = ch[peer(s)].caller_category

(***************************************************************************)
(* A caller is told that its call was answered (on_call_answered) only if  *)
(* the other end answered, in the same call, and has not left it since.    *)
(***************************************************************************)
AnsweredByPeer ==
  \A s \in Side :
    ch[s].direction = "FORWARD" /\ ch[s].call_state = "ANSWERED" /\ ~HungUp(s)
      => ch[peer(s)].direction = "BACKWARD" /\ ch[peer(s)].answered

(***************************************************************************)
(* An end that has cleared backward still has a clear forward to come: it  *)
(* does not wait for one that it has already read, or the line is dead.    *)
(***************************************************************************)
ClearForwardToCome ==
  \A s \in Side :
    ch[s].r2_state \in {"CLEAR_BACK_TXD", "FORCED_RELEASE_TXD"}
      => ch[s].cas_read # CAS.CLEAR_FORWARD

\* on_call_init: what an idle end takes for a seizure is a seizure, not the
\* end of another call.
NoPhantomCall ==
  \A s \in Side :
    (\E i \in 1..Len(ch[s].ev) : ch[s].ev[i].cb = "on_call_init")
      => ch[peer(s)].direction = "FORWARD"

(***************************************************************************)
(* mf_back_cycle_timeout_expired: when a call is offered, the ANI that the *)
(* caller has was retrieved.  Not so in China without get_ani_first, after *)
(* a DNIS shorter than max_dnis.                                           *)
(***************************************************************************)
AniRetrieved ==
  \A s \in Side :
    Connected(s) /\ Ctx.max_ani > 0 /\ ch[peer(s)].ani # <<>> => ch[s].ani # <<>>

-----------------------------------------------------------------------------
Cleared(s) == HungUp(s) \/ ch[s].call_state = "DISCONNECTED"

Fails(s) == \E i \in 1..Len(ch'[s].ev) :
              ch'[s].ev[i].cb \in {"on_protocol_error", "library_bug"}

\* A call that both ends take part in and that nobody has given up.
Healthy ==
  /\ \E s \in Side : ch[s].direction = "FORWARD" /\ ch[peer(s)].direction = "BACKWARD"
  /\ \A s \in Side : ~Cleared(s)

\* Two ends of this library never break a healthy call: no pattern, tone or
\* timer of one end makes the other report a protocol error.
BreaksNoCall == Healthy => \A s \in Side : ~Fails(s)

HealthyCallSurvives == [][BreaksNoCall]_vars

(***************************************************************************)
(* A call that was dialled is answered or comes to an end, glare and lost  *)
(* seizures included, if the called user accepts and answers.              *)
(***************************************************************************)
DialEnds ==
  \A s \in Side :
    ch[s].call_state = "DIALING" ~> ch[s].call_state \in {"ANSWERED", "IDLE"}

(***************************************************************************)
(* Whoever hung up, or was told that the other end did, comes to rest, in  *)
(* every crossing of answers, clear signals and seizures.                  *)
(***************************************************************************)
ReleaseEnds == \A s \in Side : Cleared(s) ~> ch[s].call_state = "IDLE"

(***************************************************************************)
(* An alarm drops the call of its own end at once (handle_alarm_state); at *)
(* the other end, which only sees an idle pattern in the middle of a call, *)
(* the call comes to an end as well.                                       *)
(***************************************************************************)
AlarmEndsCall ==
  \A s \in Side : ch[peer(s)].inalarm ~> ch[s].call_state = "IDLE"
=============================================================================
