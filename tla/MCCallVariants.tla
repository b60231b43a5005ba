--------------------------- MODULE MCCallVariants ---------------------------
(***************************************************************************)
(* R2Call for TLC, with several variants, users and faults.  A behaviour   *)
(* picks one configuration, Setups, and stays with it.  All of them want   *)
(* two digits of each number and no DTMF; so what R2Call states means the  *)
(* same in each, although its own constants are those of one of them.      *)
(***************************************************************************)
EXTENDS MCCall

VARIABLE setup    \* the configuration of this behaviour

Mexico == configure_context("MX", 2, 2)

Plain ==
  [ctx |-> Itu, reentrant |-> {"clear_on_disconnect"}, causes |-> {"BUSY_NUMBER"},
   early |-> {}, alarms |-> {}, prompt |-> TRUE]

Setups ==
  [alarm |-> [Plain EXCEPT !.alarms = {"a", "b"}],
   mexico |-> [Plain EXCEPT !.ctx = Mexico, !.early = {"accepting"},
                            !.causes = {"BUSY_NUMBER", "FORCED_RELEASE"}],
   \* timers may expire before an end has noticed what is on the line
   late |-> [Plain EXCEPT !.prompt = FALSE,
                          !.causes = {"BUSY_NUMBER", "FORCED_RELEASE"}],
   early |-> [Plain EXCEPT !.early = {"accepting"}],
   \* users like r2test, who accept and answer at once
   r2test |-> [Plain EXCEPT !.ctx = Mexico,
                 !.reentrant = {"clear_on_disconnect", "accept_on_offer",
                                "answer_on_accept"}]]

Call(v) == INSTANCE R2Call WITH
  Ctx <- Setups[v].ctx, MaxTimers <- 10, Reentrant <- Setups[v].reentrant,
  AnswerEarly <- FALSE, Callers <- {"a", "b"}, Numbers <- AnyLength,
  Causes <- Setups[v].causes, EarlyClear <- Setups[v].early,
  Alarms <- Setups[v].alarms, Prompt <- Setups[v].prompt, PastDnis <- OneByte

ASSUME \A v \in DOMAIN Setups : Call(v)!CallAssumption

Chosen(Action(_)) == \E v \in DOMAIN Setups : setup = v /\ Action(v) /\ UNCHANGED setup

MCInit == \E v \in DOMAIN Setups : setup = v /\ Call(v)!Init

MCNext == Chosen(LAMBDA v : Call(v)!Next)

MCvars == <<vars, setup>>

\* The fairness of FairSpec; the configuration never changes.
MCSpec ==
  /\ MCInit /\ [][MCNext]_MCvars
  /\ \A s \in Side :
       /\ WF_MCvars(Chosen(LAMBDA v : Call(v)!CasEvent(s)))
       /\ WF_MCvars(Chosen(LAMBDA v : Call(v)!ToneEvent(s)))
       /\ WF_MCvars(Chosen(LAMBDA v : Call(v)!ClearsAfterReport(s)))
       /\ SF_MCvars(Chosen(LAMBDA v : Call(v)!TimerExpires(s)))

-----------------------------------------------------------------------------
\* Only an answer of the other end is reported as an answer, with late ends too:
\* AnsweredByPeer.  An alarm leaves the caller in its call for a while.
PeerAnswered == setup # "alarm" => AnsweredByPeer

\* An idle end takes nothing but a seizure for one: NoPhantomCall, without the
\* forced release.
SeizureIsCall == setup \in {"alarm", "early", "r2test"} => NoPhantomCall

\* Two prompt ends without alarms never break a healthy call: BreaksNoCall.
PromptEndsAgree == [][(setup \in {"mexico", "early", "r2test"}) => BreaksNoCall]_MCvars

\* Whoever hung up or was told so comes to rest: ReleaseEnds.
EarlyReleaseEnds == (setup = "early") => ReleaseEnds

\* Between users like r2test a dialled call is answered or ends: DialEnds.
R2testDialEnds == (setup = "r2test") => DialEnds

\* An alarm at one end ends the call at both: AlarmEndsCall.
AlarmReachesPeer == (setup = "alarm") => AlarmEndsCall
=============================================================================
