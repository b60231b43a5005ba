----------------------------- MODULE R2LineProof -----------------------------
(***************************************************************************)
(* A channel on its line: the inductive invariant of R2Line and what       *)
(* follows from it for every value of the constants.                       *)
(***************************************************************************)
EXTENDS R2Line, R2CasProof

(***************************************************************************)
(* The inductive invariant.  IdleIsClean alone is not inductive: a handler *)
(* that runs on a call must be known to find no machine at rest, a timer   *)
(* of a call must be known not to fire without one, and openr2_proto_init  *)
(* relies on the DTMF flags being clear when the MF engine is off.         *)
(***************************************************************************)
Inv == chan \in Calm /\ line \in cas_r2_bits

\* The inductive invariant holds when a channel is created.
LEMMA InitInv == Init => Inv
<1> SUFFICES ASSUME Init PROVE Inv OBVIOUS
<1>1. line \in cas_r2_bits BY LineAssumption DEF Init
<1>2. handle_alarm_state([chan_new EXCEPT !.inalarm = TRUE], line) \in Calm
  BY <1>1, NewRests, AlarmState, Kinds
<1> QED BY <1>1, <1>2, NewRests, Kinds DEF Init, Inv

\* Forgetting the callbacks of the last step changes nothing else.
LEMMA FreshCalm ==
  ASSUME Inv
  PROVE  /\ Fresh \in Calm
         /\ chan \in Live <=> Fresh \in Live
         /\ Fresh.call_state = chan.call_state
         /\ Fresh.sched = chan.sched /\ Fresh.mf_read_tone = chan.mf_read_tone
<1>1. chan \in Calm BY DEF Inv
<1>2. chan \in Chan BY <1>1, Kinds
<1>3. <<>> \in Seq(Event) OBVIOUS
<1>4. Fresh \in Chan BY <1>2, <1>3 DEF Fresh, Chan
<1>5. chan \in Live <=> Fresh \in Live BY <1>2, <1>4, ZenonT(40) DEF Fresh, Live, Loose, Chan
<1>6. chan \in AtRest => Fresh \in AtRest BY <1>2, <1>4 DEF Fresh, AtRest, Loose, Chan
<1>7. Fresh \in Calm BY <1>1, <1>5, <1>6 DEF Calm
<1> QED BY <1>2, <1>5, <1>7 DEF Fresh, Chan

\* A layer below failing or recovering changes nothing else.
LEMMA FaultCalm ==
  ASSUME NEW c \in Calm, NEW f \in SUBSET {"io", "mf"}
  PROVE  [c EXCEPT !.fault = f] \in Calm
<1> DEFINE d == [c EXCEPT !.fault = f]
<1>1. c \in Chan BY Kinds
<1>2. d \in Chan BY <1>1 DEF Chan
<1>3. c \in Live => d \in Live BY <1>2 DEF Live, Loose, Chan
<1>4. c \in AtRest => d \in AtRest BY <1>2 DEF AtRest, Loose, Chan
<1> QED BY <1>3, <1>4 DEF Calm

\* Every action preserves the inductive invariant.
LEMMA NextInv == Inv /\ [Next]_vars => Inv'
<1> SUFFICES ASSUME Inv, [Next]_vars PROVE Inv' OBVIOUS
<1>0. /\ chan \in Calm /\ line \in cas_r2_bits
      /\ Fresh \in Calm /\ (chan \in Live <=> Fresh \in Live)
      /\ Fresh.call_state = chan.call_state /\ Fresh.sched = chan.sched
      /\ Fresh.mf_read_tone = chan.mf_read_tone
  BY FreshCalm DEF Inv
<1>a. chan \notin Live => chan \in AtRest BY <1>0 DEF Calm
<1>1. CASE LineChanges
  BY <1>0, <1>1, LineAssumption DEF LineChanges, Inv
<1>2. CASE ToneStarts
  <2>1. FarEndTones \subseteq Tone BY LineAssumption DEF FarEndTones
  <2> QED BY <1>0, <1>2, <2>1, MfTone DEF ToneStarts, Inv
<1>3. CASE ToneStops
  <2>1. 0 \in Tone BY DEF Tone
  <2> QED BY <1>0, <1>3, <2>1, MfTone DEF ToneStops, Inv
<1>4. CASE DtmfDigit
  <2>1. 1 \in Digit BY DEF Digit
  <2>2. chan \in Live BY <1>a, <1>4 DEF DtmfDigit, AtRest
  <2>3. Fresh \in Live BY <1>0, <2>2
  <2>4. PICK more \in BOOLEAN : chan' = on_dtmf_received(Fresh, 1, more)
    BY <1>4 DEF DtmfDigit
  <2>6. Fresh.detecting_dtmf
    <3>1. chan \in Chan BY <1>0, <1>a, Kinds DEF Calm
    <3> QED BY <1>4, <3>1 DEF DtmfDigit, Fresh, Chan
  <2>5. chan' \in Live BY <2>1, <2>3, <2>4, <2>6, DtmfReceived
  <2> QED BY <1>0, <1>4, <2>5, Kinds DEF DtmfDigit, Inv
<1>5. CASE MakeCall
  <2>1. PICK call \in Calls :
          chan' = make_call(Fresh, call.ani, call.known, call.dnis, call.numeric,
                            call.restricted)
    BY <1>5 DEF MakeCall
  <2>2. call \in [ani : Seq(Digit), known : BOOLEAN, dnis : Seq(Digit),
                  numeric : BOOLEAN, restricted : BOOLEAN]
    BY LineAssumption
  <2>3. call.ani \in Seq(Digit) /\ call.dnis \in Seq(Digit) /\ call.restricted \in BOOLEAN
    BY <2>2
  <2>4. chan' \in Calm BY <1>0, <2>1, <2>3, Dial
  <2> QED BY <1>0, <1>5, <2>4 DEF MakeCall, Inv
<1>6. CASE AcceptCall
  BY <1>0, <1>6, AcceptCalm DEF AcceptCall, Inv
<1>7. CASE AnswerCall
  <2>1. PICK double \in BOOLEAN : chan' = answer_call(Fresh, double)
    BY <1>7 DEF AnswerCall
  <2>2. CASE chan \in Live
    <3>1. chan' \in Live BY <1>0, <2>1, <2>2, AnswerLive
    <3> QED BY <1>0, <1>7, <3>1, Kinds DEF AnswerCall, Inv
  <2>3. CASE chan \notin Live
    <3>1. AnswerEarly BY <1>a, <1>7, <2>3 DEF AnswerCall, AtRest
    <3>2. Fresh \in AtRest BY <1>0, <2>3 DEF Calm
    <3>3. chan' \in Calm BY <2>1, <3>1, <3>2, AnswerWhenIdle
    <3> QED BY <1>0, <1>7, <3>3 DEF AnswerCall, Inv
  <2> QED BY <2>2, <2>3
<1>8. CASE DisconnectCall
  BY <1>0, <1>8, DisconnectCalm DEF DisconnectCall, Inv
<1>9. CASE AckCall
  BY <1>0, <1>9, AckCalm DEF AckCall, Inv
<1>10. CASE SetIdle
  BY <1>0, <1>10, SetIdleRests, Kinds DEF SetIdle, Inv
<1>11. CASE SetBlocked
  BY <1>0, <1>11, SetBlockedRests, Kinds DEF SetBlocked, Inv
<1>12. CASE Timers
  <2>1. PICK i \in 1..Len(chan.sched) : chan' = expire_one(Fresh, i, line)
    BY <1>12 DEF Timers, TimerExpires
  <2>2. line' = line BY <1>12 DEF Timers, TimerExpires
  <2>3. i \in 1..Len(Fresh.sched) BY <1>0
  <2>4. chan' \in Calm BY <1>0, <2>1, <2>3, ExpireOne
  <2> QED BY <1>0, <2>2, <2>4 DEF Inv
<1>13. CASE CasEvent
  BY <1>0, <1>13, HandleCas DEF CasEvent, Inv
<1>14. CASE AlarmChanges
  BY <1>0, <1>14, AlarmEvent DEF AlarmChanges, Inv
<1>15. CASE FaultChanges
  <2>1. PICK f \in SUBSET Faults : chan' = [Fresh EXCEPT !.fault = f]
    BY <1>15 DEF FaultChanges
  <2>2. f \in SUBSET {"io", "mf"} BY LineAssumption
  <2>3. chan' \in Calm BY <1>0, <2>1, <2>2, FaultCalm
  <2> QED BY <1>0, <1>15, <2>3 DEF FaultChanges, Inv
<1>16. CASE DtmfEnd
  <2>1. chan \in Live BY <1>a, <1>16 DEF DtmfEnd, AtRest
  <2>2. chan' \in Calm BY <1>0, <1>16, <2>1, DtmfEnds DEF DtmfEnd
  <2> QED BY <1>0, <1>16, <2>2 DEF DtmfEnd, Inv
<1>17. CASE UNCHANGED vars
  BY <1>0, <1>17 DEF vars, Inv
<1> QED
  BY <1>1, <1>2, <1>3, <1>4, <1>5, <1>6, <1>7, <1>8, <1>9, <1>10, <1>11, <1>12,
     <1>13, <1>14, <1>15, <1>16, <1>17 DEF Next, FarEnd, User

\* Between any two handlers a channel either has a call in all of its machines
\* or is at rest in all of them.
THEOREM Invariance == Spec => []Inv
BY InitInv, NextInv, PTL DEF Spec

\* TypeOK for every context, far end and user: every field keeps its type, a
\* DNIS dialled or received with MF digits never outgrows dnis[], and no
\* request moves dnis_index below the first digit.  That it stays at or before
\* the end of the number does not follow, and is not so: see DnisLeft.
THEOREM TypeCorrect == Spec => []TypeOK
<1>1. Inv => TypeOK BY Kinds DEF Inv, TypeOK
<1> QED BY <1>1, Invariance, PTL

\* IdleIsClean: nothing of a call (a timer, a tone, a DTMF flag, a direction)
\* outlives it, whichever handler ended it, with any failure of the layers
\* below, any number of timers and any reentrant user.
THEOREM RestIsClean == ASSUME Orderly PROVE Spec => []IdleIsClean
<1>1. Inv => IdleIsClean
  BY DEF Inv, Calm, Live, AtRest, IdleIsClean, IdleStates, OnlyPersistence
<1> QED BY <1>1, Invariance, PTL

\* AlarmDropsCalls: no order of alarms, patterns, timers and API calls leaves
\* or starts a call on a line in alarm.
THEOREM AlarmMeansIdle == ASSUME Orderly PROVE Spec => []AlarmDropsCalls
<1>1. Inv => AlarmDropsCalls BY DEF Inv, Calm, Live, AtRest, AlarmDropsCalls
<1> QED BY <1>1, Invariance, PTL
=============================================================================
