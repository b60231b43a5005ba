----------------------------- MODULE R2CallProof -----------------------------
(***************************************************************************)
(* Two channels on one line: whatever one end writes, the handlers of the  *)
(* other keep it calm.                                                     *)
(***************************************************************************)
EXTENDS R2Call, R2CasProof

(***************************************************************************)
(* The inductive invariant.  It needs both ends: the pattern an end reads  *)
(* is one that the other wrote, and so is the tone it hears.               *)
(***************************************************************************)
Inv == ch \in [Side -> Calm]

\* An end whose callbacks are forgotten.
LEMMA FreshEnd ==
  ASSUME NEW s \in Side, Inv
  PROVE  /\ Fresh(s) \in Calm
         /\ Fresh(s).sched = ch[s].sched /\ Fresh(s).call_state = ch[s].call_state
<1> DEFINE c == ch[s]
           d == [c EXCEPT !.ev = <<>>]
<1>1. c \in Calm /\ c \in Chan BY Kinds DEF Inv
<1>2. Fresh(s) = d BY DEF Fresh
<1> HIDE DEF c
<1>3. <<>> \in Seq(Event) OBVIOUS
<1>4. d \in Chan BY <1>1, <1>3 DEF Chan
<1>5. c \in Live => d \in Live BY <1>1, <1>4 DEF Live, Loose, Chan
<1>6. c \in AtRest => d \in AtRest BY <1>1, <1>4 DEF AtRest, Loose, Chan
<1>7. d \in Calm BY <1>1, <1>5, <1>6 DEF Calm
<1>8. d.sched = c.sched /\ d.call_state = c.call_state BY <1>1 DEF Chan
<1> QED BY <1>2, <1>7, <1>8 DEF c

\* What an end finds on the line is a pattern and a tone.
LEMMA FarSide ==
  ASSUME NEW s \in Side, Inv
  PROVE  /\ peer(s) \in Side
         /\ ch[peer(s)].wire \in cas_r2_bits
         /\ Sounding(peer(s)) \in Tone
<1>1. peer(s) \in Side BY DEF peer, Side
<1>2. ch[peer(s)] \in Chan BY <1>1, Kinds DEF Inv
<1>3. ch[peer(s)].wire \in cas_r2_bits /\ ch[peer(s)].mf_write_tone \in Tone
  BY <1>2 DEF Chan
<1>4. 0 \in Tone BY DEF Tone
<1> QED BY <1>1, <1>3, <1>4 DEF Sounding

\* One end acts and stays calm; the other only forgets its callbacks.
LEMMA OneEndActs ==
  ASSUME NEW s \in Side, NEW c \in Calm, Inv, Acts(s, c)
  PROVE  Inv'
BY FreshEnd DEF Acts, Inv

\* The invariant holds when both ends have been set idle.
LEMMA InitInv == Init => Inv
<1>1. set_idle(chan_new) \in Calm BY NewRests, SetIdleRests, Kinds
<1>2. CAS.IDLE \in cas_r2_bits BY DEF CAS, cas_r2_bits
<1>3. handle_cas(set_idle(chan_new), CAS.IDLE) \in Calm BY <1>1, <1>2, HandleCas
<1> QED BY <1>3 DEF Init, Inv

\* Every action of every end preserves it.
LEMMA NextInv == Inv /\ [Next]_vars => Inv'
<1> SUFFICES ASSUME Inv, [Next]_vars PROVE Inv' OBVIOUS
<1>0. CASE UNCHANGED vars BY <1>0 DEF vars, Inv
<1> SUFFICES ASSUME NEW s \in Side,
                    \/ CasEvent(s) \/ ToneEvent(s) \/ TimerExpires(s) \/ AlarmChanges(s)
                    \/ MakeCall(s) \/ AcceptCall(s) \/ AnswerCall(s) \/ DisconnectCall(s)
             PROVE  Inv'
  BY <1>0 DEF Next
<1> DEFINE c == Fresh(s)
<1>1. /\ c \in Calm
      /\ c.sched = ch[s].sched /\ c.call_state = ch[s].call_state
      /\ ch[peer(s)].wire \in cas_r2_bits /\ Sounding(peer(s)) \in Tone
  BY FreshEnd, FarSide
<1>2. CASE CasEvent(s)
  BY <1>1, <1>2, HandleCas, OneEndActs DEF CasEvent
<1>3. CASE ToneEvent(s)
  BY <1>1, <1>3, MfTone, OneEndActs DEF ToneEvent
<1>4. CASE TimerExpires(s)
  <2>1. PICK i \in 1..Len(ch[s].sched) : Acts(s, expire_one(c, i, ch[peer(s)].wire))
    BY <1>4 DEF TimerExpires
  <2>2. i \in 1..Len(c.sched) BY <1>1
  <2>3. expire_one(c, i, ch[peer(s)].wire) \in Calm BY <1>1, <2>2, ExpireOne
  <2> QED BY <2>1, <2>3, OneEndActs
<1>5. CASE MakeCall(s)
  <2>1. PICK n \in Numbers :
          Acts(s, make_call(c, n.ani, n.known, n.dnis, n.numeric, n.restricted))
    BY <1>5 DEF MakeCall
  <2>2. n \in [ani : Seq(Digit), known : BOOLEAN, dnis : Seq(Digit),
               numeric : BOOLEAN, restricted : BOOLEAN]
    BY CallAssumption
  <2>3. n.ani \in Seq(Digit) /\ n.dnis \in Seq(Digit) /\ n.restricted \in BOOLEAN
    BY <2>2
  <2>4. make_call(c, n.ani, n.known, n.dnis, n.numeric, n.restricted) \in Calm
    BY <1>1, <2>3, Dial
  <2> QED BY <2>1, <2>4, OneEndActs
<1>6. CASE AcceptCall(s)
  BY <1>1, <1>6, AcceptCalm, OneEndActs DEF AcceptCall
<1>7. CASE AnswerCall(s)
  <2>1. c \in Live BY <1>1, <1>7 DEF AnswerCall, Calm, AtRest
  <2>2. answer_call(c, Ctx.double_answer) \in Calm BY <2>1, AnswerLive, Kinds
  <2> QED BY <1>7, <2>2, OneEndActs DEF AnswerCall
<1>8. CASE DisconnectCall(s)
  <2>1. PICK cause \in Causes : Acts(s, disconnect_call(c, cause))
    BY <1>8 DEF DisconnectCall
  <2>2. disconnect_call(c, cause) \in Calm BY <1>1, DisconnectCalm
  <2> QED BY <2>1, <2>2, OneEndActs
<1>9. CASE AlarmChanges(s)
  BY <1>1, <1>9, AlarmEvent, OneEndActs DEF AlarmChanges
<1> QED BY <1>2, <1>3, <1>4, <1>5, <1>6, <1>7, <1>8, <1>9

\* Between any two steps each end has a call in all of its machines or is at
\* rest in all of them.
THEOREM Invariance == Spec => []Inv
BY InitInv, NextInv, PTL DEF Spec

\* TypeOK at both ends, for all numbers, contexts and users: every field keeps
\* its type, the DNIS of an MF call fits dnis[] at the end that dials it and at
\* the one that collects it, and neither end moves the other's dnis_index below
\* the first digit.
THEOREM TypeCorrect == Spec => []TypeOK
<1>1. Inv => TypeOK BY Kinds DEF Inv, TypeOK
<1> QED BY <1>1, Invariance, PTL
=============================================================================
