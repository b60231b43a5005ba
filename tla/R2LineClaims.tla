---------------------------- MODULE R2LineClaims ----------------------------
(***************************************************************************)
(* Statements that comments and messages of the source make about a        *)
(* channel and that the code does not live up to: TLC finds a              *)
(* counterexample to each.  EndIsFinal and DnisLeft have runs of their     *)
(* own; the README says with which constants the others are seen.          *)
(***************************************************************************)
EXTENDS R2Line

(***************************************************************************)
(* openr2_chan_handle_timers copies every expired timer off the list and   *)
(* then runs their callbacks.  A callback that cancels the others comes    *)
(* too late.                                                               *)
(***************************************************************************)
TimersExpireTogether ==
  /\ \E i, j \in 1..Len(chan.sched) :
       /\ MayExpire(chan.sched, i)
       /\ MayExpire(RemoveTimer(chan.sched, i), j)
       /\ chan' = expire_two(Fresh, i, j, line)
  /\ UNCHANGED line

NextLate == Next \/ TimersExpireTogether

SpecLate == Init /\ [][NextLate]_vars

\* "Disconnection process has end completely" (r2context.h:109): on_call_end
\* is the last thing the user hears of a call.
EndIsFinal ==
  [][\A i \in Told("on_call_end") : i = Len(chan'.ev)]_vars

\* "if there are still some DNIS to send out" (r2proto.c:1039): what is sent as
\* a digit is one of the number dialled, not what lies behind it in dnis[] or
\* behind the array.
DnisLeft ==
  chan.direction = "FORWARD" /\ chan.mf_state = "DNIS_TXD"
    => chan.dnis_index < Len(chan.dnis)

\* "if we have CAS persistence check and we're here because of the timer
\* expired" (r2proto.c:1166): a pattern is handled without reading the line
\* again only because it was just seen to persist.
PersistedBeforeUse ==
  [][chan'.cas_read # chan.cas_read => chan'.inalarm \/ chan'.cas_read = line]_vars

\* "just proceed with disconnection without waiting for any other MF activity,
\* the call is going down anyway" (r2proto.c:1385).
ForcedReleaseProceeds ==
  [][chan.r2_state = "FORCED_RELEASE_RXD" => Told("on_call_accepted") = {}]_vars

\* "we cannot send clear forward yet, we must wait for the seize ack"
\* (r2proto.c:2713).
SeizeHeldUntilAck ==
  [][chan.r2_state \in Seizing /\ chan'.r2_state = "CLEAR_FWD_TXD"
       => chan'.cas_read = CAS.SEIZE_ACK]_vars

\* "if recovering from alarm, we need to check the CAS bits again"
\* (r2proto.c:2936): a seizure that is on the line when the alarm clears is
\* noticed.
RecoveryReadsLine ==
  [][(/\ chan.inalarm /\ ~chan'.inalarm
      /\ chan.r2_state = "IDLE" /\ line = CAS.SEIZE)
       => chan'.call_state = "COLLECTING"]_vars
=============================================================================
