------------------------------ MODULE R2Process -----------------------------
(***************************************************************************)
(* openr2_chan_process: the loop that asks the line interface what is      *)
(* ready, takes an out-of-band event, reads a frame, writes a frame, and   *)
(* tries again until nothing is left, all with the channel lock held.  The *)
(* line interface is that of r2ioabs.c over DAHDI.  What the protocol does *)
(* with an event or a tone is the subject of R2Line; here it is any change *)
(* of the mode the channel is in.                                          *)
(***************************************************************************)
EXTENDS Integers, Sequences

CONSTANTS Mask,           \* what the user processes: "OOB", "MF" or both
          UserReads,      \* the user calls openr2_chan_enable_read
          MaxEvents,      \* events the line reports in a run
          MaxFrames,      \* frames that arrive in a run
          Buffers,        \* frames the driver takes to send
          DtmfBuffers,    \* frames a number takes to dial with DTMF
          Faults          \* the operations of the driver that may fail

ProcessAssumption ==
  /\ Mask \subseteq {"OOB", "MF"} /\ Mask # {}
  /\ UserReads \in BOOLEAN
  /\ MaxEvents \in Nat /\ MaxFrames \in Nat /\ Buffers \in Nat \ {0} /\ DtmfBuffers \in Nat
  /\ Faults \subseteq {"wait", "event", "read", "write", "generate"}

VARIABLES dev,      \* the driver: pending events, frames to read, room to send,
                    \* and how many events and frames the line still brings
          chan,     \* the channel: inalarm, read_enabled, mode, buffers left to dial
          call,     \* the call of openr2_chan_process: where it is, the flags of
                    \* openr2_io_wait, and what it returned
          did       \* what the last step did with a frame

vars == <<dev, chan, call, did>>

\* mf: the MF engine is on; tone: and has a signal to send; detect_dtmf and
\* dial_dtmf: DTMF instead; speech: answered, the MF engine is off.
Mode == {"off", "mf", "tone", "detect_dtmf", "dial_dtmf", "speech"}
MfOff(m) == m \in {"off", "speech"}
Event == {"CAS_CHANGE", "ALARM_ON", "ALARM_OFF", "UNKNOWN"}

Fails(op) == op \in Faults
-----------------------------------------------------------------------------
(* The driver. *)

\* The line: an event, a frame, or the end of a frame being sent.  A call of
\* openr2_chan_process is over before the line has sent a frame.
LineBrings ==
  /\ \/ /\ dev.events_left > 0
        /\ \E e \in Event : dev' = [dev EXCEPT !.events = Append(@, e), !.events_left = @ - 1]
     \/ /\ dev.frames_left > 0
        /\ dev' = [dev EXCEPT !.frames = @ + 1, !.frames_left = @ - 1]
     \/ /\ dev.room < Buffers /\ call.pc = "idle"
        /\ dev' = [dev EXCEPT !.room = @ + 1]
  /\ did' = "none"
  /\ UNCHANGED <<chan, call>>

\* ZT_IOMUX: which of the flags are ready.
Ready(flags) ==
  { f \in flags : \/ f = "OOB" /\ dev.events # <<>>
                  \/ f = "READ" /\ dev.frames > 0
                  \/ f = "WRITE" /\ dev.room > 0 }

\* read and write are refused with ELAST while an event is pending.
ELAST == dev.events # <<>>
-----------------------------------------------------------------------------
(* openr2_chan_process. *)

interesting_events ==
  IF chan.inalarm THEN {"OOB"}
  ELSE (IF "OOB" \in Mask THEN {"OOB"} ELSE {}) \cup
       (IF chan.read_enabled /\ "MF" \in Mask THEN {"READ"} ELSE {}) \cup
       (IF "MF" \in Mask /\ chan.mode \in {"tone", "dial_dtmf"} THEN {"WRITE"} ELSE {})

At(pc) == call.pc = pc
Goto(pc) == call' = [call EXCEPT !.pc = pc]
Return(code) == call' = [pc |-> "idle", flags |-> {}, ret |-> code]

\* The user calls; timers are handled (R2Sched), then the loop starts.
Process ==
  /\ At("idle") /\ Goto("poll")
  /\ did' = "none"
  /\ UNCHANGED <<dev, chan>>

\* tryagain: zt_wait fails when asked for nothing.
Poll ==
  LET ready == Ready(interesting_events) IN
  /\ At("poll")
  /\ \/ /\ interesting_events = {} \/ Fails("wait")
        /\ Return(-1)
     \/ /\ interesting_events # {} /\ ready = {}
        /\ Return(0)
     \/ /\ interesting_events # {} /\ ready # {}
        /\ call' = [pc |-> "oob", flags |-> ready, ret |-> 0]
  /\ did' = "none"
  /\ UNCHANGED <<dev, chan>>

\* The protocol moves the channel to any mode; an idle channel does not read
\* (openr2_proto_init), and a number is dialled from its start.
MovesTo(m) ==
  chan' = [chan EXCEPT !.mode = m,
                       !.read_enabled = @ /\ m # "off",
                       !.left = IF m = "dial_dtmf" /\ chan.mode # m THEN DtmfBuffers ELSE @]

\* Mutant: the MF engine stays on.
AlarmRaised_mf_on == chan' = [chan EXCEPT !.inalarm = TRUE]

\* The call is dropped and the MF engine turned off.
AlarmRaised == chan' = [chan EXCEPT !.inalarm = TRUE, !.mode = "off", !.read_enabled = FALSE]

openr2_chan_handle_oob_event(e) ==
  CASE e = "ALARM_ON" -> AlarmRaised
    [] e = "ALARM_OFF" -> \E m \in Mode :
         chan' = [chan EXCEPT !.inalarm = FALSE, !.mode = m, !.read_enabled = FALSE,
                              !.left = DtmfBuffers]
    [] e = "CAS_CHANGE" -> \E m \in Mode : MovesTo(m)
    [] OTHER -> UNCHANGED chan

Oob ==
  /\ At("oob")
  /\ \/ /\ "OOB" \in call.flags
        /\ dev' = [dev EXCEPT !.events = Tail(@)]
        /\ openr2_chan_handle_oob_event(Head(dev.events))
     \/ /\ "OOB" \notin call.flags \/ Fails("event")
        /\ UNCHANGED <<dev, chan>>
  /\ Goto("read")
  /\ did' = "none"

\* The frame goes to the DTMF detector, to the MF detector or to the user.
openr2_chan_handle_media ==
  \/ /\ chan.mode \in {"mf", "tone"}
     /\ \E m \in {"mf", "tone", "off", "speech"} : MovesTo(m)
     /\ did' = "detected"
  \/ /\ chan.mode \in {"detect_dtmf", "dial_dtmf"}
     /\ \E m \in {chan.mode, "off"} : MovesTo(m)
     /\ did' = "detected"
  \/ /\ chan.mode = "speech"
     /\ did' = "delivered"
     /\ UNCHANGED chan
  \/ /\ chan.mode = "off"
     /\ did' = "none"
     /\ UNCHANGED chan

Read ==
  /\ At("read")
  /\ \/ /\ ~(chan.read_enabled /\ "READ" \in call.flags)
        /\ Goto("write") /\ did' = "none"
        /\ UNCHANGED <<dev, chan>>
     \/ /\ chan.read_enabled /\ "READ" \in call.flags /\ Fails("read")
        /\ Return(-1) /\ did' = "none"
        /\ UNCHANGED <<dev, chan>>
     \/ /\ chan.read_enabled /\ "READ" \in call.flags /\ ELAST
        /\ Goto("poll") /\ did' = "none"
        /\ UNCHANGED <<dev, chan>>
     \/ /\ chan.read_enabled /\ "READ" \in call.flags /\ ~ELAST
        /\ dev' = [dev EXCEPT !.frames = @ - 1]
        /\ openr2_chan_handle_media
        /\ Goto("write")

\* openr2_io_write and what the loop makes of its result.
WriteFrame(what) ==
  \/ Fails("write") /\ Return(-1) /\ did' = "none" /\ UNCHANGED dev
  \/ ELAST /\ Return(0) /\ did' = "none" /\ UNCHANGED dev
  \/ /\ ~ELAST
     /\ dev' = [dev EXCEPT !.room = @ - 1]
     /\ Goto("poll")
     /\ did' = what

Write ==
  /\ At("write")
  /\ \/ /\ "WRITE" \in call.flags /\ chan.mode = "dial_dtmf" /\ chan.left > 0
        /\ WriteFrame("dialled")
        /\ chan' = [chan EXCEPT !.left = @ - 1]
     \/ /\ "WRITE" \in call.flags /\ chan.mode = "dial_dtmf" /\ chan.left = 0
        /\ MovesTo("off")
        /\ Goto("poll") /\ did' = "none"
        /\ UNCHANGED dev
     \/ /\ "WRITE" \in call.flags /\ ~MfOff(chan.mode) /\ chan.mode # "dial_dtmf"
        /\ \/ Fails("generate") /\ Return(-1) /\ did' = "none" /\ UNCHANGED dev
           \/ WriteFrame("generated")
        /\ UNCHANGED chan
     \/ /\ "WRITE" \notin call.flags \/ MfOff(chan.mode)
        /\ Goto("poll") /\ did' = "none"
        /\ UNCHANGED <<dev, chan>>

\* The user: reading is switched on for a call and off again, between calls of
\* openr2_chan_process; a call is made or hung up.
UserActs ==
  /\ At("idle") /\ did' = "none"
  /\ \/ UserReads /\ ~chan.read_enabled /\ chan' = [chan EXCEPT !.read_enabled = TRUE]
     \/ UserReads /\ chan.read_enabled /\ chan' = [chan EXCEPT !.read_enabled = FALSE]
     \/ chan.mode # "off" /\ MovesTo("off")
  /\ UNCHANGED <<dev, call>>
-----------------------------------------------------------------------------
Init ==
  /\ dev = [events |-> <<>>, frames |-> 0, room |-> Buffers,
            events_left |-> MaxEvents, frames_left |-> MaxFrames]
  /\ \E m \in Mode : chan = [inalarm |-> FALSE, read_enabled |-> FALSE, mode |-> m,
                             left |-> DtmfBuffers]
  /\ call = [pc |-> "idle", flags |-> {}, ret |-> 0]
  /\ did = "none"

Step == Poll \/ Oob \/ Read \/ Write

Next == LineBrings \/ UserActs \/ Process \/ Step

\* A thread that runs goes on running, and the user calls again and again.
Spec == Init /\ [][Next]_vars /\ WF_vars(Process) /\ WF_vars(Step)
-----------------------------------------------------------------------------
TypeOK ==
  /\ dev.events \in Seq(Event) /\ dev.frames \in 0 .. MaxFrames /\ dev.room \in 0 .. Buffers
  /\ chan.mode \in Mode /\ chan.inalarm \in BOOLEAN /\ chan.read_enabled \in BOOLEAN
  /\ chan.left \in 0 .. DtmfBuffers
  /\ call.pc \in {"idle", "poll", "oob", "read", "write"} /\ call.ret \in {-1, 0}
  /\ call.flags \subseteq {"OOB", "READ", "WRITE"}

\* No tone is detected or sent and no speech delivered in alarm, not even in the
\* turn of the loop that learns of it with a frame already polled for.
QuietInAlarm == chan.inalarm => did = "none"

\* Every call of openr2_chan_process returns, and gives up the channel lock.
CallReturns == ~At("idle") ~> At("idle")

\* An event of the line is taken in the end, however many frames are waiting.
EventServed == dev.events # <<>> ~> dev.events = <<>>

\* Frames that arrive while a call is set up are read ("we only read when there
\* is a call being setup"), only if the user calls openr2_chan_enable_read.
SetupIsRead ==
  (chan.mode \in {"mf", "detect_dtmf"} /\ dev.frames > 0)
    ~> (dev.frames = 0 \/ chan.mode \notin {"mf", "detect_dtmf"})
=============================================================================
