---------------------------- MODULE R2PartsProof ----------------------------
(***************************************************************************)
(* Proofs about the parts around a channel, for every value of their       *)
(* constants: the loops of openr2_chan_process and openr2_chan_write,      *)
(* which hold the channel lock; the threads of r2test; and the timers with *)
(* the clock.  The parts share nothing but this module.                    *)
(***************************************************************************)
EXTENDS R2Driver, R2Timers, FiniteSets, FiniteSetTheorems, SequenceTheorems,
        WellFoundedInduction, TLAPS
-----------------------------------------------------------------------------
(* openr2_chan_process. *)

\* The driver, the channel and the call of openr2_chan_process.
Driver == [events : Seq(Process!Event), frames : Nat, room : Nat,
           events_left : Int, frames_left : Int]
Channel == [inalarm : BOOLEAN, read_enabled : BOOLEAN, mode : Process!Mode, left : Int]
ProcessCall == [pc : {"idle", "poll", "oob", "read", "write"},
                flags : SUBSET {"OOB", "READ", "WRITE"}, ret : {-1, 0}]

ProcessTypes == dev \in Driver /\ line_chan \in Channel /\ turn \in ProcessCall

\* What zt_wait reported is still there when the loop comes to it: an event, a
\* frame, room for one.
PolledIsThere ==
  /\ turn.pc = "oob" /\ "OOB" \in turn.flags => dev.events # <<>>
  /\ turn.pc \in {"oob", "read"} /\ "READ" \in turn.flags => dev.frames > 0
  /\ turn.pc \in {"oob", "read", "write"} /\ "WRITE" \in turn.flags => dev.room > 0

\* In alarm nothing was detected, sent or delivered by the last step, the loop
\* that starts asks for events only, and one that polled before the alarm finds
\* reading and the MF engine switched off.
Deaf ==
  line_chan.inalarm =>
    /\ did = "none"
    /\ turn.pc = "oob" => turn.flags \subseteq {"OOB"}
    /\ turn.pc \in {"read", "write"} =>
         turn.flags \subseteq {"OOB"} \/ (~line_chan.read_enabled /\ line_chan.mode = "off")

\* The inductive invariant of R2Process.
ProcessInv == ProcessTypes /\ PolledIsThere /\ Deaf

\* The helpers of R2Process are expanded in this section.
USE DEF Process!At, Process!Goto, Process!Return, Process!Fails, Process!ELAST, Process!MfOff

\* An idle channel on a line without alarm satisfies the invariant.
LEMMA ProcessInit ==
  ASSUME Process!ProcessAssumption, Process!Init
  PROVE  ProcessInv
BY DEF Process!ProcessAssumption, Process!Init, ProcessInv, ProcessTypes, PolledIsThere, Deaf,
       Process!Event, Process!Mode, Driver, Channel, ProcessCall

\* The protocol moves the channel to a mode and leaves its alarm alone (MovesTo).
LEMMA Moved ==
  ASSUME Process!ProcessAssumption, line_chan \in Channel, NEW m \in Process!Mode, Process!MovesTo(m)
  PROVE  /\ line_chan' \in Channel
         /\ line_chan'.inalarm = line_chan.inalarm /\ line_chan'.mode = m
<1> DEFINE left == IF m = "dial_dtmf" /\ line_chan.mode # m THEN DtmfBuffers ELSE line_chan.left
           reads == line_chan.read_enabled /\ m # "off"
<1>1. left \in Int /\ reads \in BOOLEAN
  BY DEF Process!ProcessAssumption, Channel
<1>2. line_chan' = [line_chan EXCEPT !.mode = m, !.read_enabled = reads, !.left = left]
  BY DEF Process!MovesTo
<1> HIDE DEF left, reads
<1>3. QED
  BY <1>1, <1>2 DEF Channel

\* The line adds events, frames and room, and takes away nothing.
LEMMA LineBringsQuiet ==
  ASSUME ProcessInv, Process!LineBrings
  PROVE  ProcessInv'
<1>1. dev \in Driver /\ line_chan \in Channel /\ turn \in ProcessCall /\ PolledIsThere /\ Deaf
  BY DEF ProcessInv, ProcessTypes
<1>2. did' = "none" /\ UNCHANGED <<line_chan, turn>>
  BY DEF Process!LineBrings
<1>3. Deaf'
  BY <1>1, <1>2 DEF Deaf
<1>4. CASE \E e \in Process!Event :
             dev' = [dev EXCEPT !.events = Append(@, e), !.events_left = @ - 1]
  <2>1. PICK e \in Process!Event :
             dev' = [dev EXCEPT !.events = Append(@, e), !.events_left = @ - 1]
    BY <1>4
  <2> DEFINE events == Append(dev.events, e)
             left == dev.events_left - 1
  <2>2. events \in Seq(Process!Event) /\ events # <<>> /\ left \in Int
    BY <1>1 DEF Driver
  <2>3. dev' = [dev EXCEPT !.events = events, !.events_left = left]
    BY <2>1
  <2> HIDE DEF events, left
  <2>4. /\ dev' \in Driver
        /\ dev'.events = events /\ dev'.frames = dev.frames /\ dev'.room = dev.room
    BY <1>1, <2>2, <2>3 DEF Driver
  <2>5. QED
    BY <1>1, <1>2, <1>3, <2>2, <2>4 DEF ProcessInv, ProcessTypes, PolledIsThere
<1>5. CASE \E n, m \in Int : n = dev.frames + 1 /\ m = dev.frames_left - 1
                          /\ dev' = [dev EXCEPT !.frames = n, !.frames_left = m]
  <2>1. PICK n, m \in Int : n = dev.frames + 1 /\ m = dev.frames_left - 1
                         /\ dev' = [dev EXCEPT !.frames = n, !.frames_left = m]
    BY <1>5
  <2>2. n \in Nat /\ n > 0
    BY <1>1, <2>1 DEF Driver
  <2>3. /\ dev' \in Driver
        /\ dev'.events = dev.events /\ dev'.frames = n /\ dev'.room = dev.room
    BY <1>1, <2>1, <2>2 DEF Driver
  <2>4. QED
    BY <1>1, <1>2, <1>3, <2>2, <2>3 DEF ProcessInv, ProcessTypes, PolledIsThere
<1>6. CASE dev' = [dev EXCEPT !.room = @ + 1]
  <2>1. /\ dev' \in Driver
        /\ dev'.events = dev.events /\ dev'.frames = dev.frames /\ dev'.room = dev.room + 1
    BY <1>1, <1>6 DEF Driver
  <2>2. dev.room \in Nat
    BY <1>1 DEF Driver
  <2>3. QED
    BY <1>1, <1>2, <1>3, <2>1, <2>2 DEF ProcessInv, ProcessTypes, PolledIsThere
<1>7. dev.frames + 1 \in Int /\ dev.frames_left - 1 \in Int
  BY <1>1 DEF Driver
<1>8. QED
  BY <1>4, <1>5, <1>6, <1>7 DEF Process!LineBrings

\* zt_wait reports only what it was asked for, in alarm events alone.
LEMMA PollQuiet ==
  ASSUME ProcessInv, Process!Poll
  PROVE  ProcessInv'
<1> DEFINE asked == Process!interesting_events
           ready == Process!Ready(asked)
<1>1. /\ asked \in SUBSET {"OOB", "READ", "WRITE"}
      /\ line_chan.inalarm => asked = {"OOB"}
  BY DEF Process!interesting_events
<1>2. /\ ready \in SUBSET {"OOB", "READ", "WRITE"} /\ ready \subseteq asked
      /\ "OOB" \in ready => dev.events # <<>>
      /\ "READ" \in ready => dev.frames > 0
      /\ "WRITE" \in ready => dev.room > 0
  BY <1>1 DEF Process!Ready
<1>3. did' = "none" /\ UNCHANGED <<dev, line_chan>>
  BY DEF Process!Poll
<1>4. \/ \E code \in {-1, 0} : turn' = [pc |-> "idle", flags |-> {}, ret |-> code]
      \/ turn' = [pc |-> "oob", flags |-> ready, ret |-> 0]
  BY DEF Process!Poll
<1> HIDE DEF ready, asked
<1>5. /\ turn' \in ProcessCall
      /\ turn'.pc = "idle" \/ (turn'.pc = "oob" /\ turn'.flags = ready)
  <2>1. \A code \in {-1, 0} : [pc |-> "idle", flags |-> {}, ret |-> code] \in ProcessCall
    BY DEF ProcessCall
  <2>2. [pc |-> "oob", flags |-> ready, ret |-> 0] \in ProcessCall
    BY <1>2 DEF ProcessCall
  <2>3. QED
    BY <1>4, <2>1, <2>2
<1>6. ProcessTypes' /\ PolledIsThere'
  BY <1>2, <1>3, <1>5 DEF ProcessInv, ProcessTypes, PolledIsThere
<1>7. Deaf'
  BY <1>1, <1>2, <1>3, <1>5 DEF ProcessInv, Deaf
<1>8. QED
  BY <1>6, <1>7 DEF ProcessInv

\* The event that raises the alarm also switches reading and MF off, so that the
\* rest of this turn of the loop does nothing.
LEMMA OobQuiet ==
  ASSUME Process!ProcessAssumption, ProcessInv, Process!Oob
  PROVE  ProcessInv'
<1>1. dev \in Driver /\ line_chan \in Channel /\ turn \in ProcessCall /\ PolledIsThere /\ Deaf
  BY DEF ProcessInv, ProcessTypes
<1>2. turn.pc = "oob" /\ turn' = [turn EXCEPT !.pc = "read"] /\ did' = "none"
  BY DEF Process!Oob
<1>3. turn' \in ProcessCall /\ turn'.pc = "read" /\ turn'.flags = turn.flags
  BY <1>1, <1>2 DEF ProcessCall
<1>4. CASE /\ "OOB" \in turn.flags /\ dev' = [dev EXCEPT !.events = Tail(@)]
           /\ Process!openr2_chan_handle_oob_event(Head(dev.events))
  <2>1. dev.events \in Seq(Process!Event) /\ dev.events # <<>>
    BY <1>1, <1>2, <1>4 DEF Driver, PolledIsThere
  <2>2. Head(dev.events) \in Process!Event /\ Tail(dev.events) \in Seq(Process!Event)
    BY <2>1
  <2>3. dev' \in Driver /\ dev'.frames = dev.frames /\ dev'.room = dev.room
    BY <1>1, <1>4, <2>2 DEF Driver
  <2>4. CASE Process!AlarmRaised
    <3>1. line_chan' \in Channel /\ ~line_chan'.read_enabled /\ line_chan'.mode = "off"
      BY <1>1, <2>4 DEF Process!AlarmRaised, Channel, Process!Mode
    <3>2. QED
      BY <1>1, <1>2, <1>3, <2>3, <3>1 DEF ProcessInv, ProcessTypes, PolledIsThere, Deaf
  <2>5. CASE \E m \in Process!Mode :
               line_chan' = [line_chan EXCEPT !.inalarm = FALSE, !.mode = m, !.read_enabled = FALSE,
                                    !.left = DtmfBuffers]
    <3>1. line_chan' \in Channel /\ ~line_chan'.inalarm
      <4>1. DtmfBuffers \in Int
        BY DEF Process!ProcessAssumption
      <4>2. QED
        BY <1>1, <2>5, <4>1 DEF Channel
    <3>2. QED
      BY <1>1, <1>2, <1>3, <2>3, <3>1 DEF ProcessInv, ProcessTypes, PolledIsThere, Deaf
  <2>6. CASE (\E m \in Process!Mode : Process!MovesTo(m)) \/ UNCHANGED line_chan
    <3>1. line_chan' \in Channel /\ line_chan'.inalarm = line_chan.inalarm
      BY <1>1, <2>6, Moved
    <3>2. QED
      BY <1>1, <1>2, <1>3, <2>3, <3>1 DEF ProcessInv, ProcessTypes, PolledIsThere, Deaf
  <2>7. QED
    BY <1>4, <2>2, <2>4, <2>5, <2>6 DEF Process!openr2_chan_handle_oob_event, Process!Event
<1>5. CASE UNCHANGED <<dev, line_chan>>
  BY <1>1, <1>2, <1>3, <1>5 DEF ProcessInv, ProcessTypes, PolledIsThere, Deaf
<1>6. QED
  BY <1>4, <1>5 DEF Process!Oob

\* A frame is read only if reading is on, which no channel in alarm is when the
\* loop comes to a polled frame.
LEMMA ReadQuiet ==
  ASSUME Process!ProcessAssumption, ProcessInv, Process!Read
  PROVE  ProcessInv'
<1>1. dev \in Driver /\ line_chan \in Channel /\ turn \in ProcessCall /\ PolledIsThere /\ Deaf
  BY DEF ProcessInv, ProcessTypes
<1>2. turn.pc = "read"
  BY DEF Process!Read
<1>3. CASE /\ \/ turn' = [turn EXCEPT !.pc = "write"]
              \/ turn' = [turn EXCEPT !.pc = "poll"]
              \/ turn' = [pc |-> "idle", flags |-> {}, ret |-> -1]
           /\ did' = "none" /\ UNCHANGED <<dev, line_chan>>
  <2>1. /\ turn' \in ProcessCall
        /\ turn'.pc \in {"poll", "idle"} \/ (turn'.pc = "write" /\ turn'.flags = turn.flags)
    BY <1>1, <1>3 DEF ProcessCall
  <2>2. QED
    BY <1>1, <1>2, <1>3, <2>1 DEF ProcessInv, ProcessTypes, PolledIsThere, Deaf
<1>4. CASE /\ line_chan.read_enabled /\ "READ" \in turn.flags
           /\ dev' = [dev EXCEPT !.frames = @ - 1]
           /\ Process!openr2_chan_handle_media
           /\ turn' = [turn EXCEPT !.pc = "write"]
  <2>1. ~line_chan.inalarm
    BY <1>1, <1>2, <1>4 DEF Deaf
  <2>2. (\E m \in Process!Mode : Process!MovesTo(m)) \/ UNCHANGED line_chan
    BY <1>1, <1>4 DEF Process!openr2_chan_handle_media, Process!Mode, Channel
  <2>3. line_chan' \in Channel /\ ~line_chan'.inalarm
    BY <1>1, <2>1, <2>2, Moved
  <2>4. dev.frames > 0 /\ dev.frames \in Nat
    BY <1>1, <1>2, <1>4 DEF PolledIsThere, Driver
  <2>5. dev' \in Driver /\ dev'.room = dev.room
    BY <1>1, <1>4, <2>4 DEF Driver
  <2>6. turn' \in ProcessCall /\ turn'.pc = "write" /\ turn'.flags = turn.flags
    BY <1>1, <1>4 DEF ProcessCall
  <2>7. QED
    BY <1>1, <1>2, <2>3, <2>5, <2>6 DEF ProcessInv, ProcessTypes, PolledIsThere, Deaf
<1>5. QED
  BY <1>3, <1>4 DEF Process!Read

\* A frame is written only if the MF engine is on.
LEMMA WriteQuiet ==
  ASSUME Process!ProcessAssumption, ProcessInv, Process!Write
  PROVE  ProcessInv'
<1>1. dev \in Driver /\ line_chan \in Channel /\ turn \in ProcessCall /\ PolledIsThere /\ Deaf
  BY DEF ProcessInv, ProcessTypes
<1>2. turn.pc = "write"
  BY DEF Process!Write
<1>3. /\ turn' \in ProcessCall /\ turn'.pc \in {"poll", "idle"}
  <2>1. \/ turn' = [turn EXCEPT !.pc = "poll"]
        \/ \E code \in {-1, 0} : turn' = [pc |-> "idle", flags |-> {}, ret |-> code]
    BY DEF Process!Write, Process!WriteFrame
  <2>2. QED
    BY <1>1, <2>1 DEF ProcessCall
<1>4. CASE did' = "none" /\ UNCHANGED <<dev, line_chan>>
  BY <1>1, <1>3, <1>4 DEF ProcessInv, ProcessTypes, PolledIsThere, Deaf
<1>5. CASE Process!MovesTo("off") /\ did' = "none" /\ UNCHANGED dev
  <2>1. line_chan' \in Channel
    BY <1>1, <1>5, Moved DEF Process!Mode
  <2>2. QED
    BY <1>1, <1>3, <1>5, <2>1 DEF ProcessInv, ProcessTypes, PolledIsThere, Deaf
<1>6. CASE /\ "WRITE" \in turn.flags /\ ~Process!MfOff(line_chan.mode)
           /\ UNCHANGED line_chan \/ line_chan' = [line_chan EXCEPT !.left = @ - 1]
           /\ \/ UNCHANGED dev
              \/ dev' = [dev EXCEPT !.room = @ - 1]
  <2>1. line_chan.mode # "off"
    BY <1>6
  <2>2. ~line_chan.inalarm
    BY <1>1, <1>2, <1>6, <2>1 DEF Deaf
  <2>3. line_chan.left \in Int
    BY <1>1 DEF Channel
  <2>4. line_chan' \in Channel /\ ~line_chan'.inalarm
    BY <1>1, <1>6, <2>2, <2>3 DEF Channel
  <2>5. dev.room > 0 /\ dev.room \in Nat
    BY <1>1, <1>2, <1>6 DEF PolledIsThere, Driver
  <2>6. dev' \in Driver
    BY <1>1, <1>6, <2>5 DEF Driver
  <2>7. QED
    BY <1>3, <2>4, <2>6 DEF ProcessInv, ProcessTypes, PolledIsThere, Deaf
<1>7. QED
  BY <1>4, <1>5, <1>6 DEF Process!Write, Process!WriteFrame

\* Every step of R2Process preserves the invariant.
LEMMA ProcessStep ==
  ASSUME Process!ProcessAssumption, ProcessInv, [Process!Next]_(Process!vars)
  PROVE  ProcessInv'
<1>1. dev \in Driver /\ line_chan \in Channel /\ turn \in ProcessCall /\ PolledIsThere /\ Deaf
  BY DEF ProcessInv, ProcessTypes
<1>2. CASE Process!UserActs
  <2>1. line_chan' \in Channel /\ line_chan'.inalarm = line_chan.inalarm
    BY <1>1, <1>2, Moved DEF Process!UserActs, Channel, Process!Mode
  <2>2. QED
    BY <1>1, <1>2, <2>1 DEF Process!UserActs, ProcessInv, ProcessTypes, PolledIsThere, Deaf
<1>3. CASE Process!Process
  <2>1. turn' \in ProcessCall /\ turn'.pc = "poll"
    BY <1>1, <1>3 DEF Process!Process, ProcessCall
  <2>2. QED
    BY <1>1, <1>3, <2>1 DEF Process!Process, ProcessInv, ProcessTypes, PolledIsThere, Deaf
<1>4. CASE UNCHANGED Process!vars
  BY <1>1, <1>4 DEF Process!vars, ProcessInv, ProcessTypes, PolledIsThere, Deaf
<1>5. QED
  BY <1>2, <1>3, <1>4, LineBringsQuiet, PollQuiet, OobQuiet, ReadQuiet, WriteQuiet
  DEF Process!Next, Process!Step

\* Whatever the driver reports and wherever it fails, no step of
\* openr2_chan_process detects a tone, sends one or delivers speech while the
\* channel is in alarm, the turn that takes the alarm event included.
THEOREM SilentInAlarm ==
  ASSUME Process!ProcessAssumption
  PROVE  Process!Spec => []QuietInAlarm
<1>1. Process!Init => ProcessInv
  BY ProcessInit
<1>2. ProcessInv /\ [Process!Next]_(Process!vars) => ProcessInv'
  BY ProcessStep
<1>3. ProcessInv => QuietInAlarm
  BY DEF ProcessInv, Deaf, QuietInAlarm, Process!QuietInAlarm
<1>4. QED
  BY <1>1, <1>2, <1>3, PTL DEF Process!Spec

HIDE DEF Process!At, Process!Goto, Process!Return, Process!Fails, Process!ELAST, Process!MfOff
-----------------------------------------------------------------------------
(* openr2_chan_write. *)

\* The user writes buffers of at most OR2_CHAN_READ_SIZE.  Beyond, the loop
\* starts again at the beginning of the buffer.
WithinABlock == \A n \in Lengths : n <= BlockSize

\* A call in its loop has had nothing taken; one that returned says how many bytes
\* were.
WriteInv ==
  /\ speech \in [busy : BOOLEAN, size : Nat, wrote : Nat]
  /\ speech.busy => speech.size \in Lengths /\ speech.wrote = 0 /\ taken = <<>>
  /\ ~speech.busy => taken = Write!Bytes(1, speech.wrote)

\* Before the first call nothing was taken.
LEMMA WriteInit ==
  ASSUME Write!Init
  PROVE  WriteInv
BY DEF Write!Init, WriteInv, Write!Bytes

\* zt_write fails, takes nothing, or takes the buffer at once.
LEMMA AttemptTakesAll ==
  ASSUME Write!WriteAssumption, WithinABlock, WriteInv, Write!Attempt
  PROVE  WriteInv'
<1> DEFINE n == speech.size
           z == Write!ZtWrite(1, n)
           wrote == IF z.r = -1 THEN 0 ELSE 0 + z.r
           busy == ~(z.r = -1 /\ z.errno # "EAGAIN") /\ wrote < n
<1>1. /\ n \in Nat /\ n > 0 /\ n <= BlockSize /\ n \in Lengths /\ BlockSize \in Nat
      /\ speech.wrote = 0 /\ taken = <<>> /\ speech.busy
      /\ speech \in [busy : BOOLEAN, size : Nat, wrote : Nat]
  BY DEF Write!Attempt, WriteInv, Write!WriteAssumption, WithinABlock
<1>2. Write!Smaller(n - 1 + 1, BlockSize) = n
  BY <1>1 DEF Write!Smaller
<1>3. Write!Bytes(1, 1 + n - 1) = Write!Bytes(1, n)
  BY <1>1
<1>4. \/ z = [r |-> -1, errno |-> "EIO", put |-> <<>>, told |-> TRUE]
      \/ z = [r |-> 0, errno |-> "ELAST", put |-> <<>>, told |-> FALSE]
      \/ z = [r |-> -1, errno |-> "EAGAIN", put |-> <<>>, told |-> TRUE]
      \/ z = [r |-> n, errno |-> "none", put |-> Write!Bytes(1, n), told |-> FALSE]
  BY <1>2, <1>3 DEF Write!ZtWrite
<1>5. /\ taken' = <<>> \o z.put
      /\ speech' = [speech EXCEPT !.wrote = wrote, !.busy = busy]
  BY <1>1 DEF Write!Attempt
<1>6. Write!Bytes(1, n) \in Seq(Int)
  BY <1>1 DEF Write!Bytes
<1> HIDE DEF z
<1>7. CASE z.r = -1 /\ z.put = <<>> /\ z.errno = "EIO"
  <2>1. wrote = 0 /\ busy = FALSE /\ <<>> \o z.put = <<>>
    BY <1>1, <1>7
  <2>2. Write!Bytes(1, 0) = <<>>
    BY DEF Write!Bytes
  <2> HIDE DEF wrote, busy
  <2>3. QED
    BY <1>1, <1>5, <2>1, <2>2 DEF WriteInv
<1>8. CASE /\ z.r = 0 \/ (z.r = -1 /\ z.errno = "EAGAIN")
           /\ z.put = <<>>
  <2>1. wrote = 0 /\ busy = TRUE /\ <<>> \o z.put = <<>>
    BY <1>1, <1>8
  <2> HIDE DEF wrote, busy
  <2>2. QED
    BY <1>1, <1>5, <2>1 DEF WriteInv
<1>9. CASE z.r = n /\ z.put = Write!Bytes(1, n) /\ z.errno = "none"
  <2>1. wrote = n /\ busy = FALSE
    BY <1>1, <1>9
  <2>2. <<>> \o z.put = Write!Bytes(1, n)
    BY <1>6, <1>9
  <2> HIDE DEF wrote, busy
  <2>3. QED
    BY <1>1, <1>5, <2>1, <2>2 DEF WriteInv
<1>10. QED
  BY <1>4, <1>7, <1>8, <1>9

\* The driver has the first bytes of the buffer, each once and in order, as many
\* as openr2_chan_write says, however often it tries again, and whatever events
\* and failures come in between.
THEOREM TakesTheBuffer ==
  ASSUME Write!WriteAssumption, WithinABlock
  PROVE  Write!Spec => []WritesTheBuffer
<1>1. Write!Init => WriteInv
  BY WriteInit
<1>2. WriteInv /\ [Write!Next]_(Write!vars) => WriteInv'
  <2> SUFFICES ASSUME WriteInv, [Write!Next]_(Write!vars) PROVE WriteInv'
    OBVIOUS
  <2>1. CASE UNCHANGED <<speech, taken, told>>
    BY <2>1 DEF WriteInv
  <2>2. ASSUME NEW n \in Lengths, Write!Write(n) PROVE WriteInv'
    BY <2>2 DEF Write!Write, WriteInv, Write!WriteAssumption
  <2>3. QED
    BY <2>1, <2>2, AttemptTakesAll
    DEF Write!Next, Write!vars, Write!LineSends, Write!EventArrives, Write!Break, Write!TakeEvent
<1>3. WriteInv => WritesTheBuffer
  BY DEF WriteInv, WritesTheBuffer, Write!WritesTheBuffer
<1>4. QED
  BY <1>1, <1>2, <1>3, PTL DEF Write!Spec
-----------------------------------------------------------------------------
(* The threads of r2test. *)

\* The states of a thread and of main.
ThreadState == {"none", "started", "count", "running", "exited"}

MainPc == {"contexts", "channels", "listeners", "launch", "wait", "waiting", "callers",
           "join", "aborted", "crashed"}

\* The listeners that run and have not counted themselves down.
Pending == { c \in Test!Listeners : test_thread[c] \in {"started", "count"} }

\* The types; only a listener counts down, and only main keeps the lock over
\* its steps.
TestTypes ==
  /\ test_thread \in [Test!Chans -> ThreadState]
  /\ \A c \in Test!Chans : test_thread[c] = "count" => c \in Test!Listeners
  /\ main \in [pc : MainPc, g : Int, k : Int]
  /\ listener_count \in Int
  /\ test_lock \in {"free", "main"}

\* No more listeners are pending than listener_count says.
Counted == IsFiniteSet(Pending) /\ Cardinality(Pending) <= listener_count

\* Threads start in the order main starts them; a signal while main waits, and
\* main past its wait, mean that no listener is pending.
Phases ==
  /\ main.pc \in {"contexts", "channels", "listeners", "aborted", "crashed"} =>
       \A c \in Test!Chans : test_thread[c] = "none"
  /\ main.pc \in {"launch", "wait", "waiting"} => \A c \in Test!Callers : test_thread[c] = "none"
  /\ main.pc \in {"launch", "wait"} => test_lock = "main"
  /\ main.pc = "waiting" /\ signalled => Pending = {}
  /\ main.pc \in {"callers", "join"} => Pending = {}

\* The inductive invariant of R2Test.
TestInv == TestTypes /\ Counted /\ Phases

\* The listeners are finitely many.
LEMMA FiniteListeners ==
  ASSUME Test!TestAssumption
  PROVE  IsFiniteSet(Test!Listeners) /\ Test!Listeners \subseteq Test!Chans
<1> DEFINE Group == [caller : BOOLEAN, chans : 1 .. 30, dahdi : BOOLEAN]
           Row(g) == {g} \X (1 .. Groups[g].chans)
           Rows == { Row(g) : g \in Test!G }
           row == [g \in Test!G |-> Row(g)]
<1>1. Groups \in Seq(Group)
  BY DEF Test!TestAssumption, Test!MAX_CHANS
<1>2. \A r \in Group : r.chans \in Int
  OBVIOUS
<1> HIDE DEF Group
<1>3. Test!G = 1 .. Len(Groups) /\ Len(Groups) \in Nat /\ \A g \in Test!G : Groups[g] \in Group
  BY <1>1 DEF Test!G
<1>4. IsFiniteSet(Test!G)
  BY <1>3, FS_Interval
<1>5. \A g \in Test!G : IsFiniteSet(Row(g))
  <2> SUFFICES ASSUME NEW g \in Test!G PROVE IsFiniteSet(Row(g))
    OBVIOUS
  <2>1. Groups[g].chans \in Int
    BY <1>2, <1>3
  <2>2. IsFiniteSet({g}) /\ IsFiniteSet(1 .. Groups[g].chans)
    <3>1. IsFiniteSet({g})
      BY FS_Singleton
    <3>2. QED
      BY <2>1, <3>1, FS_Interval
  <2>3. QED
    BY <2>2, FS_Product
<1>6. IsFiniteSet(Rows)
  <2> HIDE DEF Row
  <2>1. row \in Surjection(Test!G, Rows)
    BY DEF Surjection
  <2> HIDE DEF row, Rows
  <2>2. QED
    BY <1>4, <2>1, FS_Surjection
<1>7. IsFiniteSet(Test!Chans)
  <2>1. \A R \in Rows : IsFiniteSet(R)
    BY <1>5
  <2> HIDE DEF Rows
  <2>2. IsFiniteSet(UNION Rows)
    BY <1>6, <2>1, FS_UNION
  <2>3. QED
    BY <2>2 DEF Test!Chans, Rows
<1>8. Test!Listeners \in SUBSET Test!Chans
  BY DEF Test!Listeners
<1>9. QED
  BY <1>7, <1>8, FS_Subset

\* Before main starts a thread none is pending.
LEMMA TestInit ==
  ASSUME Test!TestAssumption, Test!Init
  PROVE  TestInv
<1>1. Pending = {}
  BY FiniteListeners DEF Test!Init, Pending
<1>2. QED
  BY <1>1, FS_EmptySet DEF Test!Init, TestInv, TestTypes, Counted, Phases, ThreadState, MainPc

\* Threads that are no longer to be counted leave the others to be.
LEMMA FewerPending ==
  ASSUME Test!TestAssumption, TestInv, Pending' \subseteq Pending,
         listener_count' = listener_count
  PROVE  Counted'
<1>1. IsFiniteSet(Pending) /\ Pending' \in SUBSET Pending /\ Cardinality(Pending) <= listener_count
  BY DEF TestInv, Counted
<1>2. IsFiniteSet(Pending') /\ Cardinality(Pending') <= Cardinality(Pending)
  BY <1>1, FS_Subset
<1>3. Cardinality(Pending) \in Nat /\ Cardinality(Pending') \in Nat /\ listener_count \in Int
  BY <1>1, <1>2, FS_CardinalityType DEF TestInv, TestTypes
<1>4. QED
  BY <1>1, <1>2, <1>3 DEF Counted

\* main goes to the next channel, or from the last one on (NextChannel).
LEMMA Onward ==
  ASSUME TestInv, NEW pc \in MainPc, Test!NextChannel(pc)
  PROVE  main' \in [pc : MainPc, g : Int, k : Int] /\ main'.pc \in {main.pc, pc}
<1>1. main \in [pc : MainPc, g : Int, k : Int]
  BY DEF TestInv, TestTypes
<1>2. CASE main' = [main EXCEPT !.k = @ + 1]
  BY <1>1, <1>2
<1>3. CASE main' = [main EXCEPT !.g = @ + 1, !.k = 1]
  <2>1. main.g + 1 \in Int
    BY <1>1
  <2>2. \E g, k \in Int : main' = [main EXCEPT !.g = g, !.k = k]
    <3> WITNESS main.g + 1 \in Int, 1 \in Int
    <3>1. QED
      BY <1>3
  <2>3. QED
    BY <1>1, <2>2
<1>4. CASE main' = [pc |-> pc, g |-> 1, k |-> 1]
  BY <1>1, <1>4
<1>5. QED
  BY <1>2, <1>3, <1>4 DEF Test!NextChannel, Test!Goto

\* launch_r2_call_listeners counts the listener that it starts, under the lock.
LEMMA LaunchCounted ==
  ASSUME Test!TestAssumption, TestInv, Test!LaunchListener
  PROVE  TestInv'
<1> DEFINE c == <<main.g, main.k>>
<1>1. /\ main.pc = "launch" /\ test_lock = "main" /\ test_lock' = test_lock
      /\ main' \in [pc : MainPc, g : Int, k : Int] /\ main'.pc \in {"launch", "wait"}
  <2>1. main.pc = "launch" /\ Test!NextChannel("wait") /\ test_lock' = test_lock
    BY DEF Test!LaunchListener, Test!Launch, Test!At
  <2>2. QED
    BY <2>1, Onward DEF MainPc, TestInv, Phases
<1>2. PICK s \in {"started", test_thread[c]} :
         /\ test_thread' = [test_thread EXCEPT ![c] = s]
         /\ s # test_thread[c] => c \in Test!Listeners /\ s = "started"
  BY DEF Test!LaunchListener, Test!Launch
<1>3. CASE test_thread' = test_thread
  <2>1. Pending' = Pending /\ listener_count' = listener_count
    BY <1>3 DEF Pending, Test!LaunchListener, TestInv, TestTypes
  <2>2. Counted'
    BY <2>1, FewerPending
  <2>3. QED
    BY <1>1, <1>3, <2>1, <2>2 DEF TestInv, TestTypes, Phases, MainPc
<1>4. CASE test_thread' # test_thread
  <2>1. c \in Test!Listeners /\ s = "started" /\ c \in Test!Chans
    BY <1>2, <1>4, FiniteListeners DEF TestInv, TestTypes
  <2>2. listener_count' = listener_count + 1
    BY <1>4 DEF Test!LaunchListener
  <2>3. Pending' \subseteq Pending \cup {c}
    BY <1>2, <2>1, FiniteListeners DEF Pending, TestInv, TestTypes
  <2>4. /\ IsFiniteSet(Pending) /\ Cardinality(Pending) <= listener_count
        /\ listener_count \in Int /\ Cardinality(Pending) \in Nat
    BY FS_CardinalityType DEF TestInv, Counted, TestTypes
  <2>5. /\ IsFiniteSet(Pending \cup {c})
        /\ Cardinality(Pending \cup {c}) <= Cardinality(Pending) + 1
    <3>1. /\ IsFiniteSet(Pending \cup {c})
          /\ Cardinality(Pending \cup {c}) =
               IF c \in Pending THEN Cardinality(Pending) ELSE Cardinality(Pending) + 1
      BY <2>4, FS_AddElement
    <3>2. QED
      BY <2>4, <3>1
  <2>6. /\ IsFiniteSet(Pending') /\ Cardinality(Pending') <= Cardinality(Pending \cup {c})
    BY <2>3, <2>5, FS_Subset
  <2>7. Counted'
    <3>1. Cardinality(Pending') \in Nat /\ Cardinality(Pending \cup {c}) \in Nat
      BY <2>5, <2>6, FS_CardinalityType
    <3>2. QED
      BY <2>2, <2>4, <2>5, <2>6, <3>1 DEF Counted
  <2>8. \A x \in Test!Callers : test_thread'[x] = "none"
    BY <1>1, <1>2, <2>1 DEF Test!Callers, TestInv, Phases, TestTypes
  <2>9. TestTypes'
    BY <1>1, <1>2, <2>1, <2>2, <2>4, FiniteListeners DEF TestInv, TestTypes, ThreadState, MainPc
  <2>10. QED
    BY <1>1, <2>7, <2>8, <2>9 DEF TestInv, Phases
<1>5. QED
  BY <1>3, <1>4

\* main waits only if a listener is pending, and wakes only after a signal.
LEMMA MainInOrder ==
  ASSUME Test!TestAssumption, ~Spurious, TestInv,
         Test!MakeContext \/ Test!MakeChannel \/ Test!LockListeners \/ Test!Wait \/ Test!Woken
  PROVE  TestInv'
<1>1. test_thread' = test_thread /\ Pending' = Pending
  BY DEF Test!MakeContext, Test!MakeChannel, Test!LockListeners, Test!Wait, Test!Woken, Pending
<1>2. CASE Test!MakeContext \/ Test!MakeChannel
  <2>1. /\ main.pc \in {"contexts", "channels"} /\ UNCHANGED <<test_lock, listener_count>>
        /\ main' \in [pc : MainPc, g : Int, k : Int]
        /\ main'.pc \in {"contexts", "channels", "listeners", "aborted", "crashed"}
    <3>1. CASE Test!MakeContext
      <4>1. /\ main.pc = "contexts" /\ UNCHANGED <<test_lock, listener_count>>
            /\ \/ \E pc \in {"crashed", "aborted", "channels"} : main' = [pc |-> pc, g |-> 1, k |-> 1]
               \/ main' = [main EXCEPT !.g = @ + 1]
        BY <3>1 DEF Test!MakeContext, Test!At, Test!Goto, Test!sync
      <4>2. main \in [pc : MainPc, g : Int, k : Int]
        BY DEF TestInv, TestTypes
      <4>3. CASE main' = [main EXCEPT !.g = @ + 1]
        BY <4>1, <4>2, <4>3
      <4>4. CASE \E pc \in {"crashed", "aborted", "channels"} : main' = [pc |-> pc, g |-> 1, k |-> 1]
        BY <4>1, <4>4 DEF MainPc
      <4>5. QED
        BY <4>1, <4>3, <4>4
    <3>2. CASE Test!MakeChannel
      <4>1. /\ main.pc = "channels" /\ UNCHANGED <<test_lock, listener_count>>
            /\ Test!NextChannel("listeners") \/ main' = [pc |-> "crashed", g |-> 1, k |-> 1]
        BY <3>2 DEF Test!MakeChannel, Test!At, Test!Goto, Test!sync
      <4>2. CASE Test!NextChannel("listeners")
        BY <4>1, <4>2, Onward DEF MainPc
      <4>3. CASE main' = [pc |-> "crashed", g |-> 1, k |-> 1]
        BY <4>1, <4>3 DEF MainPc
      <4>4. QED
        BY <4>1, <4>2, <4>3
    <3>3. QED
      BY <1>2, <3>1, <3>2
  <2>2. QED
    BY <1>1, <2>1 DEF TestInv, TestTypes, Counted, Phases, MainPc
<1>3. CASE Test!LockListeners
  <2>1. /\ main.pc = "listeners" /\ main' = [pc |-> "launch", g |-> 1, k |-> 1] /\ test_lock' = "main" /\ listener_count' = 0
    BY <1>3 DEF Test!LockListeners, Test!At, Test!Goto
  <2>2. /\ \A c \in Test!Chans : test_thread[c] = "none"
        /\ \A c \in Test!Callers : test_thread[c] = "none"
    BY <2>1 DEF TestInv, Phases, Test!Callers
  <2>3. Pending = {}
    BY <2>2, FiniteListeners DEF Pending
  <2>4. QED
    BY <1>1, <2>1, <2>2, <2>3, FS_EmptySet DEF TestInv, TestTypes, Counted, Phases, MainPc
<1>4. CASE Test!Wait
  <2>1. /\ main.pc = "wait" /\ test_lock' = "free" /\ signalled' = FALSE
        /\ main'.pc = IF listener_count > 0 THEN "waiting" ELSE "callers"
        /\ main' \in [pc : MainPc, g : Int, k : Int]
        /\ listener_count' = listener_count
    BY <1>4 DEF Test!Wait, Test!At, Test!Goto, MainPc
  <2>2. CASE listener_count > 0
    BY <1>1, <2>1, <2>2 DEF TestInv, TestTypes, Counted, Phases, MainPc
  <2>3. CASE ~(listener_count > 0)
    <3>1. IsFiniteSet(Pending) /\ Cardinality(Pending) \in Nat /\ Cardinality(Pending) <= 0
      BY <2>3, FS_CardinalityType DEF TestInv, TestTypes, Counted
    <3>2. Pending = {}
      BY <3>1, FS_EmptySet
    <3>3. QED
      BY <1>1, <2>1, <2>3, <3>2 DEF TestInv, TestTypes, Counted, Phases, MainPc
  <2>4. QED
    BY <2>2, <2>3
<1>5. CASE Test!Woken
  <2>1. /\ main.pc = "waiting" /\ signalled /\ test_lock' = "main"
        /\ main' = [pc |-> "callers", g |-> 1, k |-> 1] /\ listener_count' = listener_count
    BY <1>5 DEF Test!Woken, Test!At, Test!Goto
  <2>2. QED
    BY <1>1, <2>1 DEF TestInv, TestTypes, Counted, Phases, MainPc
<1>6. QED
  BY <1>2, <1>3, <1>4, <1>5

\* A thread that calls is not counted.
LEMMA CallerLaunched ==
  ASSUME Test!TestAssumption, TestInv, Test!LaunchCaller
  PROVE  TestInv'
<1> DEFINE c == <<main.g, main.k>>
<1>1. /\ main.pc = "callers" /\ UNCHANGED <<test_lock, listener_count, signalled>>
      /\ main' \in [pc : MainPc, g : Int, k : Int] /\ main'.pc \in {"callers", "join"}
  <2>1. main.pc = "callers" /\ Test!NextChannel("join") /\ UNCHANGED <<test_lock, listener_count, signalled>>
    BY DEF Test!LaunchCaller, Test!Launch, Test!At, Test!sync
  <2>2. QED
    BY <2>1, Onward DEF MainPc
<1>2. PICK s \in {"started", test_thread[c]} :
         /\ test_thread' = [test_thread EXCEPT ![c] = s]
         /\ s # test_thread[c] => c \in Test!Callers /\ s = "started"
  BY DEF Test!LaunchCaller, Test!Launch
<1>3. Pending' \subseteq Pending
  BY <1>2, FiniteListeners DEF Pending, Test!Callers, TestInv, TestTypes
<1>4. Counted'
  BY <1>1, <1>3, FewerPending
<1>5. /\ test_thread' \in [Test!Chans -> ThreadState]
      /\ \A x \in Test!Chans : test_thread'[x] = "count" => x \in Test!Listeners
  BY <1>2 DEF TestInv, TestTypes, ThreadState
<1>6. QED
  BY <1>1, <1>3, <1>4, <1>5 DEF TestInv, TestTypes, Phases, MainPc

\* A thread that counts itself down is pending no more, and the last one signals.
LEMMA ThreadGoesOn ==
  ASSUME Test!TestAssumption, TestInv, NEW c \in Test!Chans,
         Test!Begin(c) \/ Test!CountDown(c) \/ Test!Exit(c)
  PROVE  TestInv'
<1>1. PICK s \in {"count", "running", "exited"} : test_thread' = [test_thread EXCEPT ![c] = s]
  BY DEF Test!Begin, Test!CountDown, Test!Exit
<1>2. main' = main /\ test_lock' = test_lock /\ test_thread[c] \in {"started", "count", "running"}
  BY DEF Test!Begin, Test!CountDown, Test!Exit, Test!sync
<1>3. /\ test_thread' \in [Test!Chans -> ThreadState]
      /\ \A x \in Test!Chans : test_thread[x] = "none" => test_thread'[x] = "none"
      /\ \A x \in Test!Chans : test_thread'[x] = "count" => x \in Test!Listeners
  <2>1. test_thread'[c] = "count" => c \in Test!Listeners
    BY DEF Test!Begin, Test!CountDown, Test!Exit, TestInv, TestTypes
  <2>2. QED
    BY <1>1, <1>2, <2>1 DEF TestInv, TestTypes, ThreadState
<1>4. CASE Test!Begin(c) \/ Test!Exit(c)
  <2>1. Pending' \subseteq Pending
    BY <1>4, FiniteListeners DEF Test!Begin, Test!Exit, Pending, TestInv, TestTypes
  <2>2. UNCHANGED <<listener_count, signalled>>
    BY <1>4 DEF Test!Begin, Test!Exit, Test!sync
  <2>3. Counted'
    BY <2>1, <2>2, FewerPending
  <2>4. Phases'
    BY <1>2, <1>3, <2>1, <2>2 DEF TestInv, Phases, Test!Callers
  <2>5. QED
    BY <1>2, <1>3, <2>2, <2>3, <2>4 DEF TestInv, TestTypes
<1>5. CASE Test!CountDown(c)
  <2>1. /\ test_thread[c] = "count" /\ test_thread' = [test_thread EXCEPT ![c] = "running"]
        /\ test_lock = "free" /\ listener_count' = listener_count - 1
        /\ signalled' = (signalled \/ (listener_count' = 0 /\ main.pc = "waiting"))
    BY <1>5 DEF Test!CountDown, Test!At
  <2>2. CASE c \in Test!Listeners
    <3>1. c \in Pending /\ Pending' = Pending \ {c}
      BY <2>1, <2>2, FiniteListeners DEF Pending, TestInv, TestTypes
    <3>2. /\ IsFiniteSet(Pending) /\ Cardinality(Pending) <= listener_count
          /\ listener_count \in Int /\ Cardinality(Pending) \in Nat
      BY FS_CardinalityType DEF TestInv, Counted, TestTypes
    <3>3. IsFiniteSet(Pending') /\ Cardinality(Pending') = Cardinality(Pending) - 1
      BY <3>1, <3>2, FS_RemoveElement
    <3>4. Counted'
      BY <2>1, <3>2, <3>3 DEF Counted
    <3>5. listener_count' = 0 => Pending' = {}
      <4>1. Cardinality(Pending') \in Nat
        BY <3>3, FS_CardinalityType
      <4>2. listener_count' = 0 => Cardinality(Pending') = 0
        BY <2>1, <3>2, <3>3, <4>1
      <4>3. QED
        BY <3>3, <4>2, FS_EmptySet
    <3>6. Phases'
      BY <1>2, <1>3, <2>1, <3>1, <3>5 DEF TestInv, Phases, Test!Callers
    <3>7. QED
      BY <1>2, <1>3, <2>1, <3>2, <3>4, <3>6 DEF TestInv, TestTypes
  <2>3. c \in Test!Listeners
    BY <2>1 DEF TestInv, TestTypes
  <2>4. QED
    BY <2>2, <2>3
<1>6. QED
  BY <1>4, <1>5

\* Main past its wait has no listener pending, and starts no caller before.
LEMMA CallersLast ==
  ASSUME TestInv
  PROVE  Test!CallersAfterListeners
<1> SUFFICES ASSUME NEW c \in Test!Callers, test_thread[c] # "none", NEW l \in Test!Listeners
             PROVE  test_thread[l] \in {"none", "running", "exited"}
  BY DEF Test!CallersAfterListeners
<1>1. c \in Test!Chans /\ l \in Test!Chans
  BY DEF Test!Callers, Test!Listeners
<1>2. main.pc \in {"callers", "join"}
  BY <1>1 DEF TestInv, TestTypes, Phases, MainPc
<1>3. Pending = {}
  BY <1>2 DEF TestInv, Phases
<1>4. QED
  BY <1>1, <1>3 DEF TestInv, TestTypes, Pending, ThreadState

\* The steps of main and of the threads.
LEMMA TestStep ==
  ASSUME Test!TestAssumption, ~Spurious, TestInv, [Test!Next]_(Test!vars)
  PROVE  TestInv'
<1>1. CASE UNCHANGED Test!vars
  <2>1. Pending' = Pending
    BY <1>1 DEF Test!vars, Pending
  <2>2. QED
    BY <1>1, <2>1 DEF Test!vars, TestInv, TestTypes, Counted, Phases
<1>2. QED
  BY <1>1, MainInOrder, LaunchCounted, CallerLaunched, ThreadGoesOn
  DEF Test!Next, Test!Main, Test!Thread

\* Unless pthread_cond_wait wakes without a signal, r2test starts no thread that
\* calls before every thread that listens has counted itself down, whichever
\* contexts, channels and threads fail to be made and in whatever order the
\* threads run.
THEOREM ListenersFirst ==
  ASSUME Test!TestAssumption, ~Spurious
  PROVE  Test!Spec => []Test!CallersAfterListeners
<1>1. Test!Init => TestInv
  BY TestInit
<1>2. TestInv /\ [Test!Next]_(Test!vars) => TestInv'
  BY TestStep
<1>3. TestInv => Test!CallersAfterListeners
  BY CallersLast
<1>4. QED
  BY <1>1, <1>2, <1>3, PTL DEF Test!Spec

\* r2test looks at what openr2_chan_new returned only after it has used it, and
\* gives a context that was not made the interface of DAHDI, if that is the one.
FailsInOrder ==
  /\ "channel" \notin TestFaults
  /\ "context" \in TestFaults => \A g \in Test!G : ~Groups[g].dahdi

\* main walks the groups of the configuration, and has the interface of DAHDI
\* only after a group that asks for it.
Uncrashed ==
  /\ main.pc # "crashed"
  /\ main \in [pc : MainPc, g : Test!G, k : Int]
  /\ "context" \in TestFaults => mf_iface = "NULL"

\* main does not go past the last group (NextChannel).
LEMMA OnwardInside ==
  ASSUME Test!TestAssumption, Uncrashed, NEW pc \in MainPc \ {"crashed"}, Test!NextChannel(pc)
  PROVE  main'.pc # "crashed" /\ main' \in [pc : MainPc, g : Test!G, k : Int]
<1>1. main \in [pc : MainPc, g : Test!G, k : Int] /\ main.pc # "crashed" /\ pc \in MainPc /\ pc # "crashed"
  BY DEF Uncrashed
<1>2. Test!G = 1 .. Len(Groups) /\ Len(Groups) \in Nat /\ 1 \in Test!G
  BY DEF Test!G, Test!TestAssumption
<1>3. main.g \in Test!G /\ main.k \in Int
  BY <1>1
<1>4. CASE main' = [main EXCEPT !.k = @ + 1]
  <2>1. main.k + 1 \in Int
    BY <1>3
  <2>2. QED
    BY <1>1, <1>4, <2>1
<1>5. CASE main.g < Len(Groups) /\ main' = [main EXCEPT !.g = @ + 1, !.k = 1]
  <2>1. main.g + 1 \in Test!G
    BY <1>2, <1>3, <1>5
  <2>2. \E g \in Test!G, k \in Int : main' = [main EXCEPT !.g = g, !.k = k]
    <3> WITNESS main.g + 1 \in Test!G, 1 \in Int
    <3>1. QED
      BY <1>5
  <2>3. QED
    BY <1>1, <2>2
<1>6. CASE main' = [pc |-> pc, g |-> 1, k |-> 1]
  BY <1>1, <1>2, <1>6
<1>7. QED
  BY <1>4, <1>5, <1>6 DEF Test!NextChannel, Test!Goto

\* A context that could not be made is reported, not used.
LEMMA ContextInOrder ==
  ASSUME Test!TestAssumption, FailsInOrder, Uncrashed, Test!MakeContext
  PROVE  Uncrashed'
<1>1. /\ main \in [pc : MainPc, g : Test!G, k : Int] /\ main.pc # "crashed"
      /\ "context" \in TestFaults => mf_iface = "NULL"
  BY DEF Uncrashed
<1>2. Test!G = 1 .. Len(Groups) /\ Len(Groups) \in Nat /\ 1 \in Test!G
  BY DEF Test!G, Test!TestAssumption
<1>3. main.g \in Test!G
  BY <1>1
<1>4. "context" \in TestFaults => mf_iface' = "NULL"
  BY <1>1, <1>3 DEF Test!MakeContext, Test!NextIface, FailsInOrder
<1>5. PICK made \in {TRUE} \cup (IF Test!MayFail("context") THEN {FALSE} ELSE {}) :
         \/ Test!SetMflibCrashes(made, mf_iface') /\ Test!Goto("crashed")
         \/ Test!Goto("aborted")
         \/ Test!Goto("channels")
         \/ main.g # Len(Groups) /\ main' = [main EXCEPT !.g = @ + 1]
  BY DEF Test!MakeContext
<1>6. ~Test!SetMflibCrashes(made, mf_iface')
  BY <1>4 DEF Test!SetMflibCrashes, Test!MayFail
<1>7. CASE \E pc \in {"aborted", "channels"} : main' = [pc |-> pc, g |-> 1, k |-> 1]
  BY <1>2, <1>4, <1>7 DEF Uncrashed, MainPc
<1>8. CASE main.g # Len(Groups) /\ main' = [main EXCEPT !.g = @ + 1]
  <2>1. PICK g \in Test!G : g = main.g + 1
    BY <1>2, <1>3, <1>8
  <2>2. main' = [main EXCEPT !.g = g]
    BY <1>8, <2>1
  <2>3. QED
    BY <1>1, <1>4, <2>2 DEF Uncrashed
<1>9. QED
  BY <1>5, <1>6, <1>7, <1>8 DEF Test!Goto

\* The other steps.
LEMMA UncrashedStep ==
  ASSUME Test!TestAssumption, FailsInOrder, Uncrashed, [Test!Next]_(Test!vars)
  PROVE  Uncrashed'
<1>1. 1 \in Test!G
  BY DEF Test!G, Test!TestAssumption
<1>2. CASE Test!MakeChannel \/ Test!LaunchListener \/ Test!LaunchCaller
  <2>1. mf_iface' = mf_iface
    BY <1>2 DEF Test!MakeChannel, Test!LaunchListener, Test!LaunchCaller, Test!Launch, Test!setup
  <2>2. \E pc \in MainPc \ {"crashed"} : Test!NextChannel(pc)
    <3>1. CASE Test!MakeChannel
      BY <3>1 DEF Test!MakeChannel, Test!MayFail, FailsInOrder, MainPc
    <3>2. CASE Test!LaunchListener \/ Test!LaunchCaller
      BY <3>2 DEF Test!LaunchListener, Test!LaunchCaller, Test!Launch, MainPc
    <3>3. QED
      BY <1>2, <3>1, <3>2
  <2>3. QED
    BY <2>1, <2>2, OnwardInside DEF Uncrashed
<1>3. CASE Test!LockListeners \/ Test!Wait \/ Test!Woken
  <2>1. /\ mf_iface' = mf_iface
        /\ \E pc \in {"launch", "waiting", "callers"} : main' = [pc |-> pc, g |-> 1, k |-> 1]
    BY <1>3 DEF Test!LockListeners, Test!Wait, Test!Woken, Test!setup, Test!Goto
  <2>2. QED
    BY <1>1, <2>1 DEF Uncrashed, MainPc
<1>4. CASE \E c \in Test!Chans : Test!Thread(c) \/ Test!Exit(c)
  BY <1>4 DEF Uncrashed, Test!Thread, Test!Begin, Test!CountDown, Test!Exit, Test!setup
<1>5. CASE UNCHANGED Test!vars
  BY <1>5 DEF Uncrashed, Test!vars
<1>6. QED
  BY <1>2, <1>3, <1>4, <1>5, ContextInOrder DEF Test!Next, Test!Main

\* And if the failures are those that r2test looks at in time, it also gives up in
\* order: it uses no context or channel that was not made.
THEOREM CallsInOrder ==
  ASSUME Test!TestAssumption, ~Spurious, FailsInOrder
  PROVE  Test!Spec => []CallersAfterListeners
<1> DEFINE I == TestInv /\ Uncrashed
<1>1. Test!Init => I
  <2>1. Test!Init => Uncrashed
    BY DEF Test!Init, Uncrashed, MainPc, Test!G, Test!TestAssumption
  <2>2. QED
    BY <2>1, TestInit
<1>2. I /\ [Test!Next]_(Test!vars) => I'
  BY TestStep, UncrashedStep
<1>3. I => CallersAfterListeners
  BY CallersLast DEF Uncrashed, CallersAfterListeners, Test!NeverCrashes
<1> HIDE DEF I
<1>4. QED
  BY <1>1, <1>2, <1>3, PTL DEF Test!Spec
-----------------------------------------------------------------------------
(* Timers: the order of the moments at which they expire, and rounding. *)

\* A set of naturals that is not empty has a least element: induction, as an
\* ordinary statement.
LEMMA SmallestOf ==
  ASSUME NEW A \in SUBSET Nat, A # {}
  PROVE  \E m \in A : \A k \in A : m <= k
<1>1. IsWellFoundedOn(OpToRel(<, Nat), Nat)
  BY NatLessThanWellFounded
<1>2. PICK m \in A : \A k \in A : ~ (<<k, m>> \in OpToRel(<, Nat))
  BY <1>1, WFMin
<1>3. \A k \in A : ~(k < m)
  BY <1>2 DEF OpToRel
<1>4. QED
  BY <1>3

\* The order in which openr2_chan_add_timer keeps the timers.
NoLater(s, t) == ~Time!Before(t, s)

\* The fields of a timer are numbers.
LEMMA TimerFields ==
  ASSUME NEW t \in Time!Timer
  PROVE  t.sec \in Nat /\ t.usec \in Nat /\ t.usec <= Time!SECOND /\ Time!Micros(t) \in Nat
<1>1. t.sec \in Nat /\ t.usec \in 0 .. Time!SECOND
  BY DEF Time!Timer
<1>2. Time!SECOND \in Nat
  BY SMT DEF Time!SECOND
<1>3. t.usec \in Nat /\ t.usec <= Time!SECOND
  BY <1>1, <1>2
<1>4. \A a, b \in Nat : a * Time!SECOND + b \in Nat
  BY SMT DEF Time!SECOND
<1>5. Time!Micros(t) \in Nat
  BY <1>1, <1>3, <1>4 DEF Time!Micros
<1>6. QED
  BY <1>1, <1>3, <1>5

\* A timer that comes no later by its fields expires no later, a full second that
\* was not carried notwithstanding.
LEMMA NoLaterOrders ==
  ASSUME NEW s \in Time!Timer, NEW t \in Time!Timer, NoLater(s, t)
  PROVE  Time!Micros(s) <= Time!Micros(t)
<1>1. /\ s.sec \in Nat /\ s.usec \in Nat /\ s.usec <= Time!SECOND
      /\ t.sec \in Nat /\ t.usec \in Nat /\ t.usec <= Time!SECOND
  BY TimerFields
<1>2. s.sec < t.sec \/ (s.sec = t.sec /\ s.usec <= t.usec)
  BY <1>1 DEF NoLater, Time!Before
<1>3. QED
  BY SMT, <1>1, <1>2 DEF Time!Micros, Time!SECOND

\* The order is transitive.
LEMMA NoLaterTransitive ==
  ASSUME NEW s \in Time!Timer, NEW t \in Time!Timer, NEW u \in Time!Timer, NoLater(s, t), NoLater(t, u)
  PROVE  NoLater(s, u)
BY SMT, TimerFields DEF NoLater, Time!Before, Time!SECOND

\* The order is total.
LEMMA NoLaterTotal ==
  ASSUME NEW s \in Time!Timer, NEW t \in Time!Timer
  PROVE  NoLater(s, s) /\ (Time!Before(s, t) => NoLater(s, t))
BY SMT, TimerFields DEF NoLater, Time!Before, Time!SECOND

\* C's division by 1000 is off by less than a thousandth.
LEMMA ThousandthRounds ==
  ASSUME NEW n \in Int
  PROVE  /\ Time!Thousandth(n) \in Int
         /\ n - 1000 < Time!Thousandth(n) * 1000 /\ Time!Thousandth(n) * 1000 < n + 1000
BY SMT DEF Time!Thousandth, Time!SECOND

\* The division is monotonic, and a second makes 1000 ms at most.
LEMMA ThousandthGrows ==
  ASSUME NEW m \in Int, NEW n \in Int
  PROVE  /\ m <= n => Time!Thousandth(m) <= Time!Thousandth(n)
         /\ Time!Thousandth(m + Time!SECOND) <= 1000 + Time!Thousandth(m)
BY SMT DEF Time!Thousandth, Time!SECOND

\* What gettimeofday returns is the time.
LEMMA Clock ==
  ASSUME now \in Nat
  PROVE  /\ Time!tv_sec \in Nat /\ Time!tv_usec \in Nat /\ Time!tv_usec < Time!SECOND
         /\ now = Time!tv_sec * Time!SECOND + Time!tv_usec
BY SMT DEF Time!tv_sec, Time!tv_usec, Time!SECOND

\* The ms until a timer expires are off by less than one, whatever side of a
\* second boundary the clock is on.
LEMMA UntilRounds ==
  ASSUME now \in Nat, NEW t \in Time!Timer
  PROVE  /\ Time!ms_until(t) \in Int
         /\ Time!ms_until(t) * 1000 < Time!Micros(t) - now + 1000
         /\ Time!Micros(t) - now - 1000 < Time!ms_until(t) * 1000
<1> DEFINE q == Time!Thousandth(t.usec - Time!tv_usec)
<1>1. /\ t.sec \in Int /\ t.usec \in Int /\ Time!tv_sec \in Int /\ Time!tv_usec \in Int
      /\ now = Time!tv_sec * Time!SECOND + Time!tv_usec
  BY SMT, TimerFields, Clock DEF Time!SECOND
<1>2. /\ q \in Int
      /\ t.usec - Time!tv_usec - 1000 < q * 1000 /\ q * 1000 < t.usec - Time!tv_usec + 1000
  BY SMT, <1>1, ThousandthRounds DEF Time!SECOND
<1>3. Time!ms_until(t) = (t.sec - Time!tv_sec) * 1000 + q
  BY SMT DEF Time!ms_until, Time!SECOND
<1> HIDE DEF q
<1>4. QED
  BY SMT, <1>1, <1>2, <1>3 DEF Time!Micros, Time!SECOND

\* An expired timer is less than a millisecond early, and one that has not
\* expired is not overdue.
LEMMA ExpiredOnTime ==
  ASSUME now \in Nat, NEW t \in Time!Timer
  PROVE  /\ Time!Expired(t) => Time!Micros(t) < now + 1000
         /\ ~Time!Expired(t) => Time!Micros(t) >= now
BY SMT, UntilRounds, TimerFields DEF Time!Expired, Time!SECOND

\* Rounding respects the order: a timer that comes no later has no more ms left.
LEMMA EarlierExpires ==
  ASSUME now \in Nat, NEW s \in Time!Timer, NEW t \in Time!Timer, NoLater(s, t)
  PROVE  /\ Time!ms_until(s) <= Time!ms_until(t)
         /\ Time!Expired(t) => Time!Expired(s)
<1> DEFINE p == Time!Thousandth(s.usec - Time!tv_usec)
           q == Time!Thousandth(t.usec - Time!tv_usec)
           z == Time!Thousandth(0 - Time!tv_usec)
<1>1. /\ s.sec \in Int /\ s.usec \in Int /\ t.sec \in Int /\ t.usec \in Int
      /\ 0 <= t.usec /\ s.usec <= Time!SECOND
      /\ Time!tv_sec \in Int /\ Time!tv_usec \in Int
  BY SMT, TimerFields, Clock DEF Time!SECOND
<1>2. s.sec < t.sec \/ (s.sec = t.sec /\ s.usec <= t.usec)
  BY SMT, <1>1 DEF NoLater, Time!Before, Time!SECOND
<1>3. /\ p \in Int /\ q \in Int /\ z \in Int
      /\ s.usec <= t.usec => p <= q
      /\ z <= q
      /\ p <= 1000 + z
  <2>1. p \in Int /\ q \in Int /\ z \in Int
    BY SMT, <1>1, ThousandthRounds DEF Time!SECOND
  <2>2. s.usec <= t.usec => p <= q
    BY SMT, <1>1, ThousandthGrows DEF Time!SECOND
  <2>3. z <= q
    BY SMT, <1>1, ThousandthGrows DEF Time!SECOND
  <2>4. p <= Time!Thousandth(0 - Time!tv_usec + Time!SECOND)
    BY SMT, <1>1, ThousandthGrows DEF Time!SECOND
  <2>5. /\ Time!Thousandth(0 - Time!tv_usec + Time!SECOND) \in Int
        /\ Time!Thousandth(0 - Time!tv_usec + Time!SECOND) <= 1000 + z
    <3>1. 0 - Time!tv_usec \in Int /\ 0 - Time!tv_usec + Time!SECOND \in Int
      BY SMT, <1>1 DEF Time!SECOND
    <3>2. QED
      BY <3>1, ThousandthGrows, ThousandthRounds
  <2>6. QED
    BY SMT, <2>1, <2>2, <2>3, <2>4, <2>5 DEF Time!SECOND
<1>4. /\ Time!ms_until(s) = (s.sec - Time!tv_sec) * 1000 + p
      /\ Time!ms_until(t) = (t.sec - Time!tv_sec) * 1000 + q
  BY SMT DEF Time!ms_until, Time!SECOND
<1> HIDE DEF p, q, z
<1>5. Time!ms_until(s) <= Time!ms_until(t)
  BY SMT, <1>1, <1>2, <1>3, <1>4 DEF Time!SECOND
<1>6. QED
  BY SMT, <1>1, <1>3, <1>4, <1>5 DEF Time!Expired, Time!SECOND

\* A timer expires after the ms asked for, carried or not.
LEMMA ExpiryIsInTime ==
  ASSUME now \in Nat, NEW ms \in Nat, NEW id \in Nat
  PROVE  Time!expiry(ms, id) \in Time!Timer /\ Time!Micros(Time!expiry(ms, id)) = now + ms * 1000
<1> DEFINE sec == Time!tv_sec + ms \div 1000
           usec == Time!tv_usec + (ms % 1000) * 1000
<1>1. /\ sec \in Nat /\ usec \in Nat /\ usec < 2 * Time!SECOND
      /\ sec * Time!SECOND + usec = now + ms * 1000
  BY SMT, Clock DEF Time!SECOND
<1>2. Time!expiry(ms, id) = IF usec > Time!SECOND THEN [sec |-> sec + 1, usec |-> usec - Time!SECOND, id |-> id]
                         ELSE [sec |-> sec, usec |-> usec, id |-> id]
  BY SMT DEF Time!expiry, Time!SECOND
<1> HIDE DEF sec, usec
<1>. Time!SECOND \in Nat
  BY SMT DEF Time!SECOND
<1>3. CASE usec > Time!SECOND
  <2>1. sec + 1 \in Nat /\ usec - Time!SECOND \in 0 .. Time!SECOND
    BY <1>1, <1>3
  <2>2. Time!expiry(ms, id) = [sec |-> sec + 1, usec |-> usec - Time!SECOND, id |-> id]
    BY <1>2, <1>3
  <2>3. Time!expiry(ms, id) \in Time!Timer
    BY <2>1, <2>2 DEF Time!Timer
  <2>4. Time!Micros(Time!expiry(ms, id)) = (sec + 1) * Time!SECOND + (usec - Time!SECOND)
    BY <2>2 DEF Time!Micros
  <2>5. QED
    BY SMT, <1>1, <2>3, <2>4 DEF Time!SECOND
<1>4. CASE ~(usec > Time!SECOND)
  <2>1. usec \in 0 .. Time!SECOND
    BY <1>1, <1>4
  <2>2. Time!expiry(ms, id) = [sec |-> sec, usec |-> usec, id |-> id]
    BY <1>2, <1>4
  <2>3. Time!expiry(ms, id) \in Time!Timer
    BY <1>1, <2>1, <2>2 DEF Time!Timer
  <2>4. Time!Micros(Time!expiry(ms, id)) = sec * Time!SECOND + usec
    BY <2>2 DEF Time!Micros
  <2>5. QED
    BY SMT, <1>1, <2>3, <2>4 DEF Time!SECOND
<1>5. QED
  BY <1>3, <1>4
-----------------------------------------------------------------------------
(* The timer lists. *)

\* A list in the order of its timers.
InOrder(s) == \A i, j \in 1 .. Len(s) : i <= j => NoLater(s[i], s[j])

\* A function on 1 .. n is a sequence of that length.
LEMMA SeqOfFunction ==
  ASSUME NEW A, NEW n \in Nat, NEW f \in [1 .. n -> A]
  PROVE  f \in Seq(A) /\ Len(f) = n
<1>1. f \in Seq(A)
  BY SeqDef
<1>2. DOMAIN f = 1 .. n /\ DOMAIN f = 1 .. Len(f) /\ Len(f) \in Nat
  BY <1>1, LenProperties
<1>3. QED
  BY <1>1, <1>2

\* The search of openr2_chan_add_timer finds a slot: everything in front comes no
\* later, and what is in the slot expires later.
LEMMA PlaceFound ==
  ASSUME NEW s \in Seq(Time!Timer), NEW t \in Time!Timer
  PROVE  /\ Time!Place(s, t) \in 1 .. Len(s) + 1
         /\ \A k \in 1 .. Time!Place(s, t) - 1 : NoLater(s[k], t)
         /\ Time!Place(s, t) <= Len(s) => Time!Before(t, s[Time!Place(s, t)])
<1> DEFINE n == Len(s)
           A == { i \in 1 .. n + 1 : i = n + 1 \/ Time!Before(t, s[i]) }
           Fits(i) == /\ \A k \in 1 .. i - 1 : ~Time!Before(t, s[k])
                      /\ i <= n => Time!Before(t, s[i])
<1>1. n \in Nat
  OBVIOUS
<1>2. A \in SUBSET Nat /\ A # {}
  BY <1>1
<1>3. PICK m \in A : \A k \in A : m <= k
  BY <1>2, SmallestOf
<1>4. m \in 1 .. n + 1 /\ Fits(m)
  BY <1>1, <1>3
<1>5. Time!Place(s, t) = CHOOSE i \in 1 .. n + 1 : Fits(i)
  BY DEF Time!Place
<1>6. Time!Place(s, t) \in 1 .. n + 1 /\ Fits(Time!Place(s, t))
  <2> HIDE DEF Fits
  <2>1. QED
    BY <1>4, <1>5
<1>7. QED
  BY <1>6 DEF NoLater

\* A list has the timers of another one and the new timer.
OldOrNew(q, s, t) ==
  \A k \in 1 .. Len(q) : q[k] = t \/ \E l \in 1 .. Len(s) : q[k] = s[l]

\* Shifting the later timers by one and storing the new one keeps the order.
LEMMA InsertedInOrder ==
  ASSUME NEW s \in Seq(Time!Timer), InOrder(s), NEW t \in Time!Timer, NEW q,
         q = Time!InsertTimer(s, Time!Place(s, t), t)
  PROVE  q \in Seq(Time!Timer) /\ InOrder(q) /\ OldOrNew(q, s, t)
<1> DEFINE n == Len(s)
           p == Time!Place(s, t)
<1>1. /\ n \in Nat /\ p \in 1 .. n + 1
      /\ \A k \in 1 .. p - 1 : NoLater(s[k], t)
      /\ p <= n => NoLater(t, s[p])
  BY PlaceFound, NoLaterTotal
<1>2. q = [k \in 1 .. n + 1 |-> IF k < p THEN s[k] ELSE IF k = p THEN t ELSE s[k - 1]]
  BY DEF Time!InsertTimer
<1> HIDE DEF p
<1>3. /\ q \in [1 .. n + 1 -> Time!Timer]
      /\ \A k \in 1 .. n + 1 : q[k] = t \/ \E l \in 1 .. n : q[k] = s[l]
  BY <1>1, <1>2
<1>4. q \in Seq(Time!Timer) /\ Len(q) = n + 1
  BY <1>1, <1>3, SeqOfFunction
<1>5. \A k \in p .. n : NoLater(t, s[k])
  <2> SUFFICES ASSUME NEW k \in p .. n PROVE NoLater(t, s[k])
    OBVIOUS
  <2>1. p <= n /\ p \in 1 .. n /\ k \in 1 .. n /\ NoLater(s[p], s[k]) /\ NoLater(t, s[p])
    BY <1>1 DEF InOrder
  <2>2. s[p] \in Time!Timer /\ s[k] \in Time!Timer
    BY <2>1
  <2>3. QED
    BY <2>1, <2>2, NoLaterTransitive
<1>6. InOrder(q)
  <2> SUFFICES ASSUME NEW i \in 1 .. n + 1, NEW j \in 1 .. n + 1, i <= j
               PROVE  NoLater(q[i], q[j])
    BY <1>4 DEF InOrder
  <2>1. CASE i < p /\ j < p
    BY <1>1, <1>2, <2>1 DEF InOrder
  <2>2. CASE i < p /\ j = p
    BY <1>1, <1>2, <2>2
  <2>3. CASE i < p /\ j > p
    <3>1. i \in 1 .. n /\ j - 1 \in 1 .. n /\ i <= j - 1
      BY <1>1, <2>3
    <3>2. q[i] = s[i] /\ q[j] = s[j - 1]
      BY <1>1, <1>2, <2>3
    <3>3. QED
      BY <3>1, <3>2 DEF InOrder
  <2>4. CASE i = p /\ j = p
    BY <1>1, <1>2, <2>4, NoLaterTotal
  <2>5. CASE i = p /\ j > p
    BY <1>1, <1>2, <1>5, <2>5
  <2>6. CASE i > p /\ j > p
    BY <1>1, <1>2, <2>6 DEF InOrder
  <2>7. QED
    BY <1>1, <2>1, <2>2, <2>3, <2>4, <2>5, <2>6
<1>7. QED
  BY <1>3, <1>4, <1>6 DEF OldOrNew

\* So does closing the gap of a timer that is removed.
LEMMA RemovedInOrder ==
  ASSUME NEW s \in Seq(Time!Timer), InOrder(s), NEW i \in 1 .. Len(s), NEW q,
         q = Time!RemoveTimer(s, i)
  PROVE  /\ q \in Seq(Time!Timer) /\ InOrder(q) /\ Len(q) = Len(s) - 1
         /\ \A k \in 1 .. Len(q) : q[k] = s[k] \/ q[k] = s[k + 1]
<1> DEFINE n == Len(s)
<1>1. n \in Nat /\ n - 1 \in Nat
  OBVIOUS
<1>2. q = [k \in 1 .. n - 1 |-> IF k < i THEN s[k] ELSE s[k + 1]]
  BY DEF Time!RemoveTimer
<1>3. q \in [1 .. n - 1 -> Time!Timer]
  BY <1>1, <1>2
<1>4. q \in Seq(Time!Timer) /\ Len(q) = n - 1
  BY <1>1, <1>3, SeqOfFunction
<1>5. InOrder(q)
  BY <1>1, <1>2, <1>4 DEF InOrder
<1>6. QED
  BY <1>1, <1>2, <1>4, <1>5
-----------------------------------------------------------------------------
(* The lists and the calls of the timers. *)

\* The timer lists of the channels.
Lists == [Channels -> Seq(Time!Timer)]

\* The user.
User == [pc : {"work", "asleep", "process", "collect", "dispatch"}, until : Int,
         serve : SUBSET Channels, later : SUBSET Channels]

\* The types.
TimeTypes ==
  /\ now \in Nat /\ chanlist \in Seq(Channels)
  /\ sched_timers \in Lists /\ to_dispatch \in Lists
  /\ timer_id \in [Channels -> Nat]
  /\ user \in User /\ user.until >= -1

\* Timers are scheduled, and called, in their order.
ListsInOrder == \A c \in Channels : InOrder(sched_timers[c]) /\ InOrder(to_dispatch[c])

\* Timers are taken off their list only within openr2_chan_handle_timers.
NoneTaken == user.pc \in {"work", "asleep", "process"} => \A c \in Channels : to_dispatch[c] = <<>>

\* While timers are taken, of one channel, those taken come no later than those
\* that are left.
TakenFirst ==
  user.pc = "collect" =>
    /\ \A b, c \in user.serve : b = c
    /\ \A c \in Channels : \A i \in 1 .. Len(to_dispatch[c]), j \in 1 .. Len(sched_timers[c]) :
         NoLater(to_dispatch[c][i], sched_timers[c][j])

\* The timers taken are those of the channel served, none a millisecond early.
TakenOnTime ==
  user.pc \in {"collect", "dispatch"} =>
    /\ \A c \in Channels \ user.serve : to_dispatch[c] = <<>>
    /\ \A c \in Channels : \A k \in 1 .. Len(to_dispatch[c]) :
         Time!Micros(to_dispatch[c][k]) < now + 1000

\* While timers are called, none that is overdue is left on the list.
AllTaken ==
  user.pc = "dispatch" =>
    \A c \in user.serve : \A k \in 1 .. Len(sched_timers[c]) :
      Time!Micros(sched_timers[c][k]) >= now

\* The inductive invariant of R2Sched.
TimeInv ==
  TimeTypes /\ ListsInOrder /\ NoneTaken /\ TakenFirst /\ TakenOnTime /\ AllTaken

\* Without timers the invariant holds.
LEMMA TimeInit ==
  ASSUME Time!SchedAssumption, Time!Init
  PROVE  TimeInv
BY DEF Time!SchedAssumption, Time!Init, TimeInv, TimeTypes, Lists, User, ListsInOrder, InOrder,
       NoneTaken, TakenFirst, TakenOnTime, AllTaken

\* A list may be replaced by one in order, if while timers are called its new
\* timers are not overdue.
LEMMA ListReplaced ==
  ASSUME TimeInv, NEW c \in Channels, NEW q \in Seq(Time!Timer), InOrder(q),
         sched_timers' = [sched_timers EXCEPT ![c] = q],
         timer_id' \in [Channels -> Nat],
         user.pc # "collect",
         user.pc = "dispatch" => \A k \in 1 .. Len(q) :
           Time!Micros(q[k]) >= now \/ \E l \in 1 .. Len(sched_timers[c]) : q[k] = sched_timers[c][l],
         UNCHANGED <<now, chanlist, to_dispatch, user>>
  PROVE  TimeInv'
<1>1. sched_timers \in [Channels -> Seq(Time!Timer)] /\ now \in Nat
  BY DEF TimeInv, TimeTypes, Lists
<1>2. sched_timers'[c] = q /\ \A b \in Channels \ {c} : sched_timers'[b] = sched_timers[b]
  BY <1>1
<1>3. TimeTypes'
  BY DEF TimeInv, TimeTypes, Lists
<1>4. ListsInOrder'
  BY <1>2 DEF TimeInv, ListsInOrder, InOrder
<1>5. NoneTaken' /\ TakenFirst' /\ TakenOnTime'
  BY DEF TimeInv, NoneTaken, TakenFirst, TakenOnTime
<1>6. AllTaken'
  <2> SUFFICES ASSUME user.pc = "dispatch", NEW b \in user.serve,
                      NEW k \in 1 .. Len(sched_timers'[b])
               PROVE  Time!Micros(sched_timers'[b][k]) >= now
    BY DEF AllTaken
  <2>1. b \in Channels
    BY DEF TimeInv, TimeTypes, User
  <2>2. CASE b = c
    BY <1>2, <2>2 DEF TimeInv, AllTaken
  <2>3. CASE b # c
    BY <1>2, <2>1, <2>3 DEF TimeInv, AllTaken
  <2>4. QED
    BY <2>2, <2>3
<1>7. QED
  BY <1>3, <1>4, <1>5, <1>6 DEF TimeInv

\* openr2_chan_add_timer and the two ways to cancel keep the invariant, from the
\* user and from within a timer callback.
LEMMA UserChangesList ==
  ASSUME Time!SchedAssumption, TimeInv, NEW c \in Channels,
         \/ \E ms \in Delays : Time!openr2_chan_add_timer(c, ms)
         \/ \E i \in 1 .. Len(sched_timers[c]) : Time!openr2_chan_cancel_timer(c, i)
         \/ Time!openr2_chan_cancel_all_timers(c)
  PROVE  TimeInv'
<1>1. /\ sched_timers[c] \in Seq(Time!Timer) /\ InOrder(sched_timers[c])
      /\ now \in Nat /\ timer_id \in [Channels -> Nat]
  BY DEF TimeInv, TimeTypes, Lists, ListsInOrder
<1>2. CASE \E ms \in Delays : Time!openr2_chan_add_timer(c, ms)
  <2>1. PICK ms \in Delays : Time!openr2_chan_add_timer(c, ms)
    BY <1>2
  <2>t. PICK t : t = Time!expiry(ms, timer_id'[c])
    OBVIOUS
  <2>s. PICK s : s = sched_timers[c]
    OBVIOUS
  <2>q. PICK q : q = Time!InsertTimer(s, Time!Place(s, t), t)
    OBVIOUS
  <2>2. /\ timer_id' = [timer_id EXCEPT ![c] = @ + 1]
        /\ sched_timers' = [sched_timers EXCEPT ![c] = q]
        /\ user.pc \in {"work", "dispatch"}
        /\ UNCHANGED <<now, chanlist, to_dispatch, user>>
    BY <2>1, <2>t, <2>s, <2>q DEF Time!openr2_chan_add_timer, Time!Running
  <2>3. timer_id' \in [Channels -> Nat] /\ timer_id'[c] \in Nat /\ ms \in Nat
    BY <1>1, <2>2 DEF Time!SchedAssumption
  <2>4. t \in Time!Timer /\ Time!Micros(t) >= now
    <3>1. t \in Time!Timer /\ Time!Micros(t) = now + ms * 1000
      BY <1>1, <2>3, <2>t, ExpiryIsInTime
    <3>2. QED
      BY <1>1, <2>3, <3>1
  <2>5. q \in Seq(Time!Timer) /\ InOrder(q) /\ OldOrNew(q, s, t)
    <3>1. s \in Seq(Time!Timer) /\ InOrder(s)
      BY <1>1, <2>s
    <3>2. t \in Time!Timer
      BY <2>4
    <3>3. QED
      BY <2>q, <3>1, <3>2, InsertedInOrder
  <2>6. QED
    BY <2>2, <2>3, <2>4, <2>5, <2>s, ListReplaced DEF OldOrNew
<1>3. CASE \E i \in 1 .. Len(sched_timers[c]) : Time!openr2_chan_cancel_timer(c, i)
  <2>1. PICK i \in 1 .. Len(sched_timers[c]) : Time!openr2_chan_cancel_timer(c, i)
    BY <1>3
  <2> DEFINE q == Time!RemoveTimer(sched_timers[c], i)
  <2>2. /\ sched_timers' = [sched_timers EXCEPT ![c] = q]
        /\ user.pc \in {"work", "dispatch"} /\ timer_id' \in [Channels -> Nat]
        /\ UNCHANGED <<now, chanlist, to_dispatch, user>>
    BY <1>1, <2>1 DEF Time!openr2_chan_cancel_timer, Time!Running
  <2>3. /\ q \in Seq(Time!Timer) /\ InOrder(q) /\ Len(q) = Len(sched_timers[c]) - 1
        /\ \A k \in 1 .. Len(q) : q[k] = sched_timers[c][k] \/ q[k] = sched_timers[c][k + 1]
    BY <1>1, RemovedInOrder
  <2> HIDE DEF q
  <2>4. \A k \in 1 .. Len(q) : \E l \in 1 .. Len(sched_timers[c]) : q[k] = sched_timers[c][l]
    <3>1. \A k \in 1 .. Len(q) : k \in 1 .. Len(sched_timers[c]) /\ k + 1 \in 1 .. Len(sched_timers[c])
      BY <1>1, <2>3
    <3>2. QED
      BY <2>3, <3>1
  <2>5. QED
    BY <2>2, <2>3, <2>4, ListReplaced
<1>4. CASE Time!openr2_chan_cancel_all_timers(c)
  <2>1. /\ sched_timers' = [sched_timers EXCEPT ![c] = <<>>]
        /\ user.pc \in {"work", "dispatch"} /\ timer_id' \in [Channels -> Nat]
        /\ UNCHANGED <<now, chanlist, to_dispatch, user>>
    BY <1>1, <1>4 DEF Time!openr2_chan_cancel_all_timers, Time!Running
  <2>2. PICK q : q = <<>>
    OBVIOUS
  <2>3. q \in Seq(Time!Timer) /\ InOrder(q) /\ \A k \in 1 .. Len(q) : FALSE
    BY <2>2 DEF InOrder
  <2>4. QED
    BY <2>1, <2>2, <2>3, ListReplaced
<1>5. QED
  BY <1>2, <1>3, <1>4

\* The first expired timer is the first of the list, and goes behind those taken.
LEMMA CollectedInOrder ==
  ASSUME TimeInv, NEW c \in Channels, NEW i \in 1 .. Len(sched_timers[c]), Time!Collect(c, i)
  PROVE  TimeInv'
<1> DEFINE s == sched_timers[c]
           d == to_dispatch[c]
           q == Time!RemoveTimer(s, i)
           e == Append(d, s[i])
<1>1. /\ s \in Seq(Time!Timer) /\ d \in Seq(Time!Timer) /\ InOrder(s) /\ InOrder(d) /\ now \in Nat
      /\ sched_timers \in [Channels -> Seq(Time!Timer)] /\ to_dispatch \in [Channels -> Seq(Time!Timer)]
  BY DEF TimeInv, TimeTypes, Lists, ListsInOrder
<1>2. /\ user.pc = "collect" /\ c \in user.serve /\ Time!IsNextExpired(s, i)
      /\ to_dispatch' = [to_dispatch EXCEPT ![c] = e]
      /\ sched_timers' = [sched_timers EXCEPT ![c] = q]
      /\ UNCHANGED <<now, chanlist, timer_id, user>>
  BY DEF Time!Collect
<1>3. s[i] \in Time!Timer /\ Time!Expired(s[i])
  BY <1>1, <1>2 DEF Time!IsNextExpired
<1>4. i = 1
  <2> SUFFICES ASSUME i # 1 PROVE FALSE
    OBVIOUS
  <2>1. 1 \in 1 .. Len(s) /\ 1 \in 1 .. i - 1 /\ 1 <= i
    BY <1>1
  <2>2. s[1] \in Time!Timer /\ NoLater(s[1], s[i])
    BY <1>1, <2>1 DEF InOrder
  <2>3. Time!Expired(s[1])
    BY <1>1, <1>3, <2>2, EarlierExpires
  <2>4. QED
    BY <1>2, <2>1, <2>3 DEF Time!IsNextExpired
<1>5. /\ q \in Seq(Time!Timer) /\ InOrder(q) /\ Len(q) = Len(s) - 1
      /\ \A k \in 1 .. Len(q) : q[k] = s[k] \/ q[k] = s[k + 1]
  BY <1>1, RemovedInOrder
<1>6. \A k \in 1 .. Len(q) : \E l \in 1 .. Len(s) : q[k] = s[l]
  <2>1. \A k \in 1 .. Len(q) : k \in 1 .. Len(s) /\ k + 1 \in 1 .. Len(s)
    BY <1>1, <1>5
  <2>2. QED
    BY <1>5, <2>1
<1>7. \A k \in 1 .. Len(q) : NoLater(s[i], q[k])
  BY <1>1, <1>4, <1>6 DEF InOrder
<1>8. \A k \in 1 .. Len(d) : NoLater(d[k], s[i])
  BY <1>2 DEF TimeInv, TakenFirst
<1>9. \A k \in 1 .. Len(d), l \in 1 .. Len(q) : NoLater(d[k], q[l])
  BY <1>2, <1>6 DEF TimeInv, TakenFirst
<1>10. /\ e \in Seq(Time!Timer) /\ Len(e) = Len(d) + 1 /\ Len(d) \in Nat
       /\ \A k \in 1 .. Len(e) : (k \in 1 .. Len(d) /\ e[k] = d[k]) \/ (k = Len(d) + 1 /\ e[k] = s[i])
  <2>1. /\ e \in Seq(Time!Timer) /\ Len(e) = Len(d) + 1 /\ Len(d) \in Nat
        /\ e[Len(d) + 1] = s[i] /\ \A k \in 1 .. Len(d) : e[k] = d[k]
    BY <1>1, <1>3
  <2> HIDE DEF e
  <2>2. QED
    BY <2>1
<1> HIDE DEF q, e
<1>11. InOrder(e)
  <2> SUFFICES ASSUME NEW k \in 1 .. Len(e), NEW l \in 1 .. Len(e), k <= l
               PROVE  NoLater(e[k], e[l])
    BY DEF InOrder
  <2>1. CASE k \in 1 .. Len(d) /\ l \in 1 .. Len(d)
    BY <1>1, <1>10, <2>1 DEF InOrder
  <2>2. CASE k \in 1 .. Len(d) /\ l = Len(d) + 1
    BY <1>8, <1>10, <2>2
  <2>3. CASE k = Len(d) + 1 /\ l = Len(d) + 1
    BY <1>3, <1>10, <2>3, NoLaterTotal
  <2>4. QED
    BY <1>10, <2>1, <2>2, <2>3
<1>12. \A k \in 1 .. Len(e), l \in 1 .. Len(q) : NoLater(e[k], q[l])
  BY <1>7, <1>9, <1>10
<1>13. \A k \in 1 .. Len(e) : Time!Micros(e[k]) < now + 1000
  <2>1. Time!Micros(s[i]) < now + 1000
    BY <1>1, <1>3, ExpiredOnTime
  <2>2. \A k \in 1 .. Len(d) : Time!Micros(d[k]) < now + 1000
    BY <1>2 DEF TimeInv, TakenOnTime
  <2>3. QED
    BY <1>10, <2>1, <2>2
<1>14. /\ sched_timers'[c] = q /\ to_dispatch'[c] = e
       /\ \A b \in Channels \ {c} : sched_timers'[b] = sched_timers[b] /\ to_dispatch'[b] = to_dispatch[b]
  BY <1>1, <1>2
<1>15. TimeTypes'
  BY <1>2, <1>5, <1>10 DEF TimeInv, TimeTypes, Lists
<1>16. ListsInOrder'
  BY <1>5, <1>11, <1>14 DEF TimeInv, ListsInOrder, InOrder
<1>17. NoneTaken' /\ AllTaken'
  BY <1>2 DEF NoneTaken, AllTaken
<1>18. TakenFirst'
  <2> SUFFICES ASSUME NEW b \in Channels, NEW k \in 1 .. Len(to_dispatch'[b]),
                      NEW l \in 1 .. Len(sched_timers'[b])
               PROVE  NoLater(to_dispatch'[b][k], sched_timers'[b][l])
    BY <1>2 DEF TimeInv, TakenFirst, NoLater, Time!Before
  <2>1. CASE b = c
    BY <1>12, <1>14, <2>1
  <2>2. CASE b # c
    BY <1>2, <1>14, <2>2 DEF TimeInv, TakenFirst
  <2>3. QED
    BY <2>1, <2>2
<1>19. TakenOnTime'
  <2>1. \A b \in Channels \ user.serve : to_dispatch'[b] = <<>>
    BY <1>2, <1>14 DEF TimeInv, TakenOnTime
  <2>2. ASSUME NEW b \in Channels, NEW k \in 1 .. Len(to_dispatch'[b])
        PROVE  Time!Micros(to_dispatch'[b][k]) < now + 1000
    <3>1. CASE b = c
      BY <1>13, <1>14, <3>1
    <3>2. CASE b # c
      BY <1>2, <1>14, <2>2, <3>2 DEF TimeInv, TakenOnTime
    <3>3. QED
      BY <3>1, <3>2
  <2>3. QED
    BY <1>2, <2>1, <2>2 DEF TakenOnTime, Time!Micros
<1>20. QED
  BY <1>15, <1>16, <1>17, <1>18, <1>19 DEF TimeInv

\* A step of the user that changes no list keeps the invariant.
LEMMA ListsStay ==
  ASSUME TimeInv, UNCHANGED <<sched_timers, to_dispatch, timer_id>>,
         now' \in Nat, chanlist' \in Seq(Channels), user' \in User, user'.until >= -1,
         user'.pc \in {"work", "asleep", "process"},
         user.pc \in {"work", "asleep", "process"} \/ \A c \in Channels : to_dispatch[c] = <<>>
  PROVE  TimeInv'
<1>1. TimeTypes'
  BY DEF TimeInv, TimeTypes
<1>2. ListsInOrder'
  BY DEF TimeInv, ListsInOrder, InOrder
<1>3. NoneTaken' /\ TakenFirst' /\ TakenOnTime' /\ AllTaken'
  BY DEF TimeInv, NoneTaken, TakenFirst, TakenOnTime, AllTaken
<1>4. QED
  BY <1>1, <1>2, <1>3 DEF TimeInv

\* openr2_chan_handle_timers starts with no timer taken.
LEMMA HandlingStarts ==
  ASSUME TimeInv, NEW c \in Channels, Time!openr2_chan_handle_timers(c)
  PROVE  TimeInv'
<1>1. /\ user.pc = "process" /\ c \in user.serve /\ user \in User /\ user.until >= -1
      /\ user' = [user EXCEPT !.pc = "collect", !.serve = {c}, !.later = user.serve \ {c}]
      /\ UNCHANGED <<now, chanlist, sched_timers, timer_id, to_dispatch>>
  BY DEF Time!openr2_chan_handle_timers, TimeInv, TimeTypes
<1>2. {c} \in SUBSET Channels /\ user.serve \ {c} \in SUBSET Channels
  BY <1>1 DEF User
<1>3. /\ user' \in User /\ user'.until = user.until
      /\ user'.pc = "collect" /\ user'.serve = {c}
  BY <1>1, <1>2 DEF User
<1>4. \A b \in Channels : to_dispatch[b] = <<>> /\ \A k \in 1 .. Len(to_dispatch[b]) : FALSE
  BY <1>1 DEF TimeInv, NoneTaken
<1>5. TimeTypes' /\ ListsInOrder'
  BY <1>1, <1>3 DEF TimeInv, TimeTypes, ListsInOrder, InOrder
<1>6. NoneTaken' /\ TakenFirst' /\ TakenOnTime' /\ AllTaken'
  BY <1>1, <1>3, <1>4 DEF NoneTaken, TakenFirst, TakenOnTime, AllTaken
<1>7. QED
  BY <1>5, <1>6 DEF TimeInv

\* The search ends when no timer on the list has expired.
LEMMA NoneLeft ==
  ASSUME TimeInv, NEW c \in Channels, Time!Collected(c)
  PROVE  TimeInv'
<1>1. /\ user.pc = "collect" /\ c \in user.serve /\ user \in User /\ user.until >= -1 /\ now \in Nat
      /\ user' = [user EXCEPT !.pc = "dispatch"]
      /\ \A i \in 1 .. Len(sched_timers[c]) : ~Time!Expired(sched_timers[c][i])
      /\ UNCHANGED <<now, chanlist, sched_timers, timer_id, to_dispatch>>
  BY DEF Time!Collected, TimeInv, TimeTypes
<1>2. /\ user' \in User /\ user'.until = user.until
      /\ user'.pc = "dispatch" /\ user'.serve = user.serve
  BY <1>1 DEF User
<1>3. \A b \in user.serve : b = c
  BY <1>1 DEF TimeInv, TakenFirst
<1>4. \A i \in 1 .. Len(sched_timers[c]) : Time!Micros(sched_timers[c][i]) >= now
  <2> SUFFICES ASSUME NEW i \in 1 .. Len(sched_timers[c])
               PROVE  Time!Micros(sched_timers[c][i]) >= now
    OBVIOUS
  <2>1. sched_timers[c][i] \in Time!Timer
    BY DEF TimeInv, TimeTypes, Lists
  <2>2. QED
    BY <1>1, <2>1, ExpiredOnTime
<1>5. TimeTypes' /\ ListsInOrder'
  BY <1>1, <1>2 DEF TimeInv, TimeTypes, ListsInOrder, InOrder
<1>6. NoneTaken' /\ TakenFirst' /\ TakenOnTime'
  BY <1>1, <1>2 DEF TimeInv, NoneTaken, TakenFirst, TakenOnTime
<1>7. AllTaken'
  BY <1>1, <1>2, <1>3, <1>4 DEF AllTaken
<1>8. QED
  BY <1>5, <1>6, <1>7 DEF TimeInv

\* The first of the taken timers is called.
LEMMA TimerCalled ==
  ASSUME TimeInv, NEW c \in Channels, Time!Dispatch(c)
  PROVE  TimeInv'
<1> DEFINE d == to_dispatch[c]
           e == Tail(d)
<1>1. /\ user.pc = "dispatch" /\ d # <<>> /\ d \in Seq(Time!Timer) /\ InOrder(d)
      /\ to_dispatch' = [to_dispatch EXCEPT ![c] = e]
      /\ to_dispatch \in [Channels -> Seq(Time!Timer)]
      /\ UNCHANGED <<now, chanlist, sched_timers, timer_id, user>>
  BY DEF Time!Dispatch, TimeInv, TimeTypes, Lists, ListsInOrder
<1>2. /\ e \in Seq(Time!Timer) /\ Len(d) \in Nat /\ Len(e) = Len(d) - 1
      /\ \A k \in 1 .. Len(e) : e[k] = d[k + 1] /\ k + 1 \in 1 .. Len(d)
  BY <1>1
<1>3. d # <<>> => c \in user.serve
  BY <1>1 DEF TimeInv, TakenOnTime
<1> HIDE DEF e
<1>4. /\ to_dispatch'[c] = e
      /\ \A b \in Channels \ {c} : to_dispatch'[b] = to_dispatch[b]
  BY <1>1
<1>5. InOrder(e)
  BY <1>1, <1>2 DEF InOrder
<1>6. TimeTypes'
  BY <1>1, <1>2 DEF TimeInv, TimeTypes, Lists
<1>7. ListsInOrder'
  BY <1>1, <1>4, <1>5 DEF TimeInv, ListsInOrder, InOrder
<1>8. NoneTaken' /\ TakenFirst' /\ AllTaken'
  BY <1>1 DEF TimeInv, NoneTaken, TakenFirst, AllTaken
<1>9. TakenOnTime'
  <2>1. \A b \in Channels \ user.serve : to_dispatch'[b] = <<>>
    BY <1>1, <1>3, <1>4 DEF TimeInv, TakenOnTime
  <2>2. ASSUME NEW b \in Channels, NEW k \in 1 .. Len(to_dispatch'[b])
        PROVE  Time!Micros(to_dispatch'[b][k]) < now + 1000
    <3>1. CASE b = c
      <4>1. k \in 1 .. Len(e) /\ to_dispatch'[b][k] = d[k + 1] /\ k + 1 \in 1 .. Len(d)
        BY <1>2, <1>4, <2>2, <3>1
      <4>2. QED
        BY <1>1, <4>1 DEF TimeInv, TakenOnTime
    <3>2. CASE b # c
      BY <1>1, <1>4, <2>2, <3>2 DEF TimeInv, TakenOnTime
    <3>3. QED
      BY <3>1, <3>2
  <2>3. QED
    BY <1>1, <2>1, <2>2 DEF TakenOnTime, Time!Micros
<1>10. QED
  BY <1>6, <1>7, <1>8, <1>9 DEF TimeInv

\* A user that sleeps knows until when.
LEMMA SleepTypes ==
  ASSUME TimeInv, NEW ms \in Int, ms >= -1, NEW serve \in SUBSET Channels, Time!Sleep(ms, serve)
  PROVE  /\ user' \in User /\ user'.pc = "asleep" /\ user'.until >= -1 /\ user'.serve = serve
         /\ user'.until = -1 <=> ms = -1
         /\ ms # -1 => user'.until = now + ms * 1000
         /\ UNCHANGED <<now, chanlist, sched_timers, timer_id, to_dispatch>>
<1>1. now \in Nat
  BY DEF TimeInv, TimeTypes
<1>2. PICK u \in Int : u = IF ms = -1 THEN -1 ELSE now + ms * 1000
  BY <1>1
<1>3. user' = [pc |-> "asleep", until |-> u, serve |-> serve, later |-> {}]
  BY <1>2 DEF Time!Sleep
<1>4. user' \in User
  BY <1>3 DEF User
<1>5. QED
  BY <1>1, <1>2, <1>3, <1>4 DEF Time!Sleep

\* A sleep ends late, or earlier by the line; nothing else changes but the time.
LEMMA WokenTypes ==
  ASSUME Time!SchedAssumption, TimeInv,
         (\E late \in Late : Time!Timeout(late)) \/ (\E early \in Early : Time!LineEvent(early))
  PROVE  /\ now' \in Nat /\ user.pc = "asleep"
         /\ user' \in User /\ user'.pc = "process" /\ user'.until = user.until
         /\ UNCHANGED <<chanlist, sched_timers, timer_id, to_dispatch>>
<1>1. now \in Nat /\ user \in User /\ user.until \in Int /\ user.until >= -1
  BY DEF TimeInv, TimeTypes, User
<1>2. PICK t, n : t \in Nat /\ Time!WakeAt(t, n)
  <2>1. CASE \E late \in Late : Time!Timeout(late)
    <3>1. PICK late \in Late : Time!Timeout(late)
      BY <2>1
    <3>2. late \in Nat
      BY DEF Time!SchedAssumption
    <3>3. user.until + late \in Nat /\ Time!WakeAt(user.until + late, idle + 1)
      BY <1>1, <3>1, <3>2 DEF Time!Timeout
    <3>4. QED
      BY <3>3
  <2>2. CASE \E early \in Early : Time!LineEvent(early)
    <3>1. PICK early \in Early : Time!LineEvent(early)
      BY <2>2
    <3>2. early \in Nat
      BY DEF Time!SchedAssumption
    <3>3. CASE user.until = -1
      <4>1. now + early \in Nat /\ Time!WakeAt(now + early, 0)
        BY <1>1, <3>1, <3>2, <3>3 DEF Time!LineEvent
      <4>2. QED
        BY <4>1
    <3>4. CASE user.until # -1
      <4>1. now < user.until - early /\ Time!WakeAt(user.until - early, 0)
        BY <3>1, <3>4 DEF Time!LineEvent
      <4>2. user.until - early \in Nat
        BY <1>1, <3>2, <4>1
      <4>3. QED
        BY <4>1, <4>2
    <3>5. QED
      BY <3>3, <3>4
  <2>3. QED
    BY <2>1, <2>2
<1>3. /\ now' = t /\ user.pc = "asleep" /\ user' = [user EXCEPT !.pc = "process"]
      /\ UNCHANGED <<chanlist, sched_timers, timer_id, to_dispatch>>
  BY <1>2 DEF Time!WakeAt
<1>4. QED
  BY <1>1, <1>2, <1>3 DEF User
-----------------------------------------------------------------------------
(* The time to the next event of a channel. *)

\* A sleep until that moment misses no timer of the channel.
InTimeFor(c, until) ==
  \A k \in 1 .. Len(sched_timers[c]) :
    until = now \/ until < Time!Micros(sched_timers[c][k]) + 1000

\* The first timer of a list is the next to expire.
LEMMA FirstIsNext ==
  ASSUME TimeInv, NEW c \in Channels, sched_timers[c] # <<>>
  PROVE  /\ 1 \in 1 .. Len(sched_timers[c]) /\ sched_timers[c][1] \in Time!Timer
         /\ \A k \in 1 .. Len(sched_timers[c]) : /\ sched_timers[c][k] \in Time!Timer
                                                /\ NoLater(sched_timers[c][1], sched_timers[c][k])
<1>1. sched_timers[c] \in Seq(Time!Timer) /\ InOrder(sched_timers[c])
  BY DEF TimeInv, TimeTypes, Lists, ListsInOrder
<1>2. 1 \in 1 .. Len(sched_timers[c]) /\ \A k \in 1 .. Len(sched_timers[c]) : 1 <= k
  BY <1>1
<1>3. QED
  BY <1>1, <1>2 DEF InOrder

\* The time until any timer that comes no later than the first of a channel is
\* in time for that channel.
LEMMA SleepUntil ==
  ASSUME TimeInv, NEW c \in Channels, NEW t \in Time!Timer,
         sched_timers[c] # <<>>, NoLater(t, sched_timers[c][1])
  PROVE  /\ Time!AtOnce(Time!ms_until(t)) \in Nat
         /\ InTimeFor(c, now + Time!AtOnce(Time!ms_until(t)) * 1000)
<1> DEFINE ms == Time!ms_until(t)
<1>1. now \in Nat
  BY DEF TimeInv, TimeTypes
<1>2. ms \in Int /\ Time!Micros(t) \in Int /\ ms * 1000 < Time!Micros(t) - now + 1000
  BY <1>1, UntilRounds, TimerFields
<1>3. Time!AtOnce(ms) = IF ms < 0 THEN 0 ELSE ms
  BY DEF Time!AtOnce
<1> HIDE DEF ms
<1>4. ASSUME NEW k \in 1 .. Len(sched_timers[c])
      PROVE  Time!Micros(sched_timers[c][k]) \in Int /\ Time!Micros(t) <= Time!Micros(sched_timers[c][k])
  <2>1. /\ sched_timers[c][1] \in Time!Timer /\ sched_timers[c][k] \in Time!Timer
        /\ NoLater(sched_timers[c][1], sched_timers[c][k])
    BY FirstIsNext
  <2>2. NoLater(t, sched_timers[c][k])
    BY <2>1, NoLaterTransitive
  <2>3. QED
    BY <2>1, <2>2, NoLaterOrders, TimerFields
<1>5. CASE ms < 0
  <2>1. Time!AtOnce(ms) = 0 /\ now + 0 * 1000 = now
    BY <1>1, <1>3, <1>5
  <2>2. QED
    BY <2>1 DEF InTimeFor, ms
<1>6. CASE ~(ms < 0)
  <2>1. Time!AtOnce(ms) = ms /\ ms \in Nat
    BY <1>2, <1>3, <1>6
  <2>2. \A k \in 1 .. Len(sched_timers[c]) : now + ms * 1000 < Time!Micros(sched_timers[c][k]) + 1000
    BY <1>1, <1>2, <1>4
  <2>3. QED
    BY <2>1, <2>2 DEF InTimeFor, ms
<1>7. QED
  BY <1>5, <1>6 DEF ms

\* openr2_chan_get_time_to_next_event proposes a sleep in time for its channel.
LEMMA ChannelSleepsInTime ==
  ASSUME TimeInv, NEW c \in Channels, Time!AskChannel(c)
  PROVE  TimeInv' /\ Time!SleepSafe'
<1> DEFINE ms == Time!openr2_chan_get_time_to_next_event(c)
<1>1. user.pc = "work" /\ Time!Sleep(ms, {c})
  BY DEF Time!AskChannel
<1>2. /\ ms \in Int /\ ms >= -1
      /\ ms = -1 => sched_timers[c] = <<>>
      /\ ms # -1 => InTimeFor(c, now + ms * 1000)
  <2>1. CASE sched_timers[c] = <<>>
    BY <2>1 DEF Time!openr2_chan_get_time_to_next_event
  <2>2. CASE sched_timers[c] # <<>>
    <3>1. sched_timers[c][1] \in Time!Timer /\ NoLater(sched_timers[c][1], sched_timers[c][1])
      BY <2>2, FirstIsNext, NoLaterTotal
    <3>2. ms = Time!AtOnce(Time!ms_until(sched_timers[c][1]))
      BY <2>2 DEF Time!openr2_chan_get_time_to_next_event
    <3>3. ms \in Nat /\ InTimeFor(c, now + ms * 1000)
      BY <2>2, <3>1, <3>2, SleepUntil
    <3>4. QED
      BY <3>3
  <2>3. QED
    BY <2>1, <2>2
<1> HIDE DEF ms
<1>3. /\ user' \in User /\ user'.pc = "asleep" /\ user'.until >= -1 /\ user'.serve = {c}
      /\ user'.until = -1 <=> ms = -1
      /\ ms # -1 => user'.until = now + ms * 1000
      /\ UNCHANGED <<now, chanlist, sched_timers, timer_id, to_dispatch>>
  BY <1>1, <1>2, SleepTypes
<1>4. TimeInv'
  BY <1>1, <1>3, ListsStay DEF TimeInv, TimeTypes
<1>5. Time!SleepSafe'
  BY <1>2, <1>3 DEF Time!SleepSafe, Time!InTime, InTimeFor, Time!Micros
<1>6. QED
  BY <1>4, <1>5
-----------------------------------------------------------------------------
(* The time to the next event of a context. *)

\* One turn of the loop of openr2_context_get_time_to_next_event: the winner so
\* far, v, against the neighbour of channel k.
Duel(v, k) ==
  IF k = 0 THEN <<>>
  ELSE IF sched_timers[chanlist[k]] = <<>> THEN v
  ELSE LET w == IF v = <<>> THEN chanlist[k] ELSE v[1]
       IN  <<IF k = Len(chanlist) THEN w ELSE Time!Challenge(w, chanlist[k + 1])>>

\* The loop has a result for every number of channels: the recursive function
\* exists.
LEMMA DuelsEnd ==
  ASSUME NEW n \in Nat
  PROVE  \E f : f = [k \in 0 .. n |-> Duel(f[k - 1], k)]
<1> DEFINE Fought(f, m) == f = [k \in 0 .. m |-> Duel(f[k - 1], k)]
           A == { m \in 0 .. n : ~ \E f : Fought(f, m) }
<1>1. SUFFICES ASSUME A # {} PROVE FALSE
  BY DEF A
<1>2. PICK m \in A : \A k \in A : m <= k
  <2>1. A \in SUBSET Nat
    OBVIOUS
  <2> HIDE DEF A
  <2>2. QED
    BY <1>1, <2>1, SmallestOf
<1>3. m # 0
  <2> DEFINE g == [k \in 0 .. 0 |-> Duel(<<>>, k)]
  <2>1. \A v : Duel(v, 0) = <<>>
    BY DEF Duel
  <2>2. g = [k \in 0 .. 0 |-> Duel(g[k - 1], k)]
    BY <2>1
  <2>3. QED
    BY <1>2, <2>2
<1>4. m - 1 \in 0 .. n /\ m - 1 \notin A /\ m \in Nat
  BY <1>2, <1>3
<1>5. PICK f : Fought(f, m - 1)
  BY <1>4
<1> DEFINE g == [k \in 0 .. m |-> Duel(f[k - 1], k)]
<1>6. \A k \in 0 .. m - 1 : g[k] = f[k]
  BY <1>4, <1>5
<1>7. \A k \in 0 .. m : Duel(g[k - 1], k) = Duel(f[k - 1], k)
  <2> SUFFICES ASSUME NEW k \in 0 .. m PROVE Duel(g[k - 1], k) = Duel(f[k - 1], k)
    OBVIOUS
  <2>1. CASE k = 0
    BY <2>1 DEF Duel
  <2>2. CASE k # 0
    <3>1. k - 1 \in 0 .. m - 1
      BY <1>4, <2>2
    <3>2. QED
      BY <1>6, <3>1
  <2>3. QED
    BY <2>1, <2>2
<1>8. Fought(g, m)
  <2>1. g = [k \in 0 .. m |-> Duel(g[k - 1], k)]
    BY <1>7
  <2>2. QED
    BY <2>1
<1>9. QED
  BY <1>2, <1>8

\* The winner after every turn of the loop.
Winners == CHOOSE f : f = [k \in 0 .. Len(chanlist) |-> Duel(f[k - 1], k)]

\* openr2_context_get_time_to_next_event asks the winner of the last turn.
LEMMA ContextAsks ==
  Time!openr2_context_get_time_to_next_event =
    IF Len(chanlist) = 0 \/ sched_timers[chanlist[Len(chanlist)]] = <<>> THEN -1
    ELSE Time!AtOnce(Time!ms_until(Time!FirstSlot(Winners[Len(chanlist)][1])))
BY DEF Time!openr2_context_get_time_to_next_event, Winners, Duel

\* The channels of the context are those of its list.
LEMMA ChannelsListed ==
  ASSUME TimeInv
  PROVE  /\ Len(chanlist) \in Nat
         /\ \A k \in 1 .. Len(chanlist) : chanlist[k] \in Channels /\ chanlist[k] \in Time!InContext
         /\ \A c \in Time!InContext : c \in Channels /\ \E k \in 1 .. Len(chanlist) : c = chanlist[k]
BY DEF TimeInv, TimeTypes, Time!InContext

\* The first slot of a channel can be read as a timer, with or without one in it.
LEMMA FirstSlotTimer ==
  ASSUME TimeInv, NEW c \in Channels
  PROVE  Time!FirstSlot(c) \in Time!Timer
<1>1. CASE sched_timers[c] = <<>>
  <2>1. 0 \in 0 .. Time!SECOND
    <3>1. Time!SECOND \in Nat
      BY SMT DEF Time!SECOND
    <3>2. QED
      BY <3>1
  <2>2. QED
    BY <1>1, <2>1 DEF Time!FirstSlot, Time!Timer
<1>2. CASE sched_timers[c] # <<>>
  BY <1>2, FirstIsNext DEF Time!FirstSlot
<1>3. QED
  BY <1>1, <1>2

\* The first timer of the winner comes no later than those of the first m channels.
Beats(v, m) ==
  v # <<>> /\ \A j \in 1 .. m : NoLater(Time!FirstSlot(v[1]), Time!FirstSlot(chanlist[j]))

\* If every channel has a timer, a turn of the loop extends the winner to the
\* next channel.
LEMMA DuelWon ==
  ASSUME TimeInv, NEW k \in 1 .. Len(chanlist), NEW v,
         v = <<>> \/ (v[1] \in Channels),
         \A c \in Time!InContext : sched_timers[c] # <<>>,
         k # 1 => Beats(v, k),
         k = 1 => v = <<>>
  PROVE  /\ Duel(v, k)[1] \in Channels
         /\ Beats(Duel(v, k), k)
         /\ k # Len(chanlist) => Beats(Duel(v, k), k + 1)
<1> DEFINE n == Len(chanlist)
           w == IF v = <<>> THEN chanlist[k] ELSE v[1]
           x == IF k = n THEN w ELSE Time!Challenge(w, chanlist[k + 1])
<1>1. n \in Nat /\ k \in Nat /\ k >= 1 /\ chanlist[k] \in Channels /\ chanlist[k] \in Time!InContext
  BY ChannelsListed
<1>2. Duel(v, k) = <<x>>
  BY <1>1 DEF Duel
<1>3. w \in Channels
  BY <1>1
<1>4. \A j \in 1 .. k : NoLater(Time!FirstSlot(w), Time!FirstSlot(chanlist[j]))
  <2>1. CASE k = 1
    <3>1. w = chanlist[1] /\ 1 .. k = {1}
      BY <2>1
    <3>2. Time!FirstSlot(chanlist[1]) \in Time!Timer
      BY <1>1, <2>1, FirstSlotTimer
    <3>3. QED
      BY <3>1, <3>2, NoLaterTotal
  <2>2. CASE k # 1
    BY <2>2 DEF Beats
  <2>3. QED
    BY <2>1, <2>2
<1> HIDE DEF w
<1>5. CASE k = n
  <2>1. x = w
    BY <1>5
  <2>2. <<x>>[1] = w /\ <<x>> # <<>>
    BY <2>1
  <2>3. QED
    BY <1>2, <1>3, <1>4, <1>5, <2>2 DEF Beats
<1>6. CASE k # n
  <2> DEFINE d == chanlist[k + 1]
  <2>1. k + 1 \in 1 .. n /\ d \in Channels
    BY <1>1, <1>6, ChannelsListed
  <2>2. x = IF Time!Before(Time!FirstSlot(d), Time!FirstSlot(w)) THEN d ELSE w
    BY <1>6 DEF Time!Challenge
  <2>3. Time!FirstSlot(d) \in Time!Timer /\ Time!FirstSlot(w) \in Time!Timer
    BY <1>3, <2>1, FirstSlotTimer
  <2> HIDE DEF x, d
  <2>4. /\ x \in Channels /\ Time!FirstSlot(x) \in Time!Timer
        /\ NoLater(Time!FirstSlot(x), Time!FirstSlot(w)) /\ NoLater(Time!FirstSlot(x), Time!FirstSlot(d))
    <3>1. CASE Time!Before(Time!FirstSlot(d), Time!FirstSlot(w))
      BY <2>1, <2>2, <2>3, <3>1, NoLaterTotal
    <3>2. CASE ~Time!Before(Time!FirstSlot(d), Time!FirstSlot(w))
      <4>1. x = w /\ NoLater(Time!FirstSlot(w), Time!FirstSlot(d))
        BY <2>2, <3>2 DEF NoLater
      <4>2. QED
        BY <1>3, <2>3, <4>1, NoLaterTotal
    <3>3. QED
      BY <3>1, <3>2
  <2>5. \A j \in 1 .. k + 1 : NoLater(Time!FirstSlot(x), Time!FirstSlot(chanlist[j]))
    <3> SUFFICES ASSUME NEW j \in 1 .. k + 1 PROVE NoLater(Time!FirstSlot(x), Time!FirstSlot(chanlist[j]))
      OBVIOUS
    <3>1. CASE j = k + 1
      BY <2>4, <3>1 DEF d
    <3>2. CASE j # k + 1
      <4>1. j \in 1 .. k /\ j \in 1 .. n
        BY <1>1, <3>2
      <4>2. NoLater(Time!FirstSlot(w), Time!FirstSlot(chanlist[j])) /\ Time!FirstSlot(chanlist[j]) \in Time!Timer
        BY <1>4, <4>1, ChannelsListed, FirstSlotTimer
      <4>3. QED
        BY <2>3, <2>4, <4>2, NoLaterTransitive
    <3>3. QED
      BY <3>1, <3>2
  <2>6. \A j \in 1 .. k : j \in 1 .. k + 1
    BY <1>1
  <2>7. <<x>>[1] = x /\ <<x>> # <<>>
    OBVIOUS
  <2>8. QED
    BY <1>2, <2>4, <2>5, <2>6, <2>7 DEF Beats, x
<1>7. QED
  BY <1>5, <1>6
\* A turn names a channel, if any.
LEMMA DuelNamesAChannel ==
  ASSUME TimeInv, NEW k \in 0 .. Len(chanlist), NEW v, v = <<>> \/ v[1] \in Channels
  PROVE  Duel(v, k) = <<>> \/ Duel(v, k)[1] \in Channels
<1> DEFINE n == Len(chanlist)
           w == IF v = <<>> THEN chanlist[k] ELSE v[1]
           x == IF k = n THEN w ELSE Time!Challenge(w, chanlist[k + 1])
<1>1. CASE k = 0
  BY <1>1 DEF Duel
<1>2. CASE k # 0 /\ sched_timers[chanlist[k]] = <<>>
  BY <1>2 DEF Duel
<1>3. CASE k # 0 /\ sched_timers[chanlist[k]] # <<>>
  <2>1. Duel(v, k) = <<x>>
    BY <1>3 DEF Duel
  <2>2. k \in 1 .. n /\ w \in Channels
    BY <1>3, ChannelsListed
  <2> HIDE DEF w
  <2>3. x \in Channels
    <3>1. CASE k = n
      BY <2>2, <3>1
    <3>2. CASE k # n
      <4>1. k + 1 \in 1 .. n
        BY <2>2, <3>2, ChannelsListed
      <4>2. chanlist[k + 1] \in Channels
        BY <4>1, ChannelsListed
      <4>3. QED
        BY <2>2, <3>2, <4>2 DEF Time!Challenge
    <3>3. QED
      BY <3>1, <3>2
  <2> HIDE DEF x
  <2>4. QED
    BY <2>1, <2>3
<1>4. QED
  BY <1>1, <1>2, <1>3

\* Every winner comes from a turn of the loop.
LEMMA WinnersDuel ==
  ASSUME TimeInv
  PROVE  \A k \in 0 .. Len(chanlist) : Winners[k] = Duel(Winners[k - 1], k)
<1> DEFINE n == Len(chanlist)
           Fought(f) == f = [k \in 0 .. n |-> Duel(f[k - 1], k)]
<1>1. n \in Nat
  BY ChannelsListed
<1>2. \E f : Fought(f)
  BY <1>1, DuelsEnd
<1>3. Winners = CHOOSE f : Fought(f)
  BY DEF Winners
<1>4. Fought(Winners)
  <2> HIDE DEF Fought
  <2>1. QED
    BY <1>2, <1>3
<1>5. QED
  BY <1>4

\* Every winner is a channel (induction over the turns).
LEMMA WinnersAreChannels ==
  ASSUME TimeInv, NEW k \in 0 .. Len(chanlist)
  PROVE  Winners[k] = <<>> \/ Winners[k][1] \in Channels
<1> DEFINE n == Len(chanlist)
           Named(v) == v = <<>> \/ v[1] \in Channels
           A == { m \in 0 .. n : ~Named(Winners[m]) }
<1>1. SUFFICES ASSUME A # {} PROVE FALSE
  BY DEF A
<1>2. n \in Nat
  BY ChannelsListed
<1>3. PICK m \in A : \A l \in A : m <= l
  <2>1. A \in SUBSET Nat
    BY <1>2
  <2> HIDE DEF A
  <2>2. QED
    BY <1>1, <2>1, SmallestOf
<1>4. m \in 0 .. n /\ Winners[m] = Duel(Winners[m - 1], m)
  BY WinnersDuel
<1>5. CASE m = 0
  <2>1. Winners[m] = <<>>
    BY <1>4, <1>5 DEF Duel
  <2>2. QED
    BY <1>3, <2>1
<1>6. CASE m # 0
  <2>1. m - 1 \in 0 .. n /\ m - 1 \notin A
    BY <1>2, <1>3, <1>6
  <2>2. Named(Winners[m - 1])
    BY <2>1
  <2>3. Named(Duel(Winners[m - 1], m))
    BY <1>4, <2>2, DuelNamesAChannel
  <2>4. QED
    BY <1>3, <1>4, <2>3
<1>7. QED
  BY <1>5, <1>6

\* If every channel has a timer, the winner has the earliest of the channels seen
\* (induction over the turns).
LEMMA WinnersBeat ==
  ASSUME TimeInv, \A c \in Time!InContext : sched_timers[c] # <<>>, NEW k \in 1 .. Len(chanlist)
  PROVE  /\ Winners[k][1] \in Channels
         /\ Beats(Winners[k], k)
         /\ k # Len(chanlist) => Beats(Winners[k], k + 1)
<1> DEFINE n == Len(chanlist)
           Won(m) == /\ Winners[m][1] \in Channels
                     /\ Beats(Winners[m], m)
                     /\ m # n => Beats(Winners[m], m + 1)
           A == { m \in 1 .. n : ~Won(m) }
<1>1. SUFFICES ASSUME A # {} PROVE FALSE
  BY DEF A
<1>2. n \in Nat
  BY ChannelsListed
<1>3. PICK m \in A : \A l \in A : m <= l
  <2>1. A \in SUBSET Nat
    BY <1>2
  <2> HIDE DEF A
  <2>2. QED
    BY <1>1, <2>1, SmallestOf
<1>4. m \in 1 .. n /\ m \in 0 .. n /\ m - 1 \in 0 .. n /\ m \in Nat
  BY <1>2, <1>3
<1>5. Winners[m] = Duel(Winners[m - 1], m)
  BY <1>4, WinnersDuel
<1> DEFINE v == Winners[m - 1]
<1>6. v = <<>> \/ v[1] \in Channels
  BY <1>4, WinnersAreChannels
<1>7. m = 1 => v = <<>>
  <2> SUFFICES ASSUME m = 1 PROVE v = <<>>
    OBVIOUS
  <2>1. Winners[0] = Duel(Winners[0 - 1], 0)
    BY <1>2, WinnersDuel
  <2>2. QED
    BY <2>1 DEF Duel
<1>8. m # 1 => Beats(v, m)
  <2> SUFFICES ASSUME m # 1 PROVE Beats(v, m)
    OBVIOUS
  <2>1. m - 1 \in 1 .. n /\ m - 1 \notin A /\ m - 1 # n /\ m - 1 + 1 = m
    BY <1>3, <1>4
  <2>2. Won(m - 1)
    BY <2>1
  <2>3. QED
    BY <2>1, <2>2
<1> HIDE DEF v
<1>9. /\ Duel(v, m)[1] \in Channels /\ Beats(Duel(v, m), m)
      /\ m # Len(chanlist) => Beats(Duel(v, m), m + 1)
  BY <1>4, <1>6, <1>7, <1>8, DuelWon
<1>10. Won(m)
  BY <1>5, <1>9 DEF v
<1>11. QED
  BY <1>3, <1>10

\* openr2_context_get_time_to_next_event proposes a sleep in time for all its
\* channels, if each has a timer.
LEMMA ContextSleepsInTime ==
  ASSUME TimeInv, Time!AskContext
  PROVE  TimeInv' /\ Time!SleepSafeIfAllArmed'
<1> DEFINE n == Len(chanlist)
           ms == Time!openr2_context_get_time_to_next_event
           Armed == \A c \in Time!InContext : sched_timers[c] # <<>>
<1>1. user.pc = "work" /\ chanlist # <<>> /\ Time!Sleep(ms, Time!InContext)
  BY DEF Time!AskContext
<1>2. n \in Nat /\ n # 0 /\ Time!InContext \in SUBSET Channels
  BY <1>1, ChannelsListed DEF TimeInv, TimeTypes
<1>3. ms \in Int /\ ms >= -1
  <2>1. CASE sched_timers[chanlist[n]] = <<>>
    BY <2>1, ContextAsks
  <2>2. CASE sched_timers[chanlist[n]] # <<>>
    <3>1. ms = Time!AtOnce(Time!ms_until(Time!FirstSlot(Winners[n][1])))
      BY <1>2, <2>2, ContextAsks
    <3>2. Winners[n] # <<>> /\ n \in 0 .. n
      <4>1. n \in 0 .. n
        BY <1>2
      <4>2. Winners[n] = Duel(Winners[n - 1], n)
        BY <4>1, WinnersDuel
      <4>3. QED
        BY <1>2, <2>2, <4>1, <4>2 DEF Duel
    <3>3. Winners[n][1] \in Channels
      BY <3>2, WinnersAreChannels
    <3>4. Time!FirstSlot(Winners[n][1]) \in Time!Timer /\ now \in Nat
      BY <3>3, FirstSlotTimer DEF TimeInv, TimeTypes
    <3>5. Time!ms_until(Time!FirstSlot(Winners[n][1])) \in Int
      BY <3>4, UntilRounds
    <3>6. QED
      BY <3>1, <3>5 DEF Time!AtOnce
  <2>3. QED
    BY <2>1, <2>2
<1>4. ASSUME Armed, NEW c \in Time!InContext
      PROVE  ms # -1 /\ InTimeFor(c, now + ms * 1000)
  <2> DEFINE t == Time!FirstSlot(Winners[n][1])
  <2>1. n \in 1 .. n
    BY <1>2
  <2>2. chanlist[n] \in Time!InContext /\ sched_timers[chanlist[n]] # <<>>
    BY <1>4, <2>1, ChannelsListed
  <2>3. ms = Time!AtOnce(Time!ms_until(t))
    BY <1>2, <2>2, ContextAsks
  <2>4. Winners[n][1] \in Channels /\ Beats(Winners[n], n)
    BY <1>4, <2>1, WinnersBeat
  <2>5. PICK j \in 1 .. n : c = chanlist[j]
    BY ChannelsListed
  <2>6. NoLater(t, Time!FirstSlot(c))
    BY <2>4, <2>5 DEF Beats
  <2>7. c \in Channels /\ sched_timers[c] # <<>> /\ t \in Time!Timer
    BY <1>2, <1>4, <2>4, FirstSlotTimer
  <2>8. NoLater(t, sched_timers[c][1])
    BY <2>6, <2>7 DEF Time!FirstSlot
  <2> HIDE DEF t, ms
  <2>9. ms \in Nat /\ InTimeFor(c, now + ms * 1000)
    BY <2>3, <2>7, <2>8, SleepUntil
  <2>10. QED
    BY <2>9
<1> HIDE DEF ms
<1>5. /\ user' \in User /\ user'.pc = "asleep" /\ user'.until >= -1 /\ user'.serve = Time!InContext
      /\ user'.until = -1 <=> ms = -1
      /\ ms # -1 => user'.until = now + ms * 1000
      /\ UNCHANGED <<now, chanlist, sched_timers, timer_id, to_dispatch>>
  BY <1>1, <1>2, <1>3, SleepTypes
<1>6. TimeInv'
  BY <1>1, <1>5, ListsStay DEF TimeInv, TimeTypes
<1>7. Time!SleepSafeIfAllArmed'
  <2> SUFFICES ASSUME Armed, NEW c \in Time!InContext
               PROVE  Time!InTime(c)'
    BY <1>5 DEF Time!SleepSafeIfAllArmed
  <2>1. ms # -1 /\ InTimeFor(c, now + ms * 1000)
    BY <1>4
  <2>2. QED
    BY <1>5, <2>1 DEF Time!InTime, InTimeFor, Time!Micros
<1>8. QED
  BY <1>6, <1>7
-----------------------------------------------------------------------------
(* Punctuality and sleeps. *)

\* What holds of a sleep, for a user that asks for one channel and for one that
\* asks for the context.
Sleeps ==
  /\ ~WholeContext => Time!SleepSafe
  /\ Time!SleepSafeIfAllArmed

\* Nothing is claimed of a user that is awake.
LEMMA AwakeSleeps ==
  ASSUME user.pc # "asleep"
  PROVE  Sleeps
BY DEF Sleeps, Time!SleepSafe, Time!SleepSafeIfAllArmed

\* Every step keeps the invariant; while the user sleeps no list changes.
LEMMA TimeStep ==
  ASSUME Time!SchedAssumption, TimeInv, Sleeps, [Time!Next]_(Time!vars)
  PROVE  TimeInv' /\ Sleeps'
<1>1. ASSUME NEW c \in Channels, Time!ChannelStep(c)
      PROVE  TimeInv' /\ Sleeps'
  <2>1. CASE \/ \E ms \in Delays : Time!openr2_chan_add_timer(c, ms)
             \/ \E i \in 1 .. Len(sched_timers[c]) : Time!openr2_chan_cancel_timer(c, i)
             \/ Time!openr2_chan_cancel_all_timers(c)
    <3>1. user'.pc # "asleep"
      BY <2>1 DEF Time!openr2_chan_add_timer, Time!openr2_chan_cancel_timer,
                  Time!openr2_chan_cancel_all_timers, Time!Running
    <3>2. QED
      BY <2>1, <3>1, UserChangesList DEF Sleeps, Time!SleepSafe, Time!SleepSafeIfAllArmed
  <2>2. CASE Time!openr2_chan_handle_timers(c)
    <3>1. user'.pc # "asleep"
      BY <2>2 DEF Time!openr2_chan_handle_timers, TimeInv, TimeTypes, User
    <3>2. QED
      BY <2>2, <3>1, HandlingStarts DEF Sleeps, Time!SleepSafe, Time!SleepSafeIfAllArmed
  <2>3. CASE \E i \in 1 .. Len(sched_timers[c]) : Time!Collect(c, i)
    <3>1. user'.pc # "asleep"
      BY <2>3 DEF Time!Collect
    <3>2. QED
      BY <2>3, <3>1, CollectedInOrder DEF Sleeps, Time!SleepSafe, Time!SleepSafeIfAllArmed
  <2>4. CASE Time!Collected(c)
    <3>1. user'.pc # "asleep"
      BY <2>4 DEF Time!Collected, TimeInv, TimeTypes, User
    <3>2. QED
      BY <2>4, <3>1, NoneLeft DEF Sleeps, Time!SleepSafe, Time!SleepSafeIfAllArmed
  <2>5. CASE Time!Dispatch(c)
    <3>1. user'.pc # "asleep"
      BY <2>5 DEF Time!Dispatch
    <3>2. QED
      BY <2>5, <3>1, TimerCalled DEF Sleeps, Time!SleepSafe, Time!SleepSafeIfAllArmed
  <2>6. CASE Time!openr2_context_add_channel(c)
    <3>1. /\ user.pc = "work" /\ chanlist' = <<c>> \o chanlist
          /\ UNCHANGED <<now, sched_timers, timer_id, to_dispatch, user>>
      BY <2>6 DEF Time!openr2_context_add_channel
    <3>2. chanlist' \in Seq(Channels)
      BY <3>1 DEF TimeInv, TimeTypes
    <3>3. TimeInv'
      BY <3>1, <3>2, ListsStay DEF TimeInv, TimeTypes
    <3>4. QED
      BY <3>1, <3>3 DEF Sleeps, Time!SleepSafe, Time!SleepSafeIfAllArmed
  <2>7. CASE Time!AskChannel(c)
    <3>1. TimeInv' /\ Time!SleepSafe'
      BY <2>7, ChannelSleepsInTime
    <3>2. QED
      BY <3>1 DEF Sleeps, Time!SleepSafe, Time!SleepSafeIfAllArmed
  <2>8. QED
    BY <1>1, <2>1, <2>2, <2>3, <2>4, <2>5, <2>6, <2>7 DEF Time!ChannelStep
<1>2. CASE Time!AskContext
  <2>1. TimeInv' /\ Time!SleepSafeIfAllArmed'
    BY <1>2, ContextSleepsInTime
  <2>2. QED
    BY <1>2, <2>1 DEF Time!AskContext, Sleeps
<1>3. CASE Time!Processed
  <2>1. /\ user.pc = "dispatch" /\ \A c \in Channels : to_dispatch[c] = <<>>
        /\ user \in User /\ user.until >= -1
        /\ UNCHANGED <<now, chanlist, sched_timers, timer_id, to_dispatch>>
    BY <1>3 DEF Time!Processed, TimeInv, TimeTypes
  <2>2. PICK pc \in {"work", "process"} : pc = IF user.later = {} THEN "work" ELSE "process"
    OBVIOUS
  <2>3. user' = [user EXCEPT !.pc = pc, !.serve = user.later, !.later = {}]
    BY <1>3, <2>2 DEF Time!Processed
  <2>4. user.later \in SUBSET Channels /\ {} \in SUBSET Channels
    BY <2>1 DEF User
  <2>5. user' \in User /\ user'.until = user.until /\ user'.pc = pc
    BY <2>1, <2>3, <2>4 DEF User
  <2>6. TimeInv'
    BY <2>1, <2>5, ListsStay DEF TimeInv, TimeTypes
  <2>7. QED
    BY <2>2, <2>5, <2>6 DEF Sleeps, Time!SleepSafe, Time!SleepSafeIfAllArmed
<1>4. CASE (\E late \in Late : Time!Timeout(late)) \/ (\E early \in Early : Time!LineEvent(early))
  <2>1. /\ now' \in Nat /\ user.pc = "asleep"
        /\ user' \in User /\ user'.pc = "process" /\ user'.until = user.until
        /\ UNCHANGED <<chanlist, sched_timers, timer_id, to_dispatch>>
    BY <1>4, WokenTypes
  <2>2. TimeInv'
    BY <2>1, ListsStay DEF TimeInv, TimeTypes
  <2>3. QED
    BY <2>1, <2>2 DEF Sleeps, Time!SleepSafe, Time!SleepSafeIfAllArmed
<1>5. CASE UNCHANGED Time!vars
  <2>1. UNCHANGED <<now, chanlist, sched_timers, timer_id, to_dispatch, user, wakes, idle>>
    BY <1>5 DEF Time!vars
  <2>2. TimeInv'
    BY <2>1 DEF TimeInv, TimeTypes, ListsInOrder, InOrder, NoneTaken, TakenFirst, NoLater, Time!Before,
                TakenOnTime, AllTaken, Time!Micros
  <2>3. Sleeps'
    BY <2>1 DEF Sleeps, Time!SleepSafe, Time!SleepSafeIfAllArmed, Time!InTime, Time!Micros
  <2>4. QED
    BY <2>2, <2>3
<1>6. QED
  BY <1>1, <1>2, <1>3, <1>4, <1>5 DEF Time!Next

\* The invariant holds of every behaviour of R2Sched.
LEMMA TimeInvariant ==
  ASSUME Time!SchedAssumption
  PROVE  Time!Spec => [](TimeInv /\ Sleeps)
<1>1. Time!Init => TimeInv /\ Sleeps
  <2>1. Time!Init => user.pc # "asleep"
    BY DEF Time!Init
  <2>2. QED
    BY <2>1, TimeInit, AwakeSleeps
<1>2. TimeInv /\ Sleeps /\ [Time!Next]_(Time!vars) => (TimeInv /\ Sleeps)'
  BY TimeStep
<1>3. QED
  BY <1>1, <1>2, PTL DEF Time!Spec

\* A list in order is in order of the moments its timers expire.
LEMMA InOrderOrdered ==
  ASSUME NEW s \in Seq(Time!Timer), InOrder(s)
  PROVE  Time!Ordered(s)
<1> SUFFICES ASSUME NEW i \in 1 .. Len(s), NEW j \in 1 .. Len(s), i <= j
             PROVE  Time!Micros(s[i]) <= Time!Micros(s[j])
  BY DEF Time!Ordered
<1>1. s[i] \in Time!Timer /\ s[j] \in Time!Timer /\ NoLater(s[i], s[j])
  BY DEF InOrder
<1>2. QED
  BY <1>1, NoLaterOrders

\* Lists in order make Sorted hold.
LEMMA SortedNow ==
  ASSUME TimeInv
  PROVE  Time!Sorted
BY InOrderOrdered DEF TimeInv, TimeTypes, Lists, ListsInOrder, Time!Sorted

\* So do the lists, and what was taken from them, for Punctual.
LEMMA PunctualNow ==
  ASSUME TimeInv
  PROVE  Time!Punctual
<1> SUFFICES ASSUME user.pc = "dispatch", NEW c \in Channels, to_dispatch[c] # <<>>
             PROVE  /\ Time!Ordered(to_dispatch[c])
                    /\ \A k \in 1 .. Len(to_dispatch[c]) : Time!Micros(to_dispatch[c][k]) < now + 1000
                    /\ \A k \in 1 .. Len(sched_timers[c]) : Time!Micros(sched_timers[c][k]) >= now
  BY DEF Time!Punctual
<1>1. c \in user.serve
  BY DEF TimeInv, TakenOnTime
<1>2. Time!Ordered(to_dispatch[c])
  BY InOrderOrdered DEF TimeInv, TimeTypes, Lists, ListsInOrder
<1>3. QED
  BY <1>1, <1>2 DEF TimeInv, TakenOnTime, AllTaken

\* The timer list of every channel is in the order in which the timers expire,
\* whatever delays are scheduled, at whatever moments, and whatever is cancelled
\* in between (openr2_chan_add_timer, openr2_chan_cancel_timer).
THEOREM Sorted ==
  ASSUME Time!SchedAssumption
  PROVE  Time!Spec => []Time!Sorted
BY SortedNow, TimeInvariant, PTL

\* openr2_chan_handle_timers calls the timers in the order they expire, none a
\* millisecond or more before its time, and leaves none that is overdue, even if
\* a callback schedules or cancels timers meanwhile.
THEOREM Punctual ==
  ASSUME Time!SchedAssumption
  PROVE  Time!Spec => []Time!Punctual
BY PunctualNow, TimeInvariant, PTL

\* A user that sleeps as long as openr2_chan_get_time_to_next_event says wakes up
\* less than a millisecond after the first timer of the channel, or at once.
THEOREM SleepSafe ==
  ASSUME Time!SchedAssumption, ~WholeContext
  PROVE  Time!Spec => []Time!SleepSafe
<1>1. TimeInv /\ Sleeps => Time!SleepSafe
  BY DEF Sleeps
<1>2. QED
  BY <1>1, TimeInvariant, PTL

\* The same of openr2_context_get_time_to_next_event for every channel of the
\* context, if each of them has a timer, however many there are.
THEOREM SleepSafeIfAllArmed ==
  ASSUME Time!SchedAssumption
  PROVE  Time!Spec => []Time!SleepSafeIfAllArmed
<1>1. TimeInv /\ Sleeps => Time!SleepSafeIfAllArmed
  BY DEF Sleeps
<1>2. QED
  BY <1>1, TimeInvariant, PTL
-----------------------------------------------------------------------------
(* Waking up for nothing. *)

\* A timer of the channel has expired.
Due(c) == sched_timers[c] # <<>> /\ Time!Expired(sched_timers[c][1])

\* After a sleep for nothing the next timer is less than a millisecond away.
Near ==
  idle >= 1 => \A c \in Channels :
    to_dispatch[c] # <<>> \/
      (sched_timers[c] # <<>> /\ Time!Micros(sched_timers[c][1]) < now + 1000)

\* A sleep ends less than a millisecond before the next timer, and the second one
\* in a row not before it.
SleepsLongEnough ==
  user.pc = "asleep" /\ user.until # -1 => \A c \in Channels :
    /\ sched_timers[c] # <<>>
    /\ Time!Micros(sched_timers[c][1]) < user.until + 1000
    /\ idle >= 1 => Time!Micros(sched_timers[c][1]) < user.until

\* After a sleep for nothing no timer has expired, once the expired ones have been
\* called.
Rested ==
  idle >= 1 => \A c \in Channels :
    user.pc = "work" \/ (user.pc = "dispatch" /\ to_dispatch[c] = <<>>) => ~Due(c)

\* After two of them a timer has expired, and is about to be called.
Served ==
  idle >= 2 =>
    /\ user.pc \in {"process", "collect", "dispatch"}
    /\ \A c \in Channels : to_dispatch[c] # <<>> \/ (user.pc # "dispatch" /\ Due(c))

\* The inductive invariant that NoSpin needs besides.
SpinInv == idle \in Nat /\ Near /\ SleepsLongEnough /\ Rested /\ Served

\* A timer that was called, and any change of the timers, starts the count again.
LEMMA NotIdle ==
  ASSUME idle = 0, user.pc # "asleep"
  PROVE  SpinInv
BY DEF SpinInv, Near, SleepsLongEnough, Rested, Served

\* A timer whose moment has passed has expired.
LEMMA OverdueIsDue ==
  now \in Nat => \A t \in Time!Timer : Time!Micros(t) < now => Time!Expired(t)
<1> SUFFICES ASSUME now \in Nat, NEW t \in Time!Timer, Time!Micros(t) < now PROVE Time!Expired(t)
  OBVIOUS
<1>1. Time!Micros(t) \in Nat
  BY TimerFields
<1>2. QED
  BY <1>1, ExpiredOnTime

\* A sleep for nothing leaves 1 ms to sleep, never 0.
LEMMA SleptLongEnough ==
  ASSUME TimeInv, SpinInv, NEW c, Channels = {c}, Time!AskChannel(c)
  PROVE  SpinInv'
<1> DEFINE ms == Time!openr2_chan_get_time_to_next_event(c)
           t == sched_timers[c][1]
<1>1. user.pc = "work" /\ Time!Sleep(ms, {c})
  BY DEF Time!AskChannel
<1>2. /\ now \in Nat /\ idle \in Nat /\ idle < 2
      /\ idle' = idle
  BY <1>1 DEF TimeInv, TimeTypes, SpinInv, Served, Time!Sleep
<1>3. CASE sched_timers[c] = <<>>
  <2>1. ms = -1
    BY <1>3 DEF Time!openr2_chan_get_time_to_next_event
  <2>2. user'.until = -1 /\ user'.pc = "asleep" /\ UNCHANGED <<now, sched_timers, to_dispatch>>
    BY <1>1, <2>1 DEF Time!Sleep
  <2>3. Near' /\ SleepsLongEnough' /\ Rested' /\ Served'
    BY <1>2, <2>2 DEF SpinInv, Near, SleepsLongEnough, Rested, Served, Time!Micros
  <2>4. QED
    BY <1>2, <2>3 DEF SpinInv
<1>4. CASE sched_timers[c] # <<>>
  <2> DEFINE m == Time!ms_until(t)
  <2>1. t \in Time!Timer
    BY <1>4, FirstIsNext
  <2>2. m \in Int /\ Time!Micros(t) - now - 1000 < m * 1000 /\ Time!Micros(t) \in Int
    BY <1>2, <2>1, UntilRounds, TimerFields
  <2>3. ms = IF m < 0 THEN 0 ELSE m
    BY <1>4 DEF Time!openr2_chan_get_time_to_next_event, Time!AtOnce
  <2>4. idle >= 1 => m > 0 /\ Time!Micros(t) < now + 1000
    <3>1. idle >= 1 => ~Due(c) /\ to_dispatch[c] = <<>>
      BY <1>1 DEF SpinInv, Rested, TimeInv, NoneTaken
    <3>2. idle >= 1 => ~(m <= 0)
      BY <1>4, <3>1 DEF Due, Time!Expired
    <3>3. QED
      BY <2>2, <3>1, <3>2 DEF SpinInv, Near
  <2> HIDE DEF m, ms, t
  <2>5. /\ ms \in Nat /\ Time!Micros(t) < now + ms * 1000 + 1000
        /\ idle >= 1 => Time!Micros(t) < now + ms * 1000
    BY <1>2, <2>2, <2>3, <2>4
  <2>6. /\ user'.until = now + ms * 1000 /\ user'.pc = "asleep"
        /\ UNCHANGED <<now, sched_timers, to_dispatch>>
    BY <1>1, <2>5 DEF Time!Sleep
  <2>7. SleepsLongEnough'
    BY <1>2, <1>4, <2>5, <2>6 DEF SleepsLongEnough, Time!Micros, t
  <2>8. Near' /\ Rested' /\ Served'
    BY <1>2, <2>6 DEF SpinInv, Near, Rested, Served, Time!Micros
  <2>9. QED
    BY <1>2, <2>7, <2>8 DEF SpinInv
<1>5. QED
  BY <1>3, <1>4

\* The sleep after that one ends past the timer.
LEMMA WokenByTimer ==
  ASSUME Time!SchedAssumption, TimeInv, SpinInv, NEW late \in Late, Time!Timeout(late)
  PROVE  SpinInv'
<1>1. /\ late \in Nat /\ now \in Nat /\ idle \in Nat /\ user \in User
      /\ user.pc = "asleep" /\ user.until # -1 /\ user.until \in Nat
      /\ now' = user.until + late /\ idle' = idle + 1
      /\ user' = [user EXCEPT !.pc = "process"]
      /\ UNCHANGED <<sched_timers, to_dispatch>>
  BY DEF Time!Timeout, Time!WakeAt, Time!SchedAssumption, TimeInv, TimeTypes, User, SpinInv
<1>2. user'.pc = "process" /\ now' \in Nat /\ idle' \in Nat /\ now' >= user.until
  BY <1>1 DEF User
<1>3. ASSUME NEW c \in Channels
      PROVE  /\ sched_timers'[c] # <<>> /\ sched_timers'[c][1] \in Time!Timer
             /\ Time!Micros(sched_timers'[c][1]) < now' + 1000
             /\ idle' >= 2 => Time!Micros(sched_timers'[c][1]) < now'
  <2>1. /\ sched_timers[c] # <<>>
        /\ Time!Micros(sched_timers[c][1]) < user.until + 1000
        /\ idle >= 1 => Time!Micros(sched_timers[c][1]) < user.until
    BY <1>1 DEF SpinInv, SleepsLongEnough
  <2>2. sched_timers[c][1] \in Time!Timer /\ Time!Micros(sched_timers[c][1]) \in Int
    BY <2>1, FirstIsNext, TimerFields
  <2>3. QED
    BY <1>1, <1>2, <2>1, <2>2
<1>4. \A t \in Time!Timer : Time!Micros(t) < now' => Time!Expired(t)'
  <2>1. (now \in Nat => \A t \in Time!Timer : Time!Micros(t) < now => Time!Expired(t))'
    BY OverdueIsDue, PTL
  <2>2. QED
    BY <1>2, <2>1
<1>5. Near'
  BY <1>3 DEF Near, Time!Micros
<1>6. Served'
  <2> SUFFICES ASSUME idle' >= 2, NEW c \in Channels PROVE Due(c)'
    BY <1>2 DEF Served
  <2>1. QED
    BY <1>3, <1>4 DEF Due
<1>7. SleepsLongEnough' /\ Rested'
  BY <1>2 DEF SleepsLongEnough, Rested
<1>8. QED
  BY <1>2, <1>5, <1>6, <1>7 DEF SpinInv

\* Every step of a user with one channel preserves the invariant.
LEMMA SpinStep ==
  ASSUME Time!SchedAssumption, ~WholeContext, NEW c, Channels = {c},
         TimeInv, SpinInv, [Time!Next]_(Time!vars)
  PROVE  SpinInv'
<1>1. CASE \/ \E ms \in Delays : Time!openr2_chan_add_timer(c, ms)
           \/ \E i \in 1 .. Len(sched_timers[c]) : Time!openr2_chan_cancel_timer(c, i)
           \/ Time!openr2_chan_cancel_all_timers(c) \/ Time!Dispatch(c)
  <2>1. idle' = 0 /\ user'.pc # "asleep"
    BY <1>1 DEF Time!openr2_chan_add_timer, Time!openr2_chan_cancel_timer,
                Time!openr2_chan_cancel_all_timers, Time!Running, Time!Dispatch
  <2>2. QED
    BY <2>1 DEF SpinInv, Near, SleepsLongEnough, Rested, Served
<1>2. CASE \E early \in Early : Time!LineEvent(early)
  <2>1. idle' = 0 /\ user'.pc # "asleep"
    BY <1>2 DEF Time!LineEvent, Time!WakeAt, TimeInv, TimeTypes, User
  <2>2. QED
    BY <2>1 DEF SpinInv, Near, SleepsLongEnough, Rested, Served
<1>3. CASE Time!openr2_chan_handle_timers(c)
  <2>1. /\ user.pc = "process" /\ user'.pc = "collect"
        /\ UNCHANGED <<now, sched_timers, to_dispatch, idle>>
    BY <1>3 DEF Time!openr2_chan_handle_timers, TimeInv, TimeTypes, User
  <2>2. QED
    BY <2>1 DEF SpinInv, Near, SleepsLongEnough, Rested, Served, Due, Time!Expired, Time!ms_until,
                Time!tv_sec, Time!tv_usec, Time!Micros
<1>4. CASE \E i \in 1 .. Len(sched_timers[c]) : Time!Collect(c, i)
  <2>1. PICK i \in 1 .. Len(sched_timers[c]) : Time!Collect(c, i)
    BY <1>4
  <2> DEFINE s == sched_timers[c]
             d == Append(to_dispatch[c], s[i])
  <2>2. to_dispatch[c] \in Seq(Time!Timer) /\ s \in Seq(Time!Timer) /\ to_dispatch \in Lists
    BY DEF TimeInv, TimeTypes, Lists
  <2>3. d # <<>>
    BY <2>2
  <2> HIDE DEF d
  <2>4. /\ user.pc = "collect" /\ UNCHANGED <<user, idle>>
        /\ to_dispatch' = [to_dispatch EXCEPT ![c] = d]
    BY <2>1 DEF Time!Collect, d
  <2>5. \A b \in Channels : to_dispatch'[b] # <<>>
    BY <2>2, <2>3, <2>4 DEF Lists
  <2>6. QED
    BY <2>4, <2>5 DEF SpinInv, Near, SleepsLongEnough, Rested, Served
<1>5. CASE Time!Collected(c)
  <2>1. /\ user.pc = "collect" /\ user'.pc = "dispatch"
        /\ \A i \in 1 .. Len(sched_timers[c]) : ~Time!Expired(sched_timers[c][i])
        /\ UNCHANGED <<now, sched_timers, to_dispatch, idle>>
    BY <1>5 DEF Time!Collected, TimeInv, TimeTypes, User
  <2>2. ~Due(c) /\ ~Due(c)'
    <3>1. sched_timers[c] # <<>> => 1 \in 1 .. Len(sched_timers[c])
      BY FirstIsNext
    <3>2. ~Due(c)
      BY <2>1, <3>1 DEF Due
    <3>3. QED
      BY <2>1, <3>2 DEF Due, Time!Expired, Time!ms_until, Time!tv_sec, Time!tv_usec
  <2>3. QED
    BY <2>1, <2>2 DEF SpinInv, Near, SleepsLongEnough, Rested, Served, Time!Micros
<1>6. CASE Time!Processed
  <2>1. /\ user.pc = "dispatch" /\ \A b \in Channels : to_dispatch[b] = <<>>
        /\ user'.pc \in {"work", "process"}
        /\ UNCHANGED <<now, sched_timers, to_dispatch, idle>>
    BY <1>6 DEF Time!Processed, TimeInv, TimeTypes, User
  <2>2. ~(idle >= 2)
    BY <2>1 DEF SpinInv, Served
  <2>3. idle >= 1 => ~Due(c)
    BY <2>1 DEF SpinInv, Rested
  <2>4. idle' >= 1 => ~Due(c)'
    BY <2>1, <2>3 DEF Due, Time!Expired, Time!ms_until, Time!tv_sec, Time!tv_usec
  <2>5. QED
    BY <2>1, <2>2, <2>4 DEF SpinInv, Near, SleepsLongEnough, Rested, Served, Time!Micros
<1>7. CASE UNCHANGED <<now, sched_timers, to_dispatch, user, idle>>
  BY <1>7 DEF SpinInv, Near, SleepsLongEnough, Rested, Served, Due, Time!Expired, Time!ms_until,
              Time!tv_sec, Time!tv_usec, Time!Micros
<1>8. QED
  BY <1>1, <1>2, <1>3, <1>4, <1>5, <1>6, <1>7, SleptLongEnough, WokenByTimer
  DEF Time!Next, Time!ChannelStep, Time!AskContext, Time!openr2_context_add_channel, Time!vars

\* A user of one channel that sleeps as long as
\* openr2_chan_get_time_to_next_event says wakes up for nothing at most once
\* before a timer expires: a loop around openr2_chan_process does not spin.
THEOREM NoSpin ==
  ASSUME Time!SchedAssumption, ~WholeContext, NEW c, Channels = {c}
  PROVE  Time!Spec => []Time!NoSpin
<1>1. Time!Init => TimeInv /\ Sleeps /\ SpinInv
  <2>1. Time!Init => user.pc # "asleep" /\ idle = 0
    BY DEF Time!Init
  <2>2. QED
    BY <2>1, TimeInit, AwakeSleeps, NotIdle
<1>2. TimeInv /\ Sleeps /\ SpinInv /\ [Time!Next]_(Time!vars) => (TimeInv /\ Sleeps /\ SpinInv)'
  BY TimeStep, SpinStep
<1>3. SpinInv => Time!NoSpin
  BY DEF SpinInv, Served, Time!NoSpin
<1>4. QED
  BY <1>1, <1>2, <1>3, PTL DEF Time!Spec

\* The user of one channel.
Sole == ~WholeContext /\ \E c : Channels = {c}

\* A user with one channel finds its timers in order and punctual, and its sleeps
\* neither too long nor for nothing; a user with a context of any size is never
\* late if each channel has a timer.
THEOREM TimersAreServed ==
  ASSUME Time!SchedAssumption
  PROVE  Time!Spec /\ [](part = "timers" => Sole) => []TimersServed
<1> DEFINE I == TimeInv /\ Sleeps /\ (Sole => SpinInv)
<1>1. Time!Init => I
  <2>1. Time!Init => user.pc # "asleep" /\ idle = 0
    BY DEF Time!Init
  <2>2. QED
    BY <2>1, TimeInit, AwakeSleeps, NotIdle
<1>2. I /\ [Time!Next]_(Time!vars) => I'
  <2> SUFFICES ASSUME I, [Time!Next]_(Time!vars) PROVE I'
    OBVIOUS
  <2>1. TimeInv' /\ Sleeps'
    BY TimeStep
  <2>2. ASSUME Sole PROVE SpinInv'
    <3>1. PICK c : Channels = {c}
      BY <2>2 DEF Sole
    <3>2. QED
      BY <2>2, <3>1, SpinStep DEF Sole
  <2>3. QED
    BY <2>1, <2>2
<1>3. I /\ (part = "timers" => Sole) => TimersServed
  <2> SUFFICES ASSUME I, part = "timers" => Sole PROVE TimersServed
    OBVIOUS
  <2>1. Time!Sorted /\ Time!Punctual
    BY SortedNow, PunctualNow
  <2>2. Sole => Time!SleepSafe /\ Time!NoSpin
    <3>1. Sole => Time!SleepSafe /\ SpinInv
      BY DEF Sleeps, Sole
    <3>2. SpinInv => Time!NoSpin
      BY DEF SpinInv, Served, Time!NoSpin
    <3>3. QED
      BY <3>1, <3>2
  <2>3. Time!SleepSafeIfAllArmed
    BY DEF Sleeps
  <2>4. QED
    BY <2>1, <2>2, <2>3 DEF TimersServed
<1> HIDE DEF I
<1>4. QED
  BY <1>1, <1>2, <1>3, PTL DEF Time!Spec
=============================================================================
