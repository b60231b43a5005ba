------------------------------- MODULE R2Write -------------------------------
(***************************************************************************)
(* openr2_chan_write: speech of the user, written to a driver that takes   *)
(* at most a block at a time, has a few blocks, refuses to write (ELAST)   *)
(* while an event is pending, and does not wait (O_NONBLOCK).  The channel *)
(* lock is held until the call returns, so that the event is taken only    *)
(* between the calls.  Bytes are numbered within the user's buffer.        *)
(***************************************************************************)
EXTENDS Integers, Sequences

CONSTANTS Lengths,      \* of the buffers that the user writes
          BlockSize,    \* OR2_CHAN_READ_SIZE
          Blocks,       \* numbufs of the driver
          Events,       \* the line reports events
          Breaks        \* the driver may fail for good

WriteAssumption ==
  /\ Lengths \subseteq Nat \ {0} /\ Lengths # {}
  /\ BlockSize \in Nat \ {0} /\ Blocks \in Nat \ {0}
  /\ Events \in BOOLEAN /\ Breaks \in BOOLEAN

VARIABLES dev,      \* the driver: free blocks, event pending, broken
          call,     \* the call: whether it is in its loop, buf_size and wrote
          taken,    \* the bytes that the driver took in this call
          told      \* on_os_error was called in this call

vars == <<dev, call, taken, told>>
-----------------------------------------------------------------------------
Smaller(a, b) == IF a < b THEN a ELSE b
Bytes(a, b) == [i \in 1 .. b - a + 1 |-> a + i - 1]

\* zt_write of the bytes from a to b of the buffer: the result r, what the driver
\* took, and whether the user was told of an error.  Any failure but ELAST is
\* reported from here.
ZtWrite(a, b) ==
  IF dev.broken THEN [r |-> -1, errno |-> "EIO", put |-> <<>>, told |-> TRUE]
  ELSE IF dev.event THEN [r |-> 0, errno |-> "ELAST", put |-> <<>>, told |-> FALSE]
  ELSE IF dev.room = 0 THEN [r |-> -1, errno |-> "EAGAIN", put |-> <<>>, told |-> TRUE]
  ELSE LET n == Smaller(b - a + 1, BlockSize)
       IN  [r |-> n, errno |-> "none", put |-> Bytes(a, a + n - 1), told |-> FALSE]

\* The user calls, with the channel lock.
Write(n) ==
  /\ ~call.busy
  /\ call' = [busy |-> TRUE, size |-> n, wrote |-> 0]
  /\ taken' = <<>> /\ told' = FALSE
  /\ UNCHANGED dev

\* Mutant: a buffer that was not taken counts as written.
Attempt_assumed ==
  LET z == ZtWrite(1, call.size) IN
  /\ call.busy
  /\ dev' = IF z.put # <<>> THEN [dev EXCEPT !.room = @ - 1] ELSE dev
  /\ taken' = taken \o z.put
  /\ told' = (told \/ z.told)
  /\ call' = [call EXCEPT !.wrote = call.size, !.busy = FALSE]

\* A turn of the loop: always from the start of the buffer and all of it; only a
\* failure other than EAGAIN ends the loop early.
Attempt ==
  LET z == ZtWrite(1, call.size)
      wrote == IF z.r = -1 THEN call.wrote ELSE call.wrote + z.r
      failed == z.r = -1 /\ z.errno # "EAGAIN"
  IN
  /\ call.busy
  /\ dev' = IF z.put # <<>> THEN [dev EXCEPT !.room = @ - 1] ELSE dev
  /\ taken' = taken \o z.put
  /\ told' = (told \/ z.told)
  /\ call' = [call EXCEPT !.wrote = wrote, !.busy = ~failed /\ wrote < call.size]

\* The line sends a block; an event arrives; the driver fails for good.
LineSends ==
  /\ dev.room < Blocks
  /\ dev' = [dev EXCEPT !.room = @ + 1]
  /\ UNCHANGED <<call, taken, told>>

EventArrives ==
  /\ Events /\ ~dev.event
  /\ dev' = [dev EXCEPT !.event = TRUE]
  /\ UNCHANGED <<call, taken, told>>

Break ==
  /\ Breaks /\ ~dev.broken
  /\ dev' = [dev EXCEPT !.broken = TRUE]
  /\ UNCHANGED <<call, taken, told>>

\* openr2_chan_process takes the event, in a call of its own.
TakeEvent ==
  /\ ~call.busy /\ dev.event
  /\ dev' = [dev EXCEPT !.event = FALSE]
  /\ UNCHANGED <<call, taken, told>>
-----------------------------------------------------------------------------
Init ==
  /\ dev = [room |-> Blocks, event |-> FALSE, broken |-> FALSE]
  /\ call = [busy |-> FALSE, size |-> 0, wrote |-> 0]
  /\ taken = <<>> /\ told = FALSE

Next ==
  \/ Attempt \/ LineSends \/ EventArrives \/ Break \/ TakeEvent
  \/ \E n \in Lengths : Write(n)

\* The threads run and the line sends.
Spec == Init /\ [][Next]_vars /\ WF_vars(LineSends) /\ WF_vars(Attempt) /\ WF_vars(TakeEvent)
-----------------------------------------------------------------------------
TypeOK ==
  /\ dev.room \in 0 .. Blocks /\ dev.event \in BOOLEAN /\ dev.broken \in BOOLEAN
  /\ call.busy \in BOOLEAN /\ call.size \in Lengths \cup {0} /\ call.wrote \in 0 .. call.size
  /\ told \in BOOLEAN

\* The driver gets the bytes of the buffer once and in order, as many as the call
\* says it wrote ("writes the given buffer to the channel").
WritesTheBuffer == ~call.busy => taken = Bytes(1, call.wrote)

\* The call returns, and gives up the channel lock.
WriteReturns == call.busy ~> ~call.busy

\* A driver without room is no error, it is tried again; not so with zt_write,
\* which reports every failure but ELAST.
BusyIsNoError == told => dev.broken
=============================================================================
