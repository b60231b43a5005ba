------------------------------- MODULE R2Fifo -------------------------------
(***************************************************************************)
(* What queue.h promises to the one writer and the one reader of a queue:  *)
(* a first-in first-out store of at most Capacity bytes.  A call either    *)
(* moves bytes or is refused, and it is refused only for lack of space or  *)
(* of bytes at the moment it looked.                                       *)
(***************************************************************************)
EXTENDS Integers, Sequences

CONSTANTS Byte, Capacity

VARIABLES q,       \* the bytes in the queue, oldest first
          wlast,   \* the writer's last call: the bytes it asked to store, what
                   \* it returned and the bytes it stored
          rlast    \* the reader's last call, in the same way

vars == <<q, wlast, rlast>>

First(s, n) == [k \in 1 .. n |-> s[k]]
Rest(s, n) == [k \in 1 .. Len(s) - n |-> s[n + k]]
Joined(s, t) == [k \in 1 .. Len(s) + Len(t) |-> IF k <= Len(s) THEN s[k] ELSE t[k - Len(s)]]

NoCall == [ask |-> 0, ret |-> 0, bytes |-> <<>>]

Init == q = <<>> /\ wlast = NoCall /\ rlast = NoCall

\* The writer's bytes go behind those already there; a message is stored with
\* its header, so the result may be smaller than what was stored.
Put ==
  /\ wlast'.bytes \in Seq(Byte)
  /\ Len(wlast'.bytes) \in 1 .. wlast'.ask
  /\ Len(q) + Len(wlast'.bytes) <= Capacity
  /\ q' = Joined(q, wlast'.bytes)
  /\ wlast'.ret \in 0 .. Len(wlast'.bytes)
  /\ UNCHANGED rlast

\* A write is refused, or found to ask for nothing.
RefusePut ==
  /\ wlast'.ask = 0 \/ Len(q) + wlast'.ask > Capacity
  /\ wlast'.ret <= 0 /\ wlast'.bytes = <<>>
  /\ UNCHANGED <<q, rlast>>

\* The reader gets the oldest n bytes.
Get(n) ==
  /\ n <= rlast'.ask
  /\ rlast'.ret = n
  /\ rlast'.bytes = First(q, n)
  /\ UNCHANGED wlast

Take == \E n \in 1 .. Len(q) : Get(n) /\ q' = Rest(q, n)

Look == \E n \in 1 .. Len(q) : Get(n) /\ UNCHANGED q

\* A read is refused, or found to ask for nothing.
RefuseTake ==
  /\ rlast'.ask = 0 \/ Len(q) < rlast'.ask
  /\ rlast'.ret <= 0 /\ rlast'.bytes = <<>>
  /\ UNCHANGED <<q, wlast>>

\* The queue is emptied.
Clear ==
  /\ q' = <<>>
  /\ UNCHANGED <<wlast, rlast>>

Next == Put \/ RefusePut \/ Take \/ Look \/ RefuseTake \/ Clear

Spec == Init /\ [][Next]_vars
=============================================================================
