------------------------------ MODULE R2Queue -------------------------------
(***************************************************************************)
(* The ring buffer of queue.c, between one writer and one reader that do   *)
(* not lock: each call takes a snapshot of the two pointers, copies bytes, *)
(* and publishes its own pointer last.  Those three moments are separate   *)
(* steps, so the calls of the two sides interleave.                        *)
(***************************************************************************)
EXTENDS Integers, Sequences

CONSTANTS Byte,            \* the byte values used
          Cap,             \* the len given to queue_init
          ReadAtomic,      \* QUEUE_READ_ATOMIC is set
          WriteAtomic,     \* QUEUE_WRITE_ATOMIC is set
          Writes,          \* buffers given to queue_write
          Singles,         \* bytes given to queue_write_byte
          Messages,        \* messages given to queue_write_msg
          ReadLens,        \* lengths given to queue_read
          ViewLens,        \* lengths given to queue_view
          MsgLens,         \* buffer lengths given to queue_read_msg
          ByteReads,       \* the reader calls queue_read_byte
          OneWritePerInit  \* a block is written only right after queue_init, as
                           \* the DTMF generator of r2engine.c does

ASSUME QueueAssumption ==
  /\ Cap \in Nat \ {0}
  /\ Byte \subseteq Nat /\ 0 \in Byte
  /\ ReadAtomic \in BOOLEAN /\ WriteAtomic \in BOOLEAN
  /\ ByteReads \in BOOLEAN /\ OneWritePerInit \in BOOLEAN
  /\ Writes \subseteq Seq(Byte) /\ Messages \subseteq Seq(Byte)
  /\ \A m \in Messages : Len(m) \in Byte
  /\ Singles \subseteq Byte
  /\ ReadLens \subseteq Nat /\ ViewLens \subseteq Nat /\ MsgLens \subseteq Nat \ {0}
  /\ MsgLens # {} => ReadAtomic    \* queue.h:33: the message functions need the flag

\* The users the two kinds of calls are safe for.  A block call may leave its
\* pointer one past the last slot, where a byte call takes the queue for full
\* (ContentsFit): byte calls need block writes that begin at the first slot and
\* no block read.  Messages share their queue with no other call.
Disciplined ==
  /\ \/ Singles = {} /\ ~ByteReads
     \/ OneWritePerInit /\ (ByteReads => ReadLens = {} /\ MsgLens = {})
  /\ MsgLens # {} => Writes = {} /\ Singles = {} /\ ReadLens = {} /\ ~ByteReads

VARIABLES iptr, optr, data,
          w, r,             \* the calls in progress
          wlast, rlast,     \* the last calls: what they asked, returned and moved;
                            \* a message is read by several calls of queue_read
          fresh             \* nothing has been written since queue_init

vars == <<iptr, optr, data, w, r, wlast, rlast, fresh>>

len == Cap + 1
HEADER == 2

NoCall  == [ask |-> 0, ret |-> 0, bytes |-> <<>>]
NoWrite == [pc |-> "idle", to |-> 0, last |-> NoCall]
NoRead  == [pc |-> "idle", op |-> "none", n |-> 0, last |-> NoCall, left |-> 0]

queue_contents(i, o) == IF i - o < 0 THEN i - o + len ELSE i - o
queue_free_space(i, o) == IF o - i - 1 < 0 THEN o - i - 1 + len ELSE o - i - 1

\* Mutant: the comparison is off by one.
Granted_one_more(avail, n, atomic) ==
  IF avail + 1 >= n THEN n ELSE IF atomic THEN -1 ELSE avail

\* How many of n bytes a call moves when only avail can be.
Granted(avail, n, atomic) ==
  IF avail >= n THEN n ELSE IF atomic THEN -1 ELSE avail

\* The k-th slot from p on, going round the end of the buffer.
Slot(p, k) == IF p + k >= len THEN p + k - len ELSE p + k

\* Mutant: a byte call wraps as the block calls do.
ByteEnd_late(p) == IF p + 1 > len THEN 0 ELSE p + 1

\* Where a pointer comes to rest: a block call wraps only past the end of the
\* buffer, a byte call at the end.
BlockEnd(p, n) ==
  IF len - p >= n
  THEN IF p + n > len THEN 0 ELSE p + n
  ELSE n - (len - p)
ByteEnd(p) == IF p + 1 >= len THEN 0 ELSE p + 1
-----------------------------------------------------------------------------
Init ==
  /\ iptr = 0 /\ optr = 0
  /\ data \in [0 .. Cap -> Byte]
  /\ w = NoWrite /\ r = NoRead
  /\ wlast = NoCall /\ rlast = NoCall
  /\ fresh = TRUE

\* queue_init on a queue in use: the generator re-initialises it before every
\* number it dials, with no call in progress.
queue_init ==
  /\ w.pc = "idle" /\ r.pc = "idle"
  /\ iptr' = 0 /\ optr' = 0
  /\ fresh' = TRUE
  /\ UNCHANGED <<data, w, r, wlast, rlast>>
-----------------------------------------------------------------------------
MayWriteBlock == w.pc = "idle" /\ (OneWritePerInit => fresh)

RefuseWrite(ask, res) ==
  /\ wlast' = [ask |-> ask, ret |-> res, bytes |-> <<>>]
  /\ UNCHANGED <<iptr, optr, data, w, r, rlast, fresh>>

BeginWrite(ask, bytes, to, res) ==
  /\ w' = [pc |-> "copy", to |-> to, last |-> [ask |-> ask, ret |-> res, bytes |-> bytes]]
  /\ fresh' = FALSE
  /\ UNCHANGED <<iptr, optr, data, r, wlast, rlast>>

queue_write(b) ==
  LET n == Granted(queue_free_space(iptr, optr), Len(b), WriteAtomic) IN
  /\ MayWriteBlock
  /\ IF n <= 0 THEN RefuseWrite(Len(b), n)
     ELSE BeginWrite(Len(b), SubSeq(b, 1, n), BlockEnd(iptr, n), n)

queue_write_byte(x) ==
  /\ w.pc = "idle"
  /\ IF queue_free_space(iptr, optr) < 1 THEN RefuseWrite(1, IF WriteAtomic THEN -1 ELSE 0)
     ELSE BeginWrite(1, <<x>>, ByteEnd(iptr), 1)

\* Mutant: the part of a message that fits is stored.
queue_write_msg_part(m) ==
  LET n == Granted(queue_free_space(iptr, optr), Len(m) + HEADER, FALSE) IN
  /\ MayWriteBlock
  /\ IF n < HEADER THEN RefuseWrite(Len(m) + HEADER, -1)
     ELSE BeginWrite(Len(m) + HEADER, SubSeq(<<Len(m), 0>> \o m, 1, n), BlockEnd(iptr, n), 0)

\* The length goes in front of the message as a 16 bit number.
queue_write_msg(m) ==
  LET n == Len(m) + HEADER IN
  /\ MayWriteBlock
  /\ IF queue_free_space(iptr, optr) < n THEN RefuseWrite(n, -1)
     ELSE BeginWrite(n, <<Len(m), 0>> \o m, BlockEnd(iptr, n), Len(m))

\* The slots a write in progress fills, and the byte that goes into each.
Filling == { Slot(iptr, k - 1) : k \in 1 .. Len(w.last.bytes) }
Filler(s) == w.last.bytes[IF s >= Slot(iptr, 0) THEN s - Slot(iptr, 0) + 1
                          ELSE s - Slot(iptr, 0) + len + 1]

CopyIn ==
  /\ w.pc = "copy"
  /\ data' = [s \in 0 .. Cap |-> IF s \in Filling THEN Filler(s) ELSE data[s]]
  /\ w' = [w EXCEPT !.pc = "publish"]
  /\ UNCHANGED <<iptr, optr, r, wlast, rlast, fresh>>

PublishIn ==
  /\ w.pc = "publish"
  /\ iptr' = w.to
  /\ wlast' = w.last
  /\ w' = NoWrite
  /\ UNCHANGED <<optr, data, r, rlast, fresh>>
-----------------------------------------------------------------------------
BeginRead(op, ask, n, left) ==
  /\ r' = [pc |-> "copy", op |-> op, n |-> n,
           last |-> [ask |-> ask, ret |-> n, bytes |-> <<>>], left |-> left]
  /\ UNCHANGED <<iptr, optr, data, w, wlast, rlast, fresh>>

RefuseRead(ask, res) ==
  /\ rlast' = [ask |-> ask, ret |-> res, bytes |-> <<>>]
  /\ r' = NoRead
  /\ UNCHANGED <<iptr, optr, data, w, wlast, fresh>>

\* The common start of queue_read and queue_view: a request for n bytes.
Request(op, n, left) ==
  LET m == Granted(queue_contents(iptr, optr), n, ReadAtomic) IN
  IF m <= 0 THEN RefuseRead(n, m) ELSE BeginRead(op, n, m, left)

queue_read(n) == r.pc = "idle" /\ Request("read", n, 0)

queue_view(n) == r.pc = "idle" /\ Request("view", n, 0)

queue_read_byte ==
  /\ ByteReads /\ r.pc = "idle"
  /\ IF queue_contents(iptr, optr) < 1 THEN RefuseRead(1, -1) ELSE BeginRead("byte", 1, 1, 0)

\* queue_state_test_msg looks at the header, queue_read_msg takes it; both are
\* refused when it is not there.
queue_state_test_msg ==
  /\ r.pc = "idle"
  /\ IF queue_contents(iptr, optr) < HEADER THEN RefuseRead(HEADER, -1)
     ELSE BeginRead("view", HEADER, HEADER, 0)

queue_read_msg(n) ==
  /\ r.pc = "idle"
  /\ IF queue_contents(iptr, optr) < HEADER THEN RefuseRead(HEADER, -1)
     ELSE BeginRead("header", HEADER, HEADER, n)

\* After the header: the body, as much of it as the caller's buffer holds.
ReadBody ==
  LET lenx == r.last.bytes[1]
      n    == IF lenx > r.left THEN r.left ELSE lenx IN
  /\ r.pc = "next" /\ r.op = "header"
  /\ IF lenx = 0 THEN RefuseRead(0, 0) ELSE Request("body", n, lenx - n)

\* After a body cut short: the rest is read and thrown away.
ReadRest ==
  /\ r.pc = "next" /\ r.op = "body"
  /\ Request("rest", r.left, 0)

\* The slots a read in progress copies.
Draining == { Slot(optr, k - 1) : k \in 1 .. r.n }

CopyOut ==
  /\ r.pc = "copy"
  /\ r' = [r EXCEPT !.pc = "publish",
                    !.last = [ask |-> r.last.ask, ret |-> r.n,
                              bytes |-> [k \in 1 .. r.n |-> data[Slot(optr, k - 1)]]]]
  /\ UNCHANGED <<iptr, optr, data, w, wlast, rlast, fresh>>

\* What follows a chunk: a message goes on to its body or to what is left of it.
AfterRead ==
  IF r.op = "header" \/ (r.op = "body" /\ r.left > 0)
  THEN [r EXCEPT !.pc = "next"] ELSE NoRead

PublishOut ==
  /\ r.pc = "publish"
  /\ optr' = CASE r.op = "view" -> optr
               [] r.op = "byte" -> ByteEnd(optr)
               [] OTHER -> BlockEnd(optr, r.n)
  /\ rlast' = r.last
  /\ r' = AfterRead
  /\ UNCHANGED <<iptr, data, w, wlast, fresh>>

queue_flush ==
  /\ r.pc = "idle"
  /\ optr' = iptr
  /\ UNCHANGED <<iptr, data, w, r, wlast, rlast, fresh>>
-----------------------------------------------------------------------------
Write ==
  \/ \E b \in Writes : queue_write(b)
  \/ \E x \in Singles : queue_write_byte(x)
  \/ \E m \in Messages : queue_write_msg(m)
  \/ CopyIn
  \/ PublishIn

Read ==
  \/ \E n \in ReadLens : queue_read(n)
  \/ \E n \in ViewLens : queue_view(n)
  \/ queue_read_byte
  \/ queue_state_test_msg
  \/ \E n \in MsgLens : queue_read_msg(n)
  \/ ReadBody
  \/ ReadRest
  \/ CopyOut
  \/ PublishOut
  \/ queue_flush

Next == queue_init \/ Write \/ Read

Spec == Init /\ [][Next]_vars
-----------------------------------------------------------------------------
\* The types.  A block call may leave its pointer at len, one past the last
\* slot, which the block calls read as slot 0.
TypeOK ==
  /\ iptr \in 0 .. len /\ optr \in 0 .. len
  /\ data \in [0 .. Cap -> Byte]
  /\ w.pc \in {"idle", "copy", "publish"} /\ w.to \in 0 .. len
  /\ w.last.bytes \in Seq(Byte)
  /\ r.pc \in {"idle", "copy", "publish", "next"} /\ r.n \in 0 .. Cap /\ r.left \in Nat
  /\ r.last.bytes \in Seq(Byte)
  /\ fresh \in BOOLEAN

\* The writer never fills a slot the reader is copying or still has to copy:
\* the two calls need no lock (the reason queue.c publishes the pointers last).
NoOverlap ==
  (w.pc = "copy" /\ r.pc = "copy") => Filling \cap Draining = {}

\* Once queue_read_msg has a header, the body is there: queue_write_msg stores
\* both or nothing (queue.c:320 relies on it).
BodyAvailable ==
  (r.pc = "next" /\ r.op = "header") => queue_contents(iptr, optr) >= r.last.bytes[1]

\* queue_contents never counts more bytes than the queue can hold: not so, if a
\* block is written up to the end of the buffer and read byte by byte.
ContentsFit == queue_contents(iptr, optr) <= Cap

\* The ring buffer is a first-in first-out queue of Cap bytes: what a reader
\* gets is what was written, in order, whatever the interleaving (the promise
\* of queue.h, R2Fifo).
Fifo == INSTANCE R2Fifo WITH
  Capacity <- Cap,
  q <- [k \in 1 .. queue_contents(iptr, optr) |-> data[Slot(optr, k - 1)]]

IsFifo == Fifo!Spec
=============================================================================
