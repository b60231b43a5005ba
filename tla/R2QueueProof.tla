---------------------------- MODULE R2QueueProof ----------------------------
(***************************************************************************)
(* Proofs about the ring buffer of queue.c: whatever the interleaving of   *)
(* its two callers, the writer never fills a slot the reader still copies, *)
(* a message found by its header is there to its end, and the queue is a   *)
(* first-in first-out store (R2Fifo).  They hold for every size, every     *)
(* byte set and every set of calls of a Disciplined user.                  *)
(***************************************************************************)
EXTENDS R2Queue, TLAPS

\* A call: what it asked, returned and moved.
Call == [ask : Nat, ret : Int, bytes : Seq(Byte)]

\* The number of bytes in the queue, and the k-th of them from 0 on.
Contents == queue_contents(iptr, optr)
Cell(k) == data[Slot(optr, k)]

\* The types of the pointers, the slots and the calls in progress.
Shape ==
  /\ iptr \in 0 .. len /\ optr \in 0 .. len
  /\ data \in [0 .. Cap -> Byte]
  /\ w \in [pc : {"idle", "copy", "publish"}, to : 0 .. len, last : Call]
  /\ r \in [pc : {"idle", "copy", "publish", "next"},
            op : {"none", "read", "view", "byte", "header", "body", "rest"},
            n : Nat, last : Call, left : Nat]
  /\ fresh \in BOOLEAN

\* The contents fit in the queue, and no pointer that a byte call moves rests
\* behind the last slot.
Pointers ==
  /\ Contents <= Cap
  /\ OneWritePerInit => iptr <= Cap
  /\ ByteReads => optr <= Cap
  /\ fresh => iptr = 0 /\ w.pc = "idle"

\* A write in progress has room for its bytes and knows where to go.
Storing ==
  w.pc # "idle" =>
    /\ Len(w.last.bytes) \in 1 .. Cap - Contents
    /\ w.last.ask >= Len(w.last.bytes)
    /\ w.last.ret \in 0 .. Len(w.last.bytes)
    /\ queue_contents(w.to, optr) = Contents + Len(w.last.bytes)
    /\ OneWritePerInit => w.to <= Cap

\* Before its pointer is published a write has put its bytes behind the contents.
Stored ==
  w.pc = "publish" =>
    \A k \in 1 .. Len(w.last.bytes) : Cell(Contents + k - 1) = w.last.bytes[k]

\* A read in progress takes bytes of the contents, and has copied them before
\* its pointer is published.
Taking ==
  r.pc \in {"copy", "publish"} =>
    /\ r.n \in 1 .. Contents
    /\ r.last.ask >= r.n /\ r.last.ret = r.n
    /\ r.op = "byte" => ByteReads /\ r.n = 1
    /\ r.op # "none" /\ (r.op = "read" => ReadLens # {})
    /\ r.pc = "publish" => r.last.bytes = [k \in 1 .. r.n |-> Cell(k - 1)]

\* The parts of queue_read_msg come in their order.
Reading ==
  /\ r.pc # "idle" /\ r.op \in {"header", "body", "rest"} => MsgLens # {}
  /\ r.pc = "next" => r.op \in {"header", "body"} /\ r.left > 0
  /\ r.op = "header" => r.left > 0
  /\ r.op = "header" /\ r.pc \in {"copy", "publish"} => r.n = HEADER
  /\ r.op = "header" /\ r.pc = "next" => Len(r.last.bytes) = HEADER

\* How much of a message the reader has begun is still in the queue.
Pending ==
  IF r.pc = "idle" \/ r.op \notin {"header", "body", "rest"} THEN 0
  ELSE IF r.pc = "next" THEN IF r.op = "header" THEN r.last.bytes[1] ELSE r.left
  ELSE IF r.op = "header" THEN 0
  ELSE IF r.op = "body" THEN r.n + r.left
  ELSE r.n

\* B holds places where messages begin: each is followed by its length and that
\* many bytes, up to the next place or to the end of the contents.
Chain(B) == \A b \in B : b < Contents => b + HEADER + Cell(b) \in B

\* A queue of messages holds whole messages, behind the one being read.
Framed ==
  MsgLens # {} =>
    /\ w.pc # "idle" => Len(w.last.bytes) = HEADER + w.last.bytes[1]
    /\ \E B \in SUBSET (0 .. Contents) : Pending \in B /\ Chain(B)

\* The inductive invariant.
IInv == Shape /\ Pointers /\ Storing /\ Stored /\ Taking /\ Reading /\ Framed
-----------------------------------------------------------------------------
\* The contents of a queue count what is between the two pointers, and the
\* free space is what is left of Cap.
LEMMA Room ==
  ASSUME NEW i \in 0 .. len, NEW o \in 0 .. len
  PROVE  /\ queue_contents(i, o) \in 0 .. len
         /\ queue_contents(i, o) <= Cap => queue_free_space(i, o) = Cap - queue_contents(i, o)
         /\ queue_contents(i, i) = 0
BY QueueAssumption DEF queue_contents, queue_free_space, len

\* Where a block write leaves the input pointer: n bytes further on, and not
\* past the last slot when it began at the first.
LEMMA BlockWritten ==
  ASSUME NEW i \in 0 .. len, NEW o \in 0 .. len, queue_contents(i, o) <= Cap,
         NEW n \in 1 .. Cap - queue_contents(i, o)
  PROVE  /\ BlockEnd(i, n) \in 0 .. len
         /\ queue_contents(BlockEnd(i, n), o) = queue_contents(i, o) + n
         /\ i = 0 => BlockEnd(i, n) <= Cap
BY QueueAssumption DEF queue_contents, BlockEnd, len

\* Where a byte write leaves the input pointer, if it was on a slot.
LEMMA ByteWritten ==
  ASSUME NEW i \in 0 .. Cap, NEW o \in 0 .. len, queue_contents(i, o) < Cap
  PROVE  /\ ByteEnd(i) \in 0 .. Cap
         /\ queue_contents(ByteEnd(i), o) = queue_contents(i, o) + 1
BY QueueAssumption DEF queue_contents, ByteEnd, len

\* Where a block read leaves the output pointer: n bytes further on.
LEMMA BlockTaken ==
  ASSUME NEW i \in 0 .. len, NEW o \in 0 .. len, queue_contents(i, o) <= Cap,
         NEW n \in 1 .. queue_contents(i, o)
  PROVE  /\ BlockEnd(o, n) \in 0 .. len
         /\ queue_contents(i, BlockEnd(o, n)) = queue_contents(i, o) - n
         /\ \A k \in 0 .. Cap - n : Slot(BlockEnd(o, n), k) = Slot(o, n + k)
BY QueueAssumption DEF queue_contents, BlockEnd, Slot, len

\* Where a byte read leaves the output pointer, if both were on a slot.
LEMMA ByteTaken ==
  ASSUME NEW i \in 0 .. Cap, NEW o \in 0 .. Cap, queue_contents(i, o) > 0
  PROVE  /\ ByteEnd(o) \in 0 .. Cap
         /\ queue_contents(i, ByteEnd(o)) = queue_contents(i, o) - 1
         /\ \A k \in 0 .. Cap - 1 : Slot(ByteEnd(o), k) = Slot(o, 1 + k)
BY QueueAssumption DEF queue_contents, ByteEnd, Slot, len

\* The slots from a pointer on are slots of the buffer, no two the same, and
\* their distance from the pointer can be computed back.
LEMMA Slots ==
  ASSUME NEW p \in 0 .. len
  PROVE  /\ \A k \in 0 .. Cap : Slot(p, k) \in 0 .. Cap
         /\ \A j, k \in 0 .. Cap : Slot(p, j) = Slot(p, k) => j = k
         /\ \A k \in 1 .. len :
              k = IF Slot(p, k - 1) >= Slot(p, 0) THEN Slot(p, k - 1) - Slot(p, 0) + 1
                  ELSE Slot(p, k - 1) - Slot(p, 0) + len + 1
BY QueueAssumption DEF Slot, len

\* The slots from the input pointer on follow those of the contents.
LEMMA Behind ==
  ASSUME NEW i \in 0 .. len, NEW o \in 0 .. len, queue_contents(i, o) <= Cap,
         NEW k \in 0 .. Cap - queue_contents(i, o)
  PROVE  Slot(i, k) = Slot(o, queue_contents(i, o) + k)
BY QueueAssumption DEF queue_contents, Slot, len

\* A call moves what was asked or what there is, and nothing only if nothing
\* was asked or there is too little.
LEMMA Grant ==
  ASSUME NEW avail \in Nat, NEW n \in Nat, NEW atomic \in BOOLEAN
  PROVE  /\ Granted(avail, n, atomic) \in Int
         /\ Granted(avail, n, atomic) > 0 =>
              Granted(avail, n, atomic) <= n /\ Granted(avail, n, atomic) <= avail
         /\ Granted(avail, n, atomic) <= 0 => n = 0 \/ avail < n
         /\ avail >= n => Granted(avail, n, atomic) = n
BY DEF Granted
-----------------------------------------------------------------------------
\* In a state of the invariant contents and free space make up Cap.
LEMMA Counted ==
  ASSUME IInv
  PROVE  /\ Contents \in 0 .. Cap
         /\ queue_free_space(iptr, optr) = Cap - Contents
BY Room, QueueAssumption DEF IInv, Shape, Pointers, Contents, len

\* queue_init leaves the queue in a state of the invariant.
LEMMA Start ==
  ASSUME Init
  PROVE  IInv
<1>1. Shape
  BY QueueAssumption DEF Init, Shape, NoWrite, NoRead, NoCall, Call, len
<1>2. Contents = 0
  BY Room, QueueAssumption DEF Init, Contents, len
<1>3. Framed
  <2>1. Pending \in {0} /\ Chain({0})
    BY <1>2 DEF Init, Pending, Chain, NoRead
  <2>. QED
    BY <2>1, <1>2 DEF Framed, Init, NoWrite
<1>. QED
  BY <1>1, <1>2, <1>3, QueueAssumption
     DEF IInv, Init, Pointers, Storing, Stored, Taking, Reading, NoWrite, NoRead

\* A write that begins with room for its bytes keeps the invariant.
LEMMA WriteBegins ==
  ASSUME IInv, w.pc = "idle",
         NEW ask \in Nat, NEW bytes \in Seq(Byte), NEW to \in 0 .. len, NEW res \in Int,
         BeginWrite(ask, bytes, to, res),
         Len(bytes) \in 1 .. Cap - Contents, ask >= Len(bytes), res \in 0 .. Len(bytes),
         queue_contents(to, optr) = Contents + Len(bytes),
         OneWritePerInit => to <= Cap,
         MsgLens # {} => Len(bytes) = HEADER + bytes[1]
  PROVE  IInv'
<1>. USE DEF BeginWrite
<1>1. Shape'
  BY DEF IInv, Shape, Call
<1>2. Pointers' /\ Storing' /\ Stored'
  BY DEF IInv, Pointers, Storing, Stored, Contents
<1>3. Taking' /\ Reading'
  BY DEF IInv, Taking, Reading, Contents, Cell
<1>4. Framed'
  BY DEF IInv, Framed, Pending, Chain, Contents, Cell
<1>. QED
  BY <1>1, <1>2, <1>3, <1>4 DEF IInv

\* A refused write keeps it: only the result is recorded.
LEMMA WriteRefused ==
  ASSUME IInv, NEW ask, NEW res, RefuseWrite(ask, res)
  PROVE  IInv'
BY DEF RefuseWrite, IInv, Shape, Pointers, Storing, Stored, Taking, Reading, Framed,
       Pending, Chain, Contents, Cell

\* A read that begins with its bytes there keeps it.
LEMMA ReadBegins ==
  ASSUME IInv,
         NEW op \in {"read", "view", "byte", "header", "body", "rest"},
         NEW ask \in Nat, NEW n \in 1 .. Contents, NEW left \in Nat,
         BeginRead(op, ask, n, left), ask >= n,
         op = "byte" => ByteReads /\ n = 1,
         op = "read" => ReadLens # {},
         op \in {"header", "body", "rest"} => MsgLens # {},
         op = "header" => n = HEADER /\ left > 0,
         MsgLens # {} => Pending = IF op = "body" THEN n + left
                                   ELSE IF op = "rest" THEN n ELSE 0
  PROVE  IInv'
<1>. USE DEF BeginRead
<1>0. n \in Nat /\ <<>> \in Seq(Byte)
  BY Counted
<1>1. Shape'
  BY <1>0 DEF IInv, Shape, Call
<1>2. Pointers' /\ Storing' /\ Stored'
  BY DEF IInv, Pointers, Storing, Stored, Contents, Cell
<1>3. Taking' /\ Reading'
  BY DEF IInv, Taking, Reading, Contents, Cell
<1>4. ASSUME MsgLens # {} PROVE Pending' = Pending
  BY <1>4 DEF Pending
<1>5. Framed'
  BY <1>4 DEF IInv, Framed, Chain, Contents, Cell
<1>. QED
  BY <1>1, <1>2, <1>3, <1>5 DEF IInv

\* A refused read keeps it, between two messages.
LEMMA ReadRefused ==
  ASSUME IInv, NEW ask, NEW res, RefuseRead(ask, res), MsgLens # {} => Pending = 0
  PROVE  IInv'
<1>. USE DEF RefuseRead
<1>1. Shape'
  BY DEF IInv, Shape, NoRead, NoCall, Call
<1>2. Pointers' /\ Storing' /\ Stored'
  BY DEF IInv, Pointers, Storing, Stored, Contents, Cell
<1>3. Taking' /\ Reading'
  BY DEF IInv, Taking, Reading, NoRead
<1>4. Pending' = 0
  BY DEF Pending, NoRead
<1>5. Framed'
  BY <1>4 DEF IInv, Framed, Chain, Contents, Cell
<1>. QED
  BY <1>1, <1>2, <1>3, <1>5 DEF IInv

\* The common start of the block reads keeps it; the parts of a message are
\* never refused.
LEMMA Requested ==
  ASSUME IInv, NEW op \in {"read", "view", "body", "rest"}, NEW n \in Nat, NEW left \in Nat,
         Request(op, n, left),
         op = "read" => ReadLens # {},
         op \in {"body", "rest"} => MsgLens # {} /\ 0 < n /\ n <= Contents,
         MsgLens # {} => Pending = IF op = "body" THEN n + left
                                   ELSE IF op = "rest" THEN n ELSE 0
  PROVE  IInv'
<1>. DEFINE m == Granted(Contents, n, ReadAtomic)
<1>0. Contents \in Nat /\ ReadAtomic \in BOOLEAN
  BY Counted, QueueAssumption
<1>1. /\ m \in Int
      /\ m > 0 => m <= n /\ m <= Contents
      /\ n <= Contents => m = n
  <2>1. Contents >= n <=> n <= Contents
    BY <1>0
  <2>. QED
    BY <1>0, <2>1, Grant
<1>2. CASE m <= 0
  <2>1. RefuseRead(n, m)
    BY <1>2 DEF Request, Contents
  <2>2. op \notin {"body", "rest"}
    BY <1>1, <1>2, Counted
  <2>. QED
    BY <2>1, <2>2, ReadRefused
<1>3. CASE m > 0
  <2>1. BeginRead(op, n, m, left)
    BY <1>1, <1>3 DEF Request, Contents
  <2>2. m \in 1 .. Contents /\ n >= m /\ (op \in {"body", "rest"} => m = n)
    BY <1>1, <1>3, Counted
  <2>. QED
    BY <2>1, <2>2, ReadBegins
<1>. QED
  BY <1>1, <1>2, <1>3
-----------------------------------------------------------------------------
\* The pointer a block write computes from its snapshot.
LEMMA BlockPlaced ==
  ASSUME IInv, MayWriteBlock, NEW n \in 1 .. Cap - Contents
  PROVE  /\ BlockEnd(iptr, n) \in 0 .. len
         /\ queue_contents(BlockEnd(iptr, n), optr) = Contents + n
         /\ OneWritePerInit => BlockEnd(iptr, n) <= Cap
<1>0. /\ iptr \in 0 .. len /\ optr \in 0 .. len /\ Contents \in 0 .. Cap
  BY Counted DEF IInv, Shape
<1>1. OneWritePerInit => iptr = 0
  BY DEF MayWriteBlock, IInv, Pointers
<1>. QED
  BY <1>0, <1>1, BlockWritten DEF Contents

\* queue_write keeps the invariant.
LEMMA BlockStored ==
  ASSUME Disciplined, IInv, NEW b \in Writes, queue_write(b)
  PROVE  IInv'
<1>10. /\ iptr \in 0 .. len /\ optr \in 0 .. len /\ Contents \in 0 .. Cap
      /\ queue_free_space(iptr, optr) = Cap - Contents
  BY Counted DEF IInv, Shape
<1>11. Cap - Contents \in Nat
  BY <1>10, QueueAssumption
<1>. DEFINE n == Granted(queue_free_space(iptr, optr), Len(b), WriteAtomic)
            c == SubSeq(b, 1, n)
<1>0. b \in Seq(Byte) /\ Len(b) \in Nat /\ WriteAtomic \in BOOLEAN
  BY QueueAssumption
<1>1. /\ n \in Int
      /\ n > 0 => n <= Len(b) /\ n <= Cap - Contents
  BY <1>10, <1>11, <1>0, Grant
<1>2. CASE n <= 0
  BY <1>2, WriteRefused DEF queue_write
<1>3. CASE n > 0
  <2>1. /\ BeginWrite(Len(b), c, BlockEnd(iptr, n), n)
        /\ MayWriteBlock /\ w.pc = "idle"
    BY <1>1, <1>3 DEF queue_write, MayWriteBlock
  <2>2. c \in Seq(Byte) /\ Len(c) = n
    BY <1>0, <1>1, <1>3
  <2>3. n \in 1 .. Cap - Contents
    BY <1>10, <1>1, <1>3
  <2>4. MsgLens = {}
    BY DEF Disciplined
  <2>5. /\ BlockEnd(iptr, n) \in 0 .. len
        /\ queue_contents(BlockEnd(iptr, n), optr) = Contents + n
        /\ OneWritePerInit => BlockEnd(iptr, n) <= Cap
    BY BlockPlaced, <2>1, <2>3
  <2>6. Len(b) >= Len(c) /\ n \in 0 .. Len(c)
    BY <1>0, <1>1, <1>3, <2>2
  <2>. HIDE DEF n, c
  <2>. QED
    BY <1>0, <1>1, <2>1, <2>2, <2>3, <2>4, <2>5, <2>6, WriteBegins
<1>. QED
  BY <1>1, <1>2, <1>3

\* queue_write_byte keeps the invariant.
LEMMA ByteStored ==
  ASSUME Disciplined, IInv, NEW x \in Singles, queue_write_byte(x)
  PROVE  IInv'
<1>10. /\ iptr \in 0 .. len /\ optr \in 0 .. len /\ Contents \in 0 .. Cap
      /\ queue_free_space(iptr, optr) = Cap - Contents
  BY Counted DEF IInv, Shape
<1>1. CASE Contents = Cap
  BY <1>10, <1>1, WriteRefused DEF queue_write_byte
<1>2. CASE Contents < Cap
  <2>. DEFINE c == <<x>>
  <2>0. ~ (queue_free_space(iptr, optr) < 1)
    BY <1>10, <1>2, QueueAssumption
  <2>1. BeginWrite(1, c, ByteEnd(iptr), 1) /\ w.pc = "idle"
    BY <2>0 DEF queue_write_byte
  <2>2. OneWritePerInit /\ MsgLens = {}
    BY DEF Disciplined
  <2>3. iptr \in 0 .. Cap
    BY <1>10, <2>2 DEF IInv, Pointers
  <2>4. ByteEnd(iptr) \in 0 .. Cap /\ queue_contents(ByteEnd(iptr), optr) = Contents + 1
    BY <1>10, <1>2, <2>3, ByteWritten DEF Contents
  <2>5. c \in Seq(Byte) /\ Len(c) = 1
    BY QueueAssumption
  <2>6. ByteEnd(iptr) \in 0 .. len /\ ByteEnd(iptr) <= Cap
    BY <2>4, QueueAssumption DEF len
  <2>7. 1 \in 1 .. Cap - Contents
    BY <1>10, <1>2, QueueAssumption
  <2>8. 1 \in Nat /\ 1 \in Int /\ 1 >= 1 /\ 1 \in 0 .. 1
    OBVIOUS
  <2>. HIDE DEF c
  <2>. QED
    BY <2>1, <2>2, <2>4, <2>5, <2>6, <2>7, <2>8, WriteBegins
<1>. QED
  BY <1>10, <1>1, <1>2, QueueAssumption

\* queue_write_msg keeps the invariant.
LEMMA MessageStored ==
  ASSUME Disciplined, IInv, NEW m \in Messages, queue_write_msg(m)
  PROVE  IInv'
<1>10. /\ iptr \in 0 .. len /\ optr \in 0 .. len /\ Contents \in 0 .. Cap
      /\ queue_free_space(iptr, optr) = Cap - Contents
  BY Counted DEF IInv, Shape
<1>. DEFINE n == Len(m) + HEADER
            c == <<Len(m), 0>> \o m
<1>0. m \in Seq(Byte) /\ Len(m) \in Nat /\ Len(m) \in Byte /\ 0 \in Byte
  BY QueueAssumption
<1>1. n \in Nat /\ n >= HEADER
  BY <1>0 DEF HEADER
<1>2. c \in Seq(Byte) /\ Len(c) = n /\ c[1] = Len(m)
  BY <1>0 DEF HEADER
<1>3. CASE Cap - Contents < n
  BY <1>10, <1>3, WriteRefused DEF queue_write_msg
<1>4. CASE n <= Cap - Contents
  <2>1. /\ BeginWrite(n, c, BlockEnd(iptr, n), Len(m))
        /\ MayWriteBlock /\ w.pc = "idle"
    <3>1. ~ (queue_free_space(iptr, optr) < n)
      BY <1>10, <1>1, <1>4, QueueAssumption
    <3>. QED
      BY <3>1 DEF queue_write_msg, MayWriteBlock
  <2>2. n \in 1 .. Cap - Contents
    BY <1>10, <1>1, <1>4 DEF HEADER
  <2>3. Len(m) \in 0 .. Len(c) /\ Len(m) \in Int /\ Len(c) = HEADER + c[1]
    BY <1>0, <1>2 DEF HEADER
  <2>4. /\ BlockEnd(iptr, n) \in 0 .. len
        /\ queue_contents(BlockEnd(iptr, n), optr) = Contents + n
        /\ OneWritePerInit => BlockEnd(iptr, n) <= Cap
    BY BlockPlaced, <2>1, <2>2
  <2>. HIDE DEF n, c
  <2>5. n >= Len(c)
    BY <1>1, <1>2
  <2>. QED
    BY <1>1, <1>2, <2>1, <2>2, <2>3, <2>4, <2>5, WriteBegins
<1>. QED
  BY <1>10, <1>1, <1>3, <1>4, QueueAssumption


\* The slots a write in progress fills are those behind the contents, each
\* with its byte, and none of them is a slot of the contents.
LEMMA Filled ==
  ASSUME IInv, w.pc = "copy"
  PROVE  /\ \A k \in 1 .. Len(w.last.bytes) :
              /\ Slot(optr, Contents + k - 1) \in Filling
              /\ Filler(Slot(optr, Contents + k - 1)) = w.last.bytes[k]
         /\ \A k \in 0 .. Contents - 1 : Slot(optr, k) \in 0 .. Cap \ Filling
<1>. DEFINE n == Len(w.last.bytes)
<1>0. /\ iptr \in 0 .. len /\ optr \in 0 .. len /\ Contents \in 0 .. Cap
      /\ n \in 1 .. Cap - Contents
      /\ Contents = queue_contents(iptr, optr)
  BY Counted DEF IInv, Shape, Storing, Contents
<1>. HIDE DEF n
<1>1. \A k \in 1 .. n : Slot(iptr, k - 1) = Slot(optr, Contents + k - 1)
  <2>. TAKE k \in 1 .. n
  <2>1. k - 1 \in 0 .. Cap - Contents /\ Contents + (k - 1) = Contents + k - 1
    BY <1>0, QueueAssumption
  <2>. QED
    BY <1>0, <2>1, Behind, QueueAssumption
<1>2. Filling = { Slot(optr, Contents + k - 1) : k \in 1 .. n }
  BY <1>1 DEF Filling, n
<1>3. ASSUME NEW k \in 1 .. n
      PROVE  Filler(Slot(optr, Contents + k - 1)) = w.last.bytes[k]
  <2>1. k \in 1 .. len
    BY <1>0, QueueAssumption DEF len
  <2>. QED
    BY <1>0, <1>1, <2>1, Slots DEF Filler
<1>4. ASSUME NEW j \in 0 .. Contents - 1, NEW k \in 1 .. n,
             Slot(optr, j) = Slot(optr, Contents + k - 1)
      PROVE  FALSE
  <2>1. j \in 0 .. Cap /\ Contents + k - 1 \in 0 .. Cap /\ j # Contents + k - 1
    BY <1>0, QueueAssumption
  <2>. QED
    BY <1>0, <1>4, <2>1, Slots
<1>5. \A k \in 0 .. Contents - 1 : Slot(optr, k) \in 0 .. Cap
  BY <1>0, Slots, QueueAssumption
<1>. QED
  BY <1>2, <1>3, <1>4, <1>5 DEF n
\* Copying in leaves the contents alone and puts the bytes behind them.
LEMMA CellsKept ==
  ASSUME IInv, CopyIn
  PROVE  /\ Contents' = Contents
         /\ \A k \in 0 .. Contents - 1 : Cell(k)' = Cell(k)
         /\ \A k \in 1 .. Len(w.last.bytes) : Cell(Contents + k - 1)' = w.last.bytes[k]
<1>1. Contents' = Contents
  BY DEF CopyIn, Contents
<1>2. ASSUME NEW k \in 0 .. Contents - 1
      PROVE  Cell(k)' = Cell(k)
  BY <1>2, Filled DEF CopyIn, Cell
<1>3. ASSUME NEW k \in 1 .. Len(w.last.bytes)
      PROVE  Cell(Contents + k - 1)' = w.last.bytes[k]
  <2>1. Slot(optr, Contents + k - 1) \in Filling /\ Slot(optr, Contents + k - 1) \in 0 .. Cap
    <3>1. /\ optr \in 0 .. len /\ Contents \in 0 .. Cap
          /\ Len(w.last.bytes) \in 1 .. Cap - Contents
      BY Counted DEF IInv, Shape, Storing, CopyIn
    <3>2. Contents + k - 1 \in 0 .. Cap
      BY <3>1, QueueAssumption
    <3>. QED
      BY <3>1, <3>2, Slots, Filled DEF CopyIn
  <2>. QED
    BY <1>1, <2>1, Filled DEF CopyIn, Cell
<1>. QED
  BY <1>1, <1>2, <1>3

\* Copying in keeps the invariant.
LEMMA CopyInStep ==
  ASSUME IInv, CopyIn
  PROVE  IInv'
<1>0. Contents \in Nat
  BY Counted
<1>1. Shape'
  <2>1. ASSUME NEW s \in 0 .. Cap, s \in Filling
        PROVE  Filler(s) \in Byte
    <3>. DEFINE b == w.last.bytes
    <3>1. b \in Seq(Byte)
      BY DEF IInv, Shape, Call
    <3>2. PICK k \in 1 .. Len(b) : s = Slot(iptr, k - 1)
      BY <2>1 DEF Filling
    <3>3. iptr \in 0 .. len /\ k \in 1 .. len
      <4>1. Len(b) \in 1 .. Cap - Contents /\ iptr \in 0 .. len /\ Contents \in 0 .. Cap
        BY Counted DEF IInv, Shape, Storing, CopyIn
      <4>. QED
        BY <4>1, QueueAssumption DEF len
    <3>4. Filler(s) = b[k]
      BY <3>2, <3>3, Slots DEF Filler
    <3>. QED
      BY <3>1, <3>4
  <2>2. data' \in [0 .. Cap -> Byte]
    BY <2>1 DEF CopyIn, IInv, Shape
  <2>. QED
    BY <2>2 DEF CopyIn, IInv, Shape
<1>2. Pointers' /\ Storing'
  BY DEF CopyIn, IInv, Shape, Pointers, Storing, Contents
<1>3. Stored'
  BY CellsKept DEF CopyIn, IInv, Shape, Stored
<1>4. Taking'
  <2>1. ASSUME r.pc = "publish"
        PROVE  [k \in 1 .. r.n |-> Cell(k - 1)'] = [k \in 1 .. r.n |-> Cell(k - 1)]
    <3>1. \A k \in 1 .. r.n : Cell(k - 1)' = Cell(k - 1)
      BY <1>0, <2>1, CellsKept DEF IInv, Taking
    <3>. QED
      BY <3>1
  <2>2. r' = r /\ Contents' = Contents
    BY CellsKept DEF CopyIn
  <2>. QED
    BY <2>1, <2>2 DEF IInv, Taking
<1>5. Reading'
  BY DEF CopyIn, IInv, Reading
<1>6. Framed'
  <2>1. Pending' = Pending
    BY DEF CopyIn, Pending
  <2>2. ASSUME NEW B \in SUBSET (0 .. Contents), Chain(B)
        PROVE  Chain(B)'
    <3>1. ASSUME NEW b \in B, b < Contents PROVE Cell(b)' = Cell(b)
      <4>1. b \in 0 .. Contents
        OBVIOUS
      <4>2. b \in 0 .. Contents - 1
        BY <1>0, <3>1, <4>1
      <4>. QED
        BY <4>2, CellsKept
    <3>. QED
      BY <2>2, <3>1, CellsKept DEF Chain
  <2>3. w'.last = w.last /\ w'.pc = "publish" /\ w.pc # "idle"
    BY DEF CopyIn, IInv, Shape
  <2>. QED
    BY <2>1, <2>2, <2>3, CellsKept DEF IInv, Framed
<1>. QED
  BY <1>1, <1>2, <1>3, <1>4, <1>5, <1>6 DEF IInv

\* What publishing the input pointer adds to the contents.
LEMMA Published ==
  ASSUME IInv, PublishIn
  PROVE  /\ Contents' = Contents + Len(w.last.bytes)
         /\ Len(w.last.bytes) \in 1 .. Cap - Contents
         /\ \A k : Cell(k)' = Cell(k)
         /\ \A k \in 1 .. Len(w.last.bytes) : Cell(Contents + k - 1) = w.last.bytes[k]
BY DEF PublishIn, IInv, Storing, Stored, Contents, Cell

\* Publishing the input pointer keeps the invariant: the new message ends
\* where the contents do.
LEMMA PublishInStep ==
  ASSUME IInv, PublishIn
  PROVE  IInv'
<1>. DEFINE n == Len(w.last.bytes)
<1>0. /\ Contents \in 0 .. Cap /\ n \in 1 .. Cap - Contents /\ Contents' = Contents + n
      /\ \A k : Cell(k)' = Cell(k)
      /\ \A k \in 1 .. n : Cell(Contents + k - 1) = w.last.bytes[k]
  BY Counted, Published
<1>1. Shape'
  BY QueueAssumption DEF PublishIn, IInv, Shape, Storing, NoWrite, NoCall, Call, len
<1>2. Pointers'
  <2>1. Contents' <= Cap
    BY <1>0, QueueAssumption
  <2>2. fresh' = FALSE
    BY DEF PublishIn, IInv, Pointers, Shape
  <2>3. /\ OneWritePerInit => iptr' <= Cap
        /\ ByteReads => optr' <= Cap
    BY DEF PublishIn, IInv, Pointers, Storing
  <2>. QED
    BY <2>1, <2>2, <2>3 DEF Pointers
<1>3. Storing' /\ Stored'
  BY DEF PublishIn, Storing, Stored, NoWrite
<1>4. Taking'
  BY <1>0 DEF PublishIn, IInv, Taking
<1>5. Reading'
  BY DEF PublishIn, IInv, Reading
<1>6. Framed'
  <2>0. w'.pc = "idle"
    BY DEF PublishIn, NoWrite
  <2>1. Pending' = Pending
    BY DEF PublishIn, Pending
  <2>2. ASSUME MsgLens # {}
        PROVE  \E B \in SUBSET (0 .. Contents') : Pending \in B /\ Chain(B)'
    <3>1. PICK B \in SUBSET (0 .. Contents) : Pending \in B /\ Chain(B)
      BY <2>2 DEF IInv, Framed
    <3>7. PICK D : D = B \cup {Contents, Contents + n}
      OBVIOUS
    <3>2. \A b \in D : b \in 0 .. Contents'
      BY <1>0, <3>7
    <3>3. n = HEADER + Cell(Contents)
      <4>1. Cell(Contents + 1 - 1) = w.last.bytes[1] /\ Contents + 1 - 1 = Contents
        BY <1>0
      <4>2. n = HEADER + w.last.bytes[1]
        BY <2>2 DEF IInv, Framed, PublishIn
      <4>. QED
        BY <4>1, <4>2
    <3>6. Cell(Contents) \in Int
      <4>1. Slot(optr, Contents) \in 0 .. Cap
        BY <1>0, Slots DEF IInv, Shape
      <4>2. data \in [0 .. Cap -> Byte] /\ Byte \subseteq Int
        BY QueueAssumption DEF IInv, Shape
      <4>. QED
        BY <4>1, <4>2 DEF Cell
    <3>4. ASSUME NEW b \in D, b < Contents + n
          PROVE  b + HEADER + Cell(b) \in D
      <4>1. CASE b \in B /\ b < Contents
        BY <3>1, <3>7, <4>1 DEF Chain
      <4>2. CASE b = Contents
        <5>1. b + HEADER + Cell(b) = Contents + n
          BY <1>0, <3>3, <3>6, <4>2 DEF HEADER
        <5>. QED
          BY <3>7, <5>1
      <4>3. b \in B => b \in 0 .. Contents
        OBVIOUS
      <4>4. b # Contents + n
        BY <1>0, <3>4
      <4>. QED
        BY <1>0, <3>7, <4>1, <4>2, <4>3, <4>4
    <3>5. Chain(D)'
      <4>1. \A b \in D : b < Contents' => b + HEADER + Cell(b)' \in D
        BY <1>0, <3>4
      <4>. QED
        BY <4>1 DEF Chain, Cell
    <3>8. Pending \in D
      BY <3>1, <3>7
    <3>. QED
      BY <3>2, <3>5, <3>8
  <2>. QED
    BY <2>0, <2>1, <2>2 DEF Framed
<1>. QED
  BY <1>1, <1>2, <1>3, <1>4, <1>5, <1>6 DEF IInv
-----------------------------------------------------------------------------
\* The calls that begin a read keep the invariant.
LEMMA ReaderStarts ==
  ASSUME Disciplined, IInv,
         \/ \E n \in ReadLens : queue_read(n)
         \/ \E n \in ViewLens : queue_view(n)
         \/ queue_read_byte
         \/ queue_state_test_msg
         \/ \E n \in MsgLens : queue_read_msg(n)
  PROVE  IInv'
<1>0. Contents \in Nat /\ (r.pc = "idle" => Pending = 0)
  BY Counted DEF Pending
<1>1. ASSUME NEW n \in ReadLens, queue_read(n) PROVE IInv'
  <2>1. n \in Nat /\ ReadLens # {} /\ Request("read", n, 0) /\ Pending = 0
    BY <1>0, <1>1, QueueAssumption DEF queue_read
  <2>. QED
    BY <2>1, Requested
<1>2. ASSUME NEW n \in ViewLens, queue_view(n) PROVE IInv'
  <2>1. n \in Nat /\ Request("view", n, 0) /\ Pending = 0
    BY <1>0, <1>2, QueueAssumption DEF queue_view
  <2>. QED
    BY <2>1, Requested
<1>3. ASSUME queue_read_byte PROVE IInv'
  <2>1. CASE Contents < 1
    <3>1. RefuseRead(1, -1) /\ Pending = 0
      BY <1>0, <1>3, <2>1 DEF queue_read_byte, Contents
    <3>. QED
      BY <3>1, ReadRefused
  <2>2. CASE ~ (Contents < 1)
    <3>1. BeginRead("byte", 1, 1, 0) /\ Pending = 0 /\ ByteReads
      BY <1>0, <1>3, <2>2 DEF queue_read_byte, Contents
    <3>2. 1 \in 1 .. Contents /\ 1 >= 1
      BY <1>0, <2>2
    <3>. QED
      BY <3>1, <3>2, ReadBegins
  <2>. QED
    BY <2>1, <2>2
<1>4. ASSUME NEW op \in {"view", "header"}, NEW left \in Nat,
             op = "header" => left > 0 /\ MsgLens # {},
             r.pc = "idle",
             IF queue_contents(iptr, optr) < HEADER THEN RefuseRead(HEADER, -1)
             ELSE BeginRead(op, HEADER, HEADER, left)
      PROVE  IInv'
  <2>1. CASE Contents < HEADER
    <3>1. RefuseRead(HEADER, -1) /\ Pending = 0
      BY <1>0, <1>4, <2>1 DEF Contents
    <3>. QED
      BY <3>1, ReadRefused
  <2>2. CASE ~ (Contents < HEADER)
    <3>1. BeginRead(op, HEADER, HEADER, left) /\ Pending = 0
      BY <1>0, <1>4, <2>2 DEF Contents
    <3>2. HEADER \in 1 .. Contents /\ HEADER >= HEADER /\ HEADER \in Nat
      BY <1>0, <2>2 DEF HEADER
    <3>. QED
      BY <1>4, <3>1, <3>2, ReadBegins
  <2>. QED
    BY <2>1, <2>2
<1>5. ASSUME queue_state_test_msg PROVE IInv'
  BY <1>4, <1>5 DEF queue_state_test_msg
<1>6. ASSUME NEW n \in MsgLens, queue_read_msg(n) PROVE IInv'
  <2>1. n \in Nat /\ n > 0 /\ MsgLens # {}
    BY QueueAssumption
  <2>. QED
    BY <1>4, <1>6, <2>1 DEF queue_read_msg
<1>. QED
  BY <1>1, <1>2, <1>3, <1>5, <1>6

\* After a header, the length it gave is what the next message still holds,
\* and that much is in the queue.
LEMMA HeaderGiven ==
  ASSUME IInv, r.pc = "next", r.op = "header"
  PROVE  /\ r.last.bytes[1] \in 0 .. Contents
         /\ Pending = r.last.bytes[1]
         /\ MsgLens # {} /\ r.left \in Nat \ {0}
<1>1. MsgLens # {} /\ r.left \in Nat \ {0}
  BY DEF IInv, Reading, Shape
<1>2. Pending = r.last.bytes[1]
  BY DEF Pending
<1>3. Pending \in 0 .. Contents
  BY <1>1 DEF IInv, Framed
<1>. QED
  BY <1>1, <1>2, <1>3

\* The second and third read of queue_read_msg keep the invariant.
LEMMA BodySteps ==
  ASSUME IInv, ReadBody \/ ReadRest
  PROVE  IInv'
<1>0. Contents \in Nat
  BY Counted
<1>1. CASE ReadBody
  <2>. DEFINE lenx == r.last.bytes[1]
              n == IF lenx > r.left THEN r.left ELSE lenx
  <2>1. /\ lenx \in 0 .. Contents /\ Pending = lenx
        /\ MsgLens # {} /\ r.left \in Nat \ {0}
    BY <1>1, HeaderGiven DEF ReadBody
  <2>2. CASE lenx = 0
    <3>1. RefuseRead(0, 0) /\ Pending = 0
      BY <1>1, <2>1, <2>2 DEF ReadBody
    <3>. QED
      BY <3>1, ReadRefused
  <2>3. CASE lenx # 0
    <3>1. Request("body", n, lenx - n)
      BY <1>1, <2>3 DEF ReadBody
    <3>2. /\ n \in Nat /\ lenx - n \in Nat /\ 0 < n /\ n <= Contents
          /\ Pending = n + (lenx - n)
      BY <1>0, <2>1, <2>3
    <3>. HIDE DEF lenx, n
    <3>. QED
      BY <2>1, <3>1, <3>2, Requested
  <2>. QED
    BY <2>2, <2>3
<1>2. CASE ReadRest
  <2>1. /\ Request("rest", r.left, 0) /\ Pending = r.left
        /\ MsgLens # {} /\ r.left \in Nat /\ 0 < r.left
    BY <1>2 DEF ReadRest, IInv, Reading, Shape, Pending
  <2>2. r.left <= Contents
    <3>1. Pending \in 0 .. Contents
      BY <2>1 DEF IInv, Framed
    <3>. QED
      BY <2>1, <3>1, <1>0
  <2>. QED
    BY <2>1, <2>2, Requested
<1>. QED
  BY <1>1, <1>2

\* Copying out keeps the invariant.
LEMMA CopyOutStep ==
  ASSUME IInv, CopyOut
  PROVE  IInv'
<1>0. Contents \in 0 .. Cap /\ r.n \in 1 .. Contents
  BY Counted DEF CopyOut, IInv, Taking
<1>. DEFINE b == [k \in 1 .. r.n |-> Cell(k - 1)]
<1>1. b \in Seq(Byte) /\ Len(b) = r.n
  <2>1. \A k \in 1 .. r.n : Cell(k - 1) \in Byte
    <3>. TAKE k \in 1 .. r.n
    <3>1. k - 1 \in 0 .. Cap /\ optr \in 0 .. len /\ data \in [0 .. Cap -> Byte]
      BY <1>0, QueueAssumption DEF IInv, Shape
    <3>. QED
      BY <3>1, Slots DEF Cell
  <2>2. r.n \in Nat
    BY <1>0
  <2>. QED
    BY <2>1, <2>2
<1>2. r' = [pc |-> "publish", op |-> r.op, n |-> r.n,
            last |-> [ask |-> r.last.ask, ret |-> r.n, bytes |-> b], left |-> r.left]
  BY DEF CopyOut, IInv, Shape, Cell
<1>. HIDE DEF b
<1>3. Shape'
  <2>1. /\ r.op \in {"none", "read", "view", "byte", "header", "body", "rest"}
        /\ r.n \in Nat /\ r.left \in Nat /\ r.n \in Int
        /\ r.last.ask \in Nat
    BY DEF IInv, Shape, Call
  <2>2. [ask |-> r.last.ask, ret |-> r.n, bytes |-> b] \in Call
    BY <1>1, <2>1 DEF Call
  <2>3. r' \in [pc : {"idle", "copy", "publish", "next"},
               op : {"none", "read", "view", "byte", "header", "body", "rest"},
               n : Nat, last : Call, left : Nat]
    BY <1>2, <2>1, <2>2
  <2>. QED
    BY <2>3 DEF CopyOut, IInv, Shape
<1>4. Pointers' /\ Storing' /\ Stored'
  BY DEF CopyOut, IInv, Pointers, Storing, Stored, Contents, Cell
<1>5. Taking'
  <2>1. Contents' = Contents /\ b = [k \in 1 .. r.n |-> Cell(k - 1)']
    BY DEF CopyOut, Contents, Cell, b
  <2>2. r'.last.bytes = b /\ r'.n = r.n /\ r'.last.ret = r.n /\ r'.op = r.op
        /\ r'.last.ask = r.last.ask
    BY <1>2
  <2>3. /\ r.n \in 1 .. Contents /\ r.last.ask >= r.n
        /\ r.op = "byte" => ByteReads /\ r.n = 1
        /\ r.op # "none" /\ (r.op = "read" => ReadLens # {})
    BY DEF CopyOut, IInv, Taking
  <2>. QED
    BY <2>1, <2>2, <2>3 DEF Taking
<1>6. Reading'
  BY <1>2 DEF CopyOut, IInv, Reading
<1>7. Framed'
  <2>1. Pending' = Pending
    BY <1>2 DEF CopyOut, Pending
  <2>. QED
    BY <2>1 DEF CopyOut, IInv, Framed, Chain, Contents, Cell
<1>. QED
  BY <1>3, <1>4, <1>5, <1>6, <1>7 DEF IInv
-----------------------------------------------------------------------------
\* What publishing the output pointer leaves in the queue.
LEMMA Left ==
  ASSUME Disciplined, IInv, PublishOut, r.op # "view"
  PROVE  /\ optr' \in 0 .. len
         /\ ByteReads => optr' <= Cap
         /\ Contents' = Contents - r.n
         /\ r.n \in 1 .. Contents
         /\ \A k \in 0 .. Cap - r.n : Cell(k)' = Cell(r.n + k)
         /\ queue_contents(w.to, optr) = Contents + Len(w.last.bytes) /\ w.pc # "idle"
              => queue_contents(w.to, optr') = Contents' + Len(w.last.bytes)
<1>0. /\ iptr \in 0 .. len /\ optr \in 0 .. len /\ Contents \in 0 .. Cap
      /\ r.n \in 1 .. Contents /\ r.pc = "publish"
      /\ Contents = queue_contents(iptr, optr)
  BY Counted DEF IInv, Shape, Taking, PublishOut, Contents
<1>1. Contents' = queue_contents(iptr, optr')
  BY DEF PublishOut, Contents
<1>2. \A k : Cell(k)' = data[Slot(optr', k)] /\ Cell(r.n + k) = data[Slot(optr, r.n + k)]
  BY DEF PublishOut, Cell
<1>3. w.pc # "idle" => /\ w.to \in 0 .. len /\ Len(w.last.bytes) \in 1 .. Cap - Contents
                       /\ OneWritePerInit => w.to \in 0 .. Cap
  BY DEF IInv, Shape, Storing
<1>4. CASE r.op = "byte"
  <2>1. ByteReads /\ r.n = 1 /\ OneWritePerInit
    BY <1>0, <1>4 DEF IInv, Taking, Disciplined
  <2>2. iptr \in 0 .. Cap /\ optr \in 0 .. Cap /\ optr' = ByteEnd(optr)
    BY <1>0, <1>4, <2>1 DEF IInv, Pointers, PublishOut
  <2>3. /\ ByteEnd(optr) \in 0 .. Cap
        /\ queue_contents(iptr, ByteEnd(optr)) = Contents - 1
        /\ \A k \in 0 .. Cap - 1 : Slot(ByteEnd(optr), k) = Slot(optr, 1 + k)
    BY <1>0, <2>2, ByteTaken
  <2>4. ASSUME w.pc # "idle", queue_contents(w.to, optr) = Contents + Len(w.last.bytes)
        PROVE  queue_contents(w.to, optr') = Contents' + Len(w.last.bytes)
    <3>1. w.to \in 0 .. Cap /\ queue_contents(w.to, optr) > 0
      BY <1>0, <1>3, <2>1, <2>4
    <3>2. queue_contents(w.to, ByteEnd(optr)) = queue_contents(w.to, optr) - 1
      BY <2>2, <3>1, ByteTaken
    <3>3. Contents' = Contents - 1 /\ Len(w.last.bytes) \in Nat /\ Contents \in Nat
      BY <1>0, <1>1, <1>3, <2>2, <2>3, <2>4
    <3>4. queue_contents(w.to, optr') = Contents + Len(w.last.bytes) - 1
      BY <2>2, <2>4, <3>2, <3>3
    <3>. QED
      BY <3>3, <3>4
  <2>5. optr' \in 0 .. len /\ optr' <= Cap
    BY <2>2, <2>3, QueueAssumption DEF len
  <2>. QED
    BY <1>0, <1>1, <1>2, <2>1, <2>2, <2>3, <2>4, <2>5
<1>5. CASE r.op # "byte"
  <2>1. ~ByteReads
    BY <1>0, <1>5 DEF IInv, Shape, Taking, Reading, Disciplined
  <2>2. optr' = BlockEnd(optr, r.n)
    BY <1>5 DEF PublishOut
  <2>3. /\ optr' \in 0 .. len
        /\ queue_contents(iptr, optr') = Contents - r.n
        /\ \A k \in 0 .. Cap - r.n : Slot(optr', k) = Slot(optr, r.n + k)
    BY <1>0, <2>2, BlockTaken
  <2>4. ASSUME w.pc # "idle", queue_contents(w.to, optr) = Contents + Len(w.last.bytes)
        PROVE  queue_contents(w.to, optr') = Contents' + Len(w.last.bytes)
    <3>1. /\ w.to \in 0 .. len /\ queue_contents(w.to, optr) <= Cap
          /\ r.n \in 1 .. queue_contents(w.to, optr)
      BY <1>0, <1>3, <2>4, QueueAssumption
    <3>2. queue_contents(w.to, optr') = queue_contents(w.to, optr) - r.n
      BY <1>0, <2>2, <3>1, BlockTaken
    <3>. QED
      BY <1>0, <1>1, <1>3, <2>3, <2>4, <3>2
  <2>. QED
    BY <1>0, <1>1, <1>2, <2>1, <2>3, <2>4
<1>. QED
  BY <1>4, <1>5

\* What a reader does after a chunk, and how much of its message is pending.
LEMMA AfterChunk ==
  ASSUME IInv, PublishOut
  PROVE  /\ r' = AfterRead
         /\ r' \in [pc : {"idle", "copy", "publish", "next"},
                    op : {"none", "read", "view", "byte", "header", "body", "rest"},
                    n : Nat, last : Call, left : Nat]
         /\ Taking' /\ Reading'
         /\ r.op = "view" => Pending = 0 /\ Pending' = 0
         /\ MsgLens # {} /\ r.op # "view" /\ r.op # "header" =>
              Pending' + r.n = IF r.op \in {"body", "rest"} THEN Pending ELSE r.n
         /\ r.op = "header" => Pending = 0 /\ Pending' = Cell(0) /\ r.n = HEADER
         /\ r.op # "header" => Pending' \in Nat
<1>. DEFINE R == [pc : {"idle", "copy", "publish", "next"},
                  op : {"none", "read", "view", "byte", "header", "body", "rest"},
                  n : Nat, last : Call, left : Nat]
<1>0. /\ r' = AfterRead /\ r.pc = "publish" /\ r \in R
      /\ r.n \in 1 .. Contents /\ r.n \in Nat /\ r.left \in Nat
      /\ r.last.bytes = [k \in 1 .. r.n |-> Cell(k - 1)]
      /\ Reading
  BY Counted DEF PublishOut, IInv, Shape, Taking
<1>1. CASE r.op = "header" \/ (r.op = "body" /\ r.left > 0)
  <2>1. r' = [r EXCEPT !.pc = "next"]
    BY <1>0, <1>1 DEF AfterRead
  <2>2. /\ r'.pc = "next" /\ r'.op = r.op /\ r'.left = r.left /\ r'.n = r.n
        /\ r'.last = r.last /\ r' \in R
    BY <1>0, <2>1
  <2>3. r.op = "header" => Len(r.last.bytes) = HEADER /\ r.last.bytes[1] = Cell(0)
    BY <1>0 DEF Reading, HEADER
  <2>4. Taking'
    BY <2>2 DEF Taking
  <2>5. Reading'
    BY <1>0, <1>1, <2>2, <2>3 DEF Reading
  <2>6. r.op = "header" => Pending = 0 /\ Pending' = Cell(0) /\ r.n = HEADER
    BY <1>0, <2>2, <2>3 DEF Pending, Reading
  <2>7. r.op = "body" => Pending = r.n + r.left /\ Pending' = r.left
    BY <1>0, <2>2 DEF Pending
  <2>. QED
    BY <1>0, <1>1, <2>2, <2>4, <2>5, <2>6, <2>7
<1>2. CASE ~ (r.op = "header" \/ (r.op = "body" /\ r.left > 0))
  <2>1. r' = NoRead
    BY <1>0, <1>2 DEF AfterRead
  <2>2. /\ r'.pc = "idle" /\ r'.op = "none" /\ r' \in R
    BY <2>1 DEF NoRead, NoCall, Call
  <2>3. Taking' /\ Reading'
    BY <2>2 DEF Taking, Reading
  <2>4. Pending' = 0
    BY <2>2 DEF Pending
  <2>5. /\ r.op = "body" => Pending = r.n + r.left /\ r.left = 0
        /\ r.op = "rest" => Pending = r.n
        /\ r.op \notin {"header", "body", "rest"} => Pending = 0
    BY <1>0, <1>2 DEF Pending
  <2>. QED
    BY <1>0, <1>2, <2>2, <2>3, <2>4, <2>5
<1>. QED
  BY <1>1, <1>2

\* Publishing the output pointer keeps the invariant: the boundaries of the
\* messages move up by the bytes taken.
LEMMA PublishOutStep ==
  ASSUME Disciplined, IInv, PublishOut
  PROVE  IInv'
<1>0. /\ Contents \in 0 .. Cap /\ r.n \in 1 .. Contents /\ r.pc = "publish"
      /\ Contents \in Nat /\ r.n \in Nat /\ Cap \in Nat
  BY Counted, QueueAssumption DEF PublishOut, IInv, Taking
<1>1. CASE r.op = "view"
  <2>0. UNCHANGED <<iptr, optr, data, w, fresh>>
    BY <1>1 DEF PublishOut
  <2>1. Shape'
    BY <2>0, AfterChunk DEF IInv, Shape
  <2>2. Pointers' /\ Storing' /\ Stored'
    BY <2>0 DEF IInv, Pointers, Storing, Stored, Contents, Cell
  <2>3. Pending' = Pending
    BY <1>1, AfterChunk
  <2>4. Framed'
    BY <2>0, <2>3 DEF IInv, Framed, Chain, Contents, Cell
  <2>. QED
    BY <2>1, <2>2, <2>4, AfterChunk DEF IInv
<1>2. CASE r.op # "view"
  <2>0. UNCHANGED <<iptr, data, w, fresh>>
    BY DEF PublishOut
  <2>1. /\ optr' \in 0 .. len
        /\ ByteReads => optr' <= Cap
        /\ Contents' = Contents - r.n
        /\ \A k \in 0 .. Cap - r.n : Cell(k)' = Cell(r.n + k)
    BY <1>2, Left
  <2>2. Shape'
    BY <2>0, <2>1, AfterChunk DEF IInv, Shape
  <2>3. Pointers'
    <3>1. Contents' <= Cap
      BY <1>0, <2>1
    <3>. QED
      BY <2>0, <2>1, <3>1 DEF IInv, Pointers
  <2>4. ASSUME w.pc # "idle"
        PROVE  /\ Len(w.last.bytes) \in 1 .. Cap - Contents'
               /\ queue_contents(w.to, optr') = Contents' + Len(w.last.bytes)
    <3>1. /\ Len(w.last.bytes) \in 1 .. Cap - Contents
          /\ queue_contents(w.to, optr) = Contents + Len(w.last.bytes)
      BY <2>4 DEF IInv, Storing
    <3>2. queue_contents(w.to, optr') = Contents' + Len(w.last.bytes)
      BY <1>2, <2>4, <3>1, Left
    <3>. QED
      BY <1>0, <2>1, <3>1, <3>2
  <2>5. Storing'
    BY <2>0, <2>4 DEF IInv, Storing
  <2>6. Stored'
    <3>1. ASSUME w.pc = "publish", NEW k \in 1 .. Len(w.last.bytes)
          PROVE  Cell(Contents + k - 1)' = w.last.bytes[k]
      <4>1. Len(w.last.bytes) \in 1 .. Cap - Contents
        BY <3>1 DEF IInv, Storing
      <4>2. k \in Nat /\ k >= 1 /\ k <= Cap - Contents
        BY <1>0, <4>1
      <4>3. PICK j \in 0 .. Cap - r.n : j = Contents - r.n + k - 1 /\ r.n + j = Contents + k - 1
        <5>1. /\ Contents - r.n + k - 1 \in 0 .. Cap - r.n
              /\ r.n + (Contents - r.n + k - 1) = Contents + k - 1
          BY <1>0, <4>2
        <5>. QED
          BY <5>1
      <4>4. Cell(j)' = Cell(r.n + j)
        BY <2>1
      <4>5. Cell(Contents + k - 1) = w.last.bytes[k]
        BY <3>1 DEF IInv, Stored
      <4>6. Cell(Contents + k - 1)' = Cell(j)'
        BY <2>1, <4>3 DEF Cell
      <4>. QED
        BY <4>3, <4>4, <4>5, <4>6
    <3>. QED
      BY <2>0, <3>1 DEF Stored
  <2>7. Framed'
    <3>1. w.pc # "idle" /\ MsgLens # {} => Len(w.last.bytes) = HEADER + w.last.bytes[1]
      BY DEF IInv, Framed
    <3>2. ASSUME MsgLens # {}
          PROVE  \E B \in SUBSET (0 .. Contents') : Pending' \in B /\ Chain(B)'
      <4>1. PICK B \in SUBSET (0 .. Contents) : Pending \in B /\ Chain(B)
        BY <3>2 DEF IInv, Framed
      <4>2. PICK D : D = { d \in 0 .. Contents' : d + r.n \in B }
        OBVIOUS
      <4>3. \A d \in D : d < Contents' => d + HEADER + Cell(d)' \in D
        <5>. SUFFICES ASSUME NEW d \in D, d < Contents'
                      PROVE  d + HEADER + Cell(d)' \in D
          OBVIOUS
        <5>1. d \in 0 .. Contents' /\ d + r.n \in B
          BY <4>2
        <5>2. /\ d + r.n < Contents /\ d \in 0 .. Cap - r.n /\ d + r.n \in 0 .. Cap
              /\ d + r.n = r.n + d
          BY <1>0, <2>1, <5>1, QueueAssumption
        <5>3. Cell(d)' = Cell(d + r.n) /\ Cell(d + r.n) \in Nat
          <6>1. Slot(optr, d + r.n) \in 0 .. Cap
            BY <5>2, Slots DEF IInv, Shape
          <6>2. data \in [0 .. Cap -> Byte] /\ Byte \subseteq Nat
            BY QueueAssumption DEF IInv, Shape
          <6>. QED
            BY <2>1, <5>2, <6>1, <6>2 DEF Cell
        <5>4. (d + r.n) + HEADER + Cell(d + r.n) \in B
          BY <4>1, <5>1, <5>2 DEF Chain
        <5>5. (d + r.n) + HEADER + Cell(d + r.n) \in 0 .. Contents
          BY <5>4
        <5>6. /\ d + HEADER + Cell(d)' \in 0 .. Contents'
              /\ (d + HEADER + Cell(d)') + r.n = (d + r.n) + HEADER + Cell(d + r.n)
          BY <1>0, <2>1, <5>1, <5>3, <5>5 DEF HEADER
        <5>. QED
          BY <4>2, <5>4, <5>6
      <4>4. Chain(D)'
        BY <4>3 DEF Chain
      <4>5. Pending' \in D
        <5>1. CASE r.op = "header"
          <6>1. Pending = 0 /\ Pending' = Cell(0) /\ r.n = HEADER
            BY <5>1, AfterChunk
          <6>2. 0 + HEADER + Cell(0) \in B /\ 0 + HEADER + Cell(0) \in 0 .. Contents
            <7>1. 0 \in B /\ 0 < Contents
              BY <1>0, <4>1, <6>1
            <7>2. 0 + HEADER + Cell(0) \in B
              BY <4>1, <7>1 DEF Chain
            <7>. QED
              BY <7>2
          <6>3. Cell(0) \in Nat
            <7>1. Slot(optr, 0) \in 0 .. Cap
              BY Slots, QueueAssumption DEF IInv, Shape
            <7>2. data \in [0 .. Cap -> Byte] /\ Byte \subseteq Nat
              BY QueueAssumption DEF IInv, Shape
            <7>. QED
              BY <7>1, <7>2 DEF Cell
          <6>4. /\ Cell(0) + r.n = 0 + HEADER + Cell(0)
                /\ Cell(0) \in 0 .. Contents'
            BY <1>0, <2>1, <6>1, <6>2, <6>3 DEF HEADER
          <6>. QED
            BY <4>2, <6>1, <6>2, <6>4
        <5>2. CASE r.op # "header"
          <6>1. r.op \in {"body", "rest"}
            <7>1. ReadLens = {} /\ ~ByteReads
              BY <3>2 DEF Disciplined
            <7>. QED
              BY <1>0, <1>2, <5>2, <7>1 DEF IInv, Taking, Shape
          <6>2. Pending' + r.n = Pending /\ Pending' \in Nat
            BY <1>2, <3>2, <5>2, <6>1, AfterChunk
          <6>3. Pending \in 0 .. Contents /\ Pending \in B
            BY <4>1
          <6>4. Pending' \in 0 .. Contents'
            BY <1>0, <2>1, <6>2, <6>3
          <6>. QED
            BY <4>2, <6>2, <6>3, <6>4
        <5>. QED
          BY <5>1, <5>2
      <4>6. D \in SUBSET (0 .. Contents')
        BY <4>2
      <4>. QED
        BY <4>4, <4>5, <4>6
    <3>. QED
      BY <2>0, <3>1, <3>2 DEF Framed
  <2>. QED
    BY <2>2, <2>3, <2>5, <2>6, <2>7, AfterChunk DEF IInv
<1>. QED
  BY <1>1, <1>2

\* After the contents are dropped only the bytes being written remain.
LEMMA Between ==
  ASSUME NEW i \in 0 .. len, NEW o \in 0 .. len, NEW to \in 0 .. len, NEW n \in Nat,
         n > 0, queue_contents(to, o) = queue_contents(i, o) + n, queue_contents(to, o) <= Cap
  PROVE  queue_contents(to, i) = n
BY QueueAssumption DEF queue_contents, len

\* queue_init and queue_flush leave an empty queue; a write in progress goes
\* on where it was.
LEMMA Emptied ==
  ASSUME IInv, queue_init \/ queue_flush
  PROVE  /\ optr' = iptr' /\ iptr' \in 0 .. len
         /\ Contents' = 0 /\ r.pc = "idle" /\ UNCHANGED <<data, w, r>>
         /\ w.pc # "idle" => \A k \in 0 .. Cap - Contents : Cell(k)' = Cell(Contents + k)
<1>1. /\ optr' = iptr' /\ iptr' \in 0 .. len /\ r.pc = "idle" /\ UNCHANGED <<data, w, r>>
      /\ w.pc # "idle" => optr' = iptr
  BY QueueAssumption DEF queue_init, queue_flush, IInv, Shape, len
<1>2. Contents' = 0
  BY <1>1, Room DEF Contents
<1>3. ASSUME w.pc # "idle", NEW k \in 0 .. Cap - Contents
      PROVE  Cell(k)' = Cell(Contents + k)
  <2>1. Slot(iptr, k) = Slot(optr, Contents + k)
    BY Behind DEF IInv, Shape, Pointers, Contents
  <2>. QED
    BY <1>1, <1>3, <2>1 DEF Cell
<1>. QED
  BY <1>1, <1>2, <1>3

\* queue_init and queue_flush keep the invariant.
LEMMA EmptyStep ==
  ASSUME Disciplined, IInv, queue_init \/ queue_flush
  PROVE  IInv'
<1>0. /\ Contents \in 0 .. Cap /\ Contents \in Nat /\ Cap \in Nat
      /\ iptr \in 0 .. len /\ optr \in 0 .. len
  BY Counted, QueueAssumption DEF IInv, Shape
<1>1. Shape'
  BY Emptied DEF queue_init, queue_flush, IInv, Shape
<1>2. Pointers'
  <2>1. OneWritePerInit => iptr' <= Cap
    BY <1>0 DEF queue_init, queue_flush, IInv, Pointers
  <2>2. ByteReads => optr' <= Cap
    BY <2>1, Emptied DEF Disciplined
  <2>3. fresh' => iptr' = 0 /\ w'.pc = "idle"
    BY Emptied DEF queue_init, queue_flush, IInv, Pointers
  <2>. QED
    BY <1>0, <2>1, <2>2, <2>3, Emptied DEF Pointers
<1>3. ASSUME w.pc # "idle"
      PROVE  /\ Len(w.last.bytes) \in 1 .. Cap
             /\ queue_contents(w.to, optr') = Len(w.last.bytes)
             /\ w.to \in 0 .. len
  <2>1. /\ optr' = iptr /\ queue_flush
    BY <1>3 DEF queue_init, queue_flush
  <2>2. /\ Len(w.last.bytes) \in 1 .. Cap - Contents /\ w.to \in 0 .. len
        /\ queue_contents(w.to, optr) = Contents + Len(w.last.bytes)
    BY <1>3 DEF IInv, Shape, Storing
  <2>. DEFINE n == Len(w.last.bytes)
  <2>3. n \in Nat /\ n > 0 /\ Contents + n <= Cap /\ n \in 1 .. Cap
    BY <1>0, <2>2
  <2>. HIDE DEF n
  <2>4. queue_contents(w.to, optr) = queue_contents(iptr, optr) + n
    BY <2>2 DEF Contents, n
  <2>5. queue_contents(w.to, optr) <= Cap
    BY <2>2, <2>3 DEF n
  <2>6. queue_contents(w.to, iptr) = n
    BY <1>0, <2>2, <2>3, <2>4, <2>5, Between
  <2>. QED
    BY <2>1, <2>2, <2>3, <2>6 DEF n
<1>4. Storing'
  BY <1>0, <1>3, Emptied DEF IInv, Storing
<1>5. Stored'
  <2>1. ASSUME w.pc = "publish", NEW k \in 1 .. Len(w.last.bytes)
        PROVE  Cell(Contents + k - 1)' = w.last.bytes[k]
    <3>1. Len(w.last.bytes) \in 1 .. Cap - Contents
      BY <2>1 DEF IInv, Storing
    <3>2. k - 1 \in 0 .. Cap - Contents /\ Contents + (k - 1) = Contents + k - 1
          /\ 0 + k - 1 = k - 1
      BY <1>0, <3>1
    <3>3. Cell(Contents + k - 1) = w.last.bytes[k]
      BY <2>1 DEF IInv, Stored
    <3>4. Cell(k - 1)' = Cell(Contents + (k - 1))
      BY <2>1, <3>2, Emptied
    <3>5. Cell(Contents + k - 1)' = Cell(k - 1)'
      BY <3>2, Emptied DEF Cell
    <3>. QED
      BY <3>2, <3>3, <3>4, <3>5
  <2>. QED
    BY <2>1, Emptied DEF Stored
<1>6. Taking' /\ Reading'
  BY Emptied DEF IInv, Taking, Reading
<1>7. Framed'
  <2>1. Pending' = 0 /\ Contents' = 0
    BY Emptied DEF Pending
  <2>2. Pending' \in {0} /\ Chain({0})' /\ {0} \in SUBSET (0 .. Contents')
    BY <2>1 DEF Chain
  <2>. QED
    BY <2>2, Emptied DEF IInv, Framed
<1>. QED
  BY <1>1, <1>2, <1>4, <1>5, <1>6, <1>7 DEF IInv

\* Every step of the queue keeps the invariant.
LEMMA Invariance ==
  ASSUME Disciplined, IInv, [Next]_vars
  PROVE  IInv'
<1>1. CASE queue_init \/ queue_flush
  BY <1>1, EmptyStep
<1>2. CASE Write
  BY <1>2, BlockStored, ByteStored, MessageStored, CopyInStep, PublishInStep DEF Write
<1>3. CASE Read /\ ~queue_flush
  BY <1>3, ReaderStarts, BodySteps, CopyOutStep, PublishOutStep DEF Read
<1>4. CASE UNCHANGED vars
  BY <1>4 DEF vars, IInv, Shape, Pointers, Storing, Stored, Taking, Reading, Framed,
              Pending, Chain, Contents, Cell
<1>. QED
  BY <1>1, <1>2, <1>3, <1>4 DEF Next, Read

\* Whatever a disciplined user does, the queue stays in a state of the invariant.
THEOREM Inductive ==
  ASSUME Disciplined
  PROVE  Spec => []IInv
<1>1. Init => IInv
  BY Start
<1>2. IInv /\ [Next]_vars => IInv'
  BY Invariance
<1>. QED
  BY <1>1, <1>2, PTL DEF Spec

\* NoOverlap: the two sides of queue.c need no lock, since the slots one fills
\* and those the other copies are apart at every moment.
THEOREM TwoSides ==
  ASSUME Disciplined
  PROVE  Spec => []NoOverlap
<1>1. IInv => NoOverlap
  <2>. SUFFICES ASSUME IInv, w.pc = "copy", r.pc = "copy"
                PROVE  Filling \cap Draining = {}
    BY DEF NoOverlap
  <2>0. Contents \in Nat
    BY Counted
  <2>1. ASSUME NEW s \in Draining
        PROVE  s \notin Filling
    <3>1. PICK k \in 1 .. r.n : s = Slot(optr, k - 1)
      BY DEF Draining
    <3>2. k - 1 \in 0 .. Contents - 1
      BY <2>0 DEF IInv, Taking
    <3>. QED
      BY <3>1, <3>2, Filled
  <2>. QED
    BY <2>1
<1>. QED
  BY <1>1, Inductive, PTL

\* BodyAvailable: queue_read_msg finds the body of a message whose header it
\* has read (queue.c:320 reads it without asking again).
THEOREM WholeMessages ==
  ASSUME Disciplined
  PROVE  Spec => []BodyAvailable
<1>1. IInv => BodyAvailable
  <2>. SUFFICES ASSUME IInv, r.pc = "next", r.op = "header"
                PROVE  queue_contents(iptr, optr) >= r.last.bytes[1]
    BY DEF BodyAvailable
  <2>. QED
    BY HeaderGiven, Counted DEF Contents
<1>. QED
  BY <1>1, Inductive, PTL
-----------------------------------------------------------------------------
\* What the queue holds, as R2Fifo sees it.
Held == [k \in 1 .. Contents |-> Cell(k - 1)]

\* What the queue holds is a sequence of bytes, as long as the contents.
LEMMA HeldIs ==
  ASSUME IInv
  PROVE  /\ Held = [k \in 1 .. queue_contents(iptr, optr) |-> data[Slot(optr, k - 1)]]
         /\ Held \in Seq(Byte) /\ Len(Held) = Contents
<1>1. Contents \in Nat /\ Contents \in 0 .. Cap
  BY Counted
<1>2. \A k \in 1 .. Contents : Cell(k - 1) \in Byte
  <2>. TAKE k \in 1 .. Contents
  <2>1. k - 1 \in 0 .. Cap /\ optr \in 0 .. len /\ data \in [0 .. Cap -> Byte]
    BY <1>1, QueueAssumption DEF IInv, Shape
  <2>. QED
    BY <2>1, Slots DEF Cell
<1>. QED
  BY <1>1, <1>2 DEF Held, Contents, Cell

\* Publishing the input pointer is a Put of R2Fifo.
LEMMA PutStep ==
  ASSUME IInv, IInv', PublishIn
  PROVE  Fifo!Put
<1>. DEFINE n == Len(w.last.bytes)
<1>0. /\ Contents \in Nat /\ Contents' = Contents + n /\ n \in 1 .. Cap - Contents
      /\ Cap \in Nat /\ n \in Nat
      /\ \A k : Cell(k)' = Cell(k)
      /\ \A k \in 1 .. n : Cell(Contents + k - 1) = w.last.bytes[k]
  BY Counted, Published, QueueAssumption
<1>1. /\ wlast' = w.last /\ w.last \in Call
      /\ w.last.ask >= n /\ w.last.ret \in 0 .. n
  BY DEF PublishIn, IInv, Shape, Storing
<1>2. Held' = [k \in 1 .. Contents + n |->
                 IF k <= Contents THEN Cell(k - 1) ELSE w.last.bytes[k - Contents]]
  <2>1. Held' = [k \in 1 .. Contents + n |-> Cell(k - 1)]
    BY <1>0 DEF Held
  <2>2. ASSUME NEW k \in 1 .. Contents + n, ~ (k <= Contents)
        PROVE  Cell(k - 1) = w.last.bytes[k - Contents]
    <3>1. k - Contents \in 1 .. n /\ Contents + (k - Contents) - 1 = k - 1
      BY <1>0, <2>2
    <3>. QED
      BY <1>0, <3>1
  <2>. QED
    BY <2>1, <2>2
<1>3. Held' = Fifo!Joined(Held, w.last.bytes)
  <2>1. Len(Held) = Contents /\ \A k \in 1 .. Contents : Held[k] = Cell(k - 1)
    BY HeldIs DEF Held
  <2>2. \A k \in 1 .. Contents + n : k <= Contents => k \in 1 .. Contents
    BY <1>0
  <2>. QED
    BY <1>2, <2>1, <2>2 DEF Fifo!Joined
<1>4. Len(Held) + n <= Cap /\ w.last.bytes \in Seq(Byte) /\ n \in 1 .. w.last.ask
  BY <1>0, <1>1, HeldIs DEF Call
<1>. QED
  <2>1. Len(wlast'.bytes) = n /\ wlast' = w.last
    BY <1>1
  <2>2. Len(Held) + Len(wlast'.bytes) <= Cap
    BY <1>4, <2>1
  <2>3. UNCHANGED rlast
    BY DEF PublishIn
  <2>. QED
    BY <1>1, <1>3, <1>4, <2>1, <2>2, <2>3 DEF Fifo!Put, Held, Contents, Cell

\* What the queue holds depends on the pointers and the slots only.
LEMMA HeldKept ==
  ASSUME UNCHANGED <<iptr, optr, data>>
  PROVE  Held' = Held
BY DEF Held, Contents, Cell

\* Copying in changes nothing of what the queue holds.
LEMMA CopyKeeps ==
  ASSUME IInv, CopyIn
  PROVE  Held' = Held
<1>0. Contents \in Nat /\ Contents' = Contents
  BY Counted, CellsKept
<1>1. \A k \in 1 .. Contents : Cell(k - 1)' = Cell(k - 1)
  BY <1>0, CellsKept
<1>. QED
  BY <1>0, <1>1 DEF Held

\* Publishing the output pointer is a Take of R2Fifo, or a Look for a view.
LEMMA TakeStep ==
  ASSUME Disciplined, IInv, PublishOut
  PROVE  Fifo!Take \/ Fifo!Look
<1>0. /\ Contents \in 0 .. Cap /\ Contents \in Nat /\ Cap \in Nat
      /\ r.n \in 1 .. Contents /\ r.n \in Nat
      /\ r.last.ask >= r.n /\ r.last.ask \in Nat /\ r.last.ret = r.n
      /\ r.last.bytes = [k \in 1 .. r.n |-> Cell(k - 1)]
      /\ rlast' = r.last /\ UNCHANGED wlast
  BY Counted, QueueAssumption DEF IInv, Shape, Taking, PublishOut, Call
<1>1. /\ Len(Held) = Contents
      /\ \A k \in 1 .. Contents : Held[k] = Cell(k - 1)
  BY HeldIs DEF Held
<1>2. r.last.bytes = Fifo!First(Held, r.n)
  <2>1. \A k \in 1 .. r.n : Held[k] = Cell(k - 1)
    BY <1>0, <1>1
  <2>. QED
    BY <1>0, <2>1 DEF Fifo!First
<1>3. r.n \in 1 .. Len(Held)
  BY <1>0, <1>1
<1>4. CASE r.op = "view"
  <2>1. Held' = Held
    BY <1>4, HeldKept DEF PublishOut
  <2>. QED
    BY <1>0, <1>2, <1>3, <2>1 DEF Fifo!Look, Fifo!Get, Held, Contents, Cell
<1>5. CASE r.op # "view"
  <2>1. /\ Contents' = Contents - r.n
        /\ \A k \in 0 .. Cap - r.n : Cell(k)' = Cell(r.n + k)
    BY <1>5, Left
  <2>2. Held' = [k \in 1 .. Contents - r.n |-> Cell(r.n + k - 1)]
    <3>1. Held' = [k \in 1 .. Contents - r.n |-> Cell(k - 1)']
      BY <2>1 DEF Held
    <3>2. \A k \in 1 .. Contents - r.n : Cell(k - 1)' = Cell(r.n + k - 1)
      <4>. TAKE k \in 1 .. Contents - r.n
      <4>1. k - 1 \in 0 .. Cap - r.n /\ r.n + (k - 1) = r.n + k - 1
        BY <1>0
      <4>. QED
        BY <2>1, <4>1
    <3>. QED
      BY <3>1, <3>2
  <2>3. Held' = Fifo!Rest(Held, r.n)
    <3>1. \A k \in 1 .. Contents - r.n : Held[r.n + k] = Cell(r.n + k - 1)
      BY <1>0, <1>1
    <3>. QED
      BY <1>1, <2>2, <3>1 DEF Fifo!Rest
  <2>. QED
    BY <1>0, <1>2, <1>3, <2>3 DEF Fifo!Take, Fifo!Get, Held, Contents, Cell
<1>. QED
  BY <1>4, <1>5

\* queue_init and queue_flush are a Clear of R2Fifo.
LEMMA ClearStep ==
  ASSUME IInv, queue_init \/ queue_flush
  PROVE  Fifo!Clear
<1>1. Contents' = 0
  BY Emptied
<1>2. Held' = <<>>
  BY <1>1 DEF Held
<1>. QED
  BY <1>2 DEF Fifo!Clear, queue_init, queue_flush, Held, Contents, Cell

\* A write refused is refused for lack of space.
LEMMA RefusedPut ==
  ASSUME IInv, NEW ask \in Nat, NEW res \in Int, RefuseWrite(ask, res),
         res <= 0, ask = 0 \/ Contents + ask > Cap
  PROVE  Fifo!RefusePut
<1>1. Held' = Held /\ Len(Held) = Contents
  BY HeldKept, HeldIs DEF RefuseWrite
<1>. QED
  BY <1>1 DEF Fifo!RefusePut, RefuseWrite, Held, Contents, Cell

\* A read refused is refused for lack of bytes.
LEMMA RefusedTake ==
  ASSUME IInv, NEW ask \in Nat, NEW res \in Int, RefuseRead(ask, res),
         res <= 0, ask = 0 \/ Contents < ask
  PROVE  Fifo!RefuseTake
<1>1. Held' = Held /\ Len(Held) = Contents
  BY HeldKept, HeldIs DEF RefuseRead
<1>. QED
  BY <1>1 DEF Fifo!RefuseTake, RefuseRead, Held, Contents, Cell

\* The start of a write is a refusal or a stutter of R2Fifo.
LEMMA WriteCalls ==
  ASSUME IInv,
         \/ \E b \in Writes : queue_write(b)
         \/ \E x \in Singles : queue_write_byte(x)
         \/ \E m \in Messages : queue_write_msg(m)
  PROVE  Fifo!RefusePut \/ UNCHANGED <<Held, wlast, rlast>>
<1>0. /\ Contents \in Nat /\ Cap \in Nat /\ Cap - Contents \in Nat
      /\ queue_free_space(iptr, optr) = Cap - Contents
  BY Counted, QueueAssumption
<1>1. ASSUME NEW ask, NEW bytes, NEW to, NEW res, BeginWrite(ask, bytes, to, res)
      PROVE  UNCHANGED <<Held, wlast, rlast>>
  BY <1>1, HeldKept DEF BeginWrite
<1>2. ASSUME NEW b \in Writes, queue_write(b)
      PROVE  Fifo!RefusePut \/ UNCHANGED <<Held, wlast, rlast>>
  <2>. DEFINE n == Granted(queue_free_space(iptr, optr), Len(b), WriteAtomic)
  <2>0. Len(b) \in Nat /\ WriteAtomic \in BOOLEAN
    BY QueueAssumption
  <2>1. n \in Int /\ (n <= 0 => Len(b) = 0 \/ Cap - Contents < Len(b))
    BY <1>0, <2>0, Grant
  <2>2. CASE n <= 0
    <3>1. RefuseWrite(Len(b), n)
      BY <1>2, <2>2 DEF queue_write
    <3>2. Len(b) = 0 \/ Contents + Len(b) > Cap
      BY <1>0, <2>0, <2>1, <2>2
    <3>. HIDE DEF n
    <3>. QED
      BY <2>0, <2>1, <2>2, <3>1, <3>2, RefusedPut
  <2>3. CASE ~ (n <= 0)
    <3>1. BeginWrite(Len(b), SubSeq(b, 1, n), BlockEnd(iptr, n), n)
      BY <1>2, <2>3 DEF queue_write
    <3>. QED
      BY <3>1, <1>1
  <2>. QED
    BY <2>2, <2>3
<1>3. ASSUME NEW x \in Singles, queue_write_byte(x)
      PROVE  Fifo!RefusePut \/ UNCHANGED <<Held, wlast, rlast>>
  <2>1. CASE queue_free_space(iptr, optr) < 1
    <3>. DEFINE res == IF WriteAtomic THEN -1 ELSE 0
    <3>1. RefuseWrite(1, res)
      BY <1>3, <2>1 DEF queue_write_byte
    <3>2. res \in Int /\ res <= 0 /\ 1 \in Nat /\ Contents + 1 > Cap
      BY <1>0, <2>1
    <3>. HIDE DEF res
    <3>. QED
      BY <3>1, <3>2, RefusedPut
  <2>2. CASE ~ (queue_free_space(iptr, optr) < 1)
    <3>1. BeginWrite(1, <<x>>, ByteEnd(iptr), 1)
      BY <1>3, <2>2 DEF queue_write_byte
    <3>. QED
      BY <3>1, <1>1
  <2>. QED
    BY <2>1, <2>2
<1>4. ASSUME NEW m \in Messages, queue_write_msg(m)
      PROVE  Fifo!RefusePut \/ UNCHANGED <<Held, wlast, rlast>>
  <2>. DEFINE n == Len(m) + HEADER
  <2>0. n \in Nat
    BY QueueAssumption DEF HEADER
  <2>1. CASE queue_free_space(iptr, optr) < n
    <3>1. RefuseWrite(n, -1)
      BY <1>4, <2>1 DEF queue_write_msg
    <3>2. Contents + n > Cap /\ -1 \in Int /\ -1 <= 0
      BY <1>0, <2>0, <2>1
    <3>. HIDE DEF n
    <3>. QED
      BY <2>0, <3>1, <3>2, RefusedPut
  <2>2. CASE ~ (queue_free_space(iptr, optr) < n)
    <3>1. BeginWrite(n, <<Len(m), 0>> \o m, BlockEnd(iptr, n), Len(m))
      BY <1>4, <2>2 DEF queue_write_msg
    <3>. QED
      BY <3>1, <1>1
  <2>. QED
    BY <2>1, <2>2
<1>. QED
  BY <1>2, <1>3, <1>4

\* The common start of the block reads is a refusal or a stutter.
LEMMA RequestMaps ==
  ASSUME IInv, NEW op, NEW n \in Nat, NEW left, Request(op, n, left)
  PROVE  Fifo!RefuseTake \/ UNCHANGED <<Held, wlast, rlast>>
<1>. DEFINE m == Granted(Contents, n, ReadAtomic)
<1>0. Contents \in Nat /\ ReadAtomic \in BOOLEAN
  BY Counted, QueueAssumption
<1>1. m \in Int /\ (m <= 0 => n = 0 \/ Contents < n)
  BY <1>0, Grant
<1>2. CASE m <= 0
  <2>1. RefuseRead(n, m)
    BY <1>2 DEF Request, Contents
  <2>. HIDE DEF m
  <2>. QED
    BY <1>1, <1>2, <2>1, RefusedTake
<1>3. CASE ~ (m <= 0)
  <2>1. BeginRead(op, n, m, left)
    BY <1>3 DEF Request, Contents
  <2>. QED
    BY <2>1, HeldKept DEF BeginRead
<1>. QED
  BY <1>2, <1>3

\* The start of a read, and of each part of a message, is one too.
LEMMA ReadCalls ==
  ASSUME IInv,
         \/ \E n \in ReadLens : queue_read(n)
         \/ \E n \in ViewLens : queue_view(n)
         \/ queue_read_byte
         \/ queue_state_test_msg
         \/ \E n \in MsgLens : queue_read_msg(n)
         \/ ReadBody
         \/ ReadRest
  PROVE  Fifo!RefuseTake \/ UNCHANGED <<Held, wlast, rlast>>
<1>0. Contents \in Nat /\ -1 \in Int /\ -1 <= 0 /\ 0 <= 0 /\ 0 \in Int /\ HEADER \in Nat
  BY Counted DEF HEADER
<1>1. CASE \/ \E n \in ReadLens : queue_read(n)
           \/ \E n \in ViewLens : queue_view(n)
  BY <1>1, RequestMaps, QueueAssumption DEF queue_read, queue_view
<1>2. ASSUME NEW op, NEW n \in Nat, NEW left,
             IF queue_contents(iptr, optr) < n THEN RefuseRead(n, -1)
             ELSE BeginRead(op, n, n, left)
      PROVE  Fifo!RefuseTake \/ UNCHANGED <<Held, wlast, rlast>>
  <2>1. CASE Contents < n
    <3>1. RefuseRead(n, -1)
      BY <1>2, <2>1 DEF Contents
    <3>. QED
      BY <1>0, <2>1, <3>1, RefusedTake
  <2>2. CASE ~ (Contents < n)
    <3>1. BeginRead(op, n, n, left)
      BY <1>2, <2>2 DEF Contents
    <3>. QED
      BY <3>1, HeldKept DEF BeginRead
  <2>. QED
    BY <2>1, <2>2
<1>3. CASE queue_read_byte
  BY <1>2, <1>3 DEF queue_read_byte
<1>4. CASE queue_state_test_msg
  BY <1>0, <1>2, <1>4 DEF queue_state_test_msg
<1>5. CASE \E n \in MsgLens : queue_read_msg(n)
  BY <1>0, <1>2, <1>5 DEF queue_read_msg
<1>6. CASE ReadBody
  <2>. DEFINE lenx == r.last.bytes[1]
              n == IF lenx > r.left THEN r.left ELSE lenx
  <2>1. lenx \in Nat /\ r.left \in Nat
    BY <1>0, <1>6, HeaderGiven DEF ReadBody
  <2>2. CASE lenx = 0
    <3>1. RefuseRead(0, 0)
      BY <1>6, <2>2 DEF ReadBody
    <3>. QED
      BY <1>0, <3>1, RefusedTake
  <2>3. CASE lenx # 0
    <3>1. Request("body", n, lenx - n) /\ n \in Nat
      BY <1>6, <2>1, <2>3 DEF ReadBody
    <3>. HIDE DEF n, lenx
    <3>. QED
      BY <3>1, RequestMaps
  <2>. QED
    BY <2>2, <2>3
<1>7. CASE ReadRest
  <2>1. Request("rest", r.left, 0) /\ r.left \in Nat
    BY <1>7 DEF ReadRest, IInv, Shape
  <2>. QED
    BY <2>1, RequestMaps
<1>. QED
  BY <1>1, <1>3, <1>4, <1>5, <1>6, <1>7

\* Every step of the ring buffer is a step of R2Fifo or a stutter.
LEMMA StepMaps ==
  ASSUME Disciplined, IInv, IInv', [Next]_vars
  PROVE  Fifo!Next \/ UNCHANGED <<Held, wlast, rlast>>
<1>1. CASE queue_init \/ queue_flush
  BY <1>1, ClearStep DEF Fifo!Next
<1>2. CASE Write
  <2>1. CASE CopyIn
    BY <2>1, CopyKeeps DEF CopyIn
  <2>2. CASE PublishIn
    BY <2>2, PutStep DEF Fifo!Next
  <2>. QED
    BY <1>2, <2>1, <2>2, WriteCalls DEF Write, Fifo!Next
<1>3. CASE Read /\ ~queue_flush
  <2>1. CASE CopyOut
    BY <2>1, HeldKept DEF CopyOut
  <2>2. CASE PublishOut
    BY <2>2, TakeStep DEF Fifo!Next
  <2>. QED
    BY <1>3, <2>1, <2>2, ReadCalls DEF Read, Fifo!Next
<1>4. CASE UNCHANGED vars
  BY <1>4, HeldKept DEF vars
<1>. QED
  BY <1>1, <1>2, <1>3, <1>4 DEF Next, Read

\* IsFifo: the ring buffer implements the first-in first-out queue queue.h
\* promises: readers get what was written, in order, each byte once, and calls
\* are refused only for lack of space or of bytes when they looked.
THEOREM FirstInFirstOut ==
  ASSUME Disciplined
  PROVE  Spec => IsFifo
<1>1. Init => Fifo!Init
  <2>. SUFFICES ASSUME Init PROVE Fifo!Init
    OBVIOUS
  <2>1. IInv /\ Contents = 0
    BY Start, Room, QueueAssumption DEF Init, Contents, len
  <2>2. Held = <<>>
    BY <2>1 DEF Held
  <2>. QED
    BY <2>2 DEF Init, Fifo!Init, Fifo!NoCall, NoCall, Held, Contents, Cell
<1>2. IInv /\ IInv' /\ [Next]_vars => [Fifo!Next]_Fifo!vars
  <2>. SUFFICES ASSUME IInv, IInv', [Next]_vars
                PROVE  Fifo!Next \/ UNCHANGED Fifo!vars
    OBVIOUS
  <2>1. UNCHANGED <<Held, wlast, rlast>> => UNCHANGED Fifo!vars
    BY DEF Fifo!vars, Held, Contents, Cell
  <2>. QED
    BY <2>1, StepMaps
<1>. QED
  BY <1>1, <1>2, Inductive, PTL DEF Spec, IsFifo, Fifo!Spec
=============================================================================
