------------------------------ MODULE MCQueue -------------------------------
(***************************************************************************)
(* R2Queue as three users of the queue use it.  They share the size of the *)
(* queue, so the properties of R2Queue are stated of all three at once.    *)
(***************************************************************************)
EXTENDS R2Queue

\* Buffers up to one byte more than the queue holds.
Blocks == {<<0, 1, 1>>, <<1, 0, 1, 0, 1>>}
Texts == {<<>>, <<2>>, <<1, 2>>}

Plain ==
  [byte |-> 0..1, atomic |-> FALSE, writes |-> {}, singles |-> {}, messages |-> {},
   reads |-> {}, views |-> {}, msgs |-> {}, byteReads |-> FALSE, once |-> FALSE]

Users ==
  [blocks |-> [Plain EXCEPT !.writes = Blocks, !.reads = {1, 5}],
   \* the digit queue of the DTMF generator, and atomic and byte calls besides
   digits |-> [Plain EXCEPT !.atomic = TRUE, !.writes = Blocks, !.singles = {1},
                            !.views = {2}, !.byteReads = TRUE, !.once = TRUE],
   messages |-> [Plain EXCEPT !.byte = 0..2, !.atomic = TRUE, !.messages = Texts,
                              !.msgs = {1, 2}]]

Queue(u) == INSTANCE R2Queue WITH
  Byte <- Users[u].byte, ReadAtomic <- Users[u].atomic, WriteAtomic <- Users[u].atomic,
  Writes <- Users[u].writes, Singles <- Users[u].singles, Messages <- Users[u].messages,
  ReadLens <- Users[u].reads, ViewLens <- Users[u].views, MsgLens <- Users[u].msgs,
  ByteReads <- Users[u].byteReads, OneWritePerInit <- Users[u].once

ASSUME \A u \in DOMAIN Users : Queue(u)!QueueAssumption /\ Queue(u)!Disciplined

None == {}
Bytes == 0..2
=============================================================================
