---------------------------- MODULE R2LocksProof ----------------------------
(***************************************************************************)
(* Any number of threads may share a channel: if each of them uses only    *)
(* the entry points that take the lock, the callbacks come in order.       *)
(***************************************************************************)
EXTENDS R2Locks, TLAPS

\* What the application does: it leaves openr2_chan_process_cas_signaling alone,
\* and the far end keeps to the protocol.
Locked == Polite /\ "process_cas_signaling" \notin Calls

-----------------------------------------------------------------------------
(* The lock. *)

Place == {"none", "lock", "event", "unlock", "return", "get_cas", "compare", "store",
          "switch", "incoming", "clear_forward", "call_end", "disconnect"}

\* A nested call of openr2_chan_disconnect_call is between its Lock and the
\* Unlock that belongs to it.
Within == {"lock", "disconnect", "unlock"}

Typed ==
  /\ thread \in [Threads -> [call : {"none", "process_oob_events", "disconnect_call"},
                             pc : Place, cas : {"IDLE", "SEIZE"}, nested : BOOLEAN]]
  /\ line \in {"IDLE", "SEIZE"} /\ event \in BOOLEAN
  /\ lock \in [owner : Threads \cup {NoThread}, depth : Nat]
  /\ \A t \in Threads : thread[t].nested => thread[t].pc \in Within

\* The thread has locked the channel and not yet unlocked it.
Holds(t) == thread[t].pc \notin {"none", "lock"} \/ thread[t].nested

\* How often.
Depth(t) == IF thread[t].nested /\ thread[t].pc # "lock" THEN 2 ELSE 1

Exclusive ==
  /\ \A t \in Threads : Holds(t) <=> lock.owner = t
  /\ \A t \in Threads : Holds(t) => lock.depth = Depth(t)
  /\ lock.owner = NoThread => lock.depth = 0

-----------------------------------------------------------------------------
(* The channel. *)

AtRest  == r2_state = "IDLE" /\ tx = "IDLE" /\ user = "none"
InCall  == r2_state = "SEIZE_ACK_TXD" /\ tx = "SEIZE_ACK" /\ user = "call"
HungUp  == r2_state = "CLEAR_BACK_TXD" /\ tx = "CLEAR_BACK" /\ user = "call"
Cleared == r2_state = "CLEAR_FWD_RXD" /\ tx = "SEIZE_ACK" /\ user = "disconnected"

\* Between two handlers the bits last read belong to the state; a line that was
\* cleared stays idle until the channel is.
Stable ==
  \/ AtRest /\ cas_read = "IDLE"
  \/ InCall /\ cas_read = "SEIZE"
  \/ HungUp /\ cas_read = "SEIZE"
  \/ Cleared /\ cas_read = "IDLE" /\ line = "IDLE"

\* The bits that a thread has read are what the state allows next.
Expected(t) ==
  /\ InCall /\ thread[t].cas = "IDLE" => line = "IDLE"
  /\ Cleared => thread[t].cas = "IDLE"

\* The bits are stored and the state is not yet changed.
Seized(t)  == AtRest /\ cas_read = "SEIZE" /\ thread[t].cas = "SEIZE"
Cleaned(t) == InCall /\ cas_read = "IDLE" /\ thread[t].cas = "IDLE" /\ line = "IDLE"
Ended(t)   == HungUp /\ cas_read = "IDLE" /\ thread[t].cas = "IDLE"

Busy(t) == thread[t].pc \in {"switch", "incoming", "clear_forward", "call_end"}

Handled(t) ==
  /\ At(t, "compare") => Expected(t)
  /\ At(t, "store") => Expected(t) /\ cas_read # thread[t].cas
  /\ At(t, "switch") => Seized(t) \/ Cleaned(t) \/ Ended(t)
  /\ At(t, "incoming") => Seized(t)
  /\ At(t, "clear_forward") => Cleaned(t)
  /\ At(t, "call_end") => Ended(t)

Ordered ==
  /\ ~error
  /\ (\A t \in Threads : ~Busy(t)) => Stable
  /\ \A t \in Threads : Handled(t)

Inv == Typed /\ Exclusive /\ Ordered

-----------------------------------------------------------------------------
(* The initial states, and what steps have in common. *)

\* The channel was set idle on an idle line: openr2_chan_set_idle.
LEMMA InitInv == Init => Inv
<1> SUFFICES ASSUME Init PROVE Inv
  OBVIOUS
<1>1. Typed
  BY DEF Init, Typed, Idle, Place, Within
<1>2. \A t \in Threads : thread[t].pc = "none" /\ ~thread[t].nested
  BY DEF Init, Idle
<1>3. Exclusive
  BY <1>2, LocksAssumption DEF Init, Exclusive, Holds
<1>4. Ordered
  BY <1>2 DEF Init, Ordered, Stable, AtRest, Handled, At
<1> QED
  BY <1>1, <1>3, <1>4 DEF Inv

\* A step of a thread that holds the lock and keeps it: the others are outside of
\* the handler and stay there.
LEMMA KeepsLock ==
  ASSUME Typed, Exclusive, NEW t \in Threads, Holds(t), Holds(t)',
         NEW r, thread' = [thread EXCEPT ![t] = r],
         Depth(t)' = Depth(t), lock' = lock
  PROVE  Exclusive'
<1>1. \A u \in Threads \ {t} : thread'[u] = thread[u]
  BY DEF Typed
<1>2. \A u \in Threads \ {t} : Holds(u)' = Holds(u) /\ Depth(u)' = Depth(u)
  BY <1>1 DEF Holds, Depth
<1> QED
  BY <1>2 DEF Exclusive

\* What is left to show of such a step is what it makes of its own place.
LEMMA KeepsOrder ==
  ASSUME Typed, Exclusive, Ordered, NEW t \in Threads, Holds(t),
         NEW r, thread' = [thread EXCEPT ![t] = r],
         error' = error, Handled(t)', ~Busy(t)' => Stable'
  PROVE  Ordered'
<1>1. \A u \in Threads \ {t} : thread'[u] = thread[u] /\ ~Holds(u)
  BY DEF Typed, Exclusive
<1>2. \A u \in Threads \ {t} : ~Busy(u)' /\ Handled(u)'
  BY <1>1 DEF Holds, Busy, Handled, At
<1> QED
  BY <1>2 DEF Ordered

\* The only thread that can be in the handler is the one that holds the lock.
LEMMA OthersAreOut ==
  ASSUME Typed, Exclusive, Ordered, NEW t \in Threads, Holds(t), ~Busy(t)
  PROVE  Stable
<1>1. \A u \in Threads \ {t} : ~Holds(u)
  BY DEF Exclusive
<1>2. \A u \in Threads : ~Busy(u)
  BY <1>1 DEF Holds, Busy
<1> QED
  BY <1>2 DEF Ordered

-----------------------------------------------------------------------------
(* The far end and the calls. *)

\* A far end that keeps to the protocol does not seize a line that is not idle,
\* so a line once cleared stays so until the channel is.
LEMMA FarEndKeeps == ASSUME Locked, Inv, FarEnd PROVE Inv'
<1> USE DEF FarEnd, chan
<1>1. Typed'
  BY DEF Locked, Inv, Typed
<1>2. Exclusive'
  BY DEF Inv, Exclusive, Holds, Depth
<1>3. Stable => Stable'
  BY DEF Locked, Stable, AtRest, InCall, HungUp, Cleared
<1>4. ASSUME NEW t \in Threads, Handled(t) PROVE Handled(t)'
  BY <1>4 DEF Locked, Handled, At, Expected, Seized, Cleaned, Ended, AtRest, InCall,
              HungUp, Cleared
<1>5. Ordered'
  BY <1>3, <1>4 DEF Inv, Ordered, Busy
<1> QED
  BY <1>1, <1>2, <1>5 DEF Inv

\* A call begins without the lock.
LEMMA CallKeeps ==
  ASSUME Locked, Inv, NEW t \in Threads, NEW call \in Calls, Call(t, call)
  PROVE  Inv'
<1>1. /\ call \in {"process_oob_events", "disconnect_call"}
      /\ thread[t].pc = "none" /\ ~thread[t].nested
      /\ thread' = [thread EXCEPT ![t] =
           [call |-> call, pc |-> "lock", cas |-> "IDLE", nested |-> FALSE]]
      /\ UNCHANGED <<line, event, chan, lock, user, error>>
  <2>1. call \in {"process_oob_events", "disconnect_call"}
    BY LocksAssumption DEF Locked
  <2>2. thread[t].pc = "none" /\ ~thread[t].nested
    BY DEF Inv, Typed, Within, Call, At
  <2>3. "process_cas_signaling" # call
    BY <2>1
  <2> QED
    BY <2>1, <2>2, <2>3 DEF Call
<1>2. Typed'
  BY <1>1 DEF Inv, Typed, Place, Within
<1>3. \A u \in Threads \ {t} : thread'[u] = thread[u]
  BY <1>1 DEF Inv, Typed
<1>4. thread'[t] = [call |-> call, pc |-> "lock", cas |-> "IDLE", nested |-> FALSE]
  BY <1>1 DEF Inv, Typed
<1>5. \A u \in Threads : /\ Holds(u)' = Holds(u) /\ (Holds(u) => Depth(u)' = Depth(u))
                         /\ Busy(u)' = Busy(u) /\ (Handled(u) => Handled(u)')
  <2> SUFFICES ASSUME NEW u \in Threads
               PROVE  /\ Holds(u)' = Holds(u) /\ (Holds(u) => Depth(u)' = Depth(u))
                      /\ Busy(u)' = Busy(u) /\ (Handled(u) => Handled(u)')
    OBVIOUS
  <2>1. CASE u = t
    BY <2>1, <1>1, <1>4 DEF Holds, Depth, Busy, Handled, At
  <2>2. CASE u # t
    BY <2>2, <1>1, <1>3 DEF Holds, Depth, Busy, Handled, At, Expected, Seized, Cleaned,
                          Ended, AtRest, InCall, HungUp, Cleared, chan
  <2> QED
    BY <2>1, <2>2
<1>6. Exclusive'
  BY <1>1, <1>5 DEF Inv, Exclusive
<1>7. Stable' = Stable /\ error' = error
  BY <1>1 DEF Stable, AtRest, InCall, HungUp, Cleared, chan
<1>8. Ordered'
  BY <1>5, <1>7 DEF Inv, Ordered
<1> QED
  BY <1>2, <1>6, <1>8 DEF Inv

-----------------------------------------------------------------------------
(* The steps of a thread. *)

Thread == [call : {"none", "process_oob_events", "disconnect_call"},
           pc : Place, cas : {"IDLE", "SEIZE"}, nested : BOOLEAN]

\* A step inside the lock has to show where it leaves its own thread, and the
\* channel if that is not in the handler.
LEMMA HeldStep ==
  ASSUME Inv, NEW t \in Threads, Holds(t),
         NEW r \in Thread, thread' = [thread EXCEPT ![t] = r],
         r.pc \notin {"none", "lock"} \/ r.nested,
         r.nested => r.pc \in Within,
         (r.nested /\ r.pc # "lock") <=> (thread[t].nested /\ thread[t].pc # "lock"),
         lock' = lock, line' = line, event' \in BOOLEAN, error' = error,
         Handled(t)', ~Busy(t)' => Stable'
  PROVE  Inv'
<1>1. thread'[t] = r
  BY DEF Inv, Typed
<1>2. Typed'
  BY DEF Inv, Typed, Thread
<1>3. Holds(t)' /\ Depth(t)' = Depth(t)
  BY <1>1 DEF Holds, Depth
<1>4. Exclusive'
  BY <1>3, KeepsLock DEF Inv
<1>5. Ordered'
  BY KeepsOrder DEF Inv
<1> QED
  BY <1>2, <1>4, <1>5 DEF Inv

\* The place of a thread changes, and nothing else of it.
LEMMA GotoIs ==
  ASSUME Typed, NEW t \in Threads, NEW pc \in Place, Goto(t, pc)
  PROVE  /\ [thread[t] EXCEPT !.pc = pc] \in Thread
         /\ thread' = [thread EXCEPT ![t] = [thread[t] EXCEPT !.pc = pc]]
         /\ thread'[t] = [thread[t] EXCEPT !.pc = pc]
         /\ thread'[t].pc = pc
         /\ thread'[t].cas = thread[t].cas
         /\ thread'[t].nested = thread[t].nested
<1>1. thread[t] \in Thread
  BY DEF Typed, Thread
<1>2. thread' = [thread EXCEPT ![t] = [thread[t] EXCEPT !.pc = pc]]
  BY DEF Goto
<1>3. thread'[t] = [thread[t] EXCEPT !.pc = pc]
  BY <1>2 DEF Typed
<1> QED
  BY <1>1, <1>2, <1>3 DEF Thread

\* A step in the handler, which the nested call has not entered.
LEMMA HandlerStep ==
  ASSUME Inv, NEW t \in Threads, thread[t].pc \notin Within \cup {"none"},
         NEW pc \in Place \ {"none", "lock"}, Goto(t, pc),
         lock' = lock, line' = line, event' \in BOOLEAN, error' = error,
         Handled(t)', ~Busy(t)' => Stable'
  PROVE  Inv'
<1> DEFINE r == [thread[t] EXCEPT !.pc = pc]
<1>1. r \in Thread /\ thread' = [thread EXCEPT ![t] = r]
      /\ r.pc = pc /\ r.nested = thread[t].nested
  BY GotoIs DEF Inv
<1>2. ~thread[t].nested /\ Holds(t)
  BY DEF Inv, Typed, Holds, Within
<1> HIDE DEF r
<1> QED
  BY <1>1, <1>2, HeldStep

\* The lock is free, or the thread holds it already.
LEMMA EnterKeeps == ASSUME Inv, NEW t \in Threads, Enter(t) PROVE Inv'
<1> DEFINE pc == IF thread[t].call = "disconnect_call" \/ thread[t].nested
                 THEN "disconnect" ELSE "event"
           r == [thread[t] EXCEPT !.pc = pc]
<1>1. /\ thread[t].pc = "lock" /\ lock.owner \in {NoThread, t}
      /\ lock' = [owner |-> t, depth |-> lock.depth + 1]
      /\ UNCHANGED <<line, event, chan, user, error>>
  BY DEF Enter, At, Lock
<1>2. /\ r \in Thread /\ thread' = [thread EXCEPT ![t] = r] /\ thread'[t] = r
      /\ r.pc = pc /\ r.nested = thread[t].nested
  <2>1. pc \in Place /\ Goto(t, pc)
    BY DEF Enter, Place
  <2> HIDE DEF pc
  <2> QED
    BY <2>1, GotoIs DEF Inv
<1>3. pc \in {"disconnect", "event"} /\ (thread[t].nested => pc = "disconnect")
  OBVIOUS
<1> HIDE DEF r, pc
<1>4. \A u \in Threads \ {t} : thread'[u] = thread[u] /\ ~Holds(u)
  BY <1>1, <1>2, LocksAssumption DEF Inv, Typed, Exclusive
<1>5. \A u \in Threads \ {t} : ~Holds(u)' /\ ~Busy(u) /\ Handled(u)'
  BY <1>4 DEF Holds, Busy, Handled, At
<1>6. Typed'
  BY <1>1, <1>2, <1>3 DEF Inv, Typed, Thread, Within
<1>7. Exclusive'
  <2>1. Holds(t)' /\ lock'.owner = t
    BY <1>1, <1>2, <1>3 DEF Holds
  <2>2. lock'.depth = Depth(t)'
    <3>1. CASE thread[t].nested
      <4>1. Holds(t) /\ Depth(t) = 1
        BY <3>1, <1>1 DEF Holds, Depth
      <4>2. lock.depth = 1
        BY <4>1 DEF Inv, Exclusive
      <4>3. lock'.depth = 2
        BY <4>2, <1>1
      <4>4. thread'[t].nested
        BY <3>1, <1>2
      <4>5. thread'[t].pc = "disconnect"
        BY <3>1, <1>2, <1>3
      <4> QED
        BY <4>3, <4>4, <4>5 DEF Depth
    <3>2. CASE ~thread[t].nested
      <4>1. ~Holds(t)
        BY <3>2, <1>1 DEF Holds
      <4>2. lock.owner # t
        BY <4>1 DEF Inv, Exclusive
      <4>3. lock.depth = 0
        BY <4>2, <1>1 DEF Inv, Exclusive
      <4> QED
        BY <4>3, <3>2, <1>1, <1>2 DEF Depth
    <3> QED
      BY <3>1, <3>2
  <2> QED
    BY <2>1, <2>2, <1>5, LocksAssumption DEF Exclusive
<1>8. Stable'
  <2>1. Stable
    BY <1>1, <1>5 DEF Inv, Ordered, Busy
  <2> QED
    BY <2>1, <1>1 DEF chan, Stable, AtRest, InCall, HungUp, Cleared
<1>9. Handled(t)'
  BY <1>2, <1>3 DEF Handled, At
<1> QED
  BY <1>1, <1>5, <1>6, <1>7, <1>8, <1>9 DEF Inv, Ordered

\* The lock is released as often as it was taken.
LEMMA LeaveKeeps == ASSUME Inv, NEW t \in Threads, Leave(t) PROVE Inv'
<1> DEFINE r == IF thread[t].nested
                THEN [thread[t] EXCEPT !.nested = FALSE, !.pc = "return"] ELSE Idle
<1>1. /\ thread[t].pc = "unlock"
      /\ lock' = IF lock.owner # t THEN lock
                 ELSE [owner |-> IF lock.depth = 1 THEN NoThread ELSE t,
                       depth |-> lock.depth - 1]
      /\ thread' = [thread EXCEPT ![t] = r]
      /\ UNCHANGED <<line, event, chan, user, error>>
  BY DEF Leave, At, Unlock
<1>2. /\ r \in Thread /\ ~r.nested
      /\ r.pc = IF thread[t].nested THEN "return" ELSE "none"
  BY DEF Inv, Typed, Thread, Idle, Place
<1> HIDE DEF r
<1>3. thread'[t] = r /\ \A u \in Threads \ {t} : thread'[u] = thread[u]
  BY <1>1 DEF Inv, Typed
<1>4. Holds(t) /\ lock.owner = t /\ lock.depth = IF thread[t].nested THEN 2 ELSE 1
  BY <1>1 DEF Inv, Exclusive, Holds, Depth
<1>5. \A u \in Threads \ {t} : ~Holds(u)' /\ ~Busy(u) /\ Handled(u)'
  <2>1. \A u \in Threads \ {t} : ~Holds(u)
    BY <1>4 DEF Inv, Exclusive
  <2> QED
    BY <2>1, <1>3 DEF Holds, Busy, Handled, At
<1>6. Typed'
  BY <1>1, <1>2, <1>3, <1>4 DEF Inv, Typed, Thread
<1>7. Exclusive'
  BY <1>1, <1>2, <1>3, <1>4, <1>5, LocksAssumption DEF Exclusive, Holds, Depth
<1>8. Stable'
  <2>1. Stable
    BY <1>1, <1>4, OthersAreOut DEF Inv, Busy
  <2> QED
    BY <2>1, <1>1 DEF chan, Stable, AtRest, InCall, HungUp, Cleared
<1>9. Handled(t)'
  BY <1>2, <1>3 DEF Handled, At
<1> QED
  BY <1>1, <1>5, <1>6, <1>7, <1>8, <1>9 DEF Inv, Ordered

\* The channel as a step that leaves it alone finds it.
LEMMA StableStays ==
  ASSUME Inv, NEW t \in Threads, Holds(t), ~Busy(t), line' = line, UNCHANGED <<chan, user>>
  PROVE  Stable /\ Stable'
<1>1. Stable
  BY OthersAreOut DEF Inv
<1> QED
  BY <1>1 DEF chan, Stable, AtRest, InCall, HungUp, Cleared

\* openr2_chan_process_oob_events finds an event or has nothing to do.
LEMMA GetEventKeeps == ASSUME Inv, NEW t \in Threads, GetEvent(t) PROVE Inv'
<1> DEFINE pc == IF event THEN "get_cas" ELSE "unlock"
<1>1. /\ thread[t].pc = "event" /\ Goto(t, pc) /\ event' = FALSE
      /\ UNCHANGED <<line, chan, lock, user, error>>
  BY DEF GetEvent, At
<1>2. pc \in Place \ {"none", "lock"} /\ pc \in {"get_cas", "unlock"}
  BY DEF Place
<1> HIDE DEF pc
<1>3. Stable'
  BY <1>1, StableStays DEF Holds, Busy
<1>4. thread'[t].pc = pc
  BY <1>1, <1>2, GotoIs DEF Inv
<1>5. Handled(t)'
  BY <1>2, <1>4 DEF Handled, At
<1> QED
  BY <1>1, <1>2, <1>3, <1>5, HandlerStep DEF Within

\* The handler was entered with the lock.
LEMMA ReturnKeeps == ASSUME Inv, NEW t \in Threads, Return(t) PROVE Inv'
<1>1. /\ thread[t].pc = "return" /\ Goto(t, "unlock")
      /\ UNCHANGED <<line, event, chan, lock, user, error>>
  BY DEF Return, At, Inv, Typed, Goto
<1>2. Stable'
  BY <1>1, StableStays DEF Holds, Busy
<1>3. thread'[t].pc = "unlock" /\ "unlock" \in Place
  BY <1>1, GotoIs DEF Inv, Place
<1>4. Handled(t)'
  BY <1>3 DEF Handled, At
<1> QED
  BY <1>1, <1>2, <1>3, <1>4, HandlerStep DEF Within, Inv, Typed

\* The bits of a line that was cleared are still those of an idle line.
LEMMA GetCasKeeps == ASSUME Inv, NEW t \in Threads, GetCas(t) PROVE Inv'
<1> DEFINE r == [thread[t] EXCEPT !.cas = line, !.pc = "compare"]
<1>1. /\ thread[t].pc = "get_cas" /\ thread' = [thread EXCEPT ![t] = r]
      /\ UNCHANGED <<line, event, chan, lock, user, error>>
  BY DEF GetCas, At, Inv, Typed
<1>2. /\ r \in Thread /\ r.pc = "compare" /\ r.cas = line /\ ~r.nested
      /\ ~thread[t].nested
  BY <1>1 DEF Inv, Typed, Thread, Place, Within
<1> HIDE DEF r
<1>3. thread'[t] = r
  BY <1>1 DEF Inv, Typed
<1>4. Holds(t)
  BY <1>1 DEF Holds
<1>5. Stable /\ Stable'
  BY <1>1, <1>4, StableStays DEF Busy
<1>6. Handled(t)'
  BY <1>1, <1>2, <1>3, <1>5
  DEF chan, Handled, At, Expected, Stable, AtRest, InCall, HungUp, Cleared
<1> QED
  BY <1>1, <1>2, <1>4, <1>5, <1>6, HeldStep DEF Inv, Typed

\* Bits that are no news end the handler.
LEMMA CompareKeeps == ASSUME Inv, NEW t \in Threads, Compare(t) PROVE Inv'
<1> DEFINE pc == IF cas_read = thread[t].cas THEN "return" ELSE "store"
<1>1. /\ thread[t].pc = "compare" /\ Goto(t, pc)
      /\ UNCHANGED <<line, event, chan, lock, user, error>>
  BY DEF Compare, At
<1>2. pc \in Place \ {"none", "lock"} /\ pc \in {"return", "store"}
      /\ (pc = "store" => cas_read # thread[t].cas)
  BY DEF Place
<1> HIDE DEF pc
<1>3. Stable'
  BY <1>1, StableStays DEF Holds, Busy
<1>4. thread'[t].pc = pc /\ thread'[t].cas = thread[t].cas
  BY <1>1, <1>2, GotoIs DEF Inv
<1>5. Handled(t)'
  BY <1>1, <1>2, <1>4 DEF Inv, Ordered, Handled, At, Expected, InCall, Cleared, chan
<1> QED
  BY <1>1, <1>2, <1>3, <1>5, HandlerStep DEF Inv, Typed, Within

\* From here the bits are those of the state that comes next.
LEMMA StoreKeeps == ASSUME Inv, NEW t \in Threads, Store(t) PROVE Inv'
<1>1. /\ thread[t].pc = "store" /\ Goto(t, "switch") /\ cas_read' = thread[t].cas
      /\ UNCHANGED <<line, event, r2_state, tx, lock, user, error>>
  BY DEF Store, At
<1>2. Stable
  BY <1>1, OthersAreOut DEF Inv, Holds, Busy
<1>3. Expected(t) /\ cas_read # thread[t].cas
  BY <1>1 DEF Inv, Ordered, Handled, At
<1>4. thread'[t].pc = "switch" /\ thread'[t].cas = thread[t].cas
  BY <1>1, GotoIs DEF Inv, Place
<1>5. thread[t].cas \in {"IDLE", "SEIZE"}
  BY DEF Inv, Typed
<1>6. Seized(t)' \/ Cleaned(t)' \/ Ended(t)'
  BY <1>1, <1>2, <1>3, <1>4, <1>5
  DEF Stable, Expected, Seized, Cleaned, Ended, AtRest, InCall, HungUp, Cleared
<1>7. Handled(t)' /\ Busy(t)'
  BY <1>4, <1>6 DEF Handled, Busy, At
<1> QED
  BY <1>1, <1>7, HandlerStep DEF Inv, Typed, Within, Place

\* The state knows the bits: no protocol error.
LEMMA SwitchKeeps == ASSUME Inv, NEW t \in Threads, Switch(t) PROVE Inv'
<1>1. thread[t].pc = "switch" /\ UNCHANGED <<line, event, chan, lock, user, error>>
  BY DEF Switch, At
<1>2. Seized(t) \/ Cleaned(t) \/ Ended(t)
  BY <1>1 DEF Inv, Ordered, Handled, At
<1>3. \/ Seized(t) /\ Goto(t, "incoming")
      \/ Cleaned(t) /\ Goto(t, "clear_forward")
      \/ Ended(t) /\ Goto(t, "call_end")
  BY <1>2 DEF Switch, Seized, Cleaned, Ended, AtRest, InCall, HungUp
<1>4. ASSUME NEW pc \in {"incoming", "clear_forward", "call_end"}, Goto(t, pc),
             pc = "incoming" => Seized(t), pc = "clear_forward" => Cleaned(t),
             pc = "call_end" => Ended(t)
      PROVE  Inv'
  <2>1. pc \in Place \ {"none", "lock"}
    BY DEF Place
  <2>2. thread'[t].pc = pc /\ thread'[t].cas = thread[t].cas
    BY <2>1, <1>4, GotoIs DEF Inv
  <2>3. Handled(t)' /\ Busy(t)'
    BY <2>2, <1>1, <1>4
    DEF chan, Handled, Busy, At, Seized, Cleaned, Ended, AtRest, InCall, HungUp
  <2> QED
    BY <2>1, <2>3, <1>1, <1>4, HandlerStep DEF Inv, Typed, Within
<1> QED
  BY <1>3, <1>4

\* A step that ends the handler.
LEMMA HandlerEnds ==
  ASSUME Inv, NEW t \in Threads, thread[t].pc \notin Within \cup {"none"}, Goto(t, "return"),
         lock' = lock, line' = line, event' = event, error' = error, Stable'
  PROVE  Inv'
<1>1. "return" \in Place \ {"none", "lock"}
  BY DEF Place
<1>2. thread'[t].pc = "return"
  BY <1>1, GotoIs DEF Inv
<1>3. Handled(t)'
  BY <1>2 DEF Handled, At
<1> QED
  BY <1>1, <1>3, HandlerStep DEF Inv, Typed

\* handle_incoming_call.
LEMMA IncomingKeeps == ASSUME Inv, NEW t \in Threads, Incoming(t) PROVE Inv'
<1>1. thread[t].pc = "incoming" /\ Seized(t)
  BY DEF Incoming, Inv, Ordered, Handled, At
<1>2. Stable'
  BY <1>1 DEF Incoming, Seized, AtRest, Stable, InCall
<1> QED
  BY <1>1, <1>2, HandlerEnds DEF Incoming, Within

\* on_call_disconnect, with or without a call of openr2_chan_disconnect_call in it.
LEMMA ClearForwardKeeps == ASSUME Inv, NEW t \in Threads, ClearForward(t) PROVE Inv'
<1>1. /\ thread[t].pc = "clear_forward" /\ Cleaned(t)
      /\ UNCHANGED <<line, event, cas_read, tx, lock, error>>
  BY DEF ClearForward, Inv, Ordered, Handled, At
<1>2. Stable'
  BY <1>1 DEF ClearForward, Cleaned, InCall, Stable, Cleared
<1>3. CASE Goto(t, "return")
  BY <1>1, <1>2, <1>3, HandlerEnds DEF Within
<1>4. CASE thread' = [thread EXCEPT ![t].pc = "lock", ![t].nested = TRUE]
  <2> DEFINE r == [thread[t] EXCEPT !.pc = "lock", !.nested = TRUE]
  <2>1. thread' = [thread EXCEPT ![t] = r] /\ r \in Thread /\ r.pc = "lock" /\ r.nested
    BY <1>4 DEF Inv, Typed, Thread, Place
  <2> HIDE DEF r
  <2>2. thread'[t] = r /\ ~thread[t].nested /\ Holds(t)
    BY <2>1, <1>1 DEF Inv, Typed, Within, Holds
  <2>3. Handled(t)'
    BY <2>1, <2>2 DEF Handled, At
  <2> QED
    BY <2>1, <2>2, <2>3, <1>1, <1>2, HeldStep DEF Inv, Typed, Within
<1> QED
  BY <1>3, <1>4 DEF ClearForward

\* The clear forward that answers a clear back.
LEMMA CallEndKeeps == ASSUME Inv, NEW t \in Threads, CallEnd(t) PROVE Inv'
<1>1. thread[t].pc = "call_end" /\ Ended(t)
  BY DEF CallEnd, Inv, Ordered, Handled, At
<1>2. Stable'
  BY <1>1 DEF CallEnd, ReportCallEnd, Ended, HungUp, Stable, AtRest
<1> QED
  BY <1>1, <1>2, HandlerEnds DEF CallEnd, Within

\* openr2_chan_disconnect_call, whether the call is there, was cleared, or is gone.
LEMMA DisconnectKeeps == ASSUME Inv, NEW t \in Threads, Disconnect(t) PROVE Inv'
<1> DEFINE r == [thread[t] EXCEPT !.pc = "unlock"]
<1>1. /\ thread[t].pc = "disconnect" /\ Goto(t, "unlock") /\ "unlock" \in Place
      /\ UNCHANGED <<line, event, cas_read, lock, error>>
  BY DEF Disconnect, At, Place
<1>2. /\ r \in Thread /\ thread' = [thread EXCEPT ![t] = r] /\ thread'[t] = r
      /\ r.pc = "unlock" /\ r.nested = thread[t].nested
  BY <1>1, GotoIs DEF Inv
<1> HIDE DEF r
<1>3. Holds(t) /\ ~Busy(t)
  BY <1>1 DEF Holds, Busy
<1>4. Stable
  BY <1>3, OthersAreOut DEF Inv
<1>5. Stable'
  <2>1. CASE r2_state = "IDLE"
    BY <2>1, <1>1, <1>4 DEF Disconnect, Stable, AtRest, InCall, HungUp, Cleared
  <2>2. CASE r2_state = "CLEAR_FWD_RXD"
    BY <2>2, <1>1, <1>4 DEF Disconnect, ReportCallEnd, Stable, AtRest, InCall, HungUp, Cleared
  <2>3. CASE r2_state \notin {"IDLE", "CLEAR_FWD_RXD"}
    BY <2>3, <1>1, <1>4 DEF Disconnect, Stable, AtRest, InCall, HungUp, Cleared
  <2> QED
    BY <2>1, <2>2, <2>3
<1>6. Handled(t)'
  BY <1>2 DEF Handled, At
<1> QED
  BY <1>1, <1>2, <1>3, <1>5, <1>6, HeldStep DEF Inv, Typed, Within

-----------------------------------------------------------------------------
(* The theorem. *)

\* No thread of the application that keeps to the locked entry points makes another
\* see a call that is not there, or a protocol error that the far end did not make.
THEOREM OrderKept == ASSUME Locked PROVE Spec => []SeenInOrder
<1>1. Init => Inv
  BY InitInv
<1>2. Inv /\ [Next]_vars => Inv'
  <2> SUFFICES ASSUME Inv, [Next]_vars PROVE Inv'
    OBVIOUS
  <2>1. ASSUME NEW t \in Threads, Step(t) PROVE Inv'
    <3>1. ~ProtocolError(t)
      <4>1. thread[t].pc \in Place
        BY DEF Inv, Typed
      <4> QED
        BY <4>1 DEF ProtocolError, At, Place
    <3> QED
      BY <2>1, <3>1, EnterKeeps, GetEventKeeps, LeaveKeeps, ReturnKeeps, GetCasKeeps,
         CompareKeeps, StoreKeeps, SwitchKeeps, IncomingKeeps, ClearForwardKeeps,
         CallEndKeeps, DisconnectKeeps
      DEF Step
  <2>2. CASE UNCHANGED vars
    BY <2>2 DEF vars, chan, Inv, Typed, Exclusive, Ordered, Holds, Depth, Stable, AtRest,
                InCall, HungUp, Cleared, Busy, Handled, At, Expected, Seized, Cleaned, Ended
  <2> QED
    BY <2>1, <2>2, FarEndKeeps, CallKeeps DEF Next
<1>3. Inv => SeenInOrder
  <2> SUFFICES ASSUME Inv PROVE user # "confused"
    BY DEF SeenInOrder, Inv, Ordered
  <2>1. CASE \A t \in Threads : ~Busy(t)
    BY <2>1 DEF Inv, Ordered, Stable, AtRest, InCall, HungUp, Cleared
  <2>2. ASSUME NEW t \in Threads, Busy(t) PROVE user # "confused"
    BY <2>2 DEF Inv, Ordered, Busy, Handled, At, Seized, Cleaned, Ended, AtRest, InCall, HungUp
  <2> QED
    BY <2>1, <2>2
<1> QED
  BY <1>1, <1>2, <1>3, PTL DEF Spec
=============================================================================
