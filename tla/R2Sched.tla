------------------------------- MODULE R2Sched ------------------------------
(***************************************************************************)
(* Time: the timer lists of the channels of a context, and the loop of a   *)
(* user that asks for the time to the next event, sleeps so long and then  *)
(* processes its channels.  R2Chan has the same lists without the clock.   *)
(***************************************************************************)
EXTENDS Integers, Sequences

CONSTANTS Channels,
          Delays,          \* the ms given to openr2_chan_add_timer
          MaxTimers,       \* OR2_MAX_SCHED_TIMERS
          MaxId,           \* timers a run schedules per channel
          Start,           \* the first moments of a run, in us
          MaxWakes,        \* how often the user sleeps in a run
          Late,            \* by how many us a sleep is too long
          Early,           \* how many us before its end the line ends a sleep
          WholeContext     \* the user asks for the context, not for one channel

SchedAssumption ==
  /\ Delays \subseteq Nat /\ MaxTimers \in Nat \ {0} /\ MaxId \in Nat
  /\ Start \subseteq Nat /\ MaxWakes \in Nat
  /\ Late \subseteq Nat /\ Early \subseteq Nat
  /\ WholeContext \in BOOLEAN

VARIABLES now,             \* in us
          chanlist,        \* the channels of the context, the head first
          sched_timers,    \* per channel, the timers in the order they expire
          timer_id,        \* per channel, the last id given
          to_dispatch,     \* per channel, the expired timers not yet called
          user,            \* what the user does; until = -1 is an endless sleep
          wakes,           \* sleeps so far
          idle             \* full sleeps in a row after which no timer had expired

vars == <<now, chanlist, sched_timers, timer_id, to_dispatch, user, wakes, idle>>

SECOND == 1000000

\* What gettimeofday returns.
tv_sec == now \div SECOND
tv_usec == now % SECOND

Timer == [sec : Nat, usec : 0 .. SECOND, id : Nat]
Micros(t) == t.sec * SECOND + t.usec

\* C's division by 1000, which rounds towards zero.
Thousandth(n) == IF n >= 0 THEN n \div 1000 ELSE -((-n) \div 1000)

\* The ms until a timer expires, the way all three readers compute them.
ms_until(t) ==
  (t.sec - tv_sec) * 1000 + Thousandth(t.usec - tv_usec)

Before(s, t) == IF s.sec = t.sec THEN s.usec < t.usec ELSE s.sec < t.sec
-----------------------------------------------------------------------------
\* The timer openr2_chan_add_timer builds: a sum of exactly one second is not
\* carried.
expiry(ms, id) ==
  LET sec  == tv_sec + ms \div 1000
      usec == tv_usec + (ms % 1000) * 1000
  IN IF usec > SECOND THEN [sec |-> sec + 1, usec |-> usec - SECOND, id |-> id]
     ELSE [sec |-> sec, usec |-> usec, id |-> id]

\* The slot of a new timer: in front of the first that expires later.
Place(s, t) ==
  CHOOSE i \in 1 .. Len(s) + 1 :
    /\ \A k \in 1 .. i - 1 : ~Before(t, s[k])
    /\ i <= Len(s) => Before(t, s[i])

InsertTimer(s, i, t) ==
  [k \in 1 .. Len(s) + 1 |-> IF k < i THEN s[k] ELSE IF k = i THEN t ELSE s[k - 1]]

RemoveTimer(s, i) ==
  [k \in 1 .. Len(s) - 1 |-> IF k < i THEN s[k] ELSE s[k + 1]]

InContext == { chanlist[k] : k \in 1 .. Len(chanlist) }

\* Who may call: the user between its sleeps, or a callback of this channel.
Running(c) ==
  /\ c \in InContext
  /\ \/ user.pc = "work"
     \/ user.pc = "dispatch" /\ to_dispatch[c] # <<>>

openr2_chan_add_timer(c, ms) ==
  /\ Running(c) /\ timer_id[c] < MaxId
  /\ Len(sched_timers[c]) < MaxTimers
  /\ timer_id' = [timer_id EXCEPT ![c] = @ + 1]
  /\ LET t == expiry(ms, timer_id'[c])
     IN sched_timers' = [sched_timers EXCEPT ![c] = InsertTimer(@, Place(@, t), t)]
  /\ idle' = 0
  /\ UNCHANGED <<now, chanlist, to_dispatch, user, wakes>>

openr2_chan_cancel_timer(c, i) ==
  /\ Running(c)
  /\ sched_timers' = [sched_timers EXCEPT ![c] = RemoveTimer(@, i)]
  /\ idle' = 0
  /\ UNCHANGED <<now, chanlist, timer_id, to_dispatch, user, wakes>>

openr2_chan_cancel_all_timers(c) ==
  /\ Running(c)
  /\ sched_timers' = [sched_timers EXCEPT ![c] = <<>>]
  /\ timer_id' = [timer_id EXCEPT ![c] = 1]
  /\ idle' = 0
  /\ UNCHANGED <<now, chanlist, to_dispatch, user, wakes>>
-----------------------------------------------------------------------------
Expired(t) == ms_until(t) <= 0

\* The slot of the first expired timer.
IsNextExpired(s, i) ==
  Expired(s[i]) /\ \A k \in 1 .. i - 1 : ~Expired(s[k])

\* openr2_chan_handle_timers takes the expired timers off the list, and then
\* calls them one after the other.
openr2_chan_handle_timers(c) ==
  /\ user.pc = "process" /\ c \in user.serve
  /\ user' = [user EXCEPT !.pc = "collect", !.serve = {c}, !.later = user.serve \ {c}]
  /\ UNCHANGED <<now, chanlist, sched_timers, timer_id, to_dispatch, wakes, idle>>

Collect(c, i) ==
  /\ user.pc = "collect" /\ c \in user.serve
  /\ IsNextExpired(sched_timers[c], i)
  /\ to_dispatch' = [to_dispatch EXCEPT ![c] = Append(@, sched_timers[c][i])]
  /\ sched_timers' = [sched_timers EXCEPT ![c] = RemoveTimer(@, i)]
  /\ UNCHANGED <<now, chanlist, timer_id, user, wakes, idle>>

Collected(c) ==
  /\ user.pc = "collect" /\ c \in user.serve
  /\ \A i \in 1 .. Len(sched_timers[c]) : ~Expired(sched_timers[c][i])
  /\ user' = [user EXCEPT !.pc = "dispatch"]
  /\ UNCHANGED <<now, chanlist, sched_timers, timer_id, to_dispatch, wakes, idle>>

Dispatch(c) ==
  /\ user.pc = "dispatch" /\ to_dispatch[c] # <<>>
  /\ to_dispatch' = [to_dispatch EXCEPT ![c] = Tail(@)]
  /\ idle' = 0
  /\ UNCHANGED <<now, chanlist, sched_timers, timer_id, user, wakes>>

\* The call of this channel is over; the user goes on with its next channel.
Processed ==
  /\ user.pc = "dispatch" /\ \A c \in Channels : to_dispatch[c] = <<>>
  /\ user' = [user EXCEPT !.pc = IF user.later = {} THEN "work" ELSE "process",
                          !.serve = user.later, !.later = {}]
  /\ UNCHANGED <<now, chanlist, sched_timers, timer_id, to_dispatch, wakes, idle>>
-----------------------------------------------------------------------------
openr2_context_add_channel(c) ==
  /\ user.pc = "work" /\ \A k \in 1 .. Len(chanlist) : chanlist[k] # c
  /\ chanlist' = <<c>> \o chanlist
  /\ UNCHANGED <<now, sched_timers, timer_id, to_dispatch, user, wakes, idle>>

\* Below zero means at once.
AtOnce(ms) == IF ms < 0 THEN 0 ELSE ms

openr2_chan_get_time_to_next_event(c) ==
  IF sched_timers[c] = <<>> THEN -1 ELSE AtOnce(ms_until(sched_timers[c][1]))

\* The first slot of a channel; without timers it holds zeros.
FirstSlot(c) ==
  IF sched_timers[c] = <<>> THEN [sec |-> 0, usec |-> 0, id |-> 0] ELSE sched_timers[c][1]

\* Mutant: the comparison keeps the later of the two.
Challenge_later(w, c) == IF Before(FirstSlot(w), FirstSlot(c)) THEN c ELSE w

\* The winner w against the next channel c of the list, which may have no timer.
Challenge(w, c) == IF Before(FirstSlot(c), FirstSlot(w)) THEN c ELSE w

\* The channels are walked in order; one without timers is passed over, and is
\* then not the one to challenge its neighbour.
openr2_context_get_time_to_next_event ==
  LET n == Len(chanlist)
      winner[k \in 0 .. n] ==
        IF k = 0 THEN <<>>
        ELSE IF sched_timers[chanlist[k]] = <<>> THEN winner[k - 1]
        ELSE LET w == IF winner[k - 1] = <<>> THEN chanlist[k] ELSE winner[k - 1][1]
             IN <<IF k = n THEN w ELSE Challenge(w, chanlist[k + 1])>>
  IN IF n = 0 \/ sched_timers[chanlist[n]] = <<>> THEN -1
     ELSE AtOnce(ms_until(FirstSlot(winner[n][1])))

Sleep(ms, serve) ==
  /\ user' = [pc |-> "asleep", until |-> IF ms = -1 THEN -1 ELSE now + ms * 1000,
              serve |-> serve, later |-> {}]
  /\ UNCHANGED <<now, chanlist, sched_timers, timer_id, to_dispatch, wakes, idle>>

AskChannel(c) ==
  /\ ~WholeContext /\ user.pc = "work" /\ c \in InContext
  /\ Sleep(openr2_chan_get_time_to_next_event(c), {c})

AskContext ==
  /\ WholeContext /\ user.pc = "work" /\ chanlist # <<>>
  /\ Sleep(openr2_context_get_time_to_next_event, InContext)

WakeAt(t, n) ==
  /\ user.pc = "asleep" /\ wakes < MaxWakes
  /\ now' = t /\ idle' = n
  /\ wakes' = wakes + 1
  /\ user' = [user EXCEPT !.pc = "process"]
  /\ UNCHANGED <<chanlist, sched_timers, timer_id, to_dispatch>>

Timeout(late) == user.until # -1 /\ WakeAt(user.until + late, idle + 1)

LineEvent(early) ==
  IF user.until = -1 THEN WakeAt(now + early, 0)
  ELSE now < user.until - early /\ WakeAt(user.until - early, 0)
-----------------------------------------------------------------------------
Init ==
  /\ now \in Start
  /\ chanlist = <<>>
  /\ sched_timers = [c \in Channels |-> <<>>]
  /\ timer_id = [c \in Channels |-> 0]
  /\ to_dispatch = [c \in Channels |-> <<>>]
  /\ user = [pc |-> "work", until |-> -1, serve |-> {}, later |-> {}]
  /\ wakes = 0
  /\ idle = 0

ChannelStep(c) ==
  \/ \E ms \in Delays : openr2_chan_add_timer(c, ms)
  \/ \E i \in 1 .. Len(sched_timers[c]) : openr2_chan_cancel_timer(c, i)
  \/ openr2_chan_cancel_all_timers(c)
  \/ openr2_chan_handle_timers(c)
  \/ \E i \in 1 .. Len(sched_timers[c]) : Collect(c, i)
  \/ Collected(c)
  \/ Dispatch(c)
  \/ openr2_context_add_channel(c)
  \/ AskChannel(c)

Next ==
  \/ \E c \in Channels : ChannelStep(c)
  \/ AskContext
  \/ Processed
  \/ \E late \in Late : Timeout(late)
  \/ \E early \in Early : LineEvent(early)

Spec == Init /\ [][Next]_vars
-----------------------------------------------------------------------------
TypeOK ==
  /\ now \in Nat
  /\ chanlist \in Seq(Channels)
  /\ sched_timers \in [Channels -> Seq(Timer)]
  /\ timer_id \in [Channels -> Nat]
  /\ to_dispatch \in [Channels -> Seq(Timer)]
  /\ user \in [pc : {"work", "asleep", "process", "collect", "dispatch"}, until : Nat \cup {-1},
               serve : SUBSET Channels, later : SUBSET Channels]
  /\ wakes \in Nat /\ idle \in Nat

Ordered(s) == \A i, j \in 1 .. Len(s) : i <= j => Micros(s[i]) <= Micros(s[j])

\* The list is in order of the moments the timers expire, a second boundary or
\* a sum that was not carried notwithstanding, so the first timer is the next
\* event (the search for a slot in openr2_chan_add_timer).
Sorted == \A c \in Channels : Ordered(sched_timers[c])

\* While expired timers are called, none of them is a millisecond or more early,
\* they are called in the order they expired, and no expired timer is left on
\* the list (openr2_chan_handle_timers).
Punctual ==
  user.pc = "dispatch" => \A c \in Channels : to_dispatch[c] # <<>> =>
    /\ Ordered(to_dispatch[c])
    /\ \A k \in 1 .. Len(to_dispatch[c]) : Micros(to_dispatch[c][k]) < now + 1000
    /\ \A k \in 1 .. Len(sched_timers[c]) : Micros(sched_timers[c][k]) >= now

\* A sleep is over at once or less than a millisecond after any timer of the
\* channel.
InTime(c) ==
  /\ user.until = -1 => sched_timers[c] = <<>>
  /\ user.until # -1 => \A k \in 1 .. Len(sched_timers[c]) :
       user.until = now \/ user.until < Micros(sched_timers[c][k]) + 1000

\* The time openr2_chan_get_time_to_next_event gives lets no timer of the
\* channel be missed by a millisecond or more.
SleepSafe == user.pc = "asleep" => \A c \in user.serve : InTime(c)

\* The same for openr2_context_get_time_to_next_event when every channel of the
\* context has a timer.
SleepSafeIfAllArmed ==
  (user.pc = "asleep" /\ \A c \in user.serve : sched_timers[c] # <<>>) =>
    \A c \in user.serve : InTime(c)

\* A user that sleeps as long as it was told wakes up for nothing at most once
\* before a timer expires: the rounding of the three readers agrees, up to one
\* millisecond at a second boundary.
NoSpin == user.pc = "work" => idle <= 1
=============================================================================
