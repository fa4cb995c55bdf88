---------------------------- MODULE TimerRegistry ----------------------------
(***************************************************************************)
(* Animation timers: src/src/timer_registry.c.                             *)
(*                                                                         *)
(* Connection threads create and delete timers; the main thread ticks once *)
(* a frame.  The tick holds the registry's lock, except that it gives it   *)
(* back while it pushes an event: there the threads come in, and the slot  *)
(* the tick stands on may be deleted and given to another timer.           *)
(*                                                                         *)
(* Time is counted in units.  An interval of 0 is a positive one so small  *)
(* that the rounded subtraction `elapsed -= interval` changes nothing.     *)
(***************************************************************************)
EXTENDS Integers

CONSTANTS
    TimerMax,   \* TIMER_MAX
    Intervals,  \* intervals and delays that clients ask for
    MaxTimers,  \* bound: timers ever created
    MaxClock,   \* bound: the length of a run
    MaxFires    \* bound: events of one timer are counted up to this

ASSUME TimerMaxAssumption == TimerMax \in Nat \ {0}
ASSUME IntervalsAssumption == Intervals \subseteq Nat
ASSUME BoundsAssumption == MaxTimers \in Nat /\ MaxClock \in Nat /\ MaxFires \in Nat

Slot == 1..TimerMax
Id == 1..MaxTimers

TimerSlot == [id : Id \cup {0}, interval : Intervals \cup {0},
              elapsed : 0..MaxClock, repeat : BOOLEAN, used : BOOLEAN]

\* The main thread: outside timer_tick, at the head of the loop over the
\* slots, at the head of the `while`, or in the callback, without the lock.
Phase == {"idle", "slot", "while", "callback"}

VARIABLES
    slots,      \* the registry
    nextId,     \* number of timers created; their ids are 1, 2, ...
    tick,       \* timer_tick in progress: where it is and its locals
    clock,      \* the time
    lastTick,   \* the time of the current or the latest tick
    log         \* history, for each id: what was asked and what came of it

vars == <<slots, nextId, tick, clock, lastTick, log>>

LogEntry == [interval : Intervals \cup {0}, repeat : BOOLEAN,
             born : 0..MaxClock,    \* when it was created
             since : 0..MaxClock,   \* the latest tick before that
             grace : 0..MaxClock,   \* dt of the tick it was created in the middle of
             fires : 0..MaxFires,   \* events pushed
             late : 0..MaxFires,    \* of them, after TimerDelete was answered
             deleted : BOOLEAN]

Unborn == [interval |-> 0, repeat |-> FALSE, born |-> 0, since |-> 0,
           grace |-> 0, fires |-> 0, late |-> 0, deleted |-> FALSE]

Idle == [phase |-> "idle", i |-> 0, dt |-> 0, id |-> 0, once |-> FALSE]

TypeOK ==
    /\ slots \in [Slot -> TimerSlot]
    /\ nextId \in 0..MaxTimers
    /\ tick \in [phase : Phase, i : 0..TimerMax + 1, dt : 0..MaxClock,
                 id : Id \cup {0}, once : BOOLEAN]
    /\ tick.phase \in {"while", "callback"} => tick.i \in Slot
    /\ clock \in 0..MaxClock /\ lastTick \in 0..clock
    /\ log \in [Id -> LogEntry]

\* timer_registry_init.
Init ==
    /\ slots = [i \in Slot |-> [id |-> 0, interval |-> 0, elapsed |-> 0,
                                repeat |-> FALSE, used |-> FALSE]]
    /\ nextId = 0
    /\ tick = Idle
    /\ clock = 0 /\ lastTick = 0
    /\ log = [id \in Id |-> Unborn]

\* The main thread has the lock except outside the tick and in the callback.
LockFree == tick.phase \in {"idle", "callback"}

(***************************************************************************)
(* Connection threads                                                      *)
(***************************************************************************)

FreeSlots == {i \in Slot : ~slots[i].used}

First(S) == {i \in S : \A j \in S : i <= j}

\* timer_create takes the first free slot and clears it.
TimerCreate(interval, repeat) ==
    LET id == nextId + 1 IN
    /\ LockFree
    /\ nextId < MaxTimers
    /\ nextId' = id
    /\ \E i \in First(FreeSlots) :
         slots' = [slots EXCEPT ![i] = [id |-> id, interval |-> interval, elapsed |-> 0,
                                        repeat |-> repeat, used |-> TRUE]]
    /\ log' = [log EXCEPT ![id] =
                 [Unborn EXCEPT !.interval = interval, !.repeat = repeat,
                                !.born = clock, !.since = lastTick,
                                !.grace = tick.dt]]
    /\ UNCHANGED <<tick, clock, lastTick>>

\* timer_delete marks the slot unused and leaves its contents.
TimerDelete(id) ==
    /\ LockFree
    /\ \E i \in Slot :
         /\ slots[i].used /\ slots[i].id = id
         /\ slots' = [slots EXCEPT ![i].used = FALSE]
    /\ log' = [log EXCEPT ![id].deleted = TRUE]
    /\ UNCHANGED <<nextId, tick, clock, lastTick>>

(***************************************************************************)
(* The main thread                                                         *)
(***************************************************************************)

\* Time passes, in the rest of the frame.
Elapse ==
    /\ tick.phase = "idle"
    /\ clock < MaxClock
    /\ clock' = clock + 1
    /\ UNCHANGED <<slots, nextId, tick, lastTick, log>>

\* GetFrameTime: the time since the tick of the frame before.
TickBegin ==
    /\ tick.phase = "idle"
    /\ tick' = [Idle EXCEPT !.phase = "slot", !.i = 1, !.dt = clock - lastTick]
    /\ lastTick' = clock
    /\ UNCHANGED <<slots, nextId, clock, log>>

SkipUnused ==
    /\ tick.phase = "slot" /\ tick.i \in Slot
    /\ ~slots[tick.i].used
    /\ tick' = [tick EXCEPT !.i = @ + 1]
    /\ UNCHANGED <<slots, nextId, clock, lastTick, log>>

AddTime ==
    /\ tick.phase = "slot" /\ tick.i \in Slot
    /\ slots[tick.i].used
    /\ slots' = [slots EXCEPT ![tick.i].elapsed = @ + tick.dt]
    /\ tick' = [tick EXCEPT !.phase = "while"]
    /\ UNCHANGED <<nextId, clock, lastTick, log>>

\* elapsed >= interval; what rounds to 0 is less than any elapsed time.
Due(s) == s.elapsed >= s.interval /\ s.elapsed > 0

\* Fault: the tick never leaves the timer.
NotDueStays ==
    /\ tick.phase = "while"
    /\ ~Due(slots[tick.i])
    /\ UNCHANGED vars

NotDue ==
    /\ tick.phase = "while"
    /\ ~Due(slots[tick.i])
    /\ tick' = [tick EXCEPT !.phase = "slot", !.i = @ + 1]
    /\ UNCHANGED <<slots, nextId, clock, lastTick, log>>

\* Fault: the clock of the timer starts again from zero.
FireRestarts ==
    /\ tick.phase = "while"
    /\ Due(slots[tick.i])
    /\ LET s == slots[tick.i] IN
         /\ slots' = [slots EXCEPT ![tick.i].elapsed = 0, ![tick.i].used = s.repeat]
         /\ tick' = [tick EXCEPT !.phase = "callback", !.id = s.id, !.once = ~s.repeat]
    /\ UNCHANGED <<nextId, clock, lastTick, log>>

\* Fault: a one-shot timer keeps its slot.
FireKeepsSlot ==
    /\ tick.phase = "while"
    /\ Due(slots[tick.i])
    /\ LET s == slots[tick.i] IN
         /\ slots' = [slots EXCEPT ![tick.i].elapsed = @ - s.interval]
         /\ tick' = [tick EXCEPT !.phase = "callback", !.id = s.id, !.once = ~s.repeat]
    /\ UNCHANGED <<nextId, clock, lastTick, log>>

\* The timer's interval is taken off, a one-shot timer gives up its slot, and
\* the lock is released for the callback.
Fire ==
    /\ tick.phase = "while"
    /\ Due(slots[tick.i])
    /\ LET s == slots[tick.i] IN
         /\ slots' = [slots EXCEPT ![tick.i].elapsed = @ - s.interval,
                                   ![tick.i].used = s.repeat]
         /\ tick' = [tick EXCEPT !.phase = "callback", !.id = s.id, !.once = ~s.repeat]
    /\ UNCHANGED <<nextId, clock, lastTick, log>>

CountUp(n) == IF n < MaxFires THEN n + 1 ELSE n

Pushed(id) ==
    [log EXCEPT ![id].fires = CountUp(@),
                ![id].late = IF log[id].deleted THEN CountUp(@) ELSE @]

\* Fault: nobody looks whether the slot is still in use.
ReturnWithoutRecheck ==
    /\ tick.phase = "callback"
    /\ log' = Pushed(tick.id)
    /\ tick' = IF tick.once
               THEN [tick EXCEPT !.phase = "slot", !.i = @ + 1]
               ELSE [tick EXCEPT !.phase = "while"]
    /\ UNCHANGED <<slots, nextId, clock, lastTick>>

\* timer_fired_cb has pushed the event; with the lock again, the tick leaves
\* the timer if it was a one-shot or its slot is not in use any more.
Return ==
    /\ tick.phase = "callback"
    /\ log' = Pushed(tick.id)
    /\ tick' = IF tick.once \/ ~slots[tick.i].used
               THEN [tick EXCEPT !.phase = "slot", !.i = @ + 1]
               ELSE [tick EXCEPT !.phase = "while"]
    /\ UNCHANGED <<slots, nextId, clock, lastTick>>

TickEnd ==
    /\ tick.phase = "slot" /\ tick.i > TimerMax
    /\ tick' = Idle
    /\ UNCHANGED <<slots, nextId, clock, lastTick, log>>

MainStep == SkipUnused \/ AddTime \/ NotDue \/ Fire \/ Return \/ TickEnd

Next ==
    \/ \E interval \in Intervals, repeat \in BOOLEAN : TimerCreate(interval, repeat)
    \/ \E id \in Id : TimerDelete(id)
    \/ Elapse
    \/ TickBegin
    \/ SkipUnused
    \/ AddTime
    \/ NotDue
    \/ Fire
    \/ Return
    \/ TickEnd

Spec == Init /\ [][Next]_vars

\* The main thread runs; nothing is assumed of the others.
FairSpec == Spec /\ WF_vars(MainStep)

(***************************************************************************)
(* Properties                                                              *)
(***************************************************************************)

InUse == {i \in Slot : slots[i].used}

\* Between ticks no timer is due, and the time of its events and what is left
\* over add up to the time ticked since it was created: nothing is lost or
\* counted twice, however the slots changed hands in the callbacks.  A timer
\* created in the middle of a tick may or may not get that tick's time.
Punctual ==
    tick.phase = "idle" =>
        \A i \in InUse :
            LET s == slots[i]
                l == log[s.id]
                ticked == l.fires * s.interval + s.elapsed IN
            /\ s.elapsed < s.interval
            /\ l.fires < MaxFires =>
                 ticked \in {lastTick - l.since, lastTick - l.since + l.grace}

\* "One-shot timers are removed automatically after firing": one fires at most
\* once, although its slot is free, and may be taken, before its event is out.
OneShotFiresOnce == \A id \in Id : ~log[id].repeat => log[id].fires <= 1

\* After TimerDelete has been answered at most one event of that timer follows,
\* the one that was on its way.
DeletedFallsSilent == \A id \in Id : log[id].late <= 1

\* timer_registry.h: "Advance all timers by dt seconds": that comes to an end.
TickEnds == tick.phase # "idle" ~> tick.phase = "idle"

\* timer_registry.h, on elapsed: "seconds since last fire (or creation)".
ElapsedSinceCreation ==
    \A i \in InUse : slots[i].elapsed <= clock - log[slots[i].id].born
=============================================================================
