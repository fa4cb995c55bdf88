-------------------------- MODULE TimerRegistryProofs --------------------------
(***************************************************************************)
(* Theorems about TimerRegistry, for any number of slots, timers and       *)
(* intervals and runs of any length.                                       *)
(***************************************************************************)
EXTENDS TimerRegistry, TLAPS

(***************************************************************************)
(* The inductive invariant                                                 *)
(***************************************************************************)

\* What the proofs need of the types: how much time has passed is left open.
Timed == [id : Id \cup {0}, interval : Nat, elapsed : Int, repeat : BOOLEAN, used : BOOLEAN]

Ticking == [phase : Phase, i : Nat, dt : Int, id : Id \cup {0}, once : BOOLEAN]

Entry == [interval : Nat, repeat : BOOLEAN, born : Int, since : Int, grace : Int,
          fires : Nat, late : Nat, deleted : BOOLEAN]

Typed ==
    /\ slots \in [Slot -> Timed]
    /\ nextId \in 0..MaxTimers
    /\ tick \in Ticking
    /\ tick.phase \in {"while", "callback"} => tick.i \in Slot
    /\ clock \in Int /\ lastTick \in Int
    /\ log \in [Id -> Entry]

\* A slot in use is the one slot of a timer that was created, that nobody has
\* deleted, and that, if it fires once, has not fired.
SlotsAreTimers ==
    /\ \A i \in InUse :
          LET s == slots[i] IN
          /\ s.id \in 1..nextId
          /\ s.repeat = log[s.id].repeat
          /\ ~log[s.id].deleted
          /\ ~s.repeat => log[s.id].fires = 0
    /\ \A i, j \in InUse : slots[i].id = slots[j].id => i = j

\* While the tick stands on a timer it is in use.  When the lock is released
\* for the event of a one-shot timer its slot is free already, and the timer
\* has neither fired before nor a slot to fire from again; one that is deleted
\* meanwhile has had no event since.
TickOnTimer ==
    /\ tick.phase = "while" => tick.i \in InUse
    /\ tick.phase = "callback" =>
          /\ tick.id \in 1..nextId
          /\ tick.once = ~log[tick.id].repeat
          /\ tick.once => /\ log[tick.id].fires = 0
                          /\ \A i \in InUse : slots[i].id # tick.id
          /\ log[tick.id].late = 0

\* Only a timer that was created has a history.
Histories ==
    /\ \A id \in Id : id > nextId => log[id] = Unborn
    /\ \A id \in Id : ~log[id].deleted => log[id].late = 0

IInv == /\ Typed /\ SlotsAreTimers /\ TickOnTimer /\ Histories
        /\ OneShotFiresOnce /\ DeletedFallsSilent

(***************************************************************************)
(* Connection threads                                                      *)
(***************************************************************************)

LEMMA CreateKeeps ==
  ASSUME IInv, NEW interval \in Intervals, NEW repeat \in BOOLEAN,
         TimerCreate(interval, repeat)
  PROVE  IInv'
<1> USE DEF IInv
<1> DEFINE new == nextId + 1
           s == [id |-> new, interval |-> interval, elapsed |-> 0,
                 repeat |-> repeat, used |-> TRUE]
           l == [interval |-> interval, repeat |-> repeat, born |-> clock,
                 since |-> lastTick, grace |-> tick.dt, fires |-> 0, late |-> 0,
                 deleted |-> FALSE]
<1>1. /\ LockFree /\ nextId < MaxTimers
      /\ nextId' = new
      /\ \E i \in FreeSlots : slots' = [slots EXCEPT ![i] = s]
      /\ log' = [log EXCEPT ![new] = l]
      /\ UNCHANGED <<tick, clock, lastTick>>
  <2>1. ASSUME NEW x, x = [Unborn EXCEPT !.interval = interval, !.repeat = repeat,
                             !.born = clock, !.since = lastTick, !.grace = tick.dt]
        PROVE  x = l
    BY <2>1 DEF Unborn
  <2> HIDE DEF l
  <2> QED BY <2>1 DEF TimerCreate, First
<1>2. PICK i \in Slot : i \notin InUse /\ slots' = [slots EXCEPT ![i] = s]
  BY <1>1 DEF FreeSlots, InUse
<1>3. nextId \in Nat /\ new \in Id /\ new \in 0..MaxTimers /\ new > nextId /\ new \in 1..new
  BY <1>1, BoundsAssumption DEF Typed, Id
<1>4. /\ s \in Timed /\ s.used /\ s.id = new /\ s.repeat = repeat
  BY <1>3, IntervalsAssumption DEF Timed
<1>5. l \in Entry /\ l.repeat = repeat /\ l.fires = 0 /\ l.late = 0 /\ ~l.deleted
  BY IntervalsAssumption DEF Entry, Typed, Ticking
<1> HIDE DEF s, l
<1>6. slots'[i] = s /\ \A j \in Slot : j # i => slots'[j] = slots[j]
  BY <1>2 DEF Typed
<1>7. log'[new] = l /\ \A id \in Id : id # new => log'[id] = log[id]
  BY <1>1, <1>3 DEF Typed
<1>8. InUse' = InUse \cup {i} /\ \A j \in InUse : slots'[j] = slots[j] /\ j \in Slot
  BY <1>2, <1>4, <1>6 DEF InUse
<1>9. Typed'
  <2>1. slots' \in [Slot -> Timed]
    BY <1>2, <1>4 DEF Typed
  <2>2. log' \in [Id -> Entry]
    BY <1>1, <1>5 DEF Typed
  <2> QED BY <1>1, <1>3, <2>1, <2>2 DEF Typed
<1>10. \A j \in InUse : slots[j].id \in 1..nextId /\ slots[j].id \in Id /\ slots[j].id # new
  BY <1>1, <1>3, BoundsAssumption DEF SlotsAreTimers, Id, Typed
<1>11. SlotsAreTimers'
  <2>1. ASSUME NEW j \in InUse'
        PROVE  LET t == slots'[j] IN
               /\ t.id \in 1..new
               /\ t.repeat = log'[t.id].repeat
               /\ ~log'[t.id].deleted
               /\ ~t.repeat => log'[t.id].fires = 0
    <3>1. CASE j = i
      BY <1>3, <1>4, <1>5, <1>6, <1>7, <3>1
    <3>2. CASE j \in InUse
      <4>1. slots[j].id \in 1..new
        BY <1>3, <1>10, <3>2
      <4> QED BY <1>7, <1>8, <1>10, <3>2, <4>1 DEF SlotsAreTimers
    <3> QED BY <1>8, <3>1, <3>2
  <2>2. \A j, k \in InUse' : slots'[j].id = slots'[k].id => j = k
    BY <1>4, <1>6, <1>8, <1>10 DEF SlotsAreTimers
  <2> QED BY <1>1, <2>1, <2>2 DEF SlotsAreTimers
<1>12. TickOnTimer'
  <2>1. ASSUME tick.phase = "callback"
        PROVE  /\ tick.id \in 1..new
               /\ tick.once = ~log'[tick.id].repeat
               /\ tick.once => /\ log'[tick.id].fires = 0
                               /\ \A j \in InUse' : slots'[j].id # tick.id
               /\ log'[tick.id].late = 0
    <3>1. tick.id \in 1..nextId
      BY <2>1 DEF TickOnTimer
    <3>2. tick.id # new /\ tick.id \in Id /\ tick.id \in 1..new
      BY <1>1, <1>3, <3>1, BoundsAssumption DEF Id
    <3>3. log'[tick.id] = log[tick.id]
      BY <1>7, <3>2
    <3> QED BY <1>4, <1>6, <1>8, <2>1, <3>2, <3>3 DEF TickOnTimer
  <2> QED BY <1>1, <2>1 DEF TickOnTimer, LockFree
<1>13. Histories'
  <2>1. \A id \in Id : id > new => id > nextId /\ id # new
    BY <1>3 DEF Id
  <2> QED BY <1>1, <1>5, <1>7, <2>1 DEF Histories
<1>14. OneShotFiresOnce' /\ DeletedFallsSilent'
  BY <1>5, <1>7 DEF OneShotFiresOnce, DeletedFallsSilent
<1> QED BY <1>9, <1>11, <1>12, <1>13, <1>14

LEMMA DeleteKeeps ==
  ASSUME IInv, NEW id \in Id, TimerDelete(id)
  PROVE  IInv'
<1> USE DEF IInv
<1>1. PICK i \in Slot : /\ slots[i].used /\ slots[i].id = id
                        /\ slots' = [slots EXCEPT ![i].used = FALSE]
  BY DEF TimerDelete
<1>2. LockFree /\ UNCHANGED <<nextId, tick, clock, lastTick>>
  BY DEF TimerDelete
<1> DEFINE l == [log[id] EXCEPT !.deleted = TRUE]
           s == [slots[i] EXCEPT !.used = FALSE]
<1>3. log' = [log EXCEPT ![id] = l] /\ slots' = [slots EXCEPT ![i] = s]
  BY <1>1 DEF TimerDelete, Typed
<1>4. /\ l \in Entry
      /\ l.fires = log[id].fires /\ l.late = log[id].late /\ l.repeat = log[id].repeat
  BY DEF Typed, Entry
<1>5. s \in Timed /\ ~s.used
  BY DEF Typed, Timed
<1> HIDE DEF l, s
<1>6. log'[id] = l /\ \A d \in Id : d # id => log'[d] = log[d]
  BY <1>3 DEF Typed
<1>7. slots'[i] = s /\ \A j \in Slot : j # i => slots'[j] = slots[j]
  BY <1>3 DEF Typed
<1>8. i \in InUse /\ InUse' = InUse \ {i} /\ \A j \in InUse' : slots'[j] = slots[j] /\ j \in InUse
  BY <1>1, <1>5, <1>7 DEF InUse
<1>9. \A d \in Id : /\ log'[d].fires = log[d].fires /\ log'[d].late = log[d].late
                    /\ log'[d].repeat = log[d].repeat
  BY <1>4, <1>6
<1>10. Typed'
  <2>1. slots' \in [Slot -> Timed]
    BY <1>3, <1>5 DEF Typed
  <2>2. log' \in [Id -> Entry]
    BY <1>3, <1>4 DEF Typed
  <2> QED BY <1>2, <2>1, <2>2 DEF Typed
<1>11. \A j \in InUse' : slots[j].id # id /\ slots[j].id \in Id
  BY <1>1, <1>8, BoundsAssumption DEF SlotsAreTimers, Typed, Id
<1>12. SlotsAreTimers'
  BY <1>2, <1>6, <1>8, <1>11 DEF SlotsAreTimers
<1>13. TickOnTimer'
  <2>1. ASSUME tick.phase = "callback"
        PROVE  /\ tick.id \in 1..nextId
               /\ tick.once = ~log'[tick.id].repeat
               /\ tick.once => /\ log'[tick.id].fires = 0
                               /\ \A j \in InUse' : slots'[j].id # tick.id
               /\ log'[tick.id].late = 0
    <3>1. tick.id \in 1..nextId /\ tick.id \in Id
      BY <2>1, BoundsAssumption DEF TickOnTimer, Typed, Id
    <3> QED BY <1>8, <1>9, <2>1, <3>1 DEF TickOnTimer
  <2> QED BY <1>2, <2>1 DEF TickOnTimer, LockFree
<1>14. Histories'
  <2>1. id \in 1..nextId /\ log[id].late = 0
    BY <1>1, <1>8 DEF SlotsAreTimers, Histories
  <2>2. \A d \in Id : d > nextId => d # id
    BY <2>1, BoundsAssumption DEF Typed, Id
  <2> QED BY <1>2, <1>4, <1>6, <2>1, <2>2 DEF Histories
<1>15. OneShotFiresOnce' /\ DeletedFallsSilent'
  BY <1>9 DEF OneShotFiresOnce, DeletedFallsSilent
<1> QED BY <1>10, <1>12, <1>13, <1>14, <1>15

(***************************************************************************)
(* The main thread                                                         *)
(***************************************************************************)

\* The tick goes on to the next slot.
LEMMA NextSlot ==
  ASSUME NEW t \in Ticking, NEW u, u = [t EXCEPT !.phase = "slot", !.i = @ + 1]
  PROVE  u \in Ticking /\ u.phase = "slot"
<1> DEFINE v == [t EXCEPT !.phase = "slot"]
<1>1. v \in Ticking /\ v.phase = "slot" /\ v.i = t.i
  BY DEF Ticking, Phase
<1>2. u = [v EXCEPT !.i = @ + 1]
  BY <1>1
<1> HIDE DEF v
<1> QED BY <1>1, <1>2 DEF Ticking

\* Where the tick may be without a timer to answer for.
LEMMA AsideKeeps ==
  ASSUME IInv, UNCHANGED <<slots, nextId, log>>,
         UNCHANGED tick \/ tick'.phase \in {"slot", "idle"},
         tick' \in Ticking, clock' \in Int, lastTick' \in Int
  PROVE  IInv'
<1> USE DEF IInv
<1>1. Typed'
  BY DEF Typed
<1>2. InUse' = InUse
  BY DEF InUse
<1>3. TickOnTimer'
  BY <1>2 DEF TickOnTimer
<1> QED BY <1>1, <1>2, <1>3
        DEF SlotsAreTimers, Histories, OneShotFiresOnce, DeletedFallsSilent

\* Steps that leave timers and histories alone and stay outside the callback.
LEMMA MoveKeeps ==
  ASSUME IInv, Elapse \/ TickBegin \/ SkipUnused \/ NotDue \/ TickEnd
  PROVE  IInv'
<1> DEFINE Aside == /\ UNCHANGED <<slots, nextId, log>>
                    /\ UNCHANGED tick \/ tick'.phase \in {"slot", "idle"}
                    /\ tick' \in Ticking /\ clock' \in Int /\ lastTick' \in Int
<1>1. tick \in Ticking /\ clock \in Int /\ lastTick \in Int
  BY DEF IInv, Typed
<1>2. ASSUME Elapse PROVE Aside
  BY <1>1, <1>2 DEF Elapse
<1>3. ASSUME TickBegin PROVE Aside
  <2>1. tick' = [phase |-> "slot", i |-> 1, dt |-> clock - lastTick,
                 id |-> 0, once |-> FALSE]
    BY <1>3 DEF TickBegin, Idle
  <2>2. UNCHANGED <<slots, nextId, clock, log>> /\ lastTick' = clock
    BY <1>3 DEF TickBegin
  <2> QED BY <1>1, <2>1, <2>2 DEF Ticking, Phase
<1>4. ASSUME SkipUnused PROVE Aside
  BY <1>1, <1>4 DEF SkipUnused, Ticking
<1>5. ASSUME NotDue PROVE Aside
  BY <1>1, <1>5, NextSlot DEF NotDue
<1>6. ASSUME TickEnd PROVE Aside
  BY <1>1, <1>6 DEF TickEnd, Idle, Ticking, Phase
<1> QED BY <1>2, <1>3, <1>4, <1>5, <1>6, AsideKeeps

LEMMA AddTimeKeeps ==
  ASSUME IInv, AddTime
  PROVE  IInv'
<1> USE DEF IInv
<1> DEFINE i == tick.i
           t == slots[i].elapsed + tick.dt
           s == [slots[i] EXCEPT !.elapsed = t]
<1>1. /\ i \in Slot /\ slots[i].used
      /\ slots' = [slots EXCEPT ![i] = s]
      /\ tick' = [tick EXCEPT !.phase = "while"]
      /\ UNCHANGED <<nextId, clock, lastTick, log>>
  BY DEF AddTime, Typed
<1>2. /\ s \in Timed
      /\ s.id = slots[i].id /\ s.repeat = slots[i].repeat /\ s.used = slots[i].used
  <2>1. slots[i] \in Timed /\ t \in Int
    BY <1>1 DEF Typed, Timed, Ticking
  <2> HIDE DEF t
  <2> QED BY <2>1 DEF Timed
<1>3. tick' \in Ticking /\ tick'.phase = "while" /\ tick'.i = i
  BY <1>1 DEF Typed, Ticking, Phase
<1> HIDE DEF i, s
<1>4. slots'[i] = s /\ \A j \in Slot : j # i => slots'[j] = slots[j]
  BY <1>1 DEF Typed
<1>5. \A j \in Slot : /\ slots'[j].id = slots[j].id
                      /\ slots'[j].repeat = slots[j].repeat
                      /\ slots'[j].used = slots[j].used
  BY <1>2, <1>4
<1>6. InUse' = InUse /\ i \in InUse /\ InUse \subseteq Slot
  BY <1>1, <1>5 DEF InUse
<1>7. Typed'
  BY <1>1, <1>2, <1>3 DEF Typed
<1>8. SlotsAreTimers'
  BY <1>1, <1>5, <1>6 DEF SlotsAreTimers
<1>9. TickOnTimer'
  BY <1>3, <1>6 DEF TickOnTimer
<1> QED BY <1>1, <1>7, <1>8, <1>9 DEF Histories, OneShotFiresOnce, DeletedFallsSilent

LEMMA SlotChange ==
  ASSUME NEW f \in [Slot -> Timed], NEW i \in Slot, NEW a \in Int, NEW b \in BOOLEAN,
         NEW g, g = [f EXCEPT ![i].elapsed = a, ![i].used = b]
  PROVE  /\ g \in [Slot -> Timed]
         /\ g[i].id = f[i].id /\ g[i].repeat = f[i].repeat /\ g[i].used = b
         /\ g[i].interval = f[i].interval /\ g[i].elapsed = a
         /\ \A j \in Slot : j # i => g[j] = f[j]
<1> DEFINE v == [f[i] EXCEPT !.elapsed = a]
           w == [v EXCEPT !.used = b]
<1>1. g = [f EXCEPT ![i] = w]
  OBVIOUS
<1>2. /\ v \in Timed /\ v.id = f[i].id /\ v.repeat = f[i].repeat
      /\ v.interval = f[i].interval /\ v.elapsed = a
  BY DEF Timed
<1> HIDE DEF v
<1>3. /\ w \in Timed /\ w.id = v.id /\ w.repeat = v.repeat /\ w.used = b
      /\ w.interval = v.interval /\ w.elapsed = v.elapsed
  BY <1>2 DEF Timed
<1> HIDE DEF w
<1> QED BY <1>1, <1>2, <1>3

LEMMA FireKeeps ==
  ASSUME IInv, Fire
  PROVE  IInv'
<1> USE DEF IInv
<1> DEFINE i == tick.i
           s == slots[i]
           t == [phase |-> "callback", i |-> i, dt |-> tick.dt, id |-> s.id,
                 once |-> ~s.repeat]
<1>1. i \in Slot /\ i \in InUse /\ tick.phase = "while"
  BY DEF Fire, Typed, TickOnTimer
<1>2. s \in Timed /\ tick \in Ticking /\ slots \in [Slot -> Timed]
  BY <1>1 DEF Typed
<1>3. slots' = [slots EXCEPT ![i].elapsed = s.elapsed - s.interval, ![i].used = s.repeat]
  BY DEF Fire
<1>4. tick' = t
  BY <1>1, <1>2 DEF Fire, Ticking
<1>5. UNCHANGED <<nextId, clock, lastTick, log>>
  BY DEF Fire
<1>6. s.elapsed - s.interval \in Int /\ s.repeat \in BOOLEAN
  BY <1>2 DEF Timed
<1>7. t \in Ticking /\ t.phase = "callback" /\ t.i = i /\ t.id = s.id /\ t.once = ~s.repeat
  BY <1>2 DEF Ticking, Timed, Phase
<1> HIDE DEF t
<1>8. /\ slots' \in [Slot -> Timed]
      /\ slots'[i].id = s.id /\ slots'[i].repeat = s.repeat /\ slots'[i].used = s.repeat
      /\ \A j \in Slot : j # i => slots'[j] = slots[j]
  BY <1>1, <1>2, <1>3, <1>6, SlotChange
<1>9. \A j \in InUse' : /\ j \in InUse
                        /\ slots'[j].id = slots[j].id
                        /\ slots'[j].repeat = slots[j].repeat
                        /\ j = i => s.repeat
  BY <1>1, <1>8 DEF InUse
<1>10. /\ s.id \in 1..nextId /\ s.id \in Id
       /\ s.repeat = log[s.id].repeat
       /\ ~s.repeat => log[s.id].fires = 0
       /\ log[s.id].late = 0
  <2>1. /\ s.id \in 1..nextId /\ s.repeat = log[s.id].repeat
        /\ ~log[s.id].deleted
        /\ ~s.repeat => log[s.id].fires = 0
    BY <1>1 DEF SlotsAreTimers
  <2>2. s.id \in Id
    BY <2>1, BoundsAssumption DEF Typed, Id
  <2> QED BY <2>1, <2>2 DEF Histories
<1>11. Typed'
  BY <1>1, <1>4, <1>5, <1>7, <1>8 DEF Typed
<1>12. SlotsAreTimers'
  BY <1>5, <1>9 DEF SlotsAreTimers
<1>13. TickOnTimer'
  <2>1. ASSUME ~s.repeat, NEW j \in InUse' PROVE slots'[j].id # s.id
    BY <1>1, <1>9, <2>1 DEF SlotsAreTimers
  <2> QED BY <1>4, <1>5, <1>7, <1>10, <2>1 DEF TickOnTimer
<1> QED BY <1>5, <1>11, <1>12, <1>13
        DEF Histories, OneShotFiresOnce, DeletedFallsSilent

\* A capped count stays a count and grows by one at most.
LEMMA CountUpByOne ==
  ASSUME NEW n \in Nat
  PROVE  CountUp(n) \in Nat /\ CountUp(n) <= n + 1
BY BoundsAssumption DEF CountUp

LEMMA EntryChange ==
  ASSUME NEW f \in [Id -> Entry], NEW d \in Id, NEW a \in Nat, NEW b \in Nat,
         NEW g, g = [f EXCEPT ![d].fires = a, ![d].late = b]
  PROVE  /\ g \in [Id -> Entry]
         /\ g[d].fires = a /\ g[d].late = b
         /\ g[d].repeat = f[d].repeat /\ g[d].deleted = f[d].deleted
         /\ \A c \in Id : c # d => g[c] = f[c]
<1> DEFINE v == [f[d] EXCEPT !.fires = a]
           w == [v EXCEPT !.late = b]
<1>1. g = [f EXCEPT ![d] = w]
  OBVIOUS
<1>2. v \in Entry /\ v.fires = a /\ v.repeat = f[d].repeat /\ v.deleted = f[d].deleted
  BY DEF Entry
<1> HIDE DEF v
<1>3. /\ w \in Entry /\ w.fires = v.fires /\ w.late = b
      /\ w.repeat = v.repeat /\ w.deleted = v.deleted
  BY <1>2 DEF Entry
<1> HIDE DEF w
<1> QED BY <1>1, <1>2, <1>3

LEMMA ReturnKeeps ==
  ASSUME IInv, Return
  PROVE  IInv'
<1> USE DEF IInv
<1> DEFINE id == tick.id
           e == log[id]
           f == CountUp(e.fires)
           g == IF e.deleted THEN CountUp(e.late) ELSE e.late
<1>1. /\ id \in 1..nextId /\ id \in Id
      /\ tick.once = ~e.repeat
      /\ tick.once => e.fires = 0 /\ \A i \in InUse : slots[i].id # id
      /\ e.late = 0
      /\ tick.i \in Slot
  BY BoundsAssumption DEF Return, TickOnTimer, Typed, Id
<1>2. e \in Entry /\ tick \in Ticking
  BY <1>1 DEF Typed
<1>3. f \in Nat /\ f <= e.fires + 1
  BY <1>2, CountUpByOne DEF Entry
<1>4. g \in Nat /\ g <= 1 /\ (~e.deleted => g = 0)
  BY <1>1, <1>2, CountUpByOne DEF Entry
<1> HIDE DEF f, g
<1>5. log' = [log EXCEPT ![id].fires = f, ![id].late = g]
  BY DEF Return, Pushed, f, g
<1>6. /\ log' \in [Id -> Entry]
      /\ log'[id].fires = f /\ log'[id].late = g
      /\ log'[id].repeat = e.repeat /\ log'[id].deleted = e.deleted
      /\ \A d \in Id : d # id => log'[d] = log[d]
  <2>1. log \in [Id -> Entry] /\ id \in Id /\ f \in Nat /\ g \in Nat
    BY <1>1, <1>3, <1>4 DEF Typed
  <2>2. ASSUME NEW a \in Nat, NEW b \in Nat,
               log' = [log EXCEPT ![id].fires = a, ![id].late = b]
        PROVE  /\ log' \in [Id -> Entry]
               /\ log'[id].fires = a /\ log'[id].late = b
               /\ log'[id].repeat = e.repeat /\ log'[id].deleted = e.deleted
               /\ \A d \in Id : d # id => log'[d] = log[d]
    BY <2>1, <2>2, EntryChange
  <2> QED BY <1>5, <2>1, <2>2
<1>7. UNCHANGED <<slots, nextId, clock, lastTick>>
  BY DEF Return
<1>8. /\ tick' \in Ticking /\ tick'.phase \in {"slot", "while"}
      /\ tick'.phase = "while" => tick'.i \in InUse
  <2>1. CASE tick.once \/ ~slots[tick.i].used
    <3>1. tick' = [tick EXCEPT !.phase = "slot", !.i = @ + 1]
      BY <2>1 DEF Return
    <3> QED BY <1>2, <3>1, NextSlot
  <2>2. CASE ~(tick.once \/ ~slots[tick.i].used)
    <3>1. tick' = [tick EXCEPT !.phase = "while"]
      BY <2>2 DEF Return
    <3> QED BY <1>1, <1>2, <2>2, <3>1 DEF Ticking, Phase, InUse
  <2> QED BY <2>1, <2>2
<1>9. InUse' = InUse /\ InUse \subseteq Slot
  BY <1>7 DEF InUse
<1>10. Typed'
  BY <1>6, <1>7, <1>8, <1>9 DEF Typed
<1>11. SlotsAreTimers'
  <2>1. \A i \in InUse : slots[i].id \in Id
    BY BoundsAssumption DEF SlotsAreTimers, Typed, Id
  <2>2. ASSUME NEW i \in InUse, slots[i].id = id
        PROVE  slots[i].repeat /\ ~e.deleted /\ slots[i].repeat = e.repeat
    <3>1. ~tick.once /\ slots[i].repeat = e.repeat /\ ~e.deleted
      BY <1>1, <2>2 DEF SlotsAreTimers
    <3> QED BY <1>1, <1>2, <3>1 DEF Entry
  <2>3. ASSUME NEW i \in InUse
        PROVE  LET s == slots[i] IN
               /\ s.id \in 1..nextId
               /\ s.repeat = log'[s.id].repeat
               /\ ~log'[s.id].deleted
               /\ ~s.repeat => log'[s.id].fires = 0
    <3>1. CASE slots[i].id = id
      BY <1>1, <1>6, <2>2, <3>1
    <3>2. CASE slots[i].id # id
      BY <1>6, <2>1, <3>2 DEF SlotsAreTimers
    <3> QED BY <3>1, <3>2
  <2> QED BY <1>7, <1>9, <2>3 DEF SlotsAreTimers
<1>12. TickOnTimer'
  BY <1>8, <1>9 DEF TickOnTimer
<1>13. Histories'
  <2>1. \A d \in Id : d > nextId => d # id
    BY <1>1, BoundsAssumption DEF Typed, Id
  <2> QED BY <1>4, <1>6, <1>7, <2>1 DEF Histories
<1>14. OneShotFiresOnce'
  <2>1. ~e.repeat => f <= 1
    <3>1. ~e.repeat => e.fires = 0
      BY <1>1
    <3> QED BY <1>3, <3>1
  <2> QED BY <1>6, <2>1 DEF OneShotFiresOnce
<1>15. DeletedFallsSilent'
  BY <1>4, <1>6 DEF DeletedFallsSilent
<1> QED BY <1>10, <1>11, <1>12, <1>13, <1>14, <1>15

(***************************************************************************)
(* Theorems                                                                *)
(***************************************************************************)

LEMMA InitIInv == Init => IInv
<1> SUFFICES ASSUME Init PROVE IInv
  OBVIOUS
<1>1. Typed
  BY BoundsAssumption DEF Init, Typed, Timed, Ticking, Entry, Idle, Unborn, Phase
<1>2. InUse = {}
  BY DEF Init, InUse
<1> QED BY <1>1, <1>2 DEF Init, IInv, SlotsAreTimers, TickOnTimer, Histories, Idle,
          Unborn, OneShotFiresOnce, DeletedFallsSilent

LEMMA NextIInv == IInv /\ [Next]_vars => IInv'
<1> SUFFICES ASSUME IInv, [Next]_vars PROVE IInv'
  OBVIOUS
<1>1. CASE \E interval \in Intervals, repeat \in BOOLEAN : TimerCreate(interval, repeat)
  BY <1>1, CreateKeeps
<1>2. CASE \E id \in Id : TimerDelete(id)
  BY <1>2, DeleteKeeps
<1>3. CASE Elapse \/ TickBegin \/ SkipUnused \/ NotDue \/ TickEnd
  BY <1>3, MoveKeeps
<1>4. CASE AddTime
  BY <1>4, AddTimeKeeps
<1>5. CASE Fire
  BY <1>5, FireKeeps
<1>6. CASE Return
  BY <1>6, ReturnKeeps
<1>7. CASE UNCHANGED vars
  BY <1>7 DEF vars, IInv, Typed, InUse, SlotsAreTimers, TickOnTimer, Histories,
              OneShotFiresOnce, DeletedFallsSilent
<1> QED BY <1>1, <1>2, <1>3, <1>4, <1>5, <1>6, <1>7 DEF Next

\* However timers come, go and change slots while the tick is in its callback,
\* no two slots in use are one timer's, and the tick never stands, with the
\* lock, on a slot that is not in use (timer_registry.c, timer_tick).
THEOREM Invariant == Spec => []IInv
BY InitIInv, NextIInv, PTL DEF Spec

\* A one-shot timer's event is pushed at most once, although its slot is free,
\* and may be another timer's, before the event is out.
THEOREM OneShotOnce == Spec => []OneShotFiresOnce
<1>1. IInv => OneShotFiresOnce
  BY DEF IInv
<1> QED BY Invariant, <1>1, PTL

\* Once TimerDelete has been answered, one event of the timer may follow, the
\* one that was on its way, and never a second.
THEOREM SilentAfterDelete == Spec => []DeletedFallsSilent
<1>1. IInv => DeletedFallsSilent
  BY DEF IInv
<1> QED BY Invariant, <1>1, PTL

(***************************************************************************)
(* No time is lost                                                         *)
(***************************************************************************)

\* The slots that this tick is done with, and those it has yet to come to.
Passed(i) == tick.phase = "idle" \/ i < tick.i

Ahead(i) == tick.phase # "idle" /\ (i > tick.i \/ (i = tick.i /\ tick.phase = "slot"))

\* What the account of the timer in slot i lacks: the time of this tick before
\* the tick comes to the slot, and one interval while the event it paid for is
\* being pushed.
Owed(i) ==
    IF Ahead(i) THEN tick.dt
    ELSE IF ~Passed(i) /\ tick.phase = "callback" /\ slots[i].id = tick.id
         THEN slots[i].interval ELSE 0

\* The time of the events and what is left over, and x, are the time ticked
\* since the timer was created.
Balanced(s, l, last, x) ==
    l.fires < MaxFires =>
        l.fires * s.interval + s.elapsed + x
            \in {last - l.since, last - l.since + l.grace}

\* The slots where no event is due: those the tick does not stand on, and one
\* that changed hands in the callback.
Settled(i) ==
    \/ Passed(i) \/ Ahead(i)
    \/ tick.phase = "callback" /\ slots[i].id # tick.id

Accounts ==
    /\ \A i \in InUse : slots[i].interval > 0
    /\ \A i \in InUse : Balanced(slots[i], log[slots[i].id], lastTick, Owed(i))
    /\ \A i \in InUse : Settled(i) => slots[i].elapsed < slots[i].interval
    /\ tick.phase = "callback" => \A i \in InUse : slots[i].id = tick.id => i = tick.i

LEMMA Facts ==
  ASSUME IInv
  PROVE  /\ tick.i \in Nat /\ tick.dt \in Int /\ lastTick \in Int /\ clock \in Int
         /\ tick.phase \in Phase
         /\ \A i \in InUse :
              /\ i \in Slot /\ i \in Nat /\ 1 <= i /\ i <= TimerMax
              /\ slots[i] \in Timed /\ slots[i].elapsed \in Int /\ slots[i].interval \in Nat
              /\ slots[i].id \in Id /\ slots[i].id \in 1..nextId
              /\ log[slots[i].id].fires \in Nat /\ log[slots[i].id].since \in Int
              /\ log[slots[i].id].grace \in Int
<1> USE DEF IInv
<1>1. tick \in Ticking /\ lastTick \in Int /\ clock \in Int
  BY DEF Typed
<1>2. ASSUME NEW i \in InUse
      PROVE  /\ i \in Slot /\ i \in Nat /\ 1 <= i /\ i <= TimerMax
             /\ slots[i] \in Timed /\ slots[i].id \in Id /\ slots[i].id \in 1..nextId
             /\ log[slots[i].id] \in Entry
  <2>1. i \in Slot /\ slots[i].id \in 1..nextId
    BY DEF InUse, SlotsAreTimers
  <2>2. slots[i].id \in Id
    BY <2>1, BoundsAssumption DEF Typed, Id
  <2> QED BY <2>1, <2>2, TimerMaxAssumption DEF Typed, Slot
<1> HIDE DEF IInv
<1> QED BY <1>1, <1>2 DEF Ticking, Timed, Entry

\* An account where time was moved from one column to another.
LEMMA BalancedMove ==
  ASSUME NEW s \in Timed, NEW r \in Timed, NEW l, l.fires \in Nat, l.since \in Int,
         l.grace \in Int, NEW last \in Int, NEW x \in Int, NEW y \in Int,
         s.interval = r.interval, r.elapsed + y = s.elapsed + x,
         Balanced(s, l, last, x)
  PROVE  Balanced(r, l, last, y)
<1> DEFINE a == l.fires * s.interval
<1>1. a \in Int /\ a = l.fires * r.interval
  BY DEF Timed
<1>2. s.elapsed \in Int /\ r.elapsed \in Int
  BY DEF Timed
<1>3. l.fires < MaxFires => a + s.elapsed + x \in {last - l.since, last - l.since + l.grace}
  BY DEF Balanced
<1> HIDE DEF a
<1>4. l.fires < MaxFires => a + r.elapsed + y \in {last - l.since, last - l.since + l.grace}
  BY <1>1, <1>2, <1>3
<1> QED BY <1>1, <1>4 DEF Balanced

\* An account at the beginning of a tick.
LEMMA BalancedTick ==
  ASSUME NEW s \in Timed, NEW l, l.fires \in Nat, l.since \in Int, l.grace \in Int,
         NEW last \in Int, NEW now \in Int, Balanced(s, l, last, 0)
  PROVE  Balanced(s, l, now, now - last)
<1> DEFINE a == l.fires * s.interval
<1>1. a \in Int /\ s.elapsed \in Int
  BY DEF Timed
<1>2. l.fires < MaxFires => a + s.elapsed + 0 \in {last - l.since, last - l.since + l.grace}
  BY DEF Balanced
<1> HIDE DEF a
<1>3. l.fires < MaxFires =>
        a + s.elapsed + (now - last) \in {now - l.since, now - l.since + l.grace}
  BY <1>1, <1>2
<1> QED BY <1>3 DEF Balanced, a

\* An account where an event was counted, and paid for.
LEMMA BalancedPaid ==
  ASSUME NEW s \in Timed, NEW l, l.fires \in Nat, l.since \in Int, l.grace \in Int,
         NEW m, m.fires = CountUp(l.fires), m.since = l.since, m.grace = l.grace,
         NEW last \in Int, Balanced(s, l, last, s.interval)
  PROVE  Balanced(s, m, last, 0)
<1> SUFFICES ASSUME m.fires < MaxFires
             PROVE  m.fires * s.interval + s.elapsed + 0
                      \in {last - m.since, last - m.since + m.grace}
  BY DEF Balanced
<1>1. m.fires = l.fires + 1 /\ l.fires < MaxFires
  BY BoundsAssumption DEF CountUp
<1>2. s.interval \in Nat /\ s.elapsed \in Int
  BY DEF Timed
<1>3. (l.fires + 1) * s.interval = l.fires * s.interval + s.interval /\ l.fires * s.interval \in Int
  BY <1>2
<1>4. l.fires * s.interval + s.elapsed + s.interval \in {last - l.since, last - l.since + l.grace}
  BY <1>1 DEF Balanced
<1> DEFINE a == l.fires * s.interval
<1>5. a \in Int /\ m.fires * s.interval = a + s.interval
  BY <1>1, <1>3
<1>6. a + s.elapsed + s.interval \in {last - l.since, last - l.since + l.grace}
  BY <1>4
<1> HIDE DEF a
<1> QED BY <1>2, <1>5, <1>6

LEMMA CreateAccounts ==
  ASSUME 0 \notin Intervals, IInv, Accounts,
         NEW interval \in Intervals, NEW repeat \in BOOLEAN, TimerCreate(interval, repeat)
  PROVE  Accounts'
<1> DEFINE new == nextId + 1
           s == [id |-> new, interval |-> interval, elapsed |-> 0,
                 repeat |-> repeat, used |-> TRUE]
<1>1. PICK i \in Slot : ~slots[i].used /\ slots' = [slots EXCEPT ![i] = s]
  BY DEF TimerCreate, First, FreeSlots
<1>2. /\ nextId < MaxTimers /\ UNCHANGED <<tick, lastTick>>
      /\ log' = [log EXCEPT ![new] = [Unborn EXCEPT !.interval = interval, !.repeat = repeat,
                                 !.born = clock, !.since = lastTick, !.grace = tick.dt]]
  BY DEF TimerCreate
<1>3. new \in Id /\ new \notin 1..nextId /\ i \in Nat
  BY <1>2, BoundsAssumption DEF IInv, Typed, Id, Slot
<1>4. /\ log'[new].fires = 0 /\ log'[new].since = lastTick /\ log'[new].grace = tick.dt
      /\ \A id \in Id : id # new => log'[id] = log[id]
  BY <1>2, <1>3 DEF IInv, Typed, Unborn
<1>5. /\ slots'[i].id = new /\ slots'[i].interval = interval /\ slots'[i].elapsed = 0
      /\ InUse' = InUse \cup {i} /\ i \notin InUse
      /\ \A j \in InUse : slots'[j] = slots[j]
  BY <1>1 DEF IInv, Typed, InUse
<1>6. \A j \in InUse : slots[j].id \in Id /\ slots[j].id # new
  BY <1>3, Facts
<1>7. interval \in Nat /\ interval > 0
  BY IntervalsAssumption
<1>8. tick.phase = "callback" => tick.id # new
  BY <1>3 DEF IInv, TickOnTimer
<1> HIDE DEF s, new
<1>9. Balanced(slots'[i], log'[new], lastTick, Owed(i)')
  <2>1. Owed(i)' \in {0, tick.dt}
    BY <1>2, <1>5, <1>8 DEF Owed, Ahead, Passed
  <2>2. 0 * interval = 0 /\ tick.dt \in Int /\ lastTick \in Int
    BY <1>7, Facts
  <2> QED BY <1>4, <1>5, <2>1, <2>2 DEF Balanced
<1>10. \A j \in InUse : /\ Owed(j)' = Owed(j) /\ Settled(j)' = Settled(j)
  BY <1>2, <1>5 DEF Owed, Ahead, Passed, Settled
<1> QED BY <1>2, <1>4, <1>5, <1>6, <1>7, <1>8, <1>9, <1>10 DEF Accounts

LEMMA DeleteAccounts ==
  ASSUME IInv, Accounts, NEW id \in Id, TimerDelete(id)
  PROVE  Accounts'
<1>1. PICK i \in Slot : /\ slots[i].used /\ slots[i].id = id
                        /\ slots' = [slots EXCEPT ![i].used = FALSE]
  BY DEF TimerDelete
<1>2. UNCHANGED <<tick, lastTick>> /\ log' = [log EXCEPT ![id].deleted = TRUE]
  BY DEF TimerDelete
<1>3. InUse' = InUse \ {i} /\ i \in InUse /\ \A j \in InUse' : slots'[j] = slots[j]
  BY <1>1 DEF IInv, Typed, InUse
<1>4. \A j \in InUse' : slots[j].id # id /\ log'[slots[j].id] = log[slots[j].id]
  BY <1>1, <1>2, <1>3, Facts DEF IInv, SlotsAreTimers, Typed
<1>5. \A j \in InUse' : /\ Owed(j)' = Owed(j) /\ Settled(j)' = Settled(j)
  BY <1>2, <1>3 DEF Owed, Ahead, Passed, Settled
<1> QED BY <1>2, <1>3, <1>4, <1>5 DEF Accounts

\* The tick comes, goes on, or ends, and no account changes.
LEMMA MoveAccounts ==
  ASSUME IInv, Accounts, Elapse \/ TickBegin \/ SkipUnused \/ NotDue \/ TickEnd
  PROVE  Accounts'
<1>1. UNCHANGED <<slots, log>> /\ InUse' = InUse
  BY DEF Elapse, TickBegin, SkipUnused, NotDue, TickEnd, InUse
<1>2. CASE Elapse
  BY <1>1, <1>2 DEF Elapse, Accounts, Owed, Ahead, Passed, Settled
<1>3. CASE TickBegin
  <2>1. /\ tick'.phase = "slot" /\ tick'.i = 1 /\ tick'.dt = clock - lastTick
        /\ lastTick' = clock /\ tick.phase = "idle"
    BY <1>3 DEF TickBegin, Idle
  <2>2. ASSUME NEW i \in InUse PROVE Owed(i) = 0 /\ Owed(i)' = clock - lastTick /\ Passed(i)
    BY <2>1, Facts DEF Owed, Ahead, Passed
  <2>3. ASSUME NEW i \in InUse PROVE Balanced(slots[i], log[slots[i].id], clock, clock - lastTick)
    <3>1. Balanced(slots[i], log[slots[i].id], lastTick, 0)
      BY <2>2 DEF Accounts
    <3> QED BY <3>1, Facts, BalancedTick
  <2> QED BY <1>1, <2>1, <2>2, <2>3 DEF Accounts, Settled
<1>4. CASE SkipUnused \/ NotDue
  <2>1. /\ tick'.phase = "slot" /\ tick'.i = tick.i + 1 /\ tick'.dt = tick.dt
        /\ lastTick' = lastTick /\ tick.phase \in {"slot", "while"}
        /\ tick.i \in InUse => tick.phase = "while" /\ ~Due(slots[tick.i])
    <3>1. tick \in Ticking
      BY DEF IInv, Typed
    <3> QED BY <1>4, <3>1 DEF SkipUnused, NotDue, InUse, Ticking
  <2>2. ASSUME NEW i \in InUse PROVE Owed(i)' = Owed(i)
    BY <2>1, Facts DEF Owed, Ahead, Passed
  <2>3. ASSUME NEW i \in InUse PROVE slots[i].elapsed < slots[i].interval
    <3>1. CASE i = tick.i
      <4>1. ~Due(slots[i]) /\ slots[i].interval > 0
        BY <2>1, <3>1 DEF Accounts
      <4> QED BY <4>1, Facts DEF Due
    <3>2. CASE i # tick.i
      BY <2>1, <3>2, Facts DEF Accounts, Settled, Passed, Ahead
    <3> QED BY <3>1, <3>2
  <2> QED BY <1>1, <2>1, <2>2, <2>3 DEF Accounts
<1>5. CASE TickEnd
  <2>1. /\ tick'.phase = "idle" /\ tick.phase = "slot" /\ tick.i > TimerMax
        /\ lastTick' = lastTick
    BY <1>5 DEF TickEnd, Idle
  <2>2. ASSUME NEW i \in InUse PROVE Owed(i)' = Owed(i) /\ Passed(i)
    BY <2>1, Facts, TimerMaxAssumption DEF Owed, Ahead, Passed
  <2> QED BY <1>1, <2>1, <2>2 DEF Accounts, Settled
<1> QED BY <1>2, <1>3, <1>4, <1>5

\* What was owed to the slot is paid into its elapsed time.
LEMMA AddTimeAccounts ==
  ASSUME IInv, Accounts, AddTime
  PROVE  Accounts'
<1>1. PICK i \in InUse :
         /\ i = tick.i /\ tick.phase = "slot"
         /\ slots' = [slots EXCEPT ![i] =
                       [slots[i] EXCEPT !.elapsed = slots[i].elapsed + tick.dt]]
         /\ tick' = [tick EXCEPT !.phase = "while"]
         /\ UNCHANGED <<lastTick, log>>
  BY DEF AddTime, InUse, IInv, Typed
<1> DEFINE s == [slots[i] EXCEPT !.elapsed = slots[i].elapsed + tick.dt]
<1>2. tick'.phase = "while" /\ tick'.i = i /\ tick'.dt = tick.dt
  BY <1>1 DEF IInv, Typed, Ticking
<1>3. /\ s \in Timed /\ s.interval = slots[i].interval /\ s.id = slots[i].id
      /\ s.elapsed = slots[i].elapsed + tick.dt /\ s.used = slots[i].used
  <2>1. slots[i] \in Timed /\ tick.dt \in Int /\ slots[i].elapsed \in Int
    BY <1>1, Facts
  <2>2. slots[i].elapsed + tick.dt \in Int
    BY <2>1
  <2> QED BY <2>1, <2>2 DEF Timed
<1> HIDE DEF s
<1>4. slots'[i] = s /\ InUse' = InUse /\ \A j \in InUse : j # i => slots'[j] = slots[j]
  BY <1>1, <1>3 DEF IInv, Typed, InUse, s
<1>5. Balanced(s, log[s.id], lastTick, 0)
  <2>1. Owed(i) = tick.dt
    BY <1>1, Facts DEF Owed, Ahead
  <2>2. Balanced(slots[i], log[slots[i].id], lastTick, tick.dt)
    BY <1>1, <2>1 DEF Accounts
  <2>3. s.elapsed + 0 = slots[i].elapsed + tick.dt
    BY <1>1, <1>3, Facts
  <2>4. /\ slots[i] \in Timed /\ log[slots[i].id].fires \in Nat
        /\ log[slots[i].id].since \in Int /\ log[slots[i].id].grace \in Int
        /\ lastTick \in Int /\ tick.dt \in Int
    BY Facts
  <2>5. Balanced(s, log[slots[i].id], lastTick, 0)
    BY <1>3, <2>2, <2>3, <2>4, BalancedMove
  <2> QED BY <1>3, <2>5
<1>6. ASSUME NEW j \in InUse, j # i
      PROVE  Owed(j)' = Owed(j) /\ Settled(j)
  BY <1>1, <1>2, <1>6, Facts DEF Owed, Ahead, Passed, Settled
<1>7. Owed(i)' = 0 /\ ~Settled(i)'
  BY <1>1, <1>2, Facts DEF Owed, Ahead, Passed, Settled
<1>8. ASSUME NEW j \in InUse'
      PROVE  /\ slots'[j].interval > 0
             /\ Balanced(slots'[j], log'[slots'[j].id], lastTick', Owed(j)')
             /\ Settled(j)' => slots'[j].elapsed < slots'[j].interval
  <2>1. CASE j = i
    BY <1>1, <1>3, <1>4, <1>5, <1>7, <2>1 DEF Accounts
  <2>2. CASE j # i
    BY <1>1, <1>4, <1>6, <2>2 DEF Accounts
  <2> QED BY <2>1, <2>2
<1> QED BY <1>2, <1>8 DEF Accounts

\* An interval is taken off the elapsed time for the event under way.
LEMMA FireAccounts ==
  ASSUME IInv, Accounts, Fire
  PROVE  Accounts'
<1>1. PICK i \in InUse : i = tick.i /\ tick.phase = "while"
  BY DEF Fire, IInv, TickOnTimer
<1> DEFINE s == slots[i]
<1>2. /\ slots' = [slots EXCEPT ![i].elapsed = s.elapsed - s.interval, ![i].used = s.repeat]
      /\ tick' = [tick EXCEPT !.phase = "callback", !.id = s.id, !.once = ~s.repeat]
      /\ UNCHANGED <<lastTick, log>>
  BY <1>1 DEF Fire
<1>3. tick'.phase = "callback" /\ tick'.i = i /\ tick'.dt = tick.dt /\ tick'.id = s.id
  <2>1. tick \in Ticking
    BY DEF IInv, Typed
  <2>2. tick' = [phase |-> "callback", i |-> tick.i, dt |-> tick.dt, id |-> s.id,
                 once |-> ~s.repeat]
    BY <1>1, <2>1 DEF Fire, Ticking
  <2> QED BY <1>1, <2>2
<1>4. /\ slots'[i] \in Timed
      /\ slots'[i].id = s.id /\ slots'[i].used = s.repeat
      /\ slots'[i].interval = s.interval /\ slots'[i].elapsed = s.elapsed - s.interval
      /\ \A j \in Slot : j # i => slots'[j] = slots[j]
  <2>1. /\ slots \in [Slot -> Timed] /\ i \in Slot
        /\ s.elapsed - s.interval \in Int /\ s.repeat \in BOOLEAN
    BY Facts DEF IInv, Typed, Timed
  <2>2. slots' = [slots EXCEPT ![i].elapsed = s.elapsed - s.interval, ![i].used = s.repeat]
    BY <1>2
  <2>3. \A j \in Slot : j # i => slots'[j] = slots[j]
    BY <2>1, <2>2
  <2> DEFINE a == s.elapsed - s.interval
  <2>4. a \in Int /\ s.repeat \in BOOLEAN /\ slots \in [Slot -> Timed] /\ i \in Slot
        /\ slots' = [slots EXCEPT ![i].elapsed = a, ![i].used = s.repeat]
    BY <2>1, <2>2
  <2> HIDE DEF a, s
  <2>5. slots' \in [Slot -> Timed]
    BY FireKeeps DEF IInv, Typed
  <2>6. slots'[i].id = slots[i].id
    BY <2>4, SlotChange
  <2>7. slots'[i].interval = slots[i].interval
    BY <2>4, SlotChange
  <2>8. slots'[i].elapsed = a /\ slots'[i].used = s.repeat
    BY <2>4, SlotChange
  <2> QED BY <2>3, <2>4, <2>5, <2>6, <2>7, <2>8 DEF a, s
<1>5. InUse' \subseteq InUse /\ \A j \in InUse' : j # i => slots'[j] = slots[j]
  BY <1>1, <1>4 DEF InUse
<1>6. Balanced(slots'[i], log[s.id], lastTick, s.interval)
  <2>1. Owed(i) = 0
    BY <1>1, Facts DEF Owed, Ahead
  <2>2. Balanced(s, log[s.id], lastTick, 0)
    BY <1>1, <2>1 DEF Accounts
  <2>3. slots'[i].elapsed + s.interval = s.elapsed + 0
    BY <1>1, <1>4, Facts
  <2>4. s \in Timed /\ s.interval \in Int /\ log[s.id].fires \in Nat
        /\ log[s.id].since \in Int /\ log[s.id].grace \in Int /\ lastTick \in Int
    BY <1>1, Facts
  <2> HIDE DEF s
  <2> QED BY <1>4, <2>2, <2>3, <2>4, BalancedMove
<1>7. ASSUME NEW j \in InUse, j # i
      PROVE  Owed(j)' = Owed(j) /\ Settled(j) /\ slots[j].id # s.id
  <2>1. slots[j].id # s.id
    BY <1>1, <1>7 DEF IInv, SlotsAreTimers
  <2> QED BY <1>1, <1>3, <1>7, <2>1, Facts DEF Owed, Ahead, Passed, Settled
<1>8. Owed(i)' = s.interval /\ ~Settled(i)'
  BY <1>1, <1>3, <1>4, Facts DEF Owed, Ahead, Passed, Settled
<1> HIDE DEF s
<1>9. ASSUME NEW j \in InUse'
      PROVE  /\ slots'[j].interval > 0
             /\ Balanced(slots'[j], log'[slots'[j].id], lastTick', Owed(j)')
             /\ Settled(j)' => slots'[j].elapsed < slots'[j].interval
             /\ slots'[j].id = s.id => j = i
  <2>1. CASE j = i
    BY <1>1, <1>2, <1>4, <1>6, <1>8, <2>1 DEF Accounts, s
  <2>2. CASE j # i
    BY <1>2, <1>5, <1>7, <2>2 DEF Accounts
  <2> QED BY <2>1, <2>2
<1> QED BY <1>3, <1>9 DEF Accounts

\* The event is counted, and the tick goes on with the slot or leaves it.
LEMMA ReturnAccounts ==
  ASSUME IInv, Accounts, Return
  PROVE  Accounts'
<1> DEFINE i == tick.i
           id == tick.id
           e == log[id]
<1>1. /\ tick.phase = "callback" /\ UNCHANGED <<slots, lastTick>> /\ InUse' = InUse
      /\ id \in Id /\ tick \in Ticking
      /\ tick.once => \A j \in InUse : slots[j].id # id
  BY BoundsAssumption DEF Return, InUse, IInv, TickOnTimer, Typed, Id
<1>2. /\ log'[id].fires = CountUp(e.fires) /\ log'[id].since = e.since
      /\ log'[id].grace = e.grace
      /\ \A d \in Id : d # id => log'[d] = log[d]
  <2>1. log \in [Id -> Entry] /\ log' = Pushed(id)
    BY DEF IInv, Typed, Return
  <2>2. log'[id] = [e EXCEPT !.fires = CountUp(@),
                             !.late = IF e.deleted THEN CountUp(@) ELSE @]
    BY <1>1, <2>1 DEF Pushed
  <2> QED BY <1>1, <2>1, <2>2 DEF Pushed, Entry
<1>3. /\ tick'.dt = tick.dt
      /\ \/ tick'.phase = "slot" /\ tick'.i = i + 1 /\ (tick.once \/ i \notin InUse)
         \/ tick'.phase = "while" /\ tick'.i = i /\ ~tick.once
  BY <1>1 DEF Return, Ticking, InUse
<1> HIDE DEF i, id, e
<1>4. ASSUME NEW j \in InUse
      PROVE  /\ Balanced(slots[j], log'[slots[j].id], lastTick, Owed(j)')
             /\ Settled(j)' => slots[j].elapsed < slots[j].interval
  <2>1. CASE slots[j].id = id
    <3>1. j = i /\ ~tick.once
      BY <1>1, <2>1 DEF Accounts, i, id
    <3>2. Owed(j) = slots[j].interval /\ Owed(j)' = 0 /\ ~Settled(j)'
      BY <1>1, <1>3, <2>1, <3>1, Facts DEF Owed, Ahead, Passed, Settled, i, id
    <3>3. Balanced(slots[j], e, lastTick, slots[j].interval)
      BY <2>1, <3>2 DEF Accounts, e
    <3>4. slots[j] \in Timed /\ e.fires \in Nat /\ e.since \in Int /\ e.grace \in Int
          /\ lastTick \in Int
      BY <2>1, Facts DEF e
    <3>5. Balanced(slots[j], log'[id], lastTick, 0)
      BY <1>2, <3>3, <3>4, BalancedPaid
    <3> QED BY <2>1, <3>2, <3>5
  <2>2. CASE slots[j].id # id
    <3>1. Settled(j) /\ Owed(j)' = Owed(j)
      BY <1>1, <1>3, <2>2, Facts DEF Owed, Ahead, Passed, Settled, i, id
    <3>2. log'[slots[j].id] = log[slots[j].id]
      BY <1>2, <2>2, Facts
    <3> QED BY <3>1, <3>2 DEF Accounts
  <2> QED BY <2>1, <2>2
<1> QED BY <1>1, <1>3, <1>4 DEF Accounts

LEMMA AccountsKept == 0 \notin Intervals /\ IInv /\ Accounts /\ [Next]_vars => Accounts'
<1> SUFFICES ASSUME 0 \notin Intervals, IInv, Accounts, [Next]_vars PROVE Accounts'
  OBVIOUS
<1>1. CASE \E interval \in Intervals, repeat \in BOOLEAN : TimerCreate(interval, repeat)
  BY <1>1, CreateAccounts
<1>2. CASE \E id \in Id : TimerDelete(id)
  BY <1>2, DeleteAccounts
<1>3. CASE Elapse \/ TickBegin \/ SkipUnused \/ NotDue \/ TickEnd
  BY <1>3, MoveAccounts
<1>4. CASE AddTime
  BY <1>4, AddTimeAccounts
<1>5. CASE Fire
  BY <1>5, FireAccounts
<1>6. CASE Return
  BY <1>6, ReturnAccounts
<1>7. CASE UNCHANGED vars
  BY <1>7 DEF vars, Accounts, InUse, Owed, Ahead, Passed, Settled
<1> QED BY <1>1, <1>2, <1>3, <1>4, <1>5, <1>6, <1>7 DEF Next

\* As long as no interval is so small that it is lost to rounding, the events
\* of every timer and the time left over add up to the time ticked since it was
\* created, and between ticks no timer is due: timer_tick loses no time and
\* counts none twice, however the slots change hands in its callbacks.
THEOREM OnTime ==
  ASSUME 0 \notin Intervals
  PROVE  Spec => []Punctual
<1>1. Init => Accounts
  BY DEF Init, Accounts, InUse, Idle
<1>2. IInv /\ Accounts => Punctual
  <2> SUFFICES ASSUME IInv, Accounts, tick.phase = "idle", NEW i \in InUse
               PROVE  LET s == slots[i]
                          l == log[s.id] IN
                      /\ s.elapsed < s.interval
                      /\ l.fires < MaxFires =>
                           l.fires * s.interval + s.elapsed
                             \in {lastTick - l.since, lastTick - l.since + l.grace}
    BY DEF Punctual
  <2>1. Owed(i) = 0 /\ Settled(i)
    BY DEF Owed, Ahead, Passed, Settled
  <2> DEFINE a == log[slots[i].id].fires * slots[i].interval
  <2>2. a \in Int /\ slots[i].elapsed \in Int
    BY Facts
  <2>3. log[slots[i].id].fires < MaxFires =>
          a + slots[i].elapsed + 0 \in {lastTick - log[slots[i].id].since,
                                        lastTick - log[slots[i].id].since + log[slots[i].id].grace}
    BY <2>1 DEF Accounts, Balanced
  <2> HIDE DEF a
  <2>4. a + slots[i].elapsed + 0 = a + slots[i].elapsed
    BY <2>2
  <2> QED BY <2>1, <2>3, <2>4 DEF Accounts, a
<1> QED BY <1>1, <1>2, AccountsKept, Invariant, PTL DEF Spec
=============================================================================
