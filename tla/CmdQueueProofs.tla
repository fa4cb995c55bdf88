--------------------------- MODULE CmdQueueProofs ---------------------------
(***************************************************************************)
(* Theorems about CmdQueue, for every capacity, every finite set of        *)
(* clients and every number of entries.                                    *)
(***************************************************************************)
EXTENDS CmdQueue, TLAPS, FiniteSetTheorems, SequenceTheorems

\* Once the queue is shut down nothing is in it and nobody waits on it.
ShutdownIsEmpty == shutdown => count = 0 /\ Waiters = {}

\* The inductive invariant.  Typing needs RingConsistent (cmdq_pop reads a
\* slot), NoLostWakeup needs ShutdownIsEmpty, ClientOrder needs all of them.
IInv ==
    /\ TypeOK
    /\ RingConsistent
    /\ ClientOrder
    /\ NoLostWakeup
    /\ ShutdownIsEmpty

(***************************************************************************)
(* Arithmetic of the ring's slots                                          *)
(***************************************************************************)

\* An index less than two laps long wraps by at most one subtraction.
LEMMA ModRange ==
  ASSUME NEW C \in Nat \ {0}, NEW i \in 0..2*C-1
  PROVE  /\ i % C = IF i < C THEN i ELSE i - C
         /\ i % C \in 0..C-1
  BY SMT

\* Moving the head on by one renumbers every slot by one.
LEMMA ModShift ==
  ASSUME NEW C \in Nat \ {0}, NEW h \in 0..C-1, NEW k \in 0..C-1
  PROVE  /\ (((h + 1) % C) + k) % C = (h + (k + 1)) % C
         /\ (((h + k) % C) + 1) % C = (h + (k + 1)) % C
<1>1. /\ h + 1 \in 0..2*C-1
      /\ h + k \in 0..2*C-1
      /\ h + (k + 1) \in 0..2*C-1
  OBVIOUS
<1>2. /\ (h + 1) % C = IF h + 1 < C THEN h + 1 ELSE h + 1 - C
      /\ (h + k) % C = IF h + k < C THEN h + k ELSE h + k - C
      /\ (h + 1) % C \in 0..C-1
      /\ (h + k) % C \in 0..C-1
  BY <1>1
<1>3. (h + (k + 1)) % C = IF h + (k + 1) < C THEN h + (k + 1) ELSE h + (k + 1) - C
  BY <1>1
<1>4. ASSUME NEW r \in 0..C-1, r = (h + 1) % C
      PROVE  (r + k) % C = (h + (k + 1)) % C
  <2>1. r + k \in 0..2*C-1
    OBVIOUS
  <2>2. (r + k) % C = IF r + k < C THEN r + k ELSE r + k - C
    BY <2>1
  <2>3. r = IF h + 1 < C THEN h + 1 ELSE h + 1 - C
    BY <1>2, <1>4
  <2> HIDE <1>4
  <2> QED BY <1>3, <2>2, <2>3
<1>5. ASSUME NEW r \in 0..C-1, r = (h + k) % C
      PROVE  (r + 1) % C = (h + (k + 1)) % C
  <2>1. r + 1 \in 0..2*C-1
    OBVIOUS
  <2>2. (r + 1) % C = IF r + 1 < C THEN r + 1 ELSE r + 1 - C
    BY <2>1
  <2>3. r = IF h + k < C THEN h + k ELSE h + k - C
    BY <1>2, <1>5
  <2> HIDE <1>5
  <2> QED BY <1>3, <2>2, <2>3
<1> QED BY <1>2, <1>4, <1>5

\* Different offsets within one lap are different slots.
LEMMA ModInjective ==
  ASSUME NEW C \in Nat \ {0}, NEW h \in 0..C-1,
         NEW j \in 0..C-1, NEW k \in 0..C-1, j # k
  PROVE  (h + j) % C # (h + k) % C
<1>1. h + j \in 0..2*C-1 /\ h + k \in 0..2*C-1
  OBVIOUS
<1>2. /\ (h + j) % C = IF h + j < C THEN h + j ELSE h + j - C
      /\ (h + k) % C = IF h + k < C THEN h + k ELSE h + k - C
  BY <1>1
<1> QED BY <1>2

\* What the arithmetic says of the queue's slots.
LEMMA SlotFacts ==
  ASSUME TypeOK
  PROVE  /\ \A k \in 0..Capacity : Slot(k) \in 0..Capacity-1
         /\ Slot(0) = head
         /\ Succ(head) \in 0..Capacity-1
         /\ Succ(tail) \in 0..Capacity-1
         /\ \A k \in 0..Capacity-1 : (Succ(head) + k) % Capacity = Slot(k + 1)
         /\ \A k \in 0..Capacity-1 : Succ(Slot(k)) = Slot(k + 1)
         /\ \A j, k \in 0..Capacity-1 : j # k => Slot(j) # Slot(k)
<1>0. Capacity \in Nat \ {0} /\ head \in 0..Capacity-1 /\ tail \in 0..Capacity-1
  BY CapacityAssumption DEF TypeOK
<1>1. \A k \in 0..Capacity : Slot(k) \in 0..Capacity-1
  <2>1. \A k \in 0..Capacity : head + k \in 0..2*Capacity-1
    BY <1>0
  <2> QED BY <1>0, <2>1, ModRange DEF Slot
<1>2. Slot(0) = head
  <2>1. head + 0 = head /\ head \in 0..2*Capacity-1
    BY <1>0
  <2> QED BY <1>0, <2>1, ModRange DEF Slot
<1>3. Succ(head) \in 0..Capacity-1 /\ Succ(tail) \in 0..Capacity-1
  <2>1. head + 1 \in 0..2*Capacity-1 /\ tail + 1 \in 0..2*Capacity-1
    BY <1>0
  <2> QED BY <1>0, <2>1, ModRange DEF Succ
<1>4. \A k \in 0..Capacity-1 :
        /\ (Succ(head) + k) % Capacity = Slot(k + 1)
        /\ Succ(Slot(k)) = Slot(k + 1)
  BY <1>0, ModShift DEF Slot, Succ
<1>5. \A j, k \in 0..Capacity-1 : j # k => Slot(j) # Slot(k)
  BY <1>0, ModInjective DEF Slot
<1> QED BY <1>1, <1>2, <1>3, <1>4, <1>5

(***************************************************************************)
(* Waiters and woken threads                                               *)
(***************************************************************************)

\* Waking one waiter makes one more woken thread.
LEMMA WakeOne ==
  ASSUME TypeOK, NEW c \in Waiters, pc' = [pc EXCEPT ![c] = "woken"]
  PROVE  /\ Cardinality(Woken') = Cardinality(Woken) + 1
         /\ Cardinality(Woken) \in Nat
         /\ Waiters' \subseteq Waiters
<1>1. Woken' = Woken \cup {c} /\ c \notin Woken /\ Waiters' \subseteq Waiters
  BY DEF Woken, Waiters, TypeOK
<1>2. IsFiniteSet(Woken)
  BY ClientsAssumption, FS_Subset DEF Woken
<1> QED BY <1>1, <1>2, FS_AddElement, FS_CardinalityType

\* A woken thread that goes idle leaves the woken threads; an idle one that
\* stays idle changes nothing.
LEMMA GoIdle ==
  ASSUME TypeOK, NEW c \in Clients, pc[c] \in {"idle", "woken"},
         pc' = [pc EXCEPT ![c] = "idle"]
  PROVE  /\ Waiters' = Waiters
         /\ Cardinality(Woken') >= Cardinality(Woken) - 1
         /\ Cardinality(Woken) \in Nat
         /\ Cardinality(Woken') \in Nat
<1>1. Waiters' = Waiters /\ Woken' = Woken \ {c}
  BY DEF Woken, Waiters, TypeOK
<1>2. IsFiniteSet(Woken)
  BY ClientsAssumption, FS_Subset DEF Woken
<1>3. Cardinality(Woken) \in Nat
  BY <1>2, FS_CardinalityType
<1>4. Cardinality(Woken \ {c}) = Cardinality(Woken) - (IF c \in Woken THEN 1 ELSE 0)
  BY <1>2, FS_RemoveElement, FS_CardinalityType
<1>5. IsFiniteSet(Woken') /\ Cardinality(Woken') \in Nat
  BY <1>1, <1>2, FS_Subset, FS_CardinalityType
<1> QED BY <1>1, <1>3, <1>4, <1>5

(***************************************************************************)
(* Initial states, and one lemma per kind of step                          *)
(***************************************************************************)

\* What memset and pthread_mutex_init leave satisfies the invariant.
LEMMA InitIInv == Init => IInv
<1> SUFFICES ASSUME Init PROVE IInv
  OBVIOUS
<1>1. TypeOK
  <2>1. 0 \in 0..Capacity-1 /\ 0 \in 0..Capacity /\ 0 \in 0..MaxPush
    BY CapacityAssumption, MaxPushAssumption
  <2> QED BY <2>1 DEF Init, TypeOK
<1>2. RingConsistent
  BY <1>1, SlotFacts DEF Init, RingConsistent
<1>3. ClientOrder
  BY MaxPushAssumption DEF Init, ClientOrder
<1>4. Waiters = {}
  BY DEF Init, Waiters
<1> QED BY <1>1, <1>2, <1>3, <1>4 DEF IInv, NoLostWakeup, ShutdownIsEmpty, Init

\* A step that leaves the ring and the histories alone.
LEMMA RingUnchanged ==
  ASSUME IInv, UNCHANGED <<ring, pushed, executed>>, shutdown' = shutdown
  PROVE  RingConsistent' /\ ClientOrder'
<1>1. \A k : Slot(k)' = Slot(k)
  BY DEF Slot, ring
<1> QED BY <1>1 DEF IInv, RingConsistent, ClientOrder, ring

\* Storing an entry: it takes the slot after the newest one, and it is the
\* next entry of its client.
LEMMA StoreIInv ==
  ASSUME IInv, NEW c \in Clients, PushStore(c)
  PROVE  IInv'
<1> DEFINE e == [client_id |-> c, n |-> pushed[c] + 1]
<1>0. /\ TypeOK /\ RingConsistent /\ ClientOrder /\ NoLostWakeup
      /\ Capacity \in Nat \ {0}
      /\ count \in 0..Capacity-1
      /\ ~shutdown
  BY CapacityAssumption DEF IInv, PushStore, Full, TypeOK
<1>1. /\ pushed[c] + 1 \in 1..MaxPush
      /\ pushed' = [pushed EXCEPT ![c] = pushed[c] + 1]
      /\ pushed[c] \in 0..MaxPush
      /\ pushed'[c] = pushed[c] + 1
  BY <1>0, MaxPushAssumption DEF PushStore, AtLoopTest, TypeOK
<1>2. e \in Entry
  BY <1>1 DEF Entry
<1>3. /\ items' = [items EXCEPT ![tail] = e]
      /\ tail' = Succ(tail)
      /\ count' = count + 1
      /\ pc' = [pc EXCEPT ![c] = "idle"]
      /\ pc[c] \in {"idle", "woken"}
      /\ UNCHANGED <<head, shutdown, sync, executed>>
  BY DEF PushStore, AtLoopTest
<1>4. TypeOK'
  <2>1. tail' \in 0..Capacity-1 /\ count' \in 0..Capacity
    BY <1>0, <1>3, SlotFacts
  <2>2. items' \in [0..Capacity-1 -> Entry \cup {NoEntry}]
    BY <1>0, <1>2, <1>3 DEF TypeOK
  <2>3. pushed' \in [Clients -> 0..MaxPush]
    BY <1>0, <1>1 DEF TypeOK
  <2>4. pc' \in [Clients -> {"idle", "waiting", "woken"}]
    BY <1>0, <1>3 DEF TypeOK
  <2> QED BY <1>0, <1>3, <2>1, <2>2, <2>3, <2>4 DEF TypeOK
<1>5. \A k : Slot(k)' = Slot(k)
  BY <1>3 DEF Slot
<1>6. \A k \in 0..count-1 : items'[Slot(k)] = items[Slot(k)]
  <2>1. \A k \in 0..count-1 : Slot(k) # tail /\ Slot(k) \in 0..Capacity-1
    <3>1. \A k \in 0..count-1 :
            k # count /\ k \in 0..Capacity-1 /\ k \in 0..Capacity
      BY <1>0
    <3> QED BY <1>0, <3>1, SlotFacts DEF RingConsistent
  <2> QED BY <1>0, <1>3, <2>1 DEF TypeOK
<1>7. items'[Slot(count)] = e
  BY <1>0, <1>3 DEF TypeOK, RingConsistent
<1>8. count' - 1 = count /\ 0..count = (0..count-1) \cup {count}
  BY <1>0, <1>3
<1>9. RingConsistent'
  <2>1. tail' = Slot(count + 1)
    BY <1>0, <1>3, SlotFacts DEF RingConsistent
  <2>2. \A k \in 0..count : items'[Slot(k)] \in Entry
    BY <1>0, <1>2, <1>6, <1>7, <1>8 DEF RingConsistent
  <2> QED BY <1>3, <1>5, <1>8, <2>1, <2>2 DEF RingConsistent
<1>10. ClientOrder'
  <2>1. ASSUME NEW k \in 0..count
        PROVE  items'[Slot(k)].n \in
                 executed[items'[Slot(k)].client_id]+1
                   .. pushed'[items'[Slot(k)].client_id]
    <3>1. CASE k = count
      <4>1. items'[Slot(k)].n = pushed[c] + 1 /\ items'[Slot(k)].client_id = c
        BY <1>7, <3>1
      <4>2. executed[c] \in 0..MaxPush /\ executed[c] <= pushed[c]
        BY <1>0 DEF ClientOrder, TypeOK
      <4> QED BY <1>1, <4>1, <4>2
    <3>2. CASE k \in 0..count-1
      <4> DEFINE d == items[Slot(k)]
      <4>1. d \in Entry /\ d.n \in executed[d.client_id]+1 .. pushed[d.client_id]
        BY <1>0, <3>2 DEF RingConsistent, ClientOrder
      <4>2. /\ d.client_id \in Clients
            /\ pushed[d.client_id] \in 0..MaxPush
            /\ executed[d.client_id] \in 0..MaxPush
        BY <1>0, <4>1 DEF TypeOK, Entry
      <4>3. pushed'[d.client_id] \in {pushed[d.client_id], pushed[d.client_id] + 1}
        BY <1>0, <1>1, <4>2 DEF TypeOK
      <4> HIDE DEF d
      <4>4. d.n \in executed[d.client_id]+1 .. pushed'[d.client_id]
        BY <4>1, <4>2, <4>3 DEF Entry
      <4> QED BY <1>6, <3>2, <4>4 DEF d
    <3> QED BY <1>8, <3>1, <3>2
  <2>2. ASSUME NEW j \in 0..count, NEW k \in 0..count, j < k,
               items'[Slot(j)].client_id = items'[Slot(k)].client_id
        PROVE  items'[Slot(j)].n < items'[Slot(k)].n
    <3>1. j \in 0..count-1 /\ items'[Slot(j)] = items[Slot(j)]
      BY <1>0, <1>6, <2>2
    <3>2. CASE k = count
      <4>1. items'[Slot(k)].n = pushed[c] + 1 /\ items'[Slot(k)].client_id = c
        BY <1>7, <3>2
      <4>2. /\ items[Slot(j)] \in Entry
            /\ items[Slot(j)].n \in executed[c]+1 .. pushed[c]
        BY <1>0, <2>2, <3>1, <4>1 DEF RingConsistent, ClientOrder
      <4>3. executed[c] \in 0..MaxPush
        BY <1>0 DEF TypeOK
      <4> QED BY <1>1, <3>1, <4>1, <4>2, <4>3
    <3>3. CASE k \in 0..count-1
      BY <1>0, <1>6, <2>2, <3>1, <3>3 DEF ClientOrder
    <3> QED BY <1>8, <3>2, <3>3
  <2>3. ASSUME NEW d \in Clients, NEW m \in executed[d]+1 .. pushed'[d]
        PROVE  \E k \in 0..count : items'[Slot(k)] = [client_id |-> d, n |-> m]
    <3>1. CASE d = c /\ m = pushed[c] + 1
      BY <1>0, <1>7, <3>1
    <3>2. CASE ~(d = c /\ m = pushed[c] + 1)
      <4>1. executed[d] \in 0..MaxPush /\ pushed[d] \in 0..MaxPush
        BY <1>0 DEF TypeOK
      <4>2. m \in executed[d]+1 .. pushed[d]
        BY <1>0, <1>1, <3>2, <4>1 DEF TypeOK
      <4>3. PICK k \in 0..count-1 : items[Slot(k)] = [client_id |-> d, n |-> m]
        BY <1>0, <4>2 DEF ClientOrder
      <4> QED BY <1>6, <1>8, <4>3
    <3> QED BY <3>1, <3>2
  <2>4. \A d \in Clients : executed'[d] <= pushed'[d]
    BY <1>0, <1>1, <1>3 DEF ClientOrder, TypeOK
  <2> QED BY <1>3, <1>5, <1>8, <2>1, <2>2, <2>3, <2>4 DEF ClientOrder
<1>11. NoLostWakeup'
  <2>1. /\ Waiters' = Waiters
        /\ Cardinality(Woken') >= Cardinality(Woken) - 1
        /\ Cardinality(Woken) \in Nat
        /\ Cardinality(Woken') \in Nat
    BY <1>0, <1>3, GoIdle
  <2> QED BY <1>0, <1>3, <2>1 DEF NoLostWakeup
<1> QED BY <1>0, <1>3, <1>4, <1>9, <1>10, <1>11 DEF IInv, ShutdownIsEmpty

\* Taking the oldest entry: it is the next one of its client, and every other
\* entry moves up by one.
LEMMA PopIInv ==
  ASSUME IInv, Pop
  PROVE  /\ IInv'
         /\ \A c \in Clients : executed'[c] \in {executed[c], executed[c] + 1}
<1> DEFINE e == items[head]
<1>0. /\ TypeOK /\ RingConsistent /\ ClientOrder /\ NoLostWakeup
      /\ Capacity \in Nat \ {0}
      /\ count \in 1..Capacity
      /\ ~shutdown
  BY CapacityAssumption DEF IInv, Pop, TypeOK
<1>1. /\ head' = Succ(head)
      /\ count' = count - 1
      /\ executed' = [executed EXCEPT ![e.client_id] = e.n]
      /\ SignalNotFull
      /\ UNCHANGED <<items, tail, shutdown, sync, pushed>>
  BY DEF Pop
<1>2. 0 \in 0..count-1 /\ Slot(0) = head
  BY <1>0, SlotFacts
<1>3. /\ e \in Entry
      /\ e.client_id \in Clients
      /\ e.n \in executed[e.client_id]+1 .. pushed[e.client_id]
  BY <1>0, <1>2 DEF RingConsistent, ClientOrder, Entry
<1>4. \A c \in Clients : executed[c] \in 0..MaxPush /\ pushed[c] \in 0..MaxPush
  BY <1>0 DEF TypeOK
\* No entry of e's client is older than e, so e is the next of its client.
<1>5. e.n = executed[e.client_id] + 1
  <2>1. executed[e.client_id] + 1 \in executed[e.client_id]+1 .. pushed[e.client_id]
    BY <1>3, <1>4
  <2>2. PICK k \in 0..count-1 :
          items[Slot(k)] = [client_id |-> e.client_id, n |-> executed[e.client_id] + 1]
    BY <1>0, <1>3, <2>1 DEF ClientOrder
  <2>3. CASE k = 0
    BY <1>2, <2>2, <2>3
  <2>4. CASE 0 < k
    <3>1. e.n < executed[e.client_id] + 1
      BY <1>0, <1>2, <2>2, <2>4 DEF ClientOrder
    <3> QED BY <1>3, <1>4, <3>1
  <2> QED BY <2>3, <2>4
<1>6. /\ executed'[e.client_id] = executed[e.client_id] + 1
      /\ \A c \in Clients : c # e.client_id => executed'[c] = executed[c]
      /\ executed' \in [Clients -> 0..MaxPush]
  <2>1. e.n \in 0..MaxPush
    BY <1>3, <1>4, MaxPushAssumption
  <2>2. executed \in [Clients -> 0..MaxPush]
    BY <1>0 DEF TypeOK
  <2> HIDE DEF e
  <2> QED BY <1>1, <1>3, <1>5, <2>1, <2>2
<1>7. \A k \in 0..count : Slot(k)' = Slot(k + 1) \/ k = Capacity
  BY <1>0, <1>1, SlotFacts DEF Slot
<1>8. \A k \in 0..count-2 : Slot(k)' = Slot(k + 1) /\ k + 1 \in 1..count-1
  BY <1>0, <1>7
<1>9. TypeOK'
  <2>1. head' \in 0..Capacity-1 /\ count' \in 0..Capacity
    BY <1>0, <1>1, SlotFacts
  <2>2. pc' \in [Clients -> {"idle", "waiting", "woken"}]
    BY <1>0, <1>1 DEF SignalNotFull, Waiters, TypeOK
  <2> QED BY <1>0, <1>1, <1>6, <2>1, <2>2 DEF TypeOK
<1>10. RingConsistent'
  <2>1. tail' = (head' + count') % Capacity
    <3>1. count - 1 \in 0..count /\ count - 1 # Capacity
      BY <1>0
    <3>2. (head' + (count - 1)) % Capacity = Slot(count)
      BY <1>0, <1>7, <3>1 DEF Slot
    <3> QED BY <1>0, <1>1, <3>2 DEF RingConsistent
  <2>2. \A k \in 0..count-2 : items[Slot(k)'] \in Entry
    BY <1>0, <1>8 DEF RingConsistent
  <2>3. count' - 1 = count - 2
    BY <1>0, <1>1
  <2>4. \A k \in 0..count'-1 : items'[Slot(k)'] \in Entry
    BY <1>1, <2>2, <2>3
  <2> QED BY <2>1, <2>4 DEF RingConsistent, Slot
<1>11. ClientOrder'
  <2>1. ASSUME NEW k \in 0..count-2
        PROVE  items[Slot(k)'].n \in
                 executed'[items[Slot(k)'].client_id]+1
                   .. pushed[items[Slot(k)'].client_id]
    <3> DEFINE d == items[Slot(k + 1)]
    <3>1. /\ k + 1 \in 0..count-1
          /\ d \in Entry
          /\ d.client_id \in Clients
          /\ d.n \in executed[d.client_id]+1 .. pushed[d.client_id]
      BY <1>0, <1>8 DEF RingConsistent, ClientOrder, Entry
    <3>2. CASE d.client_id = e.client_id
      <4>1. e.n < d.n
        BY <1>0, <1>2, <3>1, <3>2 DEF ClientOrder
      <4> HIDE DEF e, d
      <4>2. d.n \in executed'[d.client_id]+1 .. pushed[d.client_id]
        BY <1>3, <1>4, <1>5, <1>6, <3>1, <3>2, <4>1
      <4> QED BY <1>8, <4>2 DEF d
    <3>3. CASE d.client_id # e.client_id
      BY <1>6, <1>8, <3>1, <3>3
    <3> QED BY <3>2, <3>3
  <2>2. ASSUME NEW j \in 0..count-2, NEW k \in 0..count-2, j < k,
               items[Slot(j)'].client_id = items[Slot(k)'].client_id
        PROVE  items[Slot(j)'].n < items[Slot(k)'].n
    <3>1. j + 1 \in 0..count-1 /\ k + 1 \in 0..count-1 /\ j + 1 < k + 1
      BY <1>8, <2>2
    <3> QED BY <1>0, <1>8, <2>2, <3>1 DEF ClientOrder
  <2>3. ASSUME NEW d \in Clients, NEW m \in executed'[d]+1 .. pushed[d]
        PROVE  \E k \in 0..count-2 : items[Slot(k)'] = [client_id |-> d, n |-> m]
    <3>1. m \in executed[d]+1 .. pushed[d] /\ ~(d = e.client_id /\ m = e.n)
      BY <1>4, <1>5, <1>6
    <3>2. PICK k \in 0..count-1 : items[Slot(k)] = [client_id |-> d, n |-> m]
      BY <1>0, <3>1 DEF ClientOrder
    <3>3. k # 0
      BY <1>2, <3>1, <3>2
    <3>4. k - 1 \in 0..count-2 /\ Slot(k - 1)' = Slot(k)
      BY <1>0, <1>8, <3>3
    <3> QED BY <3>2, <3>4
  <2>4. \A d \in Clients : executed'[d] <= pushed[d]
    BY <1>0, <1>3, <1>4, <1>5, <1>6 DEF ClientOrder
  <2>5. count' - 1 = count - 2
    BY <1>0, <1>1
  <2> QED BY <1>1, <2>1, <2>2, <2>3, <2>4, <2>5 DEF ClientOrder
<1>12. NoLostWakeup'
  <2>1. CASE Waiters = {}
    <3>1. Waiters' = {}
      BY <1>1, <2>1 DEF SignalNotFull, Waiters
    <3> QED BY <3>1 DEF NoLostWakeup
  <2>2. CASE Waiters # {}
    <3>1. PICK c \in Waiters : pc' = [pc EXCEPT ![c] = "woken"]
      BY <1>1, <2>2 DEF SignalNotFull
    <3>2. /\ Cardinality(Woken') = Cardinality(Woken) + 1
          /\ Cardinality(Woken) \in Nat
      BY <1>0, <3>1, WakeOne
    <3>3. Capacity - count <= Cardinality(Woken)
      BY <1>0, <2>2 DEF NoLostWakeup
    <3> QED BY <1>0, <1>1, <3>2, <3>3 DEF NoLostWakeup
  <2> QED BY <2>1, <2>2
<1> QED BY <1>0, <1>1, <1>4, <1>6, <1>9, <1>10, <1>11, <1>12 DEF IInv, ShutdownIsEmpty

\* Blocking, refusing and waking leave the ring alone.
LEMMA WaitIInv ==
  ASSUME IInv, NEW c \in Clients,
         PushBlock(c) \/ PushRefuse(c) \/ SpuriousWakeup(c)
  PROVE  IInv'
<1>0. /\ TypeOK /\ NoLostWakeup /\ ShutdownIsEmpty
      /\ Capacity \in Nat \ {0}
      /\ count \in 0..Capacity
      /\ UNCHANGED <<ring, shutdown, sync, pushed, executed>>
  BY CapacityAssumption
  DEF IInv, TypeOK, PushBlock, PushRefuse, SpuriousWakeup
<1>1. RingConsistent' /\ ClientOrder'
  BY <1>0, RingUnchanged
<1>2. TypeOK'
  <2>1. pc' \in [Clients -> {"idle", "waiting", "woken"}]
    BY <1>0 DEF TypeOK, PushBlock, PushRefuse, SpuriousWakeup
  <2> QED BY <1>0, <2>1 DEF TypeOK, ring
<1>3. NoLostWakeup' /\ ShutdownIsEmpty'
  <2>1. CASE PushBlock(c)
    <3>1. Capacity - count' <= 0 /\ ~shutdown'
      BY <1>0, <2>1 DEF PushBlock, Full, ring
    <3>2. IsFiniteSet(Woken') /\ Cardinality(Woken') \in Nat
      BY ClientsAssumption, FS_Subset, FS_CardinalityType DEF Woken
    <3>3. Capacity - count' <= Cardinality(Woken')
      BY <1>0, <3>1, <3>2 DEF ring
    <3> QED BY <3>1, <3>3 DEF NoLostWakeup, ShutdownIsEmpty
  <2>2. CASE PushRefuse(c)
    <3>1. Waiters = {} /\ shutdown /\ count = 0
      BY <1>0, <2>2 DEF PushRefuse, ShutdownIsEmpty
    <3>2. Waiters' = {}
      BY <1>0, <2>2, <3>1 DEF PushRefuse, Waiters, TypeOK
    <3> QED BY <1>0, <3>1, <3>2 DEF NoLostWakeup, ShutdownIsEmpty, ring
  <2>3. CASE SpuriousWakeup(c)
    <3>1. c \in Waiters /\ pc' = [pc EXCEPT ![c] = "woken"]
      BY <2>3 DEF SpuriousWakeup, Waiters
    <3>2. /\ Cardinality(Woken') = Cardinality(Woken) + 1
          /\ Cardinality(Woken) \in Nat
          /\ Waiters' \subseteq Waiters
      BY <1>0, <3>1, WakeOne
    <3>3. Capacity - count <= Cardinality(Woken) /\ ~shutdown
      BY <1>0, <3>1 DEF NoLostWakeup, ShutdownIsEmpty
    <3> QED BY <1>0, <3>2, <3>3 DEF NoLostWakeup, ShutdownIsEmpty, ring
  <2> QED BY <2>1, <2>2, <2>3
<1> QED BY <1>1, <1>2, <1>3 DEF IInv

\* Shutting down empties the ring and leaves no waiter.
LEMMA DestroyIInv ==
  ASSUME IInv, Destroy
  PROVE  IInv'
<1>0. /\ TypeOK /\ RingConsistent /\ ClientOrder
      /\ Capacity \in Nat \ {0}
      /\ count \in 0..Capacity
      /\ head' = Slot(count)
      /\ count' = 0
      /\ shutdown'
      /\ pc' = [c \in Clients |-> IF pc[c] = "waiting" THEN "woken" ELSE pc[c]]
      /\ UNCHANGED <<items, tail, sync, pushed, executed>>
  BY CapacityAssumption DEF IInv, TypeOK, Destroy, Slot
<1>1. head' \in 0..Capacity-1
  BY <1>0, SlotFacts
<1>2. TypeOK'
  <2>1. pc' \in [Clients -> {"idle", "waiting", "woken"}]
    BY <1>0 DEF TypeOK
  <2>2. shutdown' \in BOOLEAN
    BY DEF Destroy
  <2>3. count' \in 0..Capacity
    BY <1>0
  <2> QED BY <1>0, <1>1, <2>1, <2>2, <2>3 DEF TypeOK
<1>3. RingConsistent'
  <2>1. head' \in 0..2*Capacity-1 /\ head' + count' = head'
    BY <1>0, <1>1
  <2>2. (head' + count') % Capacity = head'
    BY <1>0, <1>1, <2>1, ModRange
  <2> QED BY <1>0, <2>2 DEF RingConsistent, Slot
<1>4. ClientOrder'
  BY <1>0 DEF ClientOrder
<1>5. Waiters' = {}
  BY <1>0 DEF Waiters
<1> QED BY <1>0, <1>2, <1>3, <1>4, <1>5 DEF IInv, NoLostWakeup, ShutdownIsEmpty

\* Every step preserves the invariant, and executes commands in order.
LEMMA NextIInv ==
  ASSUME IInv, [Next]_vars
  PROVE  /\ IInv'
         /\ \A c \in Clients : executed'[c] \in {executed[c], executed[c] + 1}
<1>1. CASE Next
  <2>1. ASSUME NEW c \in Clients, PushStore(c)
        PROVE  IInv' /\ executed' = executed
    BY <2>1, StoreIInv DEF PushStore
  <2>2. ASSUME NEW c \in Clients,
               PushBlock(c) \/ PushRefuse(c) \/ SpuriousWakeup(c)
        PROVE  IInv' /\ executed' = executed
    BY <2>2, WaitIInv DEF PushBlock, PushRefuse, SpuriousWakeup
  <2>3. CASE Pop
    BY <2>3, PopIInv
  <2>4. CASE Destroy
    BY <2>4, DestroyIInv DEF Destroy
  <2>5. CASE DestroySync
    <3>1. /\ UNCHANGED <<ring, shutdown, pc, pushed, executed>>
          /\ sync' \in {"live", "destroyed"}
      BY <2>5 DEF DestroySync
    <3>2. RingConsistent' /\ ClientOrder'
      BY <3>1, RingUnchanged
    <3> QED BY <3>1, <3>2
        DEF IInv, TypeOK, NoLostWakeup, ShutdownIsEmpty, Waiters, Woken, ring
  <2> QED BY <1>1, <2>1, <2>2, <2>3, <2>4, <2>5 DEF Next
<1>2. CASE UNCHANGED vars
  <2>1. UNCHANGED <<ring, shutdown, sync, pc, pushed, executed>>
    BY <1>2 DEF vars, ring
  <2>2. RingConsistent' /\ ClientOrder'
    BY <2>1, RingUnchanged
  <2> QED BY <2>1, <2>2
      DEF IInv, TypeOK, NoLostWakeup, ShutdownIsEmpty, Waiters, Woken, ring
<1> QED BY <1>1, <1>2

(***************************************************************************)
(* Theorems                                                                *)
(***************************************************************************)

\* The inductive invariant holds of every reachable state of the queue.
THEOREM Invariant == Spec => []IInv
<1>1. IInv /\ [Next]_vars => IInv'
  BY NextIInv
<1> QED BY InitIInv, <1>1, PTL DEF Spec

\* The queue's variables keep their types; in particular count never leaves
\* 0..Capacity and no slot outside the ring is written.
THEOREM TypeCorrect == Spec => []TypeOK
<1>1. IInv => TypeOK
  BY DEF IInv
<1> QED BY Invariant, <1>1, PTL

\* head, tail and count agree, and a pop never reads a slot that holds no
\* entry.
THEOREM RingIsConsistent == Spec => []RingConsistent
<1>1. IInv => RingConsistent
  BY DEF IInv
<1> QED BY Invariant, <1>1, PTL

\* What is queued of a client is what it pushed and was not executed, in order.
THEOREM ClientOrderHolds == Spec => []ClientOrder
<1>1. IInv => ClientOrder
  BY DEF IInv
<1> QED BY Invariant, <1>1, PTL

\* No wakeup is lost, for any number of blocked clients.
THEOREM NoWakeupIsLost == Spec => []NoLostWakeup
<1>1. IInv => NoLostWakeup
  BY DEF IInv
<1> QED BY Invariant, <1>1, PTL

\* The main thread executes each client's commands in the order it sent them.
THEOREM ExecutionOrder == Spec => ExecutedInOrder
<1>1. IInv /\ [Next]_vars =>
        [\A c \in Clients : executed'[c] \in {executed[c], executed[c] + 1}]_vars
  BY NextIInv
<1> QED BY Invariant, <1>1, PTL DEF Spec, ExecutedInOrder

(***************************************************************************)
(* The ring implements the bounded FIFO queue                              *)
(***************************************************************************)

\* The refinement mapping gives a sequence of count entries.
LEMMA QueuedType ==
  ASSUME IInv
  PROVE  /\ Queued \in Seq(Entry)
         /\ Len(Queued) = count
         /\ count \in 0..Capacity
         /\ Capacity \in Nat \ {0}
         /\ \A k \in 1..count : Queued[k] = items[Slot(k - 1)]
<1>1. count \in 0..Capacity /\ Capacity \in Nat \ {0}
  BY CapacityAssumption DEF IInv, TypeOK
<1>2. \A k \in 1..count : items[Slot(k - 1)] \in Entry
  BY <1>1 DEF IInv, RingConsistent
<1>3. Queued \in [1..count -> Entry]
  BY <1>2 DEF Queued
<1> QED BY <1>1, <1>3 DEF Queued

\* Storing an entry appends it to the abstract queue.
LEMMA StoreIsPut ==
  ASSUME IInv, NEW c \in Clients, PushStore(c)
  PROVE  Fifo!FifoNext
<1> DEFINE e == [client_id |-> c, n |-> pushed[c] + 1]
<1>0. /\ TypeOK /\ RingConsistent
      /\ Capacity \in Nat \ {0}
      /\ count \in 0..Capacity-1
      /\ items' = [items EXCEPT ![tail] = e]
      /\ count' = count + 1
      /\ head' = head
      /\ ~shutdown /\ shutdown' = shutdown
  BY CapacityAssumption DEF IInv, PushStore, Full, TypeOK
<1>1. e \in Entry
  BY <1>0, MaxPushAssumption DEF Entry, PushStore, AtLoopTest, TypeOK
<1>2. /\ Queued \in Seq(Entry)
      /\ Len(Queued) = count
      /\ \A k \in 1..count : Queued[k] = items[Slot(k - 1)]
  BY QueuedType
<1>3. \A k \in 1..count : items'[Slot(k - 1)] = items[Slot(k - 1)]
  <2>1. \A k \in 1..count :
          k - 1 # count /\ k - 1 \in 0..Capacity-1 /\ k - 1 \in 0..Capacity
    BY <1>0
  <2>2. \A k \in 1..count : Slot(k - 1) # tail /\ Slot(k - 1) \in 0..Capacity-1
    BY <1>0, <2>1, SlotFacts DEF RingConsistent
  <2> QED BY <1>0, <2>2 DEF TypeOK
<1>4. items'[Slot(count)] = e
  BY <1>0 DEF TypeOK, RingConsistent
<1>5. Queued' = [k \in 1..count+1 |-> items'[Slot(k - 1)]]
  BY <1>0 DEF Queued, Slot
<1>6. Queued' = Append(Queued, e)
  <2>1. Queued' = [k \in 1..count+1 |-> IF k \in 1..count THEN Queued[k] ELSE e]
    <3>1. ASSUME NEW k \in 1..count+1
          PROVE  items'[Slot(k - 1)] = IF k \in 1..count THEN Queued[k] ELSE e
      <4>1. CASE k \in 1..count
        BY <1>2, <1>3, <4>1
      <4>2. CASE k = count + 1
        <5>1. k - 1 = count /\ k \notin 1..count
          BY <1>0, <4>2
        <5> QED BY <1>4, <5>1
      <4> QED BY <1>0, <4>1, <4>2
    <3> QED BY <1>5, <3>1
  <2> HIDE DEF e
  <2>2. Queued' \in [1..count+1 -> Entry]
    BY <1>0, <1>1, <1>2, <2>1, ElementOfSeq
  <2>3. Queued' \in Seq(Entry) /\ Len(Queued') = count + 1
    BY <1>0, <2>2
  <2>4. /\ Append(Queued, e) \in Seq(Entry)
        /\ Len(Append(Queued, e)) = count + 1
        /\ \A k \in 1..count : Append(Queued, e)[k] = Queued[k]
        /\ Append(Queued, e)[count + 1] = e
    BY <1>1, <1>2, AppendProperties
  <2>5. \A k \in 1..count+1 : Queued'[k] = Append(Queued, e)[k]
    BY <1>0, <2>1, <2>4
  <2> QED BY <2>3, <2>4, <2>5, SeqEqual
<1> QED BY <1>0, <1>1, <1>2, <1>6 DEF Fifo!FifoNext, Fifo!Put

\* Taking the oldest entry takes the abstract queue's first.
LEMMA PopIsTake ==
  ASSUME IInv, Pop
  PROVE  Fifo!FifoNext
<1>0. /\ TypeOK
      /\ Capacity \in Nat \ {0}
      /\ count \in 1..Capacity
      /\ items' = items
      /\ count' = count - 1
      /\ head' = Succ(head)
      /\ shutdown' = shutdown
  BY CapacityAssumption DEF IInv, Pop, TypeOK
<1>1. /\ Queued \in Seq(Entry)
      /\ Len(Queued) = count
      /\ \A k \in 1..count : Queued[k] = items[Slot(k - 1)]
  BY QueuedType
<1>2. \A k \in 1..count-1 : k - 1 \in 0..Capacity-1 /\ k + 1 \in 1..count
  BY <1>0
<1>3. \A k \in 1..count-1 : (Succ(head) + (k - 1)) % Capacity = Slot(k)
  BY <1>0, <1>2, SlotFacts
<1>4. Queued' = [k \in 1..count-1 |-> items[Slot(k)]]
  BY <1>0, <1>3 DEF Queued, Slot
<1>5. Queued # <<>>
  BY <1>0, <1>1
<1>6. /\ Tail(Queued) \in Seq(Entry)
      /\ Len(Tail(Queued)) = count - 1
      /\ \A k \in 1..count-1 : Tail(Queued)[k] = Queued[k + 1]
  BY <1>1, <1>5, HeadTailProperties
<1>7. Queued' = Tail(Queued)
  <2>1. \A k \in 1..count-1 : Queued'[k] = Tail(Queued)[k]
    BY <1>0, <1>1, <1>2, <1>4, <1>6
  <2>2. Queued' \in [1..count-1 -> Entry]
    BY <1>0, <1>1, <1>2, <1>4, ElementOfSeq
  <2>3. Queued' \in Seq(Entry) /\ Len(Queued') = count - 1
    BY <1>0, <2>2
  <2> QED BY <1>6, <2>1, <2>3, SeqEqual
<1> QED BY <1>0, <1>5, <1>7 DEF Fifo!FifoNext, Fifo!Take

\* The ring buffer, its mutex and its condition variable implement the bounded
\* FIFO queue: entries leave in the order they came, and never is one accepted
\* beyond the capacity or after the shutdown.
THEOREM FifoRefinement == Spec => ImplementsFifo
<1>1. Init => Fifo!FifoInit
  BY DEF Init, Fifo!FifoInit, Queued
<1>2. IInv /\ [Next]_vars => [Fifo!FifoNext]_Fifo!fifoVars
  <2> SUFFICES ASSUME IInv, [Next]_vars
               PROVE  Fifo!FifoNext \/ UNCHANGED Fifo!fifoVars
    OBVIOUS
  <2>1. ASSUME NEW c \in Clients, PushStore(c)
        PROVE  Fifo!FifoNext
    BY <2>1, StoreIsPut
  <2>2. ASSUME UNCHANGED <<ring, shutdown>>
        PROVE  UNCHANGED Fifo!fifoVars
    BY <2>2 DEF Fifo!fifoVars, Queued, Slot, ring
  <2>3. CASE Pop
    BY <2>3, PopIsTake
  <2>4. CASE Destroy
    <3>1. Queued' = <<>>
      BY <2>4 DEF Destroy, Queued
    <3> QED BY <2>4, <3>1 DEF Destroy, Fifo!FifoNext, Fifo!Close
  <2>5. ASSUME NEW c \in Clients,
               PushBlock(c) \/ PushRefuse(c) \/ SpuriousWakeup(c)
        PROVE  UNCHANGED <<ring, shutdown>>
    BY <2>5 DEF PushBlock, PushRefuse, SpuriousWakeup
  <2>6. CASE DestroySync \/ UNCHANGED vars
    BY <2>2, <2>6 DEF DestroySync, vars, ring
  <2> QED BY <2>1, <2>2, <2>3, <2>4, <2>5, <2>6 DEF Next
<1> QED BY Invariant, <1>1, <1>2, PTL DEF Spec, ImplementsFifo, Fifo!FifoSpec
=============================================================================
