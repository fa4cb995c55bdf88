------------------------------ MODULE CmdQueue ------------------------------
(***************************************************************************)
(* The command queue of src/src/queue.c: a ring buffer under one mutex,    *)
(* filled by the connection threads (one per client, src/src/server.c) and *)
(* drained by the main thread (src/src/main.c).                            *)
(*                                                                         *)
(* A critical section of the mutex is one step.  pthread_cond_wait splits  *)
(* cmdq_push in two: a thread that finds the queue full joins the waiters  *)
(* of not_full ("waiting"); a signal, a broadcast or a spurious wakeup     *)
(* makes it "woken", and it re-evaluates the loop condition when it gets   *)
(* the mutex again.  Nobody ever waits on not_empty (cmdq_pop does not     *)
(* block), so its signal has no effect.                                    *)
(***************************************************************************)
EXTENDS Integers, FiniteSets, Functions

CONSTANTS
    Capacity,   \* CMD_QUEUE_CAPACITY (2048 in queue.h)
    Clients,    \* connection threads, by client_id
    MaxPush,    \* bound: entries one client may push
    NoEntry     \* what memset(0) leaves in a slot

Entry == [client_id : Clients, n : 1..MaxPush]

ASSUME CapacityAssumption == Capacity \in Nat \ {0}
ASSUME ClientsAssumption == IsFiniteSet(Clients)
ASSUME MaxPushAssumption == MaxPush \in Nat
ASSUME NoEntryAssumption == NoEntry \notin Entry

VARIABLES
    items,      \* the ring
    head,       \* slot of the oldest entry
    tail,       \* slot the next entry goes to
    count,      \* entries queued
    shutdown,   \* set by cmdq_destroy
    sync,       \* "live" until the mutex and the conditions are destroyed
    pc,         \* where each client's thread is in cmdq_push
    pushed,     \* history: entries of each client accepted so far
    executed    \* history: the last entry of each client popped so far

ring == <<items, head, tail, count>>
vars == <<items, head, tail, count, shutdown, sync, pc, pushed, executed>>

TypeOK ==
    /\ items \in [0..Capacity-1 -> Entry \cup {NoEntry}]
    /\ head \in 0..Capacity-1
    /\ tail \in 0..Capacity-1
    /\ count \in 0..Capacity
    /\ shutdown \in BOOLEAN
    /\ sync \in {"live", "destroyed"}
    /\ pc \in [Clients -> {"idle", "waiting", "woken"}]
    /\ pushed \in [Clients -> 0..MaxPush]
    /\ executed \in [Clients -> 0..MaxPush]

\* cmdq_init
Init ==
    /\ items = [i \in 0..Capacity-1 |-> NoEntry]
    /\ head = 0
    /\ tail = 0
    /\ count = 0
    /\ shutdown = FALSE
    /\ sync = "live"
    /\ pc = [c \in Clients |-> "idle"]
    /\ pushed = [c \in Clients |-> 0]
    /\ executed = [c \in Clients |-> 0]

Waiters == {c \in Clients : pc[c] = "waiting"}
Woken   == {c \in Clients : pc[c] = "woken"}

Full == count >= Capacity

\* The index after i in the ring.
Succ(i) == (i + 1) % Capacity

(***************************************************************************)
(* cmdq_push                                                               *)
(***************************************************************************)

\* A client's thread at the top of cmdq_push: it holds the mutex, on entry
\* or on its way out of pthread_cond_wait.
AtLoopTest(c) ==
    /\ sync = "live"
    /\ pc[c] \in {"idle", "woken"}
    /\ pushed[c] < MaxPush

\* Fault: a thread that waited forgets to look at shutdown.
StoreAfterShutdown(c) ==
    /\ AtLoopTest(c)
    /\ ~shutdown \/ pc[c] = "woken"
    /\ ~Full
    /\ items' = [items EXCEPT ![tail] =
                    [client_id |-> c, n |-> pushed[c] + 1]]
    /\ tail' = Succ(tail)
    /\ count' = count + 1
    /\ pushed' = [pushed EXCEPT ![c] = @ + 1]
    /\ pc' = [pc EXCEPT ![c] = "idle"]
    /\ UNCHANGED <<head, shutdown, sync, executed>>

\* The queue is open and has a free slot.
PushStore(c) ==
    /\ AtLoopTest(c)
    /\ ~shutdown
    /\ ~Full
    /\ items' = [items EXCEPT ![tail] =
                    [client_id |-> c, n |-> pushed[c] + 1]]
    /\ tail' = Succ(tail)
    /\ count' = count + 1
    /\ pushed' = [pushed EXCEPT ![c] = @ + 1]
    /\ pc' = [pc EXCEPT ![c] = "idle"]
    /\ UNCHANGED <<head, shutdown, sync, executed>>

\* The queue is full: release the mutex and wait for not_full.
PushBlock(c) ==
    /\ AtLoopTest(c)
    /\ ~shutdown
    /\ Full
    /\ pc' = [pc EXCEPT ![c] = "waiting"]
    /\ UNCHANGED <<ring, shutdown, sync, pushed, executed>>

\* The queue has been shut down: false, and the entry is not consumed.
PushRefuse(c) ==
    /\ AtLoopTest(c)
    /\ shutdown
    /\ pc' = [pc EXCEPT ![c] = "idle"]
    /\ UNCHANGED <<ring, shutdown, sync, pushed, executed>>

\* POSIX lets pthread_cond_wait return without a signal.
SpuriousWakeup(c) ==
    /\ pc[c] = "waiting"
    /\ sync = "live"
    /\ pc' = [pc EXCEPT ![c] = "woken"]
    /\ UNCHANGED <<ring, shutdown, sync, pushed, executed>>

(***************************************************************************)
(* cmdq_pop and cmdq_destroy, both called by the main thread only          *)
(***************************************************************************)

\* Fault: signal only when the queue was full, since only then is anybody
\* presumed to wait.
SignalIfWasFull ==
    IF Waiters = {} \/ ~Full
    THEN UNCHANGED pc
    ELSE \E c \in Waiters : pc' = [pc EXCEPT ![c] = "woken"]

\* pthread_cond_signal(&q->not_full): one waiter, any one, is woken.
SignalNotFull ==
    IF Waiters = {}
    THEN UNCHANGED pc
    ELSE \E c \in Waiters : pc' = [pc EXCEPT ![c] = "woken"]

\* Fault: the newest entry is taken, as from a stack.
PopNewest ==
    /\ ~shutdown
    /\ count > 0
    /\ LET last == (tail + Capacity - 1) % Capacity IN
         /\ executed' = [executed EXCEPT ![items[last].client_id] = items[last].n]
         /\ tail' = last
    /\ count' = count - 1
    /\ SignalNotFull
    /\ UNCHANGED <<items, head, shutdown, sync, pushed>>

\* A pop that finds an entry.  (One that finds none changes nothing.)  The
\* slot keeps its old contents.
Pop ==
    /\ ~shutdown
    /\ count > 0
    /\ executed' = [executed EXCEPT ![items[head].client_id] = items[head].n]
    /\ head' = Succ(head)
    /\ count' = count - 1
    /\ SignalNotFull
    /\ UNCHANGED <<items, tail, shutdown, sync, pushed>>

\* Fault: cmdq_destroy forgets to wake the threads blocked in cmdq_push.
DestroyWithoutBroadcast ==
    /\ ~shutdown
    /\ shutdown' = TRUE
    /\ head' = (head + count) % Capacity
    /\ count' = 0
    /\ UNCHANGED <<items, tail, sync, pc, pushed, executed>>

\* The critical section of cmdq_destroy: shut down, free every entry still
\* queued, wake every waiter.
Destroy ==
    /\ ~shutdown
    /\ shutdown' = TRUE
    /\ head' = (head + count) % Capacity
    /\ count' = 0
    /\ pc' = [c \in Clients |-> IF pc[c] = "waiting" THEN "woken" ELSE pc[c]]
    /\ UNCHANGED <<items, tail, sync, pushed, executed>>

\* ... and, after it has released the mutex, the mutex itself goes.
DestroySync ==
    /\ shutdown
    /\ sync = "live"
    /\ sync' = "destroyed"
    /\ UNCHANGED <<ring, shutdown, pc, pushed, executed>>

(***************************************************************************)
(* The specification                                                       *)
(***************************************************************************)

Push(c) == PushStore(c) \/ PushBlock(c) \/ PushRefuse(c)

Next ==
    \/ \E c \in Clients : PushStore(c)
    \/ \E c \in Clients : PushBlock(c)
    \/ \E c \in Clients : PushRefuse(c)
    \/ \E c \in Clients : SpuriousWakeup(c)
    \/ Pop
    \/ Destroy
    \/ DestroySync

Spec == Init /\ [][Next]_vars

\* The main thread drains the queue in every frame, and a woken thread gets
\* the mutex in the end.  Nothing makes the window close.
Fairness ==
    /\ WF_vars(Pop)
    /\ \A c \in Clients : WF_vars(pc[c] = "woken" /\ Push(c))

FairSpec == Spec /\ Fairness

(***************************************************************************)
(* Properties                                                              *)
(***************************************************************************)

\* The slot of the k-th oldest entry, counting from 0.
Slot(k) == (head + k) % Capacity

\* The ring's indices agree with its count, and every live slot holds an
\* entry rather than what memset left there.
RingConsistent ==
    /\ tail = Slot(count)
    /\ \A k \in 0..count-1 : items[Slot(k)] \in Entry

\* The entries of one client are in the ring in the order it pushed them,
\* each once, none missing: what is queued of a client is exactly what it
\* pushed after the last entry that was executed.
ClientOrder ==
    /\ \A c \in Clients : executed[c] <= pushed[c]
    /\ \A k \in 0..count-1 :
         LET e == items[Slot(k)] IN
           e.n \in executed[e.client_id]+1 .. pushed[e.client_id]
    /\ \A j, k \in 0..count-1 :
         /\ j < k
         /\ items[Slot(j)].client_id = items[Slot(k)].client_id
         => items[Slot(j)].n < items[Slot(k)].n
    /\ ~shutdown =>
         \A c \in Clients : \A m \in executed[c]+1 .. pushed[c] :
           \E k \in 0..count-1 : items[Slot(k)] = [client_id |-> c, n |-> m]

\* The main thread executes the commands of each client one after the other,
\* in the order the client sent them, skipping and repeating none.
ExecutedInOrder ==
    [][\A c \in Clients : executed'[c] \in {executed[c], executed[c] + 1}]_vars

\* No wakeup of not_full is lost: while some thread waits, every free slot
\* has a thread on its way to it.
NoLostWakeup ==
    Waiters # {} => Capacity - count <= Cardinality(Woken)

\* The number of commands the queue has accepted so far.
Accepted == SumFunction(pushed)

\* A full queue does not stand still: while some thread is blocked in
\* cmdq_push, another command is accepted (its own or that of a client that
\* was faster), or the queue is shut down and no thread is left waiting.
\* Nothing is promised to one thread: mutex and condition are not fair, and
\* a woken thread may find the slot taken again for ever.
BlockedPushesGoOn ==
    \A k \in 0..MaxPush * Cardinality(Clients) :
        (Waiters # {} /\ Accepted = k)
            ~> (Accepted > k \/ (shutdown /\ Waiters = {}))

\* queue.h: cmdq_push "returns false if the queue has been shut down".  A
\* thread that was woken by the shutdown has to take the mutex again in order
\* to return false, so the mutex must still be there.
WokenPushCanReturn ==
    sync = "destroyed" => Woken = {}

\* The ring implements the bounded queue.
Queued == [k \in 1..count |-> items[Slot(k - 1)]]

Fifo == INSTANCE BoundedFifo WITH fifo <- Queued, open <- ~shutdown

\* Every step of the ring buffer is a step of a bounded FIFO queue, or one
\* that the queue's users cannot see.
ImplementsFifo == Fifo!FifoSpec
=============================================================================
