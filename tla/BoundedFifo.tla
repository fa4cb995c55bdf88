----------------------------- MODULE BoundedFifo -----------------------------
(***************************************************************************)
(* What the command queue of src/src/queue.h promises, without its ring    *)
(* buffer, mutex or condition variables: a bounded first-in first-out      *)
(* queue of entries that is closed once, losing what it still holds.       *)
(***************************************************************************)
EXTENDS Integers, Sequences

CONSTANTS
    Capacity,   \* CMD_QUEUE_CAPACITY
    Entry       \* the entries that may be queued

VARIABLES
    fifo,       \* the queued entries, oldest first
    open        \* FALSE once the queue has been shut down

fifoVars == <<fifo, open>>

FifoInit ==
    /\ fifo = <<>>
    /\ open = TRUE

\* cmdq_push: never into a full or a closed queue.
Put(e) ==
    /\ open
    /\ Len(fifo) < Capacity
    /\ fifo' = Append(fifo, e)
    /\ UNCHANGED open

\* cmdq_pop: the oldest entry leaves.
Take ==
    /\ fifo # <<>>
    /\ fifo' = Tail(fifo)
    /\ UNCHANGED open

\* cmdq_destroy: what is still queued is discarded.
Close ==
    /\ open
    /\ open' = FALSE
    /\ fifo' = <<>>

FifoNext ==
    \/ \E e \in Entry : Put(e)
    \/ Take
    \/ Close

FifoSpec == FifoInit /\ [][FifoNext]_fifoVars
=============================================================================
