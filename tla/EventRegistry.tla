---------------------------- MODULE EventRegistry ----------------------------
(***************************************************************************)
(* Event subscriptions: src/src/event_registry.c, with the end of a        *)
(* connection in src/src/server.c that calls it.                           *)
(*                                                                         *)
(* Connection threads subscribe, unsubscribe and disconnect; the main      *)
(* thread pushes events.  All of them take the registry's lock, and a push *)
(* keeps it while it writes to one subscriber after the other, so a push   *)
(* is many steps here and the other operations are one.                    *)
(***************************************************************************)
EXTENDS Integers, Sequences, FiniteSets, FiniteSetsExt, SequencesExt

CONSTANTS
    Conns,      \* connections, each made once
    Kinds,      \* event kinds
    MaxSubs,    \* ER_MAX_SUBS
    MayStall    \* connections whose client may stop reading

ASSUME ConnsAssumption == IsFiniteSet(Conns)
ASSUME KindsAssumption == "none" \notin Kinds
ASSUME MaxSubsAssumption == MaxSubs \in Nat
ASSUME MayStallAssumption == MayStall \subseteq Conns

Fd == 1..Cardinality(Conns)

EventSub == [fd : Fd, mask : (SUBSET Kinds) \ {{}}]

\* The main thread outside er_push, and in it: which event, the index it has
\* come to, and, as history, how often each connection was written to.
NoPush == [kind |-> "none", i |-> 0, reached |-> [c \in Conns |-> 0]]

VARIABLES
    subs,       \* the table, subs[1..count]
    thread,     \* where each connection's thread is
    fd,         \* the socket of each connection
    peer,       \* is the client's end still open?
    stalled,    \* is the socket's send buffer full, the client not reading?
    asked,      \* history: the kinds each connection has asked for
    push        \* the main thread's er_push, which holds the lock

vars == <<subs, thread, fd, peer, stalled, asked, push>>

LockFree == push.kind = "none"

TypeOK ==
    /\ subs \in Seq(EventSub) /\ Len(subs) <= MaxSubs
    /\ thread \in [Conns -> {"none", "read", "ack", "closing", "gone"}]
    /\ fd \in [Conns -> Fd \cup {0}]
    /\ peer \in [Conns -> BOOLEAN]
    /\ stalled \in [Conns -> BOOLEAN]
    /\ asked \in [Conns -> SUBSET Kinds]
    /\ push \in [kind : Kinds \cup {"none"}, i : 0..MaxSubs + 1,
                 reached : [Conns -> Nat]]

\* er_init.
Init ==
    /\ subs = <<>>
    /\ thread = [c \in Conns |-> "none"]
    /\ fd = [c \in Conns |-> 0]
    /\ peer = [c \in Conns |-> FALSE]
    /\ stalled = [c \in Conns |-> FALSE]
    /\ asked = [c \in Conns |-> {}]
    /\ push = NoPush

(***************************************************************************)
(* The table                                                               *)
(***************************************************************************)

EntriesOf(f) == {i \in DOMAIN subs : subs[i].fd = f}

\* The kinds socket f is subscribed to.
MaskOf(f) == UNION {subs[i].mask : i \in EntriesOf(f)}

\* s[i] = s[--count].
SwapOut(s, i) == Front([s EXCEPT ![i] = Last(s)])

\* er_subscribe: no mask, nothing to do; an entry grows; a new one is made
\* only while there is room.
Subscribed(f, mask) ==
    CASE mask = {} -> subs
      [] mask # {} /\ EntriesOf(f) # {} ->
           [subs EXCEPT ![Min(EntriesOf(f))].mask = @ \cup mask]
      [] mask # {} /\ EntriesOf(f) = {} /\ Len(subs) < MaxSubs ->
           Append(subs, [fd |-> f, mask |-> mask])
      [] OTHER -> subs

\* er_unsubscribe: an entry without kinds is removed.
Unsubscribed(f, mask) ==
    IF EntriesOf(f) = {} THEN subs
    ELSE LET i == Min(EntriesOf(f)) IN
         IF subs[i].mask \subseteq mask THEN SwapOut(subs, i)
         ELSE [subs EXCEPT ![i].mask = @ \ mask]

\* er_remove_fd.
Removed(f) ==
    IF EntriesOf(f) = {} THEN subs ELSE SwapOut(subs, Min(EntriesOf(f)))

(***************************************************************************)
(* Connections                                                             *)
(***************************************************************************)

Open == {c \in Conns : thread[c] \notin {"none", "gone"}}

\* The kernel gives the connection a number that is free.
Accept(c) ==
    /\ thread[c] = "none"
    /\ thread' = [thread EXCEPT ![c] = "read"]
    /\ \E f \in Fd \ {fd[d] : d \in Conns} : fd' = [fd EXCEPT ![c] = f]
    /\ peer' = [peer EXCEPT ![c] = TRUE]
    /\ UNCHANGED <<subs, stalled, asked, push>>

\* Commands still in the receive buffer are handled after the client is gone.
Subscribe(c, mask) ==
    /\ thread[c] = "read"
    /\ LockFree
    /\ subs' = Subscribed(fd[c], mask)
    /\ asked' = [asked EXCEPT ![c] = @ \cup mask]
    /\ thread' = [thread EXCEPT ![c] = "ack"]
    /\ UNCHANGED <<fd, peer, stalled, push>>

\* What er_unsubscribe does once it has the lock.
DoUnsubscribe(c, mask) ==
    /\ thread[c] = "read"
    /\ subs' = Unsubscribed(fd[c], mask)
    /\ asked' = [asked EXCEPT ![c] = @ \ mask]
    /\ thread' = [thread EXCEPT ![c] = "ack"]
    /\ UNCHANGED <<fd, peer, stalled, push>>

Unsubscribe(c, mask) ==
    /\ LockFree
    /\ DoUnsubscribe(c, mask)

\* protocol_send in the connection thread: a full buffer blocks it.
Ack(c) ==
    /\ thread[c] = "ack"
    /\ ~stalled[c]
    /\ thread' = [thread EXCEPT ![c] = "read"]
    /\ UNCHANGED <<subs, fd, peer, stalled, asked, push>>

\* The client closes its end: blocked writes fail.
HangUp(c) ==
    /\ peer[c]
    /\ peer' = [peer EXCEPT ![c] = FALSE]
    /\ stalled' = [stalled EXCEPT ![c] = FALSE]
    /\ UNCHANGED <<subs, thread, fd, asked, push>>

\* The client stops reading until its buffer is full, or reads again.
Stall(c) ==
    /\ c \in MayStall
    /\ peer[c]
    /\ stalled' = [stalled EXCEPT ![c] = ~@]
    /\ UNCHANGED <<subs, thread, fd, peer, asked, push>>

\* Fault: the socket is closed first.
CloseFirst(c) ==
    /\ thread[c] = "read"
    /\ thread' = [thread EXCEPT ![c] = "gone"]
    /\ fd' = [fd EXCEPT ![c] = 0]
    /\ UNCHANGED <<subs, peer, stalled, asked, push>>

\* The client is gone, or the server ends the connection for a line that is
\* too long or a bad frame: the subscriptions go first, under the lock ...
Disconnect(c) ==
    /\ thread[c] = "read"
    /\ LockFree
    /\ subs' = Removed(fd[c])
    /\ asked' = [asked EXCEPT ![c] = {}]
    /\ thread' = [thread EXCEPT ![c] = "closing"]
    /\ UNCHANGED <<fd, peer, stalled, push>>

\* Fault: an early return without close.
CloseLeaks(c) ==
    /\ thread[c] = "closing"
    /\ thread' = [thread EXCEPT ![c] = "gone"]
    /\ UNCHANGED <<subs, fd, peer, stalled, asked, push>>

\* ... then the socket is closed and its number free; a client that is still
\* there finds the connection ended.
Close(c) ==
    /\ thread[c] = "closing"
    /\ thread' = [thread EXCEPT ![c] = "gone"]
    /\ fd' = [fd EXCEPT ![c] = 0]
    /\ peer' = [peer EXCEPT ![c] = FALSE]
    /\ stalled' = [stalled EXCEPT ![c] = FALSE]
    /\ UNCHANGED <<subs, asked, push>>

(***************************************************************************)
(* er_push, in the main thread                                             *)
(***************************************************************************)

PushBegin(k) ==
    /\ LockFree
    /\ push' = [NoPush EXCEPT !.kind = k, !.i = 1]
    /\ UNCHANGED <<subs, thread, fd, peer, stalled, asked>>

InPush == ~LockFree /\ push.i <= Len(subs)

\* Fault: no look at the mask.
WantedByAll == TRUE

Wanted == push.kind \in subs[push.i].mask

\* Whoever is on the socket of the entry the push has come to.
Addressee == {c \in Open : fd[c] = subs[push.i].fd}

Skip ==
    /\ InPush /\ ~Wanted
    /\ push' = [push EXCEPT !.i = @ + 1]
    /\ UNCHANGED <<subs, thread, fd, peer, stalled, asked>>

\* The write succeeds unless the buffer is full.  The first writes to a client
\* that is gone succeed too.
Write ==
    /\ InPush /\ Wanted
    /\ \E c \in Addressee :
        /\ ~stalled[c]
        /\ push' = [push EXCEPT !.i = @ + 1, !.reached[c] = @ + 1]
    /\ UNCHANGED <<subs, thread, fd, peer, stalled, asked>>

WriteCanFail == \A c \in Addressee : ~peer[c]

\* Fault: the index moves on past the entry swapped in.
WriteFailsAndSkips ==
    /\ InPush /\ Wanted /\ WriteCanFail
    /\ subs' = SwapOut(subs, push.i)
    /\ push' = [push EXCEPT !.i = @ + 1]
    /\ UNCHANGED <<thread, fd, peer, stalled, asked>>

\* A dead connection: the last entry is swapped in and examined next.
WriteFails ==
    /\ InPush /\ Wanted /\ WriteCanFail
    /\ subs' = SwapOut(subs, push.i)
    /\ UNCHANGED <<thread, fd, peer, stalled, asked, push>>

PushEnd ==
    /\ ~LockFree /\ push.i > Len(subs)
    /\ push' = NoPush
    /\ UNCHANGED <<subs, thread, fd, peer, stalled, asked>>

MainStep == Skip \/ Write \/ WriteFails \/ PushEnd

Next ==
    \/ \E c \in Conns : Accept(c)
    \/ \E c \in Conns, mask \in SUBSET Kinds : Subscribe(c, mask)
    \/ \E c \in Conns, mask \in SUBSET Kinds : Unsubscribe(c, mask)
    \/ \E c \in Conns : Ack(c)
    \/ \E c \in Conns : HangUp(c)
    \/ \E c \in Conns : Stall(c)
    \/ \E c \in Conns : Disconnect(c)
    \/ \E c \in Conns : Close(c)
    \/ \E k \in Kinds : PushBegin(k)
    \/ Skip
    \/ Write
    \/ WriteFails
    \/ PushEnd

Spec == Init /\ [][Next]_vars

\* The main thread runs; threads that can have the lock again and again get
\* it; clients owe nothing, and no connection has to end while its client is
\* there.
Fairness ==
    /\ WF_vars(MainStep)
    /\ \A c \in Conns :
          SF_vars(~peer[c] /\ Disconnect(c)) /\ WF_vars(Close(c)) /\ WF_vars(Ack(c))

FairSpec == Spec /\ Fairness

(***************************************************************************)
(* Properties                                                              *)
(***************************************************************************)

\* A socket has one entry, and it belongs to an open connection that asked for
\* what is in it: er_remove_fd comes before close, so a number that the kernel
\* gives out again starts without subscriptions.
EntriesHaveOwners ==
    /\ \A i, j \in DOMAIN subs : i # j => subs[i].fd # subs[j].fd
    /\ \A i \in DOMAIN subs : \E c \in Open :
          fd[c] = subs[i].fd /\ subs[i].mask \subseteq asked[c]

\* An event goes only to connections that asked for its kind, whatever the
\* others do while er_push is on its way through the table.
OnlyAskedEvents ==
    [][\A c \in Conns :
          push'.reached[c] > push.reached[c] => push.kind \in asked[c]]_vars

\* event_registry.h: "Push a JSON event to all connections subscribed to
\* kind".  When er_push ends every connection that is alive and subscribed has
\* been written to, once, although dead entries were removed on the way.
EachPushReachesAll ==
    [][PushEnd => \A c \in Open :
          peer[c] /\ push.kind \in MaskOf(fd[c]) => push.reached[c] = 1]_vars

\* event_registry.h: er_subscribe "Creates an entry if needed": what a live
\* connection has asked for, with its acknowledgement, is in the table.
AskedIsSubscribed ==
    \A c \in Open : peer[c] => MaskOf(fd[c]) = asked[c]

\* While the table has room it says of every socket what its connection asked
\* for, neither more nor less, whoever had the socket before and whoever is
\* subscribing, leaving or being written to.
TableIsAsAsked == EntriesHaveOwners /\ AskedIsSubscribed

\* A disconnected client's subscriptions and socket are given back, although
\* its thread competes with the main thread for the lock.
SocketIsFreed ==
    \A c \in Conns :
        thread[c] = "read" /\ ~peer[c]
            ~> fd[c] = 0 \/ \E d \in Conns : stalled[d]

\* README: the server renders "at a steady frame rate": the main thread is not
\* held up for ever in er_push.
MainLoopMovesOn == ~LockFree ~> LockFree
=============================================================================
