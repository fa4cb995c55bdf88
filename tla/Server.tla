------------------------------- MODULE Server -------------------------------
(***************************************************************************)
(* Connections, requests and replies: the connection threads of            *)
(* src/src/server.c, the command queue, and the main thread that executes  *)
(* what they push and answers over the socket number kept in the entry.    *)
(*                                                                         *)
(* A connection thread receives one command, dispatches it and goes back   *)
(* to recv.  Its acknowledgement and its push are separate steps, between  *)
(* which the other threads run.  A write to a client that has stopped      *)
(* reading blocks its thread until that client hangs up.  Socket numbers   *)
(* are the kernel's: the lowest free one is given to the next connection.  *)
(* The queue is the one that CmdQueue is proved to implement.              *)
(***************************************************************************)
EXTENDS Integers, Sequences, FiniteSets, FiniteSetsExt

CONSTANTS
    Clients,    \* one connection each
    MaxReq,     \* bound: commands received from a client
    QueueMax,   \* CMD_QUEUE_CAPACITY
    Kinds       \* bound: the kinds of commands that are sent

ASSUME ClientsAssumption == IsFiniteSet(Clients)
ASSUME MaxReqAssumption == MaxReq \in Nat
ASSUME QueueMaxAssumption == QueueMax \in Nat \ {0}

(***************************************************************************)
(* What dispatch_cmd tells apart: commands handled in the connection       *)
(* thread (display lists, uploads, subscriptions, timers), with an id, and *)
(* those of them that answer without one (TimerCreate, TimerOnce,          *)
(* ListTimers; the others say nothing then, which changes nothing here);   *)
(* fire-and-forget commands without an id and with one; commands whose     *)
(* response comes from the main thread; and commands that only look like   *)
(* those by their prefix (Get, Is, Load, Upload), which no one knows.      *)
(***************************************************************************)
Kind == {"direct", "timer", "silent", "forget", "sync", "unknown"}

ASSUME KindsAssumption == Kinds \subseteq Kind

Request == [client : Clients, n : 1..MaxReq, kind : Kind]

Fd == 1..Cardinality(Clients)

Entry == [req : Request, conn_fd : Fd]

VARIABLES
    thread,     \* where each connection's thread is
    fd,         \* the socket of each connection, 0 when it has none
    peer,       \* is the connection up at both ends?
    stalled,    \* the clients that have stopped reading
    sent,       \* commands each client's thread has received
    current,    \* the kind of the command each thread is dispatching
    queue,      \* the command queue
    accepted,   \* history: requests that were pushed on the queue
    running,    \* FALSE once the main loop has ended
    got         \* the replies each client has received, in order

vars == <<thread, fd, peer, stalled, sent, current, queue, accepted, running, got>>

Fifo == INSTANCE BoundedFifo
            WITH Capacity <- QueueMax, fifo <- queue, open <- running

TypeOK ==
    /\ thread \in [Clients -> {"none", "read", "ack", "push", "gone"}]
    /\ fd \in [Clients -> Fd \cup {0}]
    /\ peer \in [Clients -> BOOLEAN]
    /\ \A c \in Clients : peer[c] => thread[c] \in {"read", "ack", "push"}
    /\ stalled \subseteq {c \in Clients : peer[c]}
    /\ sent \in [Clients -> 0..MaxReq]
    /\ current \in [Clients -> Kind \cup {"none"}]
    /\ \A c \in Clients : thread[c] \in {"ack", "push"} <=> current[c] # "none"
    /\ queue \in Seq(Entry)
    /\ accepted \subseteq Request
    /\ running \in BOOLEAN
    /\ \A c \in Clients : got[c] \in Seq(Request)

Init ==
    /\ thread = [c \in Clients |-> "none"]
    /\ fd = [c \in Clients |-> 0]
    /\ peer = [c \in Clients |-> FALSE]
    /\ stalled = {}
    /\ sent = [c \in Clients |-> 0]
    /\ current = [c \in Clients |-> "none"]
    /\ Fifo!FifoInit
    /\ accepted = {}
    /\ got = [c \in Clients |-> <<>>]

\* The request a thread is dispatching.
InHand(c) == [client |-> c, n |-> sent[c], kind |-> current[c]]

\* The connections whose socket is open.
Open == {c \in Clients : thread[c] \in {"read", "ack", "push"}}

FreeFds == Fd \ {fd[c] : c \in Open}

First(S) == {f \in S : \A g \in S : f <= g}

\* protocol_send: a message written to socket f reaches whoever is connected
\* on it now; on a closed socket, or with the peer gone, it is lost.  The
\* socket blocks: the write waits for a client that does not read.
SendTo(f, req) ==
    /\ \A c \in Open : fd[c] = f => c \notin stalled
    /\ got' = [c \in Clients |->
                  IF c \in Open /\ fd[c] = f /\ peer[c]
                  THEN Append(got[c], req) ELSE got[c]]

(***************************************************************************)
(* The listener                                                            *)
(***************************************************************************)

Accept(c) ==
    /\ running
    /\ thread[c] = "none"
    /\ thread' = [thread EXCEPT ![c] = "read"]
    /\ \E f \in First(FreeFds) : fd' = [fd EXCEPT ![c] = f]
    /\ peer' = [peer EXCEPT ![c] = TRUE]
    /\ UNCHANGED <<stalled, sent, current, queue, accepted, running, got>>

(***************************************************************************)
(* A connection thread                                                     *)
(***************************************************************************)

\* Fault: sync commands are acknowledged like the others.
AckEverything(kind) == kind \in {"forget", "sync", "unknown"}

\* An id, and not protocol_needs_response.
AckNow(kind) == kind = "forget"

\* The next command, sent before or after the client closed its end as far as
\* the server can tell.  What is handled in this thread is answered at once.
Receive(c, kind) ==
    LET req == [client |-> c, n |-> sent[c] + 1, kind |-> kind] IN
    /\ thread[c] = "read"
    /\ sent[c] < MaxReq
    /\ sent' = [sent EXCEPT ![c] = @ + 1]
    /\ \/ /\ kind \in {"direct", "timer"}
          /\ SendTo(fd[c], req)
          /\ UNCHANGED <<thread, current>>
       \/ /\ kind \notin {"direct", "timer"}
          /\ current' = [current EXCEPT ![c] = kind]
          /\ thread' = [thread EXCEPT ![c] = IF AckNow(kind) THEN "ack" ELSE "push"]
          /\ UNCHANGED got
    /\ UNCHANGED <<fd, peer, stalled, queue, accepted, running>>

\* The optimistic acknowledgement, before the push.
Ack(c) ==
    /\ thread[c] = "ack"
    /\ SendTo(fd[c], InHand(c))
    /\ thread' = [thread EXCEPT ![c] = "push"]
    /\ UNCHANGED <<fd, peer, stalled, sent, current, queue, accepted, running>>

\* Fault: the thread was given the listener's own variable, which holds the
\* socket accepted last.
EntryWithNewestFd(c) == [req |-> InHand(c), conn_fd |-> Max({fd[d] : d \in Open})]

EntryOf(c) == [req |-> InHand(c), conn_fd |-> fd[c]]

\* cmdq_push: blocks while the queue is full.
Push(c) ==
    /\ thread[c] = "push"
    /\ Fifo!Put(EntryOf(c))
    /\ accepted' = accepted \cup {InHand(c)}
    /\ thread' = [thread EXCEPT ![c] = "read"]
    /\ current' = [current EXCEPT ![c] = "none"]
    /\ UNCHANGED <<fd, peer, stalled, sent, got>>

\* cmdq_push returns false after the shutdown: the command is freed.
PushRefused(c) ==
    /\ thread[c] = "push"
    /\ ~running
    /\ thread' = [thread EXCEPT ![c] = "read"]
    /\ current' = [current EXCEPT ![c] = "none"]
    /\ UNCHANGED <<fd, peer, stalled, sent, queue, accepted, running, got>>

\* The client stops reading, and its socket fills up.
Stall(c) ==
    /\ peer[c]
    /\ stalled' = stalled \cup {c}
    /\ UNCHANGED <<thread, fd, peer, sent, current, queue, accepted, running, got>>

\* The client closes its end, at any time.
HangUp(c) ==
    /\ peer[c]
    /\ peer' = [peer EXCEPT ![c] = FALSE]
    /\ stalled' = stalled \ {c}
    /\ UNCHANGED <<thread, fd, sent, current, queue, accepted, running, got>>

\* The thread closes the socket and ends: recv returns 0, or the server gives
\* the connection up because of a line too long or a bad frame length.  (The
\* error it writes in the former case carries no id.)
ThreadExit(c) ==
    /\ thread[c] = "read"
    /\ thread' = [thread EXCEPT ![c] = "gone"]
    /\ fd' = [fd EXCEPT ![c] = 0]
    /\ peer' = [peer EXCEPT ![c] = FALSE]
    /\ stalled' = stalled \ {c}
    /\ UNCHANGED <<sent, current, queue, accepted, running, got>>

(***************************************************************************)
(* The main thread                                                         *)
(***************************************************************************)

\* Fault: the newest entry is executed first.
ExecuteNewest ==
    /\ running
    /\ queue # <<>>
    /\ queue' = SubSeq(queue, 1, Len(queue) - 1)
    /\ LET e == queue[Len(queue)] IN
         IF e.req.kind = "sync" THEN SendTo(e.conn_fd, e.req) ELSE UNCHANGED got
    /\ UNCHANGED <<thread, fd, peer, stalled, sent, current, accepted, running>>

\* Fault: an error path of a sync command returns without a response.
ExecuteSilently ==
    /\ running
    /\ Fifo!Take
    /\ LET e == Head(queue) IN
         \/ e.req.kind = "sync" /\ SendTo(e.conn_fd, e.req)
         \/ UNCHANGED got
    /\ UNCHANGED <<thread, fd, peer, stalled, sent, current, accepted>>

\* Execute the oldest command.  A sync command answers, with its result or an
\* error, on the socket number of the entry; a name that commands_execute does
\* not know is logged and nothing else.
Execute ==
    /\ running
    /\ Fifo!Take
    /\ LET e == Head(queue) IN
         IF e.req.kind = "sync" THEN SendTo(e.conn_fd, e.req) ELSE UNCHANGED got
    /\ UNCHANGED <<thread, fd, peer, stalled, sent, current, accepted>>

\* The window was closed: server_stop, then cmdq_destroy.
Stop ==
    /\ Fifo!Close
    /\ UNCHANGED <<thread, fd, peer, stalled, sent, current, accepted, got>>

Next ==
    \/ \E c \in Clients : Accept(c)
    \/ \E c \in Clients, kind \in Kinds : Receive(c, kind)
    \/ \E c \in Clients : Ack(c)
    \/ \E c \in Clients : Push(c)
    \/ \E c \in Clients : PushRefused(c)
    \/ \E c \in Clients : Stall(c)
    \/ \E c \in Clients : HangUp(c)
    \/ \E c \in Clients : ThreadExit(c)
    \/ Execute
    \/ Stop

Spec == Init /\ [][Next]_vars

\* The main loop drains the queue.  Clients and their threads owe nothing.
FairSpec == Spec /\ WF_vars(Execute)

(***************************************************************************)
(* Properties                                                              *)
(***************************************************************************)

Replies(c) == {got[c][i] : i \in DOMAIN got[c]}

\* No request is answered twice, whether by its connection thread or by the
\* main thread or by both; of those without an id none that goes through the
\* queue is answered.
AnsweredOnce ==
    \A c \in Clients :
        /\ \A i, j \in DOMAIN got[c] : i # j => got[c][i] # got[c][j]
        /\ \A r \in Replies(c) : r.kind # "silent"

\* The responses of the main thread reach a client in the order of its
\* requests (acknowledgements may overtake them).
SyncRepliesInOrder ==
    \A c \in Clients : \A i, j \in DOMAIN got[c] :
        /\ i < j
        /\ got[c][i].kind = "sync" /\ got[c][j].kind = "sync"
        /\ got[c][i].client = got[c][j].client
        => got[c][i].n < got[c][j].n

\* As long as a client is connected its replies go nowhere else.
NoReplyStolen ==
    \A c \in Clients : \A r \in Replies(c) :
        r.client = c \/ thread[r.client] = "gone"

\* A sync command that is on the queue is answered while its connection lasts
\* and the server runs, provided that no client stays connected for ever
\* without reading: the main thread writes to all of them.
SyncIsAnswered ==
    <>[](stalled = {}) =>
        \A c \in Clients, n \in 1..MaxReq :
            LET req == [client |-> c, n |-> n, kind |-> "sync"] IN
            req \in accepted
                ~> req \in Replies(c) \/ ~peer[c] \/ ~running

\* queue.h calls conn_fd the "originating socket fd": a response goes to the
\* client that sent the request, or to nobody.
ReplyToSender ==
    \A c \in Clients : \A r \in Replies(c) : r.client = c

\* README, ACK strategy: the optimistic acknowledgement is sent "after
\* successful parse and queue push".
AckAfterPush ==
    \A c \in Clients : \A r \in Replies(c) : r.kind = "forget" => r \in accepted

\* README, Command envelope: "Fire-and-forget commands (no `id`) are silent".
NoIdNoReply ==
    \A c \in Clients : \A r \in Replies(c) : r.kind \notin {"timer", "silent"}

\* protocol.h on protocol_needs_response: for those commands "the real
\* response comes from commands_execute()".
EveryExecutionAnswers ==
    <>[](stalled = {}) =>
        \A c \in Clients, n \in 1..MaxReq :
            LET req == [client |-> c, n |-> n, kind |-> "unknown"] IN
            req \in accepted
                ~> req \in Replies(c) \/ ~peer[c] \/ ~running
=============================================================================
