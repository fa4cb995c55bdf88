----------------------------- MODULE ServerProofs -----------------------------
(***************************************************************************)
(* Theorems about Server, for any number of connections and of requests    *)
(* and a queue of any size.                                                *)
(***************************************************************************)
EXTENDS Server, FiniteSetTheorems, SequenceTheorems, TLAPS

(***************************************************************************)
(* The inductive invariant                                                 *)
(***************************************************************************)

\* No two open connections are on the same socket.
SocketsDistinct ==
    /\ \A c \in Open : fd[c] \in Fd
    /\ \A c, d \in Open : fd[c] = fd[d] => c = d

\* What waits in the queue was sent, and before what its thread has in hand;
\* its client has its socket still, or is gone; of each client the older
\* request is in front.
QueuedInOrder ==
    /\ \A i \in DOMAIN queue :
          LET r == queue[i].req IN
          /\ r.n <= sent[r.client]
          /\ current[r.client] # "none" => r.n < sent[r.client]
          /\ \/ thread[r.client] = "gone"
             \/ r.client \in Open /\ queue[i].conn_fd = fd[r.client]
    /\ \A i, j \in DOMAIN queue :
          i < j /\ queue[i].req.client = queue[j].req.client
              => queue[i].req.n < queue[j].req.n

\* Only commands that the main thread does not answer are acknowledged.
InHandKnown ==
    \A c \in Clients : /\ thread[c] = "ack" => current[c] = "forget"
                       /\ current[c] # "none" => sent[c] >= 1

\* A reply is to a request that was sent and is not going to be answered: a
\* thread that will acknowledge has a newer one in hand, and the main thread
\* will execute newer ones than those it has answered.
RepliesAreOld ==
    \A c \in Clients : \A r \in Replies(c) :
        /\ r.n <= sent[r.client]
        /\ thread[r.client] = "ack" => r.n < sent[r.client]
        /\ r.kind = "sync" =>
              /\ current[r.client] # "none" => r.n < sent[r.client]
              /\ \A i \in DOMAIN queue :
                    queue[i].req.client = r.client => r.n < queue[i].req.n

IInv == /\ TypeOK /\ SocketsDistinct /\ QueuedInOrder /\ InHandKnown /\ RepliesAreOld
        /\ AnsweredOnce /\ SyncRepliesInOrder /\ NoReplyStolen

(***************************************************************************)
(* Sequences and sets                                                      *)
(***************************************************************************)

LEMMA Appended ==
  ASSUME NEW S, NEW s \in Seq(S), NEW e \in S
  PROVE  /\ Append(s, e) \in Seq(S)
         /\ Len(s) \in Nat /\ DOMAIN s = 1..Len(s)
         /\ DOMAIN Append(s, e) = 1..Len(s) + 1
         /\ Append(s, e)[Len(s) + 1] = e
         /\ \A i \in DOMAIN s : Append(s, e)[i] = s[i]
BY LenProperties, AppendProperties

LEMMA TailFacts ==
  ASSUME NEW S, NEW s \in Seq(S), s # <<>>
  PROVE  /\ Head(s) = s[1] /\ s[1] \in S
         /\ Tail(s) \in Seq(S)
         /\ Len(s) \in Nat /\ DOMAIN s = 1..Len(s) /\ 1 \in DOMAIN s
         /\ DOMAIN Tail(s) = 1..Len(s) - 1
         /\ \A i \in 1..Len(s) - 1 : Tail(s)[i] = s[i + 1] /\ i + 1 \in DOMAIN s
BY LenProperties, HeadTailProperties, ElementOfSeq

(***************************************************************************)
(* Replies                                                                 *)
(***************************************************************************)

LEMMA SendToFacts ==
  ASSUME TypeOK, NEW f, NEW req \in Request, SendTo(f, req), NEW c \in Clients
  PROVE  /\ got[c] \in Seq(Request)
         /\ \/ got'[c] = got[c]
            \/ c \in Open /\ fd[c] = f /\ got'[c] = Append(got[c], req)
BY DEF SendTo, TypeOK

\* A reply that is new, that answers a request with an id, that is no older
\* than the main thread's earlier answers, and that goes to its client's
\* socket, or to any once the client is gone.
LEMMA ReplyKeeps ==
  ASSUME IInv, NEW f, NEW req \in Request, SendTo(f, req),
         req.kind # "silent",
         \A c \in Clients : req \notin Replies(c),
         \A c \in Clients : \A r \in Replies(c) :
             r.client = req.client /\ r.kind = "sync" /\ req.kind = "sync"
                 => r.n < req.n,
         \A c \in Open : fd[c] = f => req.client = c \/ thread[req.client] = "gone",
         \A c \in Clients : thread[c] = "gone" => thread'[c] = "gone"
  PROVE  /\ \A c \in Clients : got'[c] \in Seq(Request)
         /\ \A c \in Clients : Replies(c)' \subseteq Replies(c) \cup {req}
         /\ AnsweredOnce' /\ SyncRepliesInOrder' /\ NoReplyStolen'
<1> USE DEF IInv
<1> DEFINE Grown(c) == /\ c \in Open /\ fd[c] = f
                       /\ got'[c] = Append(got[c], req)
<1>1. \A c \in Clients : got[c] \in Seq(Request) /\ (got'[c] = got[c] \/ Grown(c))
  BY SendToFacts
<1>2. ASSUME NEW c \in Clients, got'[c] # got[c]
      PROVE  /\ got'[c] \in Seq(Request)
             /\ Len(got[c]) \in Nat /\ DOMAIN got[c] = 1..Len(got[c])
             /\ DOMAIN got'[c] = 1..Len(got[c]) + 1
             /\ got'[c][Len(got[c]) + 1] = req
             /\ \A i \in DOMAIN got[c] : got'[c][i] = got[c][i]
             /\ c \in Open /\ fd[c] = f
  <2>1. got[c] \in Seq(Request) /\ Grown(c)
    BY <1>1, <1>2
  <2> HIDE DEF IInv
  <2> QED BY <2>1, Appended
<1>3. \A c \in Clients : got'[c] \in Seq(Request)
  BY <1>1, <1>2
<1>4. ASSUME NEW c \in Clients
      PROVE  Replies(c)' \subseteq Replies(c) \cup {req}
  BY <1>2 DEF Replies
<1>5. AnsweredOnce'
  <2> SUFFICES ASSUME NEW c \in Clients
               PROVE  /\ \A i, j \in DOMAIN got'[c] : i # j => got'[c][i] # got'[c][j]
                      /\ \A r \in Replies(c)' : r.kind # "silent"
    BY DEF AnsweredOnce
  <2>1. \A r \in Replies(c)' : r.kind # "silent"
    BY <1>4 DEF AnsweredOnce
  <2>2. \A i, j \in DOMAIN got[c] : i # j => got[c][i] # got[c][j]
    BY DEF AnsweredOnce
  <2>3. \A i \in DOMAIN got[c] : got[c][i] # req
    BY DEF Replies
  <2>4. \A i, j \in DOMAIN got'[c] : i # j => got'[c][i] # got'[c][j]
    BY <1>2, <2>2, <2>3
  <2> QED BY <2>1, <2>4
<1>6. SyncRepliesInOrder'
  <2> SUFFICES ASSUME NEW c \in Clients, NEW i \in DOMAIN got'[c], NEW j \in DOMAIN got'[c],
                      i < j, got'[c][i].kind = "sync", got'[c][j].kind = "sync",
                      got'[c][i].client = got'[c][j].client
               PROVE  got'[c][i].n < got'[c][j].n
    BY DEF SyncRepliesInOrder
  <2>1. CASE got'[c] = got[c]
    BY <2>1 DEF SyncRepliesInOrder
  <2>2. CASE got'[c] # got[c] /\ j \in DOMAIN got[c]
    <3>1. i \in DOMAIN got[c]
      BY <1>2, <2>2
    <3>2. got'[c][i] = got[c][i] /\ got'[c][j] = got[c][j]
      BY <1>2, <2>2, <3>1
    <3> QED BY <2>2, <3>1, <3>2 DEF SyncRepliesInOrder
  <2>3. CASE got'[c] # got[c] /\ j \notin DOMAIN got[c]
    <3>1. j = Len(got[c]) + 1 /\ i \in DOMAIN got[c]
      BY <1>2, <2>3
    <3>2. got'[c][i] = got[c][i] /\ got'[c][j] = req /\ got[c][i] \in Replies(c)
      BY <1>2, <2>3, <3>1 DEF Replies
    <3> QED BY <3>2
  <2> QED BY <2>1, <2>2, <2>3
<1>7. NoReplyStolen'
  <2> SUFFICES ASSUME NEW c \in Clients, NEW r \in Replies(c)'
               PROVE  r.client = c \/ thread'[r.client] = "gone"
    BY DEF NoReplyStolen
  <2>1. r.client \in Clients
    <3>1. r \in Request
      BY <1>3, LenProperties, ElementOfSeq DEF Replies
    <3> QED BY <3>1 DEF Request
  <2>2. CASE r \in Replies(c)
    BY <2>1, <2>2 DEF NoReplyStolen
  <2>3. CASE r \notin Replies(c)
    <3>1. r = req /\ got'[c] # got[c]
      BY <1>4, <2>3 DEF Replies
    <3> QED BY <1>2, <2>1, <3>1
  <2> QED BY <2>2, <2>3
<1> QED BY <1>3, <1>4, <1>5, <1>6, <1>7

\* The history of replies says the same of a step that sends none.
LEMMA SilenceKeeps ==
  ASSUME IInv, UNCHANGED got,
         \A c \in Clients : thread[c] = "gone" => thread'[c] = "gone"
  PROVE  /\ AnsweredOnce' /\ SyncRepliesInOrder' /\ NoReplyStolen'
         /\ \A c \in Clients : Replies(c)' = Replies(c)
<1>1. \A c \in Clients : Replies(c)' = Replies(c)
  BY DEF Replies
<1>2. AnsweredOnce' /\ SyncRepliesInOrder'
  BY <1>1 DEF IInv, AnsweredOnce, SyncRepliesInOrder
<1>3. \A c \in Clients : \A r \in Replies(c) : r \in Request
  BY LenProperties, ElementOfSeq DEF Replies, IInv, TypeOK
<1>4. NoReplyStolen'
  BY <1>1, <1>3 DEF IInv, NoReplyStolen, Request
<1> QED BY <1>1, <1>2, <1>4

\* What is known of an entry in the queue and of a reply.
LEMMA Facts ==
  ASSUME TypeOK
  PROVE  /\ Len(queue) \in Nat /\ DOMAIN queue = 1..Len(queue)
         /\ \A i \in DOMAIN queue :
               /\ queue[i] \in Entry
               /\ queue[i].req \in Request
               /\ queue[i].req.client \in Clients
               /\ queue[i].req.n \in Nat
         /\ \A c \in Clients : \A r \in Replies(c) :
               r \in Request /\ r.client \in Clients /\ r.n \in Nat
         /\ \A c \in Clients : sent[c] \in 0..MaxReq
<1>1. /\ Len(queue) \in Nat /\ DOMAIN queue = 1..Len(queue)
      /\ \A i \in DOMAIN queue : queue[i] \in Entry
  BY LenProperties, ElementOfSeq DEF TypeOK
<1>2. \A c \in Clients : \A r \in Replies(c) : r \in Request
  BY LenProperties, ElementOfSeq DEF Replies, TypeOK
<1>3. \A r \in Request : r.client \in Clients /\ r.n \in Nat
  BY MaxReqAssumption DEF Request
<1>4. \A e \in Entry : e.req \in Request
  BY DEF Entry
<1>5. \A c \in Clients : sent[c] \in 0..MaxReq
  BY DEF TypeOK
<1> QED BY <1>1, <1>2, <1>3, <1>4, <1>5

(***************************************************************************)
(* The listener and the connection threads                                 *)
(***************************************************************************)

LEMMA AcceptKeeps ==
  ASSUME IInv, NEW c \in Clients, Accept(c)
  PROVE  IInv'
<1> USE DEF IInv
<1>1. c \notin Open
  BY DEF Open, Accept
<1>2. PICK f \in FreeFds : fd' = [fd EXCEPT ![c] = f]
  BY DEF Accept, First
<1>3. f \in Fd /\ \A d \in Open : fd[d] # f
  BY DEF FreeFds
<1>4. TypeOK'
  BY <1>2, <1>3 DEF TypeOK, Accept
<1>5. Open' = Open \cup {c} /\ fd'[c] = f /\ \A d \in Clients : d # c => fd'[d] = fd[d]
  BY <1>2 DEF Open, Accept, TypeOK
<1>6. SocketsDistinct'
  BY <1>1, <1>3, <1>5 DEF SocketsDistinct, Open
<1>7. /\ UNCHANGED <<sent, current, queue, got>>
      /\ \A d \in Clients : d # c => thread'[d] = thread[d]
      /\ thread[c] = "none" /\ thread'[c] = "read"
  BY DEF Accept, TypeOK
<1>8. \A i \in DOMAIN queue : queue[i].req.client # c
  BY <1>1, <1>7 DEF QueuedInOrder
<1>9. QueuedInOrder'
  BY <1>5, <1>7, <1>8, Facts DEF QueuedInOrder
<1>10. InHandKnown'
  BY <1>7 DEF InHandKnown
<1>11. /\ AnsweredOnce' /\ SyncRepliesInOrder' /\ NoReplyStolen'
       /\ \A d \in Clients : Replies(d)' = Replies(d)
  BY <1>7, SilenceKeeps
<1>12. RepliesAreOld'
  BY <1>7, <1>11, Facts DEF RepliesAreOld
<1> QED BY <1>4, <1>6, <1>9, <1>10, <1>11, <1>12

LEMMA ReceiveKeeps ==
  ASSUME IInv, NEW c \in Clients, NEW kind \in Kind, Receive(c, kind)
  PROVE  IInv'
<1> USE DEF IInv
<1> DEFINE req == [client |-> c, n |-> sent[c] + 1, kind |-> kind]
<1>0. /\ thread[c] = "read" /\ sent[c] < MaxReq
      /\ sent' = [sent EXCEPT ![c] = @ + 1]
  BY DEF Receive
<1>1. /\ thread[c] = "read" /\ current[c] = "none" /\ c \in Open
      /\ sent[c] \in Nat /\ sent[c] + 1 \in 1..MaxReq
      /\ sent'[c] = sent[c] + 1
      /\ \A d \in Clients : d # c => sent'[d] = sent[d]
  <2>1. sent[c] \in 0..MaxReq /\ MaxReq \in Nat
    BY MaxReqAssumption DEF TypeOK
  <2>2. sent'[c] = sent[c] + 1 /\ \A d \in Clients : d # c => sent'[d] = sent[d]
    BY <1>0 DEF TypeOK
  <2>3. current[c] = "none" /\ c \in Open
    BY <1>0 DEF TypeOK, Open
  <2> QED BY <1>0, <2>1, <2>2, <2>3
<1>2. req \in Request
  BY <1>1 DEF Request
<1>3. UNCHANGED <<fd, peer, stalled, queue, accepted, running>>
  BY DEF Receive
<1>4. ASSUME kind \in {"direct", "timer"} PROVE IInv'
  <2>1. SendTo(fd[c], req) /\ UNCHANGED <<thread, current>>
    BY <1>4 DEF Receive
  <2>2. \A d \in Clients : req \notin Replies(d)
    BY <1>1, Facts DEF RepliesAreOld
  <2>3. \A d \in Open : fd[d] = fd[c] => d = c
    BY <1>1 DEF SocketsDistinct
  <2>4. /\ \A d \in Clients : got'[d] \in Seq(Request)
        /\ \A d \in Clients : Replies(d)' \subseteq Replies(d) \cup {req}
        /\ AnsweredOnce' /\ SyncRepliesInOrder' /\ NoReplyStolen'
    <3> HIDE DEF IInv
    <3> QED BY <1>2, <1>4, <2>1, <2>2, <2>3, ReplyKeeps
  <2>5. TypeOK'
    BY <1>0, <1>1, <1>3, <2>1, <2>4 DEF TypeOK
  <2>6. SocketsDistinct' /\ InHandKnown' /\ Open' = Open
    BY <1>1, <1>3, <2>1, Facts DEF SocketsDistinct, InHandKnown, Open
  <2>7. QueuedInOrder'
    BY <1>1, <1>3, <2>1, <2>6, Facts DEF QueuedInOrder
  <2>8. ASSUME NEW d \in Clients, NEW r \in Replies(d)'
        PROVE  /\ r.n <= sent'[r.client]
               /\ thread[r.client] = "ack" => r.n < sent'[r.client]
               /\ r.kind = "sync" =>
                     /\ current[r.client] # "none" => r.n < sent'[r.client]
                     /\ \A i \in DOMAIN queue :
                           queue[i].req.client = r.client => r.n < queue[i].req.n
    <3>1. CASE r \in Replies(d)
      BY <1>1, <3>1, Facts DEF RepliesAreOld
    <3>2. CASE r = req
      BY <1>1, <1>4, <3>2
    <3> QED BY <2>4, <3>1, <3>2
  <2>9. RepliesAreOld'
    BY <1>3, <2>1, <2>8 DEF RepliesAreOld
  <2> QED BY <2>4, <2>5, <2>6, <2>7, <2>9
<1>5. ASSUME kind \notin {"direct", "timer"} PROVE IInv'
  <2>1. /\ current' = [current EXCEPT ![c] = kind]
        /\ thread' = [thread EXCEPT ![c] = IF kind = "forget" THEN "ack" ELSE "push"]
        /\ UNCHANGED got
    BY <1>5 DEF Receive, AckNow
  <2>2. /\ \A d \in Clients : d # c => current'[d] = current[d] /\ thread'[d] = thread[d]
        /\ current'[c] = kind /\ kind # "none"
        /\ thread'[c] \in {"ack", "push"}
        /\ thread'[c] = "ack" => kind = "forget"
    BY <2>1 DEF TypeOK, Kind
  <2>3. TypeOK'
    BY <1>0, <1>1, <1>3, <2>1, <2>2 DEF TypeOK
  <2>4. Open' = Open
    BY <1>1, <2>2 DEF Open
  <2>5. SocketsDistinct' /\ InHandKnown'
    BY <1>1, <1>3, <2>2, <2>4 DEF SocketsDistinct, InHandKnown
  <2>6. QueuedInOrder'
    BY <1>1, <1>3, <2>2, <2>4, Facts DEF QueuedInOrder
  <2>7. /\ AnsweredOnce' /\ SyncRepliesInOrder' /\ NoReplyStolen'
        /\ \A d \in Clients : Replies(d)' = Replies(d)
    BY <1>1, <2>1, <2>2, SilenceKeeps
  <2>8. ASSUME NEW d \in Clients, NEW r \in Replies(d)
        PROVE  /\ r.n <= sent'[r.client]
               /\ thread'[r.client] = "ack" => r.n < sent'[r.client]
               /\ r.kind = "sync" =>
                     /\ current'[r.client] # "none" => r.n < sent'[r.client]
                     /\ \A i \in DOMAIN queue :
                           queue[i].req.client = r.client => r.n < queue[i].req.n
    <3>1. /\ r.n <= sent[r.client]
          /\ thread[r.client] = "ack" => r.n < sent[r.client]
          /\ r.kind = "sync" =>
                /\ current[r.client] # "none" => r.n < sent[r.client]
                /\ \A i \in DOMAIN queue :
                      queue[i].req.client = r.client => r.n < queue[i].req.n
      BY DEF RepliesAreOld
    <3>2. r.client \in Clients /\ r.n \in Nat
      BY Facts
    <3> HIDE DEF IInv
    <3> QED BY <1>1, <2>2, <3>1, <3>2
  <2>9. RepliesAreOld'
    BY <1>3, <2>7, <2>8 DEF RepliesAreOld
  <2> QED BY <2>3, <2>5, <2>6, <2>7, <2>9
<1> QED BY <1>4, <1>5

LEMMA AckKeeps ==
  ASSUME IInv, NEW c \in Clients, Ack(c)
  PROVE  IInv'
<1> USE DEF IInv
<1>1. /\ thread[c] = "ack" /\ current[c] = "forget" /\ c \in Open
      /\ UNCHANGED <<fd, peer, stalled, sent, current, queue, accepted, running>>
      /\ thread'[c] = "push" /\ \A d \in Clients : d # c => thread'[d] = thread[d]
      /\ SendTo(fd[c], InHand(c))
  BY DEF Ack, InHandKnown, Open, TypeOK
<1>2. /\ InHand(c) = [client |-> c, n |-> sent[c], kind |-> "forget"]
      /\ sent[c] \in 1..MaxReq
  BY <1>1, MaxReqAssumption DEF InHand, InHandKnown, TypeOK
<1>3. \A d \in Clients : InHand(c) \notin Replies(d)
  BY <1>1, <1>2, Facts DEF RepliesAreOld
<1>4. InHand(c) \in Request
  BY <1>2 DEF Request, Kind
<1>5. \A d \in Open : fd[d] = fd[c] => d = c
  BY <1>1 DEF SocketsDistinct
<1>6. /\ \A d \in Clients : got'[d] \in Seq(Request)
      /\ \A d \in Clients : Replies(d)' \subseteq Replies(d) \cup {InHand(c)}
      /\ AnsweredOnce' /\ SyncRepliesInOrder' /\ NoReplyStolen'
  <2> HIDE DEF IInv
  <2> QED BY <1>1, <1>2, <1>3, <1>4, <1>5, ReplyKeeps
<1>7. TypeOK'
  BY <1>1, <1>6 DEF TypeOK, Ack
<1>8. Open' = Open
  BY <1>1 DEF Open
<1>9. SocketsDistinct' /\ InHandKnown'
  BY <1>1, <1>8 DEF SocketsDistinct, InHandKnown
<1>10. QueuedInOrder'
  BY <1>1, <1>8, Facts DEF QueuedInOrder
<1>11. ASSUME NEW d \in Clients, NEW r \in Replies(d)'
       PROVE  /\ r.n <= sent[r.client]
              /\ thread'[r.client] = "ack" => r.n < sent[r.client]
              /\ r.kind = "sync" =>
                    /\ current[r.client] # "none" => r.n < sent[r.client]
                    /\ \A i \in DOMAIN queue :
                          queue[i].req.client = r.client => r.n < queue[i].req.n
  <2>1. CASE r \in Replies(d)
    BY <1>1, <2>1, Facts DEF RepliesAreOld
  <2>2. CASE r = InHand(c)
    BY <1>1, <1>2, <2>2
  <2> QED BY <1>6, <2>1, <2>2
<1>12. RepliesAreOld'
  BY <1>1, <1>11 DEF RepliesAreOld
<1> QED BY <1>6, <1>7, <1>9, <1>10, <1>12

LEMMA PushKeeps ==
  ASSUME IInv, NEW c \in Clients, Push(c)
  PROVE  IInv'
<1> USE DEF IInv
<1> DEFINE e == EntryOf(c)
<1>1. /\ thread[c] = "push" /\ current[c] \in Kind /\ current[c] # "none" /\ c \in Open
      /\ UNCHANGED <<fd, peer, stalled, sent, got, running>>
      /\ thread'[c] = "read" /\ \A d \in Clients : d # c => thread'[d] = thread[d]
      /\ current'[c] = "none" /\ \A d \in Clients : d # c => current'[d] = current[d]
      /\ queue' = Append(queue, e)
  BY DEF Push, Fifo!Put, Open, TypeOK
<1>2. /\ e.req = InHand(c) /\ e.req.client = c /\ e.req.n = sent[c] /\ e.conn_fd = fd[c]
  BY DEF EntryOf, InHand
<1>3. \A i \in DOMAIN queue : queue[i].req.client = c => queue[i].req.n < sent[c]
  BY <1>1 DEF QueuedInOrder
<1>4. e \in Entry /\ InHand(c) \in Request /\ sent[c] \in Nat
  <2>1. sent[c] \in 1..MaxReq /\ fd[c] \in Fd
    BY <1>1, MaxReqAssumption DEF InHandKnown, TypeOK, SocketsDistinct
  <2>2. InHand(c) \in Request
    BY <1>1, <2>1 DEF InHand, Request
  <2> QED BY <2>1, <2>2, MaxReqAssumption DEF Entry, EntryOf
<1> DEFINE n == Len(queue)
<1>5. /\ n \in Nat /\ DOMAIN queue = 1..n /\ queue' \in Seq(Entry)
      /\ DOMAIN queue' = 1..n + 1 /\ queue'[n + 1] = e
      /\ \A i \in 1..n : queue'[i] = queue[i]
  BY <1>1, <1>4, Appended DEF TypeOK
<1> HIDE DEF e, n
<1>6. TypeOK'
  BY <1>1, <1>4, <1>5 DEF TypeOK, Push
<1>7. Open' = Open
  BY <1>1 DEF Open
<1>8. SocketsDistinct' /\ InHandKnown'
  BY <1>1, <1>7 DEF SocketsDistinct, InHandKnown
<1>9. QueuedInOrder'
  <2>1. ASSUME NEW i \in 1..n + 1
        PROVE  LET r == queue'[i].req IN
               /\ r.n <= sent[r.client]
               /\ current'[r.client] # "none" => r.n < sent[r.client]
               /\ \/ thread'[r.client] = "gone"
                  \/ r.client \in Open /\ queue'[i].conn_fd = fd[r.client]
    <3>1. CASE i \in 1..n
      <4> DEFINE r == queue[i].req
      <4>1. /\ r.n <= sent[r.client]
            /\ current[r.client] # "none" => r.n < sent[r.client]
            /\ \/ thread[r.client] = "gone"
               \/ r.client \in Open /\ queue[i].conn_fd = fd[r.client]
        BY <1>5, <3>1 DEF QueuedInOrder
      <4>2. r.client \in Clients /\ queue'[i] = queue[i]
        BY <1>5, <3>1, Facts
      <4> HIDE DEF IInv
      <4> QED BY <1>1, <4>1, <4>2
    <3>2. CASE i = n + 1
      BY <1>1, <1>2, <1>4, <1>5, <3>2
    <3> QED BY <1>5, <3>1, <3>2
  <2>2. ASSUME NEW i \in 1..n + 1, NEW j \in 1..n + 1, i < j,
               queue'[i].req.client = queue'[j].req.client
        PROVE  queue'[i].req.n < queue'[j].req.n
    <3>1. i \in 1..n /\ queue'[i] = queue[i]
      BY <1>5, <2>2
    <3>2. CASE j \in 1..n
      BY <1>5, <2>2, <3>1, <3>2 DEF QueuedInOrder
    <3>3. CASE j = n + 1
      BY <1>2, <1>3, <1>5, <2>2, <3>1, <3>3
    <3> QED BY <1>5, <3>2, <3>3
  <2> QED BY <1>1, <1>5, <1>7, <2>1, <2>2 DEF QueuedInOrder
<1>10. /\ AnsweredOnce' /\ SyncRepliesInOrder' /\ NoReplyStolen'
       /\ \A d \in Clients : Replies(d)' = Replies(d)
  BY <1>1, SilenceKeeps
<1>11. ASSUME NEW d \in Clients, NEW r \in Replies(d)
       PROVE  /\ r.n <= sent[r.client]
              /\ thread'[r.client] = "ack" => r.n < sent[r.client]
              /\ r.kind = "sync" =>
                    /\ current'[r.client] # "none" => r.n < sent[r.client]
                    /\ \A i \in 1..n + 1 :
                          queue'[i].req.client = r.client => r.n < queue'[i].req.n
  <2>1. /\ r.n <= sent[r.client]
        /\ thread[r.client] = "ack" => r.n < sent[r.client]
        /\ r.kind = "sync" =>
              /\ current[r.client] # "none" => r.n < sent[r.client]
              /\ \A i \in 1..n :
                    queue[i].req.client = r.client => r.n < queue[i].req.n
    BY <1>5 DEF RepliesAreOld
  <2>2. r.client \in Clients
    BY Facts
  <2> QED BY <1>1, <1>2, <1>5, <2>1, <2>2
<1>12. RepliesAreOld'
  BY <1>1, <1>5, <1>10, <1>11 DEF RepliesAreOld
<1> QED BY <1>6, <1>8, <1>9, <1>10, <1>12

\* A client that stalls or leaves, a thread that ends, a push that is refused.
LEMMA LeaveKeeps ==
  ASSUME IInv, NEW c \in Clients, PushRefused(c) \/ Stall(c) \/ HangUp(c) \/ ThreadExit(c)
  PROVE  IInv'
<1> USE DEF IInv
<1>1. /\ UNCHANGED <<sent, queue, got, accepted, running>>
      /\ \A d \in Clients : d # c => /\ thread'[d] = thread[d] /\ fd'[d] = fd[d]
                                    /\ current'[d] = current[d]
      /\ current'[c] \in {current[c], "none"}
      /\ \/ thread'[c] = thread[c] /\ fd'[c] = fd[c] /\ current'[c] = current[c]
         \/ thread[c] = "push" /\ thread'[c] = "read" /\ fd'[c] = fd[c]
         \/ thread[c] = "read" /\ thread'[c] = "gone"
  BY DEF PushRefused, Stall, HangUp, ThreadExit, TypeOK
<1>2. TypeOK'
  <2>1. ASSUME PushRefused(c) PROVE TypeOK'
    BY <2>1 DEF TypeOK, PushRefused
  <2>2. ASSUME HangUp(c) PROVE TypeOK'
    BY <2>2 DEF TypeOK, HangUp
  <2>3. ASSUME ThreadExit(c) PROVE TypeOK'
    BY <2>3 DEF TypeOK, ThreadExit
  <2>4. ASSUME Stall(c) PROVE TypeOK'
    BY <2>4 DEF TypeOK, Stall
  <2> QED BY <2>1, <2>2, <2>3, <2>4
<1>3. /\ Open' \subseteq Open
      /\ \A d \in Open : d \in Open' \/ thread'[d] = "gone"
      /\ \A d \in Open' : fd'[d] = fd[d]
  BY <1>1 DEF Open
<1>4. SocketsDistinct'
  BY <1>3 DEF SocketsDistinct
<1>5. InHandKnown'
  BY <1>1 DEF InHandKnown
<1>6. /\ AnsweredOnce' /\ SyncRepliesInOrder' /\ NoReplyStolen'
      /\ \A d \in Clients : Replies(d)' = Replies(d)
  BY <1>1, SilenceKeeps
<1>7. QueuedInOrder'
  <2>1. ASSUME NEW i \in DOMAIN queue
        PROVE  LET r == queue[i].req IN
               /\ r.n <= sent[r.client]
               /\ current'[r.client] # "none" => r.n < sent[r.client]
               /\ \/ thread'[r.client] = "gone"
                  \/ r.client \in Open' /\ queue[i].conn_fd = fd'[r.client]
    <3> DEFINE r == queue[i].req
    <3>1. /\ r.n <= sent[r.client]
          /\ current[r.client] # "none" => r.n < sent[r.client]
          /\ \/ thread[r.client] = "gone"
             \/ r.client \in Open /\ queue[i].conn_fd = fd[r.client]
      BY DEF QueuedInOrder
    <3>2. r.client \in Clients
      BY Facts
    <3> HIDE DEF IInv
    <3> QED BY <1>1, <1>3, <3>1, <3>2
  <2> QED BY <1>1, <2>1 DEF QueuedInOrder
<1>8. ASSUME NEW d \in Clients, NEW r \in Replies(d)
      PROVE  /\ thread'[r.client] = "ack" => thread[r.client] = "ack"
             /\ current'[r.client] # "none" => current[r.client] # "none"
  BY <1>1, Facts
<1>9. RepliesAreOld'
  BY <1>1, <1>6, <1>8 DEF RepliesAreOld
<1> QED BY <1>2, <1>4, <1>5, <1>6, <1>7, <1>9

(***************************************************************************)
(* The main thread                                                         *)
(***************************************************************************)

\* The queue without its oldest entry.
LEMMA TakeKeeps ==
  ASSUME IInv, queue # <<>>, queue' = Tail(queue),
         UNCHANGED <<thread, fd, sent, current>>
  PROVE  /\ queue' \in Seq(Entry) /\ QueuedInOrder'
         /\ 1 \in DOMAIN queue /\ Head(queue) = queue[1]
         /\ \A i \in DOMAIN queue' :
               queue'[i] = queue[i + 1] /\ i + 1 \in DOMAIN queue /\ i \in Nat
<1> USE DEF IInv
<1>1. /\ Head(queue) = queue[1] /\ 1 \in DOMAIN queue
      /\ Tail(queue) \in Seq(Entry)
      /\ Len(queue) \in Nat /\ DOMAIN queue = 1..Len(queue)
      /\ DOMAIN Tail(queue) = 1..Len(queue) - 1
      /\ \A i \in 1..Len(queue) - 1 :
            Tail(queue)[i] = queue[i + 1] /\ i + 1 \in DOMAIN queue
  <2>1. queue \in Seq(Entry)
    BY DEF TypeOK
  <2> HIDE DEF IInv
  <2> QED BY <2>1, TailFacts
<1>2. \A i \in DOMAIN queue' :
         queue'[i] = queue[i + 1] /\ i + 1 \in DOMAIN queue /\ i \in Nat
  BY <1>1
<1>3. Open' = Open
  BY DEF Open
<1>4. \A i \in DOMAIN queue' :
         LET r == queue'[i].req IN
         /\ r.n <= sent[r.client]
         /\ current[r.client] # "none" => r.n < sent[r.client]
         /\ \/ thread[r.client] = "gone"
            \/ r.client \in Open /\ queue'[i].conn_fd = fd[r.client]
  BY <1>2 DEF QueuedInOrder
<1>5. \A i, j \in DOMAIN queue' :
         i < j /\ queue'[i].req.client = queue'[j].req.client
             => queue'[i].req.n < queue'[j].req.n
  <2> SUFFICES ASSUME NEW i \in DOMAIN queue', NEW j \in DOMAIN queue', i < j,
                      queue'[i].req.client = queue'[j].req.client
               PROVE  queue'[i].req.n < queue'[j].req.n
    OBVIOUS
  <2>1. i + 1 < j + 1
    BY <1>2
  <2> QED BY <1>2, <2>1 DEF QueuedInOrder
<1> QED BY <1>1, <1>2, <1>3, <1>4, <1>5 DEF QueuedInOrder

LEMMA ExecuteKeeps ==
  ASSUME IInv, Execute
  PROVE  IInv'
<1> USE DEF IInv
<1> DEFINE e == Head(queue)
<1>1. /\ queue # <<>> /\ queue' = Tail(queue)
      /\ UNCHANGED <<thread, fd, peer, stalled, sent, current, accepted, running>>
      /\ IF e.req.kind = "sync" THEN SendTo(e.conn_fd, e.req) ELSE UNCHANGED got
  BY DEF Execute, Fifo!Take
<1>2. /\ queue' \in Seq(Entry) /\ QueuedInOrder'
      /\ 1 \in DOMAIN queue /\ e = queue[1]
      /\ \A i \in DOMAIN queue' :
            queue'[i] = queue[i + 1] /\ i + 1 \in DOMAIN queue /\ i \in Nat
  <2> HIDE DEF IInv
  <2> QED BY <1>1, TakeKeeps
<1> HIDE DEF e
<1>3. /\ e \in Entry /\ e.req \in Request /\ e.req.client \in Clients /\ e.req.n \in Nat
      /\ e.req.n <= sent[e.req.client]
      /\ current[e.req.client] # "none" => e.req.n < sent[e.req.client]
      /\ \/ thread[e.req.client] = "gone"
         \/ e.req.client \in Open /\ e.conn_fd = fd[e.req.client]
  BY <1>2, Facts DEF QueuedInOrder
<1>4. SocketsDistinct' /\ InHandKnown'
  BY <1>1 DEF SocketsDistinct, InHandKnown, Open
<1>5. \A d \in Clients : \A r \in Replies(d) :
         /\ r.n <= sent[r.client]
         /\ thread[r.client] = "ack" => r.n < sent[r.client]
         /\ r.kind = "sync" =>
               /\ current[r.client] # "none" => r.n < sent[r.client]
               /\ e.req.client = r.client => r.n < e.req.n
               /\ \A i \in DOMAIN queue' :
                     queue'[i].req.client = r.client => r.n < queue'[i].req.n
  BY <1>2 DEF RepliesAreOld
<1>6. ASSUME e.req.kind # "sync" PROVE IInv'
  <2>1. UNCHANGED got
    BY <1>1, <1>6
  <2>2. /\ AnsweredOnce' /\ SyncRepliesInOrder' /\ NoReplyStolen'
        /\ \A d \in Clients : Replies(d)' = Replies(d)
    BY <1>1, <2>1, SilenceKeeps
  <2>3. TypeOK'
    BY <1>1, <1>2, <2>1 DEF TypeOK
  <2>4. RepliesAreOld'
    BY <1>1, <1>5, <2>2 DEF RepliesAreOld
  <2> QED BY <1>2, <1>4, <2>2, <2>3, <2>4
<1>7. ASSUME e.req.kind = "sync" PROVE IInv'
  <2>1. SendTo(e.conn_fd, e.req)
    BY <1>1, <1>7
  <2>2. \A d \in Clients : e.req \notin Replies(d)
    BY <1>3, <1>5, <1>7
  <2>3. \A d \in Open : fd[d] = e.conn_fd => e.req.client = d \/ thread[e.req.client] = "gone"
    BY <1>3 DEF SocketsDistinct
  <2>4. /\ \A d \in Clients : got'[d] \in Seq(Request)
        /\ \A d \in Clients : Replies(d)' \subseteq Replies(d) \cup {e.req}
        /\ AnsweredOnce' /\ SyncRepliesInOrder' /\ NoReplyStolen'
    <3> HIDE DEF IInv
    <3> QED BY <1>1, <1>3, <1>5, <1>7, <2>1, <2>2, <2>3, ReplyKeeps
  <2>5. TypeOK'
    BY <1>1, <1>2, <2>4 DEF TypeOK
  <2>6. \A i \in DOMAIN queue' :
           queue'[i].req.client = e.req.client => e.req.n < queue'[i].req.n
    <3>1. \A i \in DOMAIN queue' : 1 < i + 1
      <4>1. Len(queue') \in Nat /\ DOMAIN queue' = 1..Len(queue')
        BY <1>2, LenProperties
      <4> QED BY <4>1
    <3> QED BY <1>2, <3>1 DEF QueuedInOrder
  <2>7. thread[e.req.client] = "ack" => current[e.req.client] # "none"
    BY <1>3 DEF InHandKnown
  <2>8. ASSUME NEW d \in Clients, NEW r \in Replies(d)'
        PROVE  /\ r.n <= sent[r.client]
               /\ thread[r.client] = "ack" => r.n < sent[r.client]
               /\ r.kind = "sync" =>
                     /\ current[r.client] # "none" => r.n < sent[r.client]
                     /\ \A i \in DOMAIN queue' :
                           queue'[i].req.client = r.client => r.n < queue'[i].req.n
    <3>1. CASE r \in Replies(d)
      BY <1>5, <3>1
    <3>2. CASE r = e.req
      BY <1>3, <2>6, <2>7, <3>2
    <3> QED BY <2>4, <3>1, <3>2
  <2>9. RepliesAreOld'
    BY <1>1, <2>8 DEF RepliesAreOld
  <2> QED BY <1>2, <1>4, <2>4, <2>5, <2>9
<1> QED BY <1>6, <1>7

LEMMA StopKeeps ==
  ASSUME IInv, Stop
  PROVE  IInv'
<1> USE DEF IInv
<1>1. /\ UNCHANGED <<thread, fd, peer, stalled, sent, current, accepted, got>>
      /\ queue' = <<>> /\ queue' \in Seq(Entry) /\ running' = FALSE
  BY DEF Stop, Fifo!Close
<1>2. TypeOK'
  BY <1>1 DEF TypeOK
<1>3. SocketsDistinct' /\ InHandKnown'
  BY <1>1 DEF SocketsDistinct, InHandKnown, Open
<1>4. DOMAIN queue' = {}
  BY <1>1
<1>5. /\ AnsweredOnce' /\ SyncRepliesInOrder' /\ NoReplyStolen'
      /\ \A d \in Clients : Replies(d)' = Replies(d)
  BY <1>1, SilenceKeeps
<1>6. QueuedInOrder' /\ RepliesAreOld'
  BY <1>1, <1>4, <1>5 DEF QueuedInOrder, RepliesAreOld
<1> QED BY <1>2, <1>3, <1>5, <1>6

(***************************************************************************)
(* The theorems                                                            *)
(***************************************************************************)

LEMMA InitIInv == Init => IInv
<1> SUFFICES ASSUME Init PROVE IInv
  OBVIOUS
<1>1. queue = <<>> /\ running = TRUE /\ DOMAIN queue = {}
  BY DEF Init, Fifo!FifoInit
<1>2. TypeOK
  BY <1>1, MaxReqAssumption DEF Init, TypeOK
<1>3. Open = {}
  BY DEF Init, Open
<1>4. SocketsDistinct /\ InHandKnown /\ QueuedInOrder
  BY <1>1, <1>3 DEF Init, SocketsDistinct, InHandKnown, QueuedInOrder
<1>5. \A c \in Clients : DOMAIN got[c] = {} /\ Replies(c) = {}
  BY DEF Init, Replies
<1>6. RepliesAreOld /\ AnsweredOnce /\ SyncRepliesInOrder /\ NoReplyStolen
  BY <1>5 DEF RepliesAreOld, AnsweredOnce, SyncRepliesInOrder, NoReplyStolen
<1> QED BY <1>2, <1>4, <1>6 DEF IInv

LEMMA NextIInv == IInv /\ [Next]_vars => IInv'
<1> SUFFICES ASSUME IInv, [Next]_vars PROVE IInv'
  OBVIOUS
<1>1. ASSUME NEW c \in Clients, Accept(c) PROVE IInv'
  BY <1>1, AcceptKeeps
<1>2. ASSUME NEW c \in Clients, NEW kind \in Kinds, Receive(c, kind) PROVE IInv'
  BY <1>2, ReceiveKeeps, KindsAssumption
<1>3. ASSUME NEW c \in Clients, Ack(c) PROVE IInv'
  BY <1>3, AckKeeps
<1>4. ASSUME NEW c \in Clients, Push(c) PROVE IInv'
  BY <1>4, PushKeeps
<1>5. ASSUME NEW c \in Clients, PushRefused(c) \/ Stall(c) \/ HangUp(c) \/ ThreadExit(c) PROVE IInv'
  BY <1>5, LeaveKeeps
<1>6. ASSUME Execute PROVE IInv'
  BY <1>6, ExecuteKeeps
<1>7. ASSUME Stop PROVE IInv'
  BY <1>7, StopKeeps
<1>8. ASSUME UNCHANGED vars PROVE IInv'
  BY <1>8 DEF vars, IInv, TypeOK, SocketsDistinct, InHandKnown, QueuedInOrder,
              RepliesAreOld, AnsweredOnce, SyncRepliesInOrder, NoReplyStolen,
              Replies, Open
<1> QED BY <1>1, <1>2, <1>3, <1>4, <1>5, <1>6, <1>7, <1>8 DEF Next

\* The inductive invariant holds in every state.
THEOREM Invariant == Spec => []IInv
BY InitIInv, NextIInv, PTL DEF Spec

\* The connection thread's acknowledgement and the main thread's response
\* exclude each other: a request is answered once at most, and one that is
\* queued without an id never.
THEOREM OneAnswer == Spec => []AnsweredOnce
<1>1. IInv => AnsweredOnce
  BY DEF IInv
<1> QED BY <1>1, Invariant, PTL

\* The responses to a client's sync commands come in the order of the commands,
\* however many clients there are and however long the queue.
THEOREM ResponsesInOrder == Spec => []SyncRepliesInOrder
<1>1. IInv => SyncRepliesInOrder
  BY DEF IInv
<1> QED BY <1>1, Invariant, PTL

\* Socket numbers are used again, but a client that is still served never loses
\* a response to another: only those of clients that are gone go astray.
THEOREM RepliesStayHome == Spec => []NoReplyStolen
<1>1. IInv => NoReplyStolen
  BY DEF IInv
<1> QED BY <1>1, Invariant, PTL
=============================================================================
