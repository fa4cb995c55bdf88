----------------------------- MODULE EventProofs -----------------------------
(***************************************************************************)
(* Theorems about the way of an event.  FrameLoop: the main loop makes     *)
(* events of what it polled.  EventRegistry: a push writes them to those   *)
(* who asked.  ClientLib: a client library tells them from the answers to  *)
(* its calls.  The three share no state; each part has an invariant of its *)
(* own.                                                                    *)
(***************************************************************************)
EXTENDS EventRegistry, FrameLoop, ClientLib, FiniteSetTheorems, SequenceTheorems, TLAPS

(***************************************************************************)
(* EventRegistry: the inductive invariant                                  *)
(***************************************************************************)

\* Two connections never have the same socket, and one that has begun to close,
\* or has not been made, has no subscriptions: what Close and Accept rely on.
SocketsDistinct ==
    /\ \A c \in Open : fd[c] \in Fd
    /\ \A c, d \in Open : fd[c] = fd[d] => c = d
    /\ \A c \in Conns : thread[c] \in {"none", "closing"} => asked[c] = {}

\* A push has served the entries behind it, and nobody ahead of it: an entry
\* that is swapped in comes from ahead.
Served ==
    ~LockFree =>
        /\ push.i >= 1
        /\ \A c \in Open, j \in DOMAIN subs : subs[j].fd = fd[c] =>
              /\ j < push.i /\ push.kind \in subs[j].mask => push.reached[c] = 1
              /\ j >= push.i => push.reached[c] = 0

IInv == TypeOK /\ SocketsDistinct /\ EntriesHaveOwners /\ Served

\* With room for every connection, nothing that was asked for is missing.
HasEntry(c) == \E i \in DOMAIN subs : subs[i].fd = fd[c] /\ subs[i].mask = asked[c]

NothingMissing == \A c \in Open : peer[c] /\ asked[c] # {} => HasEntry(c)

(***************************************************************************)
(* The table                                                               *)
(***************************************************************************)

\* An entry is taken out: the last one comes into its place.
LEMMA SwapOutFacts ==
  ASSUME NEW S, NEW s \in Seq(S), NEW i \in DOMAIN s
  PROVE  /\ SwapOut(s, i) \in Seq(S)
         /\ Len(SwapOut(s, i)) = Len(s) - 1
         /\ \A j \in 1..Len(s) - 1 :
              SwapOut(s, i)[j] = IF j = i THEN s[Len(s)] ELSE s[j]
<1> DEFINE t == [s EXCEPT ![i] = Last(s)]
<1>1. Len(s) \in Nat /\ DOMAIN s = 1..Len(s) /\ i \in 1..Len(s)
  BY LenProperties
<1>2. Last(s) = s[Len(s)] /\ Last(s) \in S
  BY <1>1, ElementOfSeq DEF Last
<1>3. /\ t \in Seq(S) /\ Len(t) = Len(s)
      /\ \A j \in 1..Len(s) : t[j] = IF j = i THEN s[Len(s)] ELSE s[j]
  BY <1>1, <1>2, ExceptSeq
<1> HIDE DEF t
<1>4. \A j \in 1..Len(t) - 1 : t[j] \in S
  BY <1>1, <1>3, ElementOfSeq
<1>5. /\ SubSeq(t, 1, Len(t) - 1) \in Seq(S)
      /\ Len(SubSeq(t, 1, Len(t) - 1)) = IF 1 <= Len(t) - 1 THEN Len(t) - 1 - 1 + 1 ELSE 0
      /\ \A j \in 1..Len(t) - 1 - 1 + 1 : SubSeq(t, 1, Len(t) - 1)[j] = t[1 + j - 1]
  BY <1>1, <1>3, <1>4, SubSeqProperties
<1>6. SwapOut(s, i) = SubSeq(t, 1, Len(t) - 1)
  BY DEF SwapOut, Front, t
<1> QED BY <1>1, <1>3, <1>5, <1>6

\* A socket with an entry has no other.
LEMMA OneEntry ==
  ASSUME TypeOK, EntriesHaveOwners, NEW i \in DOMAIN subs
  PROVE  /\ EntriesOf(subs[i].fd) = {i}
         /\ Min(EntriesOf(subs[i].fd)) = i
         /\ MaskOf(subs[i].fd) = subs[i].mask
<1>1. EntriesOf(subs[i].fd) = {i}
  BY DEF EntriesHaveOwners, EntriesOf
<1>2. Min({i}) = i
  <2>1. i <= i
    BY LenProperties DEF TypeOK
  <2> QED BY <2>1 DEF Min
<1>3. UNION {subs[j].mask : j \in {i}} = subs[i].mask
  OBVIOUS
<1> QED BY <1>1, <1>2, <1>3 DEF MaskOf

\* t is the table with the entry of socket f, if it keeps one, set to mask.
Updates(t, f, mask) ==
    /\ t \in Seq(EventSub) /\ Len(t) <= MaxSubs
    /\ \A i, j \in DOMAIN t : i # j => t[i].fd # t[j].fd
    /\ \A i \in DOMAIN t : IF t[i].fd = f THEN t[i].mask = mask
                           ELSE \E j \in DOMAIN subs : t[i] = subs[j]
    /\ \A j \in DOMAIN subs :
          subs[j].fd # f => \E i \in DOMAIN t : t[i] = subs[j]

HasEntryIn(t, f) == \E i \in DOMAIN t : t[i].fd = f

LEMMA SubsFacts ==
  ASSUME TypeOK
  PROVE  /\ Len(subs) \in Nat /\ DOMAIN subs = 1..Len(subs)
         /\ \A i \in DOMAIN subs : subs[i] \in EventSub
BY LenProperties, ElementOfSeq DEF TypeOK

LEMMA NoEntry ==
  ASSUME NEW f, EntriesOf(f) = {}
  PROVE  MaskOf(f) = {} /\ \A i \in DOMAIN subs : subs[i].fd # f
BY DEF EntriesOf, MaskOf

LEMMA SwapOutUpdates ==
  ASSUME TypeOK, EntriesHaveOwners, NEW i \in DOMAIN subs, NEW mask
  PROVE  /\ Updates(SwapOut(subs, i), subs[i].fd, mask)
         /\ ~HasEntryIn(SwapOut(subs, i), subs[i].fd)
<1> DEFINE t == SwapOut(subs, i)
           n == Len(subs)
<1>1. n \in Nat /\ n > 0 /\ DOMAIN subs = 1..n
  BY SubsFacts
<1>2. /\ t \in Seq(EventSub) /\ Len(t) = n - 1 /\ DOMAIN t = 1..n - 1
      /\ \A j \in 1..n - 1 : t[j] = IF j = i THEN subs[n] ELSE subs[j]
  <2>1. subs \in Seq(EventSub)
    BY DEF TypeOK
  <2>2. /\ t \in Seq(EventSub) /\ Len(t) = n - 1
        /\ \A j \in 1..n - 1 : t[j] = IF j = i THEN subs[n] ELSE subs[j]
    BY <2>1, SwapOutFacts
  <2> QED BY <2>2, LenProperties
<1> HIDE DEF t, n
<1>3. Len(t) <= MaxSubs
  BY <1>1, <1>2, MaxSubsAssumption DEF TypeOK, n
<1>4. \A j, k \in DOMAIN t : j # k => t[j].fd # t[k].fd
  BY <1>1, <1>2 DEF EntriesHaveOwners
<1>5. \A j \in DOMAIN t : t[j].fd # subs[i].fd /\ \E k \in DOMAIN subs : t[j] = subs[k]
  BY <1>1, <1>2 DEF EntriesHaveOwners
<1>6. ASSUME NEW k \in DOMAIN subs, subs[k].fd # subs[i].fd
      PROVE  \E j \in DOMAIN t : t[j] = subs[k]
  <2>1. CASE k = n
    <3>1. i \in 1..n - 1 /\ t[i] = subs[n]
      BY <1>1, <1>2, <1>6, <2>1
    <3> QED BY <3>1, <2>1, <1>2
  <2>2. CASE k # n
    <3>1. k \in 1..n - 1 /\ t[k] = subs[k]
      BY <1>1, <1>2, <1>6, <2>2
    <3> QED BY <3>1, <1>2
  <2> QED BY <2>1, <2>2
<1> QED BY <1>2, <1>3, <1>4, <1>5, <1>6 DEF Updates, HasEntryIn, t

\* er_subscribe.
LEMMA SubscribedFacts ==
  ASSUME TypeOK, EntriesHaveOwners, NEW f \in Fd, NEW mask \in SUBSET Kinds
  PROVE  /\ Updates(Subscribed(f, mask), f, MaskOf(f) \cup mask)
         /\ MaskOf(f) \cup mask # {} /\ (EntriesOf(f) # {} \/ Len(subs) < MaxSubs)
              => HasEntryIn(Subscribed(f, mask), f)
<1> DEFINE t == Subscribed(f, mask)
           n == Len(subs)
<1>1. n \in Nat /\ DOMAIN subs = 1..n /\ \A i \in DOMAIN subs : subs[i] \in EventSub
  BY SubsFacts
<1>2. CASE EntriesOf(f) # {}
  <2>1. PICK i \in DOMAIN subs : subs[i].fd = f
    BY <1>2 DEF EntriesOf
  <2>2. Min(EntriesOf(f)) = i /\ MaskOf(f) = subs[i].mask
    BY <2>1, OneEntry
  <2>3. CASE mask = {}
    <3>1. t = subs
      BY <2>3 DEF Subscribed
    <3>2. MaskOf(f) \cup mask = subs[i].mask
      BY <2>2, <2>3
    <3>3. \A j \in DOMAIN subs : subs[j].fd = f => j = i
      BY <2>1 DEF EntriesHaveOwners
    <3> QED BY <3>1, <3>2, <3>3, <2>1 DEF Updates, HasEntryIn, EntriesHaveOwners, TypeOK
  <2>4. CASE mask # {}
    <3> DEFINE e == [subs[i] EXCEPT !.mask = @ \cup mask]
    <3>1. t = [subs EXCEPT ![i] = e]
      BY <2>2, <2>4, <1>2 DEF Subscribed
    <3>2. e \in EventSub /\ e.fd = f /\ e.mask = MaskOf(f) \cup mask
      BY <1>1, <2>1, <2>2, <2>4 DEF EventSub
    <3> HIDE DEF e
    <3>3. /\ t \in Seq(EventSub) /\ Len(t) = n /\ DOMAIN t = 1..n
          /\ \A j \in 1..n : t[j] = IF j = i THEN e ELSE subs[j]
      BY <1>1, <3>1, <3>2, ExceptSeq, LenProperties DEF TypeOK
    <3> HIDE DEF t
    <3>4. \A j, k \in DOMAIN t : j # k => t[j].fd # t[k].fd
      BY <1>1, <3>2, <3>3, <2>1 DEF EntriesHaveOwners
    <3>5. \A j \in DOMAIN t : IF t[j].fd = f THEN t[j].mask = MaskOf(f) \cup mask
                              ELSE \E k \in DOMAIN subs : t[j] = subs[k]
      BY <1>1, <3>2, <3>3, <2>1 DEF EntriesHaveOwners
    <3>6. \A k \in DOMAIN subs : subs[k].fd # f => \E j \in DOMAIN t : t[j] = subs[k]
      BY <1>1, <3>3, <2>1
    <3>7. HasEntryIn(t, f)
      BY <3>2, <3>3, <1>1, <2>1 DEF HasEntryIn
    <3>8. Updates(t, f, MaskOf(f) \cup mask)
      BY <3>3, <3>4, <3>5, <3>6 DEF Updates, TypeOK
    <3> QED BY <3>7, <3>8 DEF t
  <2> QED BY <2>3, <2>4
<1>3. CASE EntriesOf(f) = {}
  <2>1. MaskOf(f) = {} /\ \A i \in DOMAIN subs : subs[i].fd # f
    BY <1>3, NoEntry
  <2>2. CASE mask = {} \/ ~(n < MaxSubs)
    <3>1. t = subs
      BY <2>2, <1>3 DEF Subscribed
    <3>2. Updates(subs, f, MaskOf(f) \cup mask)
      BY <2>1 DEF Updates, EntriesHaveOwners, TypeOK
    <3>3. MaskOf(f) \cup mask # {} => ~(Len(subs) < MaxSubs)
      BY <2>1, <2>2
    <3> QED BY <3>1, <3>2, <3>3, <1>3
  <2>3. CASE mask # {} /\ n < MaxSubs
    <3> DEFINE e == [fd |-> f, mask |-> mask]
    <3>1. t = Append(subs, e) /\ e \in EventSub /\ e.fd = f /\ e.mask = mask
      BY <2>3, <1>3 DEF Subscribed, EventSub
    <3> HIDE DEF e
    <3>2. /\ t \in Seq(EventSub) /\ Len(t) = n + 1 /\ DOMAIN t = 1..n + 1
          /\ \A j \in 1..n + 1 : t[j] = IF j = n + 1 THEN e ELSE subs[j]
      BY <1>1, <3>1, LenProperties, AppendProperties DEF TypeOK
    <3> HIDE DEF t
    <3>3. \A j, k \in DOMAIN t : j # k => t[j].fd # t[k].fd
      BY <1>1, <3>1, <3>2, <2>1 DEF EntriesHaveOwners
    <3>4. \A j \in DOMAIN t : IF t[j].fd = f THEN t[j].mask = MaskOf(f) \cup mask
                              ELSE \E k \in DOMAIN subs : t[j] = subs[k]
      BY <1>1, <3>1, <3>2, <2>1
    <3>5. \A k \in DOMAIN subs : subs[k].fd # f => \E j \in DOMAIN t : t[j] = subs[k]
      BY <1>1, <3>2
    <3>6. HasEntryIn(t, f)
      BY <3>1, <3>2, <1>1 DEF HasEntryIn
    <3>7. Len(t) <= MaxSubs
      BY <1>1, <3>2, <2>3, MaxSubsAssumption
    <3> QED BY <3>2, <3>3, <3>4, <3>5, <3>6, <3>7 DEF Updates, t
  <2> QED BY <2>2, <2>3
<1> QED BY <1>2, <1>3

\* er_unsubscribe.
LEMMA UnsubscribedFacts ==
  ASSUME TypeOK, EntriesHaveOwners, NEW f \in Fd, NEW mask \in SUBSET Kinds
  PROVE  /\ Updates(Unsubscribed(f, mask), f, MaskOf(f) \ mask)
         /\ MaskOf(f) \ mask # {} => HasEntryIn(Unsubscribed(f, mask), f)
<1> DEFINE t == Unsubscribed(f, mask)
           n == Len(subs)
<1>1. n \in Nat /\ DOMAIN subs = 1..n /\ \A i \in DOMAIN subs : subs[i] \in EventSub
  BY SubsFacts
<1>2. CASE EntriesOf(f) = {}
  <2>1. MaskOf(f) = {} /\ \A i \in DOMAIN subs : subs[i].fd # f
    BY <1>2, NoEntry
  <2>2. t = subs
    BY <1>2 DEF Unsubscribed
  <2>3. Updates(subs, f, MaskOf(f) \ mask)
    BY <2>1 DEF Updates, EntriesHaveOwners, TypeOK
  <2> QED BY <2>1, <2>2, <2>3
<1>3. CASE EntriesOf(f) # {}
  <2>1. PICK i \in DOMAIN subs : subs[i].fd = f
    BY <1>3 DEF EntriesOf
  <2>2. Min(EntriesOf(f)) = i /\ MaskOf(f) = subs[i].mask
    BY <2>1, OneEntry
  <2>3. CASE subs[i].mask \subseteq mask
    <3>1. t = SwapOut(subs, i)
      BY <2>2, <2>3, <1>3 DEF Unsubscribed
    <3>2. Updates(SwapOut(subs, i), f, MaskOf(f) \ mask)
      BY <2>1, SwapOutUpdates
    <3> QED BY <3>1, <3>2, <2>2, <2>3
  <2>4. CASE ~(subs[i].mask \subseteq mask)
    <3> DEFINE e == [subs[i] EXCEPT !.mask = @ \ mask]
    <3>1. t = [subs EXCEPT ![i] = e]
      BY <2>2, <2>4, <1>3 DEF Unsubscribed
    <3>2. e \in EventSub /\ e.fd = f /\ e.mask = MaskOf(f) \ mask
      BY <1>1, <2>1, <2>2, <2>4 DEF EventSub
    <3> HIDE DEF e
    <3>3. /\ t \in Seq(EventSub) /\ Len(t) = n /\ DOMAIN t = 1..n
          /\ \A j \in 1..n : t[j] = IF j = i THEN e ELSE subs[j]
      BY <1>1, <3>1, <3>2, ExceptSeq, LenProperties DEF TypeOK
    <3> HIDE DEF t
    <3>4. \A j, k \in DOMAIN t : j # k => t[j].fd # t[k].fd
      BY <1>1, <3>2, <3>3, <2>1 DEF EntriesHaveOwners
    <3>5. \A j \in DOMAIN t : IF t[j].fd = f THEN t[j].mask = MaskOf(f) \ mask
                              ELSE \E k \in DOMAIN subs : t[j] = subs[k]
      BY <1>1, <3>2, <3>3, <2>1 DEF EntriesHaveOwners
    <3>6. \A k \in DOMAIN subs : subs[k].fd # f => \E j \in DOMAIN t : t[j] = subs[k]
      BY <1>1, <3>3, <2>1
    <3>7. HasEntryIn(t, f)
      BY <3>2, <3>3, <1>1, <2>1 DEF HasEntryIn
    <3>8. Updates(t, f, MaskOf(f) \ mask)
      BY <3>3, <3>4, <3>5, <3>6 DEF Updates, TypeOK
    <3> QED BY <3>7, <3>8 DEF t
  <2> QED BY <2>3, <2>4
<1> QED BY <1>2, <1>3

\* er_remove_fd.
LEMMA RemovedFacts ==
  ASSUME TypeOK, EntriesHaveOwners, NEW f \in Fd
  PROVE  Updates(Removed(f), f, {}) /\ ~HasEntryIn(Removed(f), f)
<1>1. CASE EntriesOf(f) = {}
  <2>1. Removed(f) = subs /\ \A i \in DOMAIN subs : subs[i].fd # f
    BY <1>1, NoEntry DEF Removed
  <2> QED BY <2>1 DEF Updates, HasEntryIn, EntriesHaveOwners, TypeOK
<1>2. CASE EntriesOf(f) # {}
  <2>1. PICK i \in DOMAIN subs : subs[i].fd = f
    BY <1>2 DEF EntriesOf
  <2>2. Removed(f) = SwapOut(subs, i)
    BY <1>2, <2>1, OneEntry DEF Removed
  <2> QED BY <2>1, <2>2, SwapOutUpdates
<1> QED BY <1>1, <1>2

(***************************************************************************)
(* Steps of a connection's thread on its own entry                         *)
(***************************************************************************)

\* What is subscribed on a connection's socket is what it asked for, at most.
LEMMA MaskAsked ==
  ASSUME TypeOK, SocketsDistinct, EntriesHaveOwners, NEW c \in Open
  PROVE  MaskOf(fd[c]) \subseteq asked[c]
<1>1. ASSUME NEW i \in EntriesOf(fd[c]) PROVE subs[i].mask \subseteq asked[c]
  BY <1>1 DEF EntriesOf, EntriesHaveOwners, SocketsDistinct
<1> QED BY <1>1 DEF MaskOf

LEMMA OwnEntry ==
  ASSUME IInv, LockFree, NEW c \in Conns, thread[c] = "read",
         NEW mask, mask \subseteq asked'[c],
         Updates(subs', fd[c], mask),
         NEW kinds \in SUBSET Kinds, asked' = [asked EXCEPT ![c] = kinds],
         NEW next \in {"ack", "closing"}, thread' = [thread EXCEPT ![c] = next],
         next = "closing" => kinds = {},
         UNCHANGED <<fd, peer, stalled, push>>
  PROVE  IInv' /\ Open' = Open /\ c \in Open
<1> USE DEF IInv
<1>1. TypeOK'
  BY DEF TypeOK, Updates
<1>2. Open' = Open /\ c \in Open
  BY DEF Open, TypeOK
<1>3. asked'[c] = kinds /\ \A d \in Conns : d # c => asked'[d] = asked[d]
  BY DEF TypeOK
<1>4. SocketsDistinct'
  BY <1>2, <1>3 DEF SocketsDistinct, TypeOK
<1>5. \A i \in DOMAIN subs' : \E d \in Open :
         fd[d] = subs'[i].fd /\ subs'[i].mask \subseteq asked'[d]
  <2>1. ASSUME NEW i \in DOMAIN subs', subs'[i].fd # fd[c]
        PROVE  \E d \in Open : fd[d] = subs'[i].fd /\ subs'[i].mask \subseteq asked'[d]
    <3>1. PICK j \in DOMAIN subs : subs'[i] = subs[j]
      BY <2>1 DEF Updates
    <3>2. PICK d \in Open : fd[d] = subs[j].fd /\ subs[j].mask \subseteq asked[d]
      BY DEF EntriesHaveOwners
    <3>3. d # c /\ d \in Conns
      BY <2>1, <3>1, <3>2 DEF Open
    <3> QED BY <3>1, <3>2, <3>3, <1>3
  <2>2. ASSUME NEW i \in DOMAIN subs', subs'[i].fd = fd[c]
        PROVE  \E d \in Open : fd[d] = subs'[i].fd /\ subs'[i].mask \subseteq asked'[d]
    BY <2>2, <1>2 DEF Updates
  <2> QED BY <2>1, <2>2
<1>6. EntriesHaveOwners'
  BY <1>2, <1>5 DEF EntriesHaveOwners, Updates
<1>7. Served'
  BY DEF Served, LockFree
<1> QED BY <1>1, <1>2, <1>4, <1>6, <1>7

LEMMA SubscribeKeeps ==
  ASSUME IInv, NEW c \in Conns, NEW mask \in SUBSET Kinds, Subscribe(c, mask)
  PROVE  IInv' /\ Open' = Open /\ c \in Open
<1> USE DEF IInv
<1>1. c \in Open /\ fd[c] \in Fd
  BY DEF Open, Subscribe, SocketsDistinct
<1>2. Updates(subs', fd[c], MaskOf(fd[c]) \cup mask)
  BY <1>1, SubscribedFacts DEF Subscribe
<1>3. /\ asked[c] \cup mask \in SUBSET Kinds
      /\ asked'[c] = asked[c] \cup mask
      /\ MaskOf(fd[c]) \cup mask \subseteq asked'[c]
  BY <1>1, MaskAsked DEF Subscribe, TypeOK
<1> QED BY <1>2, <1>3, OwnEntry DEF Subscribe

LEMMA UnsubscribeKeeps ==
  ASSUME IInv, NEW c \in Conns, NEW mask \in SUBSET Kinds, Unsubscribe(c, mask)
  PROVE  IInv' /\ Open' = Open /\ c \in Open
<1> USE DEF IInv, Unsubscribe
<1>1. c \in Open /\ fd[c] \in Fd
  BY DEF Open, DoUnsubscribe, SocketsDistinct
<1>2. Updates(subs', fd[c], MaskOf(fd[c]) \ mask)
  BY <1>1, UnsubscribedFacts DEF DoUnsubscribe
<1>3. /\ asked[c] \ mask \in SUBSET Kinds
      /\ asked'[c] = asked[c] \ mask
      /\ MaskOf(fd[c]) \ mask \subseteq asked'[c]
  BY <1>1, MaskAsked DEF DoUnsubscribe, TypeOK
<1> QED BY <1>2, <1>3, OwnEntry DEF DoUnsubscribe

LEMMA DisconnectKeeps ==
  ASSUME IInv, NEW c \in Conns, Disconnect(c)
  PROVE  IInv' /\ Open' = Open /\ c \in Open
<1> USE DEF IInv
<1>1. c \in Open /\ fd[c] \in Fd
  BY DEF Open, Disconnect, SocketsDistinct
<1>2. Updates(subs', fd[c], {})
  BY <1>1, RemovedFacts DEF Disconnect
<1>3. PICK none \in SUBSET Kinds : none = {}
  OBVIOUS
<1>4. PICK next \in {"ack", "closing"} : next = "closing"
  OBVIOUS
<1>5. /\ LockFree /\ thread[c] = "read"
      /\ asked' = [asked EXCEPT ![c] = none]
      /\ thread' = [thread EXCEPT ![c] = next]
      /\ UNCHANGED <<fd, peer, stalled, push>>
  BY <1>3, <1>4 DEF Disconnect
<1>6. Updates(subs', fd[c], none) /\ none \subseteq asked'[c]
  BY <1>2, <1>3
<1>7. next = "closing" => none = {}
  BY <1>3
<1> HIDE DEF IInv
<1> QED BY <1>5, <1>6, <1>7, OwnEntry

(***************************************************************************)
(* The other steps of connections                                          *)
(***************************************************************************)

\* The new connection's socket is free, so the table has no entry for it.
LEMMA AcceptKeeps ==
  ASSUME IInv, NEW c \in Conns, Accept(c)
  PROVE  /\ IInv'
         /\ Open' = Open \cup {c} /\ c \notin Open
         /\ \A d \in Open : fd'[d] = fd[d]
         /\ \A i \in DOMAIN subs : subs[i].fd # fd'[c]
<1> USE DEF IInv
<1>1. PICK f \in Fd \ {fd[d] : d \in Conns} : fd' = [fd EXCEPT ![c] = f]
  BY DEF Accept
<1>2. fd'[c] = f /\ \A d \in Conns : d # c => fd'[d] = fd[d]
  BY <1>1 DEF TypeOK
<1>3. Open' = Open \cup {c} /\ c \notin Open
  BY DEF Accept, Open, TypeOK
<1>4. TypeOK'
  BY <1>1 DEF TypeOK, Accept
<1>5. \A d \in Open : d \in Conns /\ fd'[d] = fd[d] /\ fd[d] # f
  BY <1>1, <1>2, <1>3 DEF Open
<1>6. SocketsDistinct'
  <2>1. \A d \in Open' : fd'[d] \in Fd
    BY <1>2, <1>3, <1>5 DEF SocketsDistinct
  <2>2. \A d, e \in Open' : fd'[d] = fd'[e] => d = e
    BY <1>2, <1>3, <1>5 DEF SocketsDistinct
  <2>3. \A d \in Conns : thread'[d] \in {"none", "closing"} => asked'[d] = {}
    BY DEF SocketsDistinct, Accept, TypeOK
  <2> QED BY <2>1, <2>2, <2>3 DEF SocketsDistinct
<1>7. \A i \in DOMAIN subs : subs[i].fd # f
  BY <1>5 DEF EntriesHaveOwners
<1>8. EntriesHaveOwners'
  BY <1>3, <1>5 DEF EntriesHaveOwners, Accept
<1>9. Served'
  BY <1>2, <1>3, <1>5, <1>7 DEF Served, Accept, LockFree
<1> QED BY <1>2, <1>3, <1>4, <1>5, <1>6, <1>7, <1>8, <1>9

\* Steps that change neither the table nor who has which socket.
LEMMA ClientKeeps ==
  ASSUME IInv, NEW c \in Conns, Ack(c) \/ HangUp(c) \/ Stall(c)
  PROVE  IInv' /\ Open' = Open
<1> USE DEF IInv
<1>1. TypeOK'
  BY DEF TypeOK, Ack, HangUp, Stall
<1>2. Open' = Open
  BY DEF Open, Ack, HangUp, Stall, TypeOK
<1>3. SocketsDistinct'
  BY <1>2 DEF SocketsDistinct, Ack, HangUp, Stall, TypeOK
<1>4. EntriesHaveOwners' /\ Served'
  BY <1>2 DEF EntriesHaveOwners, Served, LockFree, Ack, HangUp, Stall
<1> QED BY <1>1, <1>2, <1>3, <1>4

\* A connection that closes has no entry any more.
LEMMA CloseKeeps ==
  ASSUME IInv, NEW c \in Conns, Close(c)
  PROVE  IInv' /\ Open' = Open \ {c} /\ \A d \in Open' : fd'[d] = fd[d]
<1> USE DEF IInv
<1>1. TypeOK'
  BY DEF TypeOK, Close
<1>2. Open' = Open \ {c} /\ c \in Open /\ \A d \in Open' : fd'[d] = fd[d]
  BY DEF Open, Close, TypeOK
<1>3. SocketsDistinct'
  BY <1>2 DEF SocketsDistinct, Close, TypeOK
<1>4. \A i \in DOMAIN subs : \E d \in Open' :
         fd[d] = subs[i].fd /\ subs[i].mask \subseteq asked[d]
  <2> TAKE i \in DOMAIN subs
  <2>1. PICK d \in Open : fd[d] = subs[i].fd /\ subs[i].mask \subseteq asked[d]
    BY DEF EntriesHaveOwners
  <2>2. subs[i].mask # {}
    BY SubsFacts DEF EventSub
  <2>3. d # c
    BY <2>1, <2>2 DEF SocketsDistinct, Close
  <2> QED BY <1>2, <2>1, <2>3
<1>5. EntriesHaveOwners'
  BY <1>2, <1>4 DEF EntriesHaveOwners, Close
<1>6. Served'
  BY <1>2 DEF Served, LockFree, Close
<1> QED BY <1>1, <1>2, <1>3, <1>5, <1>6

(***************************************************************************)
(* er_push                                                                 *)
(***************************************************************************)

\* The entry that a push has come to is its addressee's, who has asked for the
\* event and was not written to before.
LEMMA AddresseeAsked ==
  ASSUME IInv, InPush, Wanted, NEW c \in Addressee
  PROVE  /\ push.i \in DOMAIN subs /\ c \in Conns
         /\ push.kind \in asked[c]
         /\ push.reached[c] = 0
<1> USE DEF IInv
<1>1. push.i \in DOMAIN subs /\ push.i \in Nat
  BY SubsFacts DEF InPush, Served, TypeOK
<1>2. c \in Open /\ c \in Conns /\ fd[c] = subs[push.i].fd
  BY DEF Addressee, Open
<1>3. subs[push.i].mask \subseteq asked[c]
  BY <1>1, <1>2 DEF EntriesHaveOwners, SocketsDistinct
<1>4. push.reached[c] = 0
  BY <1>1, <1>2 DEF Served, InPush
<1> QED BY <1>1, <1>2, <1>3, <1>4 DEF Wanted

LEMMA PushKeeps ==
  ASSUME IInv, (\E k \in Kinds : PushBegin(k)) \/ Skip \/ Write \/ PushEnd
  PROVE  IInv' /\ Open' = Open
<1> USE DEF IInv
<1>0. /\ Len(subs) \in Nat /\ DOMAIN subs = 1..Len(subs) /\ Len(subs) <= MaxSubs
      /\ MaxSubs \in Nat
  BY SubsFacts, MaxSubsAssumption DEF TypeOK
<1>1. UNCHANGED <<subs, thread, fd, peer, stalled, asked>> /\ Open' = Open
  BY DEF PushBegin, Skip, Write, PushEnd, Open
<1>2. SocketsDistinct' /\ EntriesHaveOwners'
  BY <1>1 DEF SocketsDistinct, EntriesHaveOwners
<1>3. ASSUME NEW k \in Kinds, PushBegin(k)
      PROVE  TypeOK' /\ Served'
  <2>1. push' = [kind |-> k, i |-> 1, reached |-> [c \in Conns |-> 0]]
    BY <1>3 DEF PushBegin, NoPush
  <2>2. \A c \in Open : push'.reached[c] = 0
    BY <2>1 DEF Open
  <2>3. Served'
    BY <1>0, <1>1, <2>1, <2>2 DEF Served
  <2> QED BY <1>0, <1>1, <2>1, <2>3 DEF TypeOK
<1>4. ASSUME Skip PROVE TypeOK' /\ Served'
  <2>1. push' = [kind |-> push.kind, i |-> push.i + 1, reached |-> push.reached]
    BY <1>4 DEF Skip, TypeOK
  <2>2. push.i \in 1..Len(subs) /\ push.kind \notin subs[push.i].mask
    BY <1>0, <1>4 DEF Skip, InPush, Wanted, Served, TypeOK
  <2>3. TypeOK'
    BY <1>0, <1>1, <2>1, <2>2 DEF TypeOK
  <2>4. Served'
    BY <1>0, <1>1, <1>4, <2>1, <2>2 DEF Served, LockFree, Skip, InPush
  <2> QED BY <2>3, <2>4
<1>5. ASSUME Write PROVE TypeOK' /\ Served'
  <2>1. PICK c \in Addressee :
           push' = [push EXCEPT !.i = @ + 1, !.reached[c] = @ + 1]
    BY <1>5 DEF Write
  <2>2. /\ push.i \in 1..Len(subs) /\ c \in Open /\ c \in Conns
        /\ fd[c] = subs[push.i].fd /\ push.reached[c] = 0
    BY <1>0, <1>5, AddresseeAsked DEF Write, Addressee
  <2> DEFINE r == [push.reached EXCEPT ![c] = @ + 1]
  <2>a. r \in [Conns -> Nat] /\ r[c] = 1 /\ \A d \in Conns : d # c => r[d] = push.reached[d]
    BY <2>2 DEF TypeOK
  <2>b. push' = [kind |-> push.kind, i |-> push.i + 1, reached |-> r]
    BY <2>1 DEF TypeOK
  <2> HIDE DEF r
  <2>3. /\ push'.i = push.i + 1 /\ push'.kind = push.kind
        /\ push'.reached[c] = 1
        /\ \A d \in Conns : d # c => push'.reached[d] = push.reached[d]
    BY <2>a, <2>b
  <2>4. TypeOK'
    BY <1>0, <1>1, <2>2, <2>a, <2>b DEF TypeOK
  <2>5. ASSUME NEW d \in Open, NEW j \in DOMAIN subs, subs[j].fd = fd[d]
        PROVE  /\ j < push'.i /\ push.kind \in subs[j].mask => push'.reached[d] = 1
               /\ j >= push'.i => push'.reached[d] = 0
    <3>1. CASE d = c
      <4>1. j = push.i
        BY <1>0, <2>2, <2>5, <3>1 DEF EntriesHaveOwners
      <4> QED BY <4>1, <3>1, <2>2, <2>3
    <3>2. CASE d # c
      <4>1. j # push.i /\ d \in Conns
        BY <2>2, <2>5, <3>2 DEF SocketsDistinct, Open
      <4>2. /\ j < push.i /\ push.kind \in subs[j].mask => push.reached[d] = 1
            /\ j >= push.i => push.reached[d] = 0
        BY <1>5, <2>5 DEF Served, Write, InPush
      <4> QED BY <1>0, <4>1, <4>2, <3>2, <2>2, <2>3
    <3> QED BY <3>1, <3>2
  <2>6. Served'
    BY <1>1, <2>2, <2>3, <2>5 DEF Served
  <2> QED BY <2>4, <2>6
<1>6. ASSUME PushEnd PROVE TypeOK' /\ Served'
  <2>1. push' = NoPush
    BY <1>6 DEF PushEnd
  <2>2. TypeOK'
    BY <1>0, <1>1, <2>1 DEF TypeOK, NoPush
  <2> QED BY <2>1, <2>2 DEF Served, LockFree, NoPush
<1> QED BY <1>1, <1>2, <1>3, <1>4, <1>5, <1>6

\* The entry that takes the place of the dead one comes from ahead.
LEMMA WriteFailsKeeps ==
  ASSUME IInv, WriteFails
  PROVE  /\ IInv' /\ Open' = Open
         /\ push.i \in DOMAIN subs
         /\ Updates(subs', subs[push.i].fd, {})
<1> USE DEF IInv
<1>0. /\ Len(subs) \in Nat /\ DOMAIN subs = 1..Len(subs)
      /\ push.i \in DOMAIN subs
  BY SubsFacts DEF TypeOK, WriteFails, InPush, Served
<1> DEFINE n == Len(subs)
<1>1. /\ subs \in Seq(EventSub)
      /\ subs' = SwapOut(subs, push.i)
      /\ UNCHANGED <<thread, fd, peer, stalled, asked, push>>
      /\ Open' = Open
  BY DEF WriteFails, Open, TypeOK
<1>2. Updates(subs', subs[push.i].fd, {})
  BY <1>0, <1>1, SwapOutUpdates
<1>3. ~HasEntryIn(subs', subs[push.i].fd)
  BY <1>0, <1>1, SwapOutUpdates
<1>4. TypeOK'
  BY <1>1, <1>2 DEF TypeOK, Updates
<1>5. SocketsDistinct'
  BY <1>1 DEF SocketsDistinct
<1>6. EntriesHaveOwners'
  <2>1. \A i \in DOMAIN subs' : \E j \in DOMAIN subs : subs'[i] = subs[j]
    BY <1>2, <1>3 DEF Updates, HasEntryIn
  <2> QED BY <1>1, <1>2, <2>1 DEF EntriesHaveOwners, Updates
<1>7. /\ DOMAIN subs' = 1..n - 1
      /\ \A j \in 1..n - 1 : subs'[j] = IF j = push.i THEN subs[n] ELSE subs[j]
  <2>1. /\ subs' \in Seq(EventSub) /\ Len(subs') = n - 1
        /\ \A j \in 1..n - 1 : subs'[j] = IF j = push.i THEN subs[n] ELSE subs[j]
    BY <1>0, <1>1, SwapOutFacts
  <2> QED BY <2>1, LenProperties
<1>8. Served'
  <2>1. ASSUME NEW c \in Open, NEW j \in DOMAIN subs', subs'[j].fd = fd[c]
        PROVE  /\ j < push.i /\ push.kind \in subs'[j].mask => push.reached[c] = 1
               /\ j >= push.i => push.reached[c] = 0
    <3>1. j \in 1..n - 1 /\ j \in DOMAIN subs /\ n \in DOMAIN subs /\ n >= push.i
      BY <1>0, <1>7
    <3>2. CASE j = push.i
      <4>1. subs[n].fd = fd[c]
        BY <1>7, <2>1, <3>1, <3>2
      <4>2. push.reached[c] = 0
        BY <3>1, <4>1 DEF Served, WriteFails, InPush
      <4> QED BY <4>2, <3>2, <1>0
    <3>3. CASE j # push.i
      <4>1. subs'[j] = subs[j]
        BY <1>7, <3>1, <3>3
      <4> QED BY <2>1, <3>1, <4>1 DEF Served, WriteFails, InPush
    <3> QED BY <3>2, <3>3
  <2> QED BY <1>1, <2>1 DEF Served, LockFree
<1> QED BY <1>0, <1>1, <1>2, <1>4, <1>5, <1>6, <1>8

(***************************************************************************)
(* The theorems                                                            *)
(***************************************************************************)

LEMMA InitIInv == Init => IInv
<1> SUFFICES ASSUME Init PROVE IInv
  OBVIOUS
<1> USE DEF Init
<1>1. Len(subs) = 0 /\ DOMAIN subs = {} /\ subs \in Seq(EventSub)
  OBVIOUS
<1>2. TypeOK
  BY <1>1, MaxSubsAssumption DEF TypeOK, NoPush
<1>3. Open = {}
  BY DEF Open
<1>4. SocketsDistinct
  BY <1>3 DEF SocketsDistinct
<1>5. EntriesHaveOwners
  BY <1>1 DEF EntriesHaveOwners
<1>6. Served
  BY DEF Served, LockFree, NoPush
<1> QED BY <1>2, <1>4, <1>5, <1>6 DEF IInv

LEMMA NextIInv == IInv /\ [Next]_vars => IInv'
<1> SUFFICES ASSUME IInv, [Next]_vars PROVE IInv'
  OBVIOUS
<1>1. ASSUME NEW c \in Conns, Accept(c) PROVE IInv'
  BY <1>1, AcceptKeeps
<1>2. ASSUME NEW c \in Conns, NEW mask \in SUBSET Kinds, Subscribe(c, mask) PROVE IInv'
  BY <1>2, SubscribeKeeps
<1>3. ASSUME NEW c \in Conns, NEW mask \in SUBSET Kinds, Unsubscribe(c, mask) PROVE IInv'
  BY <1>3, UnsubscribeKeeps
<1>4. ASSUME NEW c \in Conns, Ack(c) \/ HangUp(c) \/ Stall(c) PROVE IInv'
  BY <1>4, ClientKeeps
<1>5. ASSUME NEW c \in Conns, Disconnect(c) PROVE IInv'
  BY <1>5, DisconnectKeeps
<1>6. ASSUME NEW c \in Conns, Close(c) PROVE IInv'
  BY <1>6, CloseKeeps
<1>7. ASSUME (\E k \in Kinds : PushBegin(k)) \/ Skip \/ Write \/ PushEnd PROVE IInv'
  BY <1>7, PushKeeps
<1>8. ASSUME WriteFails PROVE IInv'
  BY <1>8, WriteFailsKeeps
<1>9. ASSUME UNCHANGED vars PROVE IInv'
  BY <1>9 DEF vars, IInv, TypeOK, SocketsDistinct, EntriesHaveOwners, Served,
              Open, LockFree
<1> QED BY <1>1, <1>2, <1>3, <1>4, <1>5, <1>6, <1>7, <1>8, <1>9 DEF Next

\* Sockets, table and push stay consistent for any number of connections.
THEOREM Invariant == Spec => []IInv
BY InitIInv, NextIInv, PTL DEF Spec

\* The subscriptions of a socket that is given out again are never inherited:
\* every entry is an open connection's who asked for all of it, even when the
\* table is full.
THEOREM EntriesOwned == Spec => []EntriesHaveOwners
<1>1. IInv => EntriesHaveOwners
  BY DEF IInv
<1> QED BY <1>1, Invariant, PTL

\* er_push writes an event only to connections that asked for its kind, with
\* any number of connections coming and going during the push.
THEOREM OnlyAsked == Spec => OnlyAskedEvents
<1> DEFINE P == \A c \in Conns :
                  push'.reached[c] > push.reached[c] => push.kind \in asked[c]
<1>1. IInv /\ [Next]_vars => P
  <2> SUFFICES ASSUME IInv, [Next]_vars, NEW c \in Conns,
                      push'.reached[c] > push.reached[c]
               PROVE  push.kind \in asked[c]
    OBVIOUS
  <2>0. TypeOK /\ push.reached \in [Conns -> Nat]
    BY DEF IInv, TypeOK
  <2>1. push' # push
    BY <2>0
  <2>2. ASSUME NEW k \in Kinds, PushBegin(k) PROVE FALSE
    <3>1. push'.reached[c] = 0
      BY <2>2 DEF PushBegin, NoPush
    <3> QED BY <2>0, <3>1
  <2>3. ASSUME PushEnd PROVE FALSE
    <3>1. push'.reached[c] = 0
      BY <2>3 DEF PushEnd, NoPush
    <3> QED BY <2>0, <3>1
  <2>4. ASSUME Skip PROVE FALSE
    <3>1. push'.reached = push.reached
      BY <2>0, <2>4 DEF Skip, TypeOK
    <3> QED BY <2>0, <3>1
  <2>5. ASSUME Write PROVE push.kind \in asked[c]
    <3>1. PICK d \in Addressee :
             push' = [push EXCEPT !.i = @ + 1, !.reached[d] = @ + 1]
      BY <2>5 DEF Write
    <3>2. push.kind \in asked[d] /\ d \in Conns
      BY <2>5, <3>1, AddresseeAsked DEF Write
    <3>3. push'.reached = [push.reached EXCEPT ![d] = @ + 1]
      BY <2>0, <3>1 DEF TypeOK
    <3>4. c = d
      BY <2>0, <3>2, <3>3
    <3> QED BY <3>2, <3>4
  <2>6. ~UNCHANGED push
    BY <2>1
  <2> QED BY <2>2, <2>3, <2>4, <2>5, <2>6
          DEF Next, vars, Accept, Subscribe, Unsubscribe, DoUnsubscribe, Ack, HangUp,
              Stall, Disconnect, Close, WriteFails
<1> QED BY <1>1, Invariant, PTL DEF Spec, OnlyAskedEvents

\* Every live subscriber has been written to exactly once when er_push ends,
\* whatever dead entries it removed and whoever joined or left meanwhile.
THEOREM EachPushReached == Spec => EachPushReachesAll
<1> DEFINE P == PushEnd => \A c \in Open :
                  peer[c] /\ push.kind \in MaskOf(fd[c]) => push.reached[c] = 1
<1>1. IInv /\ [Next]_vars => P
  <2> SUFFICES ASSUME IInv, PushEnd, NEW c \in Open, push.kind \in MaskOf(fd[c])
               PROVE  push.reached[c] = 1
    OBVIOUS
  <2>1. PICK j \in DOMAIN subs : subs[j].fd = fd[c] /\ push.kind \in subs[j].mask
    BY DEF MaskOf, EntriesOf
  <2>2. Len(subs) \in Nat /\ DOMAIN subs = 1..Len(subs) /\ push.i \in Int
    BY SubsFacts DEF IInv, TypeOK
  <2>3. j < push.i
    BY <2>2 DEF PushEnd
  <2> QED BY <2>1, <2>3 DEF IInv, Served, PushEnd
<1> QED BY <1>1, Invariant, PTL DEF Spec, EachPushReachesAll

(***************************************************************************)
(* A table with room for every connection                                  *)
(***************************************************************************)

\* A connection without an entry finds room for one: the others have one each.
LEMMA RoomForOne ==
  ASSUME IInv, Cardinality(Conns) <= MaxSubs, NEW c \in Open, EntriesOf(fd[c]) = {}
  PROVE  Len(subs) < MaxSubs
<1> USE DEF IInv
<1>1. Len(subs) \in Nat /\ DOMAIN subs = 1..Len(subs)
  BY SubsFacts
<1> DEFINE n == Len(subs)
           owner == [i \in 1..n |-> CHOOSE d \in Open : fd[d] = subs[i].fd]
<1>2. \A i \in 1..n : owner[i] \in Open /\ fd[owner[i]] = subs[i].fd
  BY <1>1 DEF EntriesHaveOwners
<1>3. \A i \in 1..n : owner[i] \in Conns \ {c}
  BY <1>1, <1>2, NoEntry DEF Open
<1>4. \A i, j \in 1..n : owner[i] = owner[j] => i = j
  BY <1>1, <1>2 DEF EntriesHaveOwners
<1> HIDE DEF owner
<1>5. owner \in [1..n -> Conns \ {c}]
  BY <1>3 DEF owner
<1>6. owner \in Injection(1..n, Conns \ {c})
  BY <1>4, <1>5 DEF Injection, IsInjective
<1>7. /\ IsFiniteSet(Conns \ {c})
      /\ Cardinality(Conns \ {c}) = Cardinality(Conns) - 1
      /\ Cardinality(Conns) \in Nat
  BY ConnsAssumption, FS_RemoveElement, FS_CardinalityType DEF Open
<1>8. Cardinality(1..n) <= Cardinality(Conns \ {c})
  BY <1>6, <1>7, FS_Injection
<1>9. Cardinality(1..n) = n
  BY <1>1, FS_Interval
<1> QED BY <1>1, <1>7, <1>8, <1>9, MaxSubsAssumption

\* What a live connection is subscribed to is all that it asked for.
LEMMA MaskIsAsked ==
  ASSUME IInv, NothingMissing, NEW c \in Open, peer[c]
  PROVE  MaskOf(fd[c]) = asked[c]
<1>1. MaskOf(fd[c]) \subseteq asked[c]
  BY MaskAsked DEF IInv
<1>2. ASSUME asked[c] # {} PROVE asked[c] \subseteq MaskOf(fd[c])
  <2>1. PICK i \in DOMAIN subs : subs[i].fd = fd[c] /\ subs[i].mask = asked[c]
    BY <1>2 DEF NothingMissing, HasEntry
  <2> QED BY <2>1 DEF MaskOf, EntriesOf
<1> QED BY <1>1, <1>2

\* An operation on socket fd[c] leaves the other connections' entries alone.
LEMMA OthersKeepTheirs ==
  ASSUME IInv, NothingMissing, NEW c \in Open, NEW mask,
         Updates(subs', fd[c], mask), UNCHANGED <<fd, peer>>, Open' = Open,
         \A d \in Open : d # c => asked'[d] = asked[d],
         peer[c] /\ asked'[c] # {} => HasEntry(c)'
  PROVE  NothingMissing'
<1> SUFFICES ASSUME NEW d \in Open, peer[d], asked'[d] # {} PROVE HasEntry(d)'
  BY DEF NothingMissing
<1>1. ASSUME d # c PROVE HasEntry(d)'
  <2>1. PICK j \in DOMAIN subs : subs[j].fd = fd[d] /\ subs[j].mask = asked[d]
    BY <1>1 DEF NothingMissing, HasEntry
  <2>2. subs[j].fd # fd[c]
    BY <1>1, <2>1 DEF IInv, SocketsDistinct
  <2>3. PICK i \in DOMAIN subs' : subs'[i] = subs[j]
    BY <2>2 DEF Updates
  <2> QED BY <1>1, <2>1, <2>3 DEF HasEntry
<1> QED BY <1>1

LEMMA NextNothingMissing ==
  ASSUME Cardinality(Conns) <= MaxSubs, IInv, NothingMissing, [Next]_vars
  PROVE  NothingMissing'
<1>1. ASSUME NEW c \in Conns, Accept(c) PROVE NothingMissing'
  <2>1. asked[c] = {}
    BY <1>1 DEF IInv, SocketsDistinct, Accept
  <2>2. /\ Open' = Open \cup {c} /\ c \notin Open
        /\ \A d \in Open : fd'[d] = fd[d]
    BY <1>1, AcceptKeeps
  <2>3. \A d \in Open : d # c /\ d \in Conns
    BY <2>2 DEF Open
  <2>4. \A d \in Open : peer'[d] = peer[d]
    BY <1>1, <2>3 DEF Accept, IInv, TypeOK
  <2>5. UNCHANGED <<subs, asked>>
    BY <1>1 DEF Accept
  <2> QED BY <2>1, <2>2, <2>3, <2>4, <2>5 DEF NothingMissing, HasEntry
<1>2. ASSUME NEW c \in Conns, NEW mask \in SUBSET Kinds, Subscribe(c, mask)
      PROVE  NothingMissing'
  <2> DEFINE all == MaskOf(fd[c]) \cup mask
  <2>1. Open' = Open /\ c \in Open /\ fd[c] \in Fd
    BY <1>2, SubscribeKeeps DEF IInv, SocketsDistinct
  <2>2. /\ subs' = Subscribed(fd[c], mask) /\ UNCHANGED <<fd, peer>>
        /\ asked'[c] = asked[c] \cup mask
        /\ \A d \in Open : d # c => asked'[d] = asked[d]
    BY <1>2 DEF Subscribe, IInv, TypeOK, Open
  <2>3. /\ Updates(subs', fd[c], all)
        /\ all # {} /\ (EntriesOf(fd[c]) # {} \/ Len(subs) < MaxSubs)
              => HasEntryIn(subs', fd[c])
    BY <2>1, <2>2, SubscribedFacts DEF IInv
  <2>4. ASSUME peer[c], asked'[c] # {} PROVE HasEntry(c)'
    <3>1. asked'[c] = all
      BY <2>1, <2>2, <2>4, MaskIsAsked
    <3>2. EntriesOf(fd[c]) # {} \/ Len(subs) < MaxSubs
      BY <2>1, RoomForOne
    <3>3. HasEntryIn(subs', fd[c])
      BY <2>3, <2>4, <3>1, <3>2
    <3> QED BY <2>2, <2>3, <3>1, <3>3 DEF Updates, HasEntryIn, HasEntry
  <2> QED BY <2>1, <2>2, <2>3, <2>4, OthersKeepTheirs
<1>3. ASSUME NEW c \in Conns, NEW mask \in SUBSET Kinds, Unsubscribe(c, mask)
      PROVE  NothingMissing'
  <2> DEFINE rest == MaskOf(fd[c]) \ mask
  <2>1. Open' = Open /\ c \in Open /\ fd[c] \in Fd
    BY <1>3, UnsubscribeKeeps DEF IInv, SocketsDistinct
  <2>2. /\ subs' = Unsubscribed(fd[c], mask) /\ UNCHANGED <<fd, peer>>
        /\ asked'[c] = asked[c] \ mask
        /\ \A d \in Open : d # c => asked'[d] = asked[d]
    BY <1>3 DEF Unsubscribe, DoUnsubscribe, IInv, TypeOK, Open
  <2>3. /\ Updates(subs', fd[c], rest)
        /\ rest # {} => HasEntryIn(subs', fd[c])
    BY <2>1, <2>2, UnsubscribedFacts DEF IInv
  <2>4. ASSUME peer[c], asked'[c] # {} PROVE HasEntry(c)'
    <3>1. asked'[c] = rest
      BY <2>1, <2>2, <2>4, MaskIsAsked
    <3>2. HasEntryIn(subs', fd[c])
      BY <2>3, <2>4, <3>1
    <3> QED BY <2>2, <2>3, <3>1, <3>2 DEF Updates, HasEntryIn, HasEntry
  <2> QED BY <2>1, <2>2, <2>3, <2>4, OthersKeepTheirs
<1>4. ASSUME NEW c \in Conns, Disconnect(c) PROVE NothingMissing'
  <2>1. Open' = Open /\ c \in Open /\ fd[c] \in Fd
    BY <1>4, DisconnectKeeps DEF IInv, SocketsDistinct
  <2>2. /\ subs' = Removed(fd[c]) /\ UNCHANGED <<fd, peer>> /\ asked'[c] = {}
        /\ \A d \in Open : d # c => asked'[d] = asked[d]
    BY <1>4 DEF Disconnect, IInv, TypeOK, Open
  <2>3. Updates(subs', fd[c], {})
    BY <2>1, <2>2, RemovedFacts DEF IInv
  <2> QED BY <2>1, <2>2, <2>3, OthersKeepTheirs
<1>5. ASSUME NEW c \in Conns, Ack(c) \/ HangUp(c) \/ Stall(c) PROVE NothingMissing'
  <2>1. Open' = Open
    BY <1>5, ClientKeeps
  <2>2. UNCHANGED <<subs, fd, asked>> /\ \A d \in Open : peer'[d] => peer[d]
    BY <1>5 DEF Ack, HangUp, Stall, IInv, TypeOK, Open
  <2> QED BY <2>1, <2>2 DEF NothingMissing, HasEntry
<1>6. ASSUME NEW c \in Conns, Close(c) PROVE NothingMissing'
  <2>1. Open' = Open \ {c} /\ \A d \in Open' : fd'[d] = fd[d]
    BY <1>6, CloseKeeps
  <2>2. UNCHANGED <<subs, asked>> /\ \A d \in Open' : d \in Open /\ peer'[d] = peer[d]
    BY <1>6, <2>1 DEF Close, IInv, TypeOK, Open
  <2> QED BY <2>1, <2>2 DEF NothingMissing, HasEntry
<1>7. ASSUME WriteFails PROVE NothingMissing'
  <2>1. /\ Open' = Open /\ push.i \in DOMAIN subs
        /\ Updates(subs', subs[push.i].fd, {})
    BY <1>7, WriteFailsKeeps
  <2>2. PICK c \in Open : fd[c] = subs[push.i].fd
    BY <2>1 DEF IInv, EntriesHaveOwners
  <2>3. ~peer[c] /\ UNCHANGED <<fd, peer, asked>>
    BY <1>7, <2>2 DEF WriteFails, WriteCanFail, Addressee
  <2> QED BY <2>1, <2>2, <2>3, OthersKeepTheirs
<1>8. ASSUME UNCHANGED <<subs, thread, fd, peer, asked>> PROVE NothingMissing'
  BY <1>8 DEF NothingMissing, HasEntry, Open
<1> QED BY <1>1, <1>2, <1>3, <1>4, <1>5, <1>6, <1>7, <1>8
        DEF Next, vars, PushBegin, Skip, Write, PushEnd

\* While there are no more connections than the table has places, it holds
\* exactly what every live connection asked for: er_subscribe loses nothing and
\* neither unsubscribing, leaving nor a failed write disturbs anybody else.
THEOREM TableAsAsked ==
  ASSUME Cardinality(Conns) <= MaxSubs
  PROVE  Spec => []TableIsAsAsked
<1>1. Init => NothingMissing
  BY DEF Init, NothingMissing, Open
<1>2. IInv /\ NothingMissing /\ [Next]_vars => NothingMissing'
  BY NextNothingMissing
<1>3. IInv /\ NothingMissing => TableIsAsAsked
  BY MaskIsAsked DEF TableIsAsAsked, AskedIsSubscribed, IInv
<1> QED BY <1>1, <1>2, <1>3, Invariant, PTL DEF Spec

(***************************************************************************)
(* FrameLoop: keys and focus                                               *)
(***************************************************************************)

\* Keys are pressed in the order of their numbers.
Ascending(s) == \A m, n \in DOMAIN s : m < n => s[m] < s[n]

\* Everything in s comes before everything in t.
Before(s, t) == \A m \in DOMAIN s, n \in DOMAIN t : s[m] < t[n]

\* The keys that wait are younger than those given out, and those given out are
\* in order; what the poll saw is what was pressed by then, and after the events
\* no key waits.
KeysInOrder ==
    /\ \A s \in {keys, answered, told} : Ascending(s)
    /\ Before(answered, keys) /\ Before(told, keys)
    /\ \A m \in DOMAIN answered, n \in DOMAIN told : answered[m] # told[n]
    /\ ToSet(answered) \cup ToSet(told) \cup ToSet(keys) = 1..polled.typed
    /\ phase = "end" => keys = <<>>
    /\ polled.typed <= window.typed

\* What the client knows it has from an event, and then the loop remembers it,
\* or from an answer in the frame that will tell it of a change.
FocusRemembered ==
    /\ known \in Focus =>
          \/ known = lastFocused
          \/ phase \in {"drain", "replay", "events"} /\ known = polled.focus
    /\ phase = "end" => lastFocused = polled.focus

\* The inductive invariant.
LoopInv == LoopTypeOK /\ KeysInOrder /\ FocusRemembered

\* Putting one sequence behind another.
LEMMA ConcatAscends ==
  ASSUME NEW s \in Seq(Nat), NEW t \in Seq(Nat)
  PROVE  Ascending(s \o t) <=> Ascending(s) /\ Ascending(t) /\ Before(s, t)
<1> DEFINE u == s \o t
<1>1. /\ Len(s) \in Nat /\ Len(t) \in Nat /\ DOMAIN s = 1..Len(s) /\ DOMAIN t = 1..Len(t)
      /\ \A m \in DOMAIN s : s[m] \in Nat
      /\ \A m \in DOMAIN t : t[m] \in Nat
  BY LenProperties, ElementOfSeq
<1>2. /\ DOMAIN u = 1..Len(s) + Len(t)
      /\ \A m \in 1..Len(s) + Len(t) : u[m] = IF m <= Len(s) THEN s[m] ELSE t[m - Len(s)]
  BY ConcatProperties, LenProperties
<1> HIDE DEF u
<1>3. ASSUME Ascending(u) PROVE Ascending(s) /\ Ascending(t) /\ Before(s, t)
  <2>1. ASSUME NEW m \in DOMAIN s, NEW n \in DOMAIN s, m < n PROVE s[m] < s[n]
    <3>1. m \in 1..Len(s) /\ n \in 1..Len(s)
      BY <1>1
    <3>2. m \in DOMAIN u /\ n \in DOMAIN u /\ u[m] = s[m] /\ u[n] = s[n]
      BY <1>1, <1>2, <3>1
    <3> QED BY <1>3, <2>1, <3>2 DEF Ascending
  <2>2. ASSUME NEW m \in DOMAIN t, NEW n \in DOMAIN t, m < n PROVE t[m] < t[n]
    <3>1. m \in 1..Len(t) /\ n \in 1..Len(t)
      BY <1>1
    <3>2. /\ m + Len(s) \in DOMAIN u /\ u[m + Len(s)] = t[m]
          /\ n + Len(s) \in DOMAIN u /\ u[n + Len(s)] = t[n]
      <4>1. \A k \in 1..Len(t) : /\ k + Len(s) \in 1..Len(s) + Len(t)
                                 /\ ~(k + Len(s) <= Len(s)) /\ k + Len(s) - Len(s) = k
        BY <1>1
      <4> QED BY <1>2, <3>1, <4>1
    <3>3. m + Len(s) < n + Len(s)
      BY <1>1, <2>2, <3>1
    <3> QED BY <1>3, <3>2, <3>3 DEF Ascending
  <2>3. ASSUME NEW m \in DOMAIN s, NEW n \in DOMAIN t PROVE s[m] < t[n]
    <3>1. /\ m \in 1..Len(s) /\ n \in 1..Len(t)
          /\ m \in 1..Len(s) + Len(t) /\ n + Len(s) \in 1..Len(s) + Len(t)
          /\ m <= Len(s) /\ ~(n + Len(s) <= Len(s)) /\ n + Len(s) - Len(s) = n
          /\ m < n + Len(s)
      BY <1>1
    <3>2. /\ m \in DOMAIN u /\ n + Len(s) \in DOMAIN u
          /\ u[m] = s[m] /\ u[n + Len(s)] = t[n]
      BY <1>2, <3>1
    <3> QED BY <1>3, <3>1, <3>2 DEF Ascending
  <2> QED BY <2>1, <2>2, <2>3 DEF Ascending, Before
<1>4. ASSUME Ascending(s), Ascending(t), Before(s, t), NEW m \in DOMAIN u, NEW n \in DOMAIN u, m < n
      PROVE  u[m] < u[n]
  <2>1. CASE n <= Len(s)
    BY <1>1, <1>2, <1>4, <2>1 DEF Ascending
  <2>2. CASE m > Len(s)
    <3>1. /\ m - Len(s) \in DOMAIN t /\ n - Len(s) \in DOMAIN t /\ m - Len(s) < n - Len(s)
          /\ u[m] = t[m - Len(s)] /\ u[n] = t[n - Len(s)]
      BY <1>1, <1>2, <1>4, <2>2
    <3> QED BY <1>4, <3>1 DEF Ascending
  <2>3. CASE m <= Len(s) /\ n > Len(s)
    <3>1. /\ m \in DOMAIN s /\ n - Len(s) \in DOMAIN t
          /\ u[m] = s[m] /\ u[n] = t[n - Len(s)]
      BY <1>1, <1>2, <2>3
    <3> QED BY <1>4, <3>1 DEF Before
  <2> QED BY <1>1, <1>2, <2>1, <2>2, <2>3
<1> QED BY <1>3, <1>4 DEF Ascending, u

\* The keys of three sequences of naturals.
LEMMA KeysAreNumbers ==
  ASSUME LoopTypeOK
  PROVE  /\ {keys, answered, told} \subseteq Seq(Nat)
         /\ \A s \in {keys, answered, told} :
              /\ Len(s) \in Nat /\ DOMAIN s = 1..Len(s)
              /\ \A n \in DOMAIN s : s[n] \in Nat /\ s[n] \in 1..MaxKeys
         /\ polled.typed \in 0..MaxKeys /\ window.typed \in 0..MaxKeys /\ MaxKeys \in Nat
<1>1. MaxKeys \in Nat
  BY BoundsAssumption
<1>2. {keys, answered, told} \subseteq Seq(1..MaxKeys)
  BY DEF LoopTypeOK
<1>3. polled.typed \in 0..MaxKeys /\ window.typed \in 0..MaxKeys
  BY DEF LoopTypeOK, Status
<1>4. ASSUME NEW s \in Seq(1..MaxKeys)
      PROVE  /\ Len(s) \in Nat /\ DOMAIN s = 1..Len(s)
             /\ \A n \in DOMAIN s : s[n] \in Nat /\ s[n] \in 1..MaxKeys
  <2>1. ASSUME NEW n \in DOMAIN s PROVE s[n] \in 1..MaxKeys
    BY ElementOfSeq, LenProperties
  <2> QED BY <2>1, <1>1, LenProperties
<1>5. Seq(1..MaxKeys) \subseteq Seq(Nat)
  <2> SUFFICES ASSUME NEW s \in Seq(1..MaxKeys) PROVE s \in Seq(Nat)
    OBVIOUS
  <2>1. s = [n \in 1..Len(s) |-> s[n]]
    OBVIOUS
  <2>2. \A n \in 1..Len(s) : s[n] \in Nat
    BY <1>4
  <2> QED BY <1>4, <2>1, <2>2
<1> QED BY <1>1, <1>2, <1>3, <1>4, <1>5

LEMMA LoopInitially == LoopInit => LoopInv
<1> SUFFICES ASSUME LoopInit PROVE LoopInv
  OBVIOUS
<1>1. MaxKeys \in Nat /\ MaxPush \in Nat /\ QueueMax \in Nat
  BY BoundsAssumption
<1>2. LoopTypeOK
  <2>1. <<>> \in Seq(1..MaxKeys)
    OBVIOUS
  <2>2. window \in Status /\ polled \in Status
    <3>1. {0} \subseteq 0..MaxKeys /\ {FALSE} \subseteq BOOLEAN
      BY <1>1
    <3>2. [focus : Focus, close : {FALSE}, typed : {0}] \subseteq Status
      BY <3>1 DEF Status
    <3> QED BY <3>2 DEF LoopInit
  <2>3. 0 \in 0..QueueMax /\ 0 \in 0..MaxPush
    BY <1>1
  <2> QED BY <2>1, <2>2, <2>3 DEF LoopInit, LoopTypeOK, Phase, Focus
<1>3. KeysInOrder
  <2>1. keys = <<>> /\ answered = <<>> /\ told = <<>> /\ polled.typed = 0 /\ window.typed = 0
    BY DEF LoopInit
  <2>2. ToSet(<<>>) = {} /\ DOMAIN <<>> = {} /\ 1..0 = {}
    BY DEF ToSet
  <2> QED BY <2>1, <2>2 DEF KeysInOrder, Ascending, Before, LoopInit
<1>4. FocusRemembered
  BY DEF LoopInit, FocusRemembered, Focus
<1> QED BY <1>2, <1>3, <1>4 DEF LoopInv

\* GetKeyPressed takes the first of the keys that wait.
LEMMA ExecuteKeeps ==
  ASSUME LoopInv, commands_execute
  PROVE  LoopInv'
<1> USE DEF LoopInv
<1>0. /\ phase = "drain" /\ queued > 0 /\ queued' = queued - 1
      /\ UNCHANGED <<phase, pushes, window, interrupted, polled, lastFocused, announced, told>>
      /\ known' \in {known, polled.focus} /\ polled.focus \in Focus
  BY DEF commands_execute, LoopTypeOK, Status
<1>1. queued' \in 0..QueueMax
  BY <1>0, BoundsAssumption DEF LoopTypeOK
<1>2. FocusRemembered'
  BY <1>0 DEF FocusRemembered
<1>3. CASE UNCHANGED <<keys, answered>>
  <2>1. LoopTypeOK'
    BY <1>0, <1>1, <1>3 DEF LoopTypeOK
  <2>2. KeysInOrder'
    BY <1>0, <1>3 DEF KeysInOrder, Ascending, Before, ToSet
  <2> QED BY <1>2, <2>1, <2>2
<1>4. CASE keys # <<>> /\ answered' = Append(answered, Head(keys)) /\ keys' = Tail(keys)
  <2> DEFINE k == Head(keys)
  <2>0. keys \in Seq(1..MaxKeys) /\ answered \in Seq(1..MaxKeys) /\ told \in Seq(1..MaxKeys)
    BY DEF LoopTypeOK
  <2>1. /\ k \in 1..MaxKeys /\ k = keys[1]
        /\ keys' \in Seq(1..MaxKeys) /\ answered' \in Seq(1..MaxKeys)
    <3>1. k \in 1..MaxKeys /\ k = keys[1] /\ Tail(keys) \in Seq(1..MaxKeys)
      <4>1. Len(keys) \in Nat /\ Len(keys) > 0 /\ DOMAIN keys = 1..Len(keys)
        BY <1>4, <2>0, LenProperties, EmptySeq
      <4>2. keys[1] \in 1..MaxKeys
        <5>1. 1 \in 1..Len(keys)
          BY <4>1
        <5> QED BY <2>0, <5>1, ElementOfSeq
      <4>3. k = keys[1] /\ Tail(keys) \in Seq(1..MaxKeys)
        BY <1>4, <2>0, HeadTailProperties
      <4> QED BY <4>2, <4>3
    <3>2. Append(answered, k) \in Seq(1..MaxKeys)
      BY <2>0, <3>1
    <3> QED BY <1>4, <3>1, <3>2
  <2>2. LoopTypeOK'
    BY <1>0, <1>1, <2>0, <2>1 DEF LoopTypeOK
  <2>3. /\ Len(keys) \in Nat /\ Len(keys) > 0 /\ Len(answered) \in Nat /\ Len(told) \in Nat
        /\ DOMAIN keys = 1..Len(keys) /\ DOMAIN answered = 1..Len(answered)
        /\ DOMAIN told = 1..Len(told)
        /\ DOMAIN keys' = 1..Len(keys) - 1 /\ DOMAIN answered' = 1..Len(answered) + 1
        /\ \A n \in 1..Len(keys) - 1 : keys'[n] = keys[n + 1]
        /\ \A n \in 1..Len(answered) + 1 :
             answered'[n] = IF n <= Len(answered) THEN answered[n] ELSE k
    BY <1>4, <2>0, <2>1, LenProperties, EmptySeq, HeadTailProperties, AppendProperties
  <2> HIDE DEF k
  <2>4. /\ \A n \in DOMAIN keys : keys[n] \in Nat
        /\ \A n \in DOMAIN answered : answered[n] \in Nat
        /\ \A n \in DOMAIN told : told[n] \in Nat
    BY KeysAreNumbers
  <2>5. /\ Ascending(keys) /\ Ascending(answered) /\ Ascending(told)
        /\ Before(answered, keys) /\ Before(told, keys)
    BY DEF KeysInOrder
  <2>6. \A n \in 2..Len(keys) : k < keys[n]
    <3> SUFFICES ASSUME NEW n \in 2..Len(keys) PROVE k < keys[n]
      OBVIOUS
    <3>1. 1 \in DOMAIN keys /\ n \in DOMAIN keys /\ 1 < n
      BY <2>3
    <3> QED BY <2>1, <2>5, <3>1 DEF Ascending
  <2>7. Ascending(keys')
    <3> SUFFICES ASSUME NEW m \in DOMAIN keys', NEW n \in DOMAIN keys', m < n
                 PROVE  keys'[m] < keys'[n]
      BY DEF Ascending
    <3>1. /\ m + 1 \in DOMAIN keys /\ n + 1 \in DOMAIN keys /\ m + 1 < n + 1
          /\ keys'[m] = keys[m + 1] /\ keys'[n] = keys[n + 1]
      BY <2>3
    <3> QED BY <2>5, <3>1 DEF Ascending
  <2>8. Ascending(answered')
    <3> SUFFICES ASSUME NEW m \in DOMAIN answered', NEW n \in DOMAIN answered', m < n
                 PROVE  answered'[m] < answered'[n]
      BY DEF Ascending
    <3>1. m \in DOMAIN answered /\ answered'[m] = answered[m]
      BY <2>3
    <3>2. CASE n \in DOMAIN answered
      BY <2>3, <2>5, <3>1, <3>2 DEF Ascending
    <3>3. CASE n \notin DOMAIN answered
      <4>1. answered'[n] = k /\ 1 \in DOMAIN keys
        BY <2>3, <3>3
      <4> QED BY <2>1, <2>5, <3>1, <4>1 DEF Before
    <3> QED BY <3>2, <3>3
  <2>9. \A n \in DOMAIN keys' : n + 1 \in 2..Len(keys) /\ n + 1 \in DOMAIN keys
    BY <2>3
  <2>10. Before(answered', keys') /\ Before(told, keys')
    <3>1. \A m \in DOMAIN told, n \in DOMAIN keys' : told[m] < keys'[n]
      BY <2>3, <2>5, <2>9 DEF Before
    <3>2. ASSUME NEW m \in DOMAIN answered', NEW n \in DOMAIN keys'
          PROVE  answered'[m] < keys'[n]
      <4>1. keys'[n] = keys[n + 1]
        BY <2>3
      <4>2. CASE m \in DOMAIN answered
        BY <2>3, <2>5, <2>9, <4>1, <4>2 DEF Before
      <4>3. CASE m \notin DOMAIN answered
        BY <2>3, <2>6, <2>9, <4>1, <4>3
      <4> QED BY <4>2, <4>3
    <3> QED BY <3>1, <3>2 DEF Before
  <2>11. \A m \in DOMAIN answered', n \in DOMAIN told : answered'[m] # told[n]
    <3>1. \A n \in DOMAIN told : told[n] # k
      BY <2>1, <2>3, <2>4, <2>5 DEF Before
    <3> QED BY <2>3, <3>1 DEF KeysInOrder
  <2>12. ToSet(answered') = ToSet(answered) \cup {k}
    <3>1. ToSet(answered') \subseteq ToSet(answered) \cup {k}
      BY <2>3 DEF ToSet
    <3>2. ASSUME NEW n \in DOMAIN answered PROVE answered[n] \in ToSet(answered')
      BY <2>3 DEF ToSet
    <3>3. k \in ToSet(answered')
      <4>1. Len(answered) + 1 \in DOMAIN answered' /\ answered'[Len(answered) + 1] = k
        BY <2>3
      <4> QED BY <4>1 DEF ToSet
    <3> QED BY <3>1, <3>2, <3>3 DEF ToSet
  <2>13. ToSet(keys) = ToSet(keys') \cup {k}
    <3>1. ToSet(keys') \subseteq ToSet(keys) /\ k \in ToSet(keys)
      <4>1. \A n \in DOMAIN keys' : n + 1 \in DOMAIN keys /\ keys'[n] = keys[n + 1]
        BY <2>3
      <4>2. 1 \in DOMAIN keys
        BY <2>3
      <4> QED BY <2>1, <4>1, <4>2 DEF ToSet
    <3>2. ASSUME NEW n \in DOMAIN keys PROVE keys[n] \in ToSet(keys') \cup {k}
      <4>1. CASE n = 1
        BY <2>1, <4>1
      <4>2. CASE n # 1
        <5>1. n - 1 \in DOMAIN keys' /\ keys'[n - 1] = keys[n]
          BY <2>3, <4>2
        <5> QED BY <5>1 DEF ToSet
      <4> QED BY <4>1, <4>2
    <3> QED BY <3>1, <3>2 DEF ToSet
  <2>14. KeysInOrder'
    <3>1. ToSet(answered') \cup ToSet(told) \cup ToSet(keys') = 1..polled.typed
      BY <2>12, <2>13 DEF KeysInOrder
    <3>2. told' = told /\ polled' = polled /\ window' = window /\ phase' # "end"
      BY <1>0
    <3> QED BY <2>5, <2>7, <2>8, <2>10, <2>11, <3>1, <3>2 DEF KeysInOrder
  <2> QED BY <1>2, <2>2, <2>14
<1> QED BY <1>3, <1>4 DEF commands_execute

\* commands_push_events takes all keys that wait.
LEMMA PushEventsKeeps ==
  ASSUME LoopInv, PushEvents
  PROVE  LoopInv'
<1> USE DEF LoopInv
<1>1. /\ known' = IF known # "unsubscribed" /\ polled.focus # lastFocused
                   THEN polled.focus ELSE known
      /\ lastFocused' = polled.focus
      /\ announced' = (announced \/ polled.close)
      /\ told' = told \o keys /\ keys' = <<>> /\ phase' = "end"
      /\ UNCHANGED <<world, polled, answered>>
  BY DEF PushEvents, TellFocus
<1>2. polled \in Status /\ polled.focus \in Focus /\ polled.close \in BOOLEAN
  BY DEF LoopTypeOK, Status
<1>3. FocusRemembered'
  BY <1>1, <1>2 DEF FocusRemembered, Focus
<1>4. told' \in Seq(1..MaxKeys) /\ keys' \in Seq(1..MaxKeys)
  BY <1>1, ConcatProperties DEF LoopTypeOK
<1>5. LoopTypeOK'
  BY <1>1, <1>2, <1>4 DEF LoopTypeOK, world, Phase
<1>6. KeysInOrder'
  <2>1. /\ Len(keys) \in Nat /\ Len(told) \in Nat /\ Len(answered) \in Nat
        /\ DOMAIN keys = 1..Len(keys) /\ DOMAIN told = 1..Len(told)
        /\ DOMAIN answered = 1..Len(answered)
        /\ \A n \in DOMAIN keys : keys[n] \in Nat
        /\ \A n \in DOMAIN answered : answered[n] \in Nat
        /\ told \in Seq(Nat) /\ keys \in Seq(Nat)
    BY KeysAreNumbers
  <2>2. /\ DOMAIN told' = 1..Len(told) + Len(keys)
        /\ \A n \in 1..Len(told) + Len(keys) :
             told'[n] = IF n <= Len(told) THEN told[n] ELSE keys[n - Len(told)]
    BY <1>1, <2>1, ConcatProperties, LenProperties
  <2>3. Ascending(told')
    BY <1>1, <2>1, ConcatAscends DEF KeysInOrder
  <2>4. \A m \in DOMAIN answered, n \in DOMAIN keys : answered[m] # keys[n]
    BY <2>1 DEF KeysInOrder, Before
  <2>5. \A m \in DOMAIN answered, n \in DOMAIN told' : answered[m] # told'[n]
    <3> SUFFICES ASSUME NEW m \in DOMAIN answered, NEW n \in DOMAIN told'
                 PROVE  answered[m] # told'[n]
      OBVIOUS
    <3>1. \/ n \in DOMAIN told /\ told'[n] = told[n]
          \/ n - Len(told) \in DOMAIN keys /\ told'[n] = keys[n - Len(told)]
      BY <2>1, <2>2
    <3> QED BY <2>4, <3>1 DEF KeysInOrder
  <2>6. ToSet(told') = ToSet(told) \cup ToSet(keys)
    <3>1. ASSUME NEW n \in DOMAIN told' PROVE told'[n] \in ToSet(told) \cup ToSet(keys)
      <4>1. \/ n \in DOMAIN told /\ told'[n] = told[n]
            \/ n - Len(told) \in DOMAIN keys /\ told'[n] = keys[n - Len(told)]
        BY <2>1, <2>2
      <4> QED BY <4>1 DEF ToSet
    <3>2. ASSUME NEW n \in DOMAIN told PROVE told[n] \in ToSet(told')
      <4>1. n \in DOMAIN told' /\ told'[n] = told[n]
        BY <2>1, <2>2
      <4> QED BY <4>1 DEF ToSet
    <3>3. ASSUME NEW n \in DOMAIN keys PROVE keys[n] \in ToSet(told')
      <4>1. n + Len(told) \in DOMAIN told' /\ told'[n + Len(told)] = keys[n]
        BY <2>1, <2>2
      <4> QED BY <4>1 DEF ToSet
    <3> QED BY <3>1, <3>2, <3>3 DEF ToSet
  <2>7. /\ DOMAIN keys' = {} /\ ToSet(keys') = {}
        /\ polled' = polled /\ window' = window /\ answered' = answered
    BY <1>1 DEF ToSet, world
  <2>8. ToSet(answered) \cup ToSet(told') \cup {} = 1..polled.typed
    BY <2>6 DEF KeysInOrder
  <2>9. Ascending(keys') /\ Before(answered, keys') /\ Before(told', keys')
    BY <2>7 DEF Ascending, Before
  <2> QED BY <1>1, <2>3, <2>5, <2>7, <2>8, <2>9 DEF KeysInOrder
<1> QED BY <1>3, <1>5, <1>6

\* The poll replaces the keys: none is left that it could throw away.
LEMMA EndDrawingKeeps ==
  ASSUME LoopInv, EndDrawing
  PROVE  LoopInv'
<1> USE DEF LoopInv
<1>1. /\ phase = "end" /\ phase' = "check" /\ polled' = window
      /\ window' = [window EXCEPT !.close = FALSE]
      /\ keys' = Between(polled, window)
      /\ UNCHANGED <<queued, pushes, interrupted, reports, answered, told>>
  BY DEF EndDrawing
<1> DEFINE a == polled.typed
           b == window.typed
<1>2. a \in Nat /\ b \in Nat /\ a <= b /\ b <= MaxKeys /\ MaxKeys \in Nat
  BY KeysAreNumbers DEF KeysInOrder
<1>3. window \in Status
  BY DEF LoopTypeOK
<1>4. window' \in Status /\ window'.typed = b /\ polled'.typed = b
  BY <1>1, <1>3 DEF Status
<1>5. keys' = [n \in 1..(b - a) |-> a + n]
  BY <1>1 DEF Between
<1> HIDE DEF a, b
<1>6. DOMAIN keys' = 1..(b - a) /\ \A n \in 1..(b - a) : keys'[n] = a + n
  BY <1>5
<1>7. keys' \in Seq(1..MaxKeys)
  <2>1. \A n \in 1..(b - a) : a + n \in 1..MaxKeys
    BY <1>2
  <2>2. b - a \in Nat
    BY <1>2
  <2>3. keys' \in [1..(b - a) -> 1..MaxKeys]
    BY <1>5, <2>1
  <2> QED BY <2>2, <2>3, SeqDef
<1>8. LoopTypeOK'
  BY <1>1, <1>3, <1>4, <1>7 DEF LoopTypeOK, reports, Phase
<1>9. FocusRemembered'
  BY <1>1 DEF FocusRemembered, reports
<1>10. KeysInOrder'
  <2>1. keys = <<>>
    BY <1>1 DEF KeysInOrder
  <2>2. ToSet(keys) = {}
    BY <2>1 DEF ToSet
  <2>3. ToSet(answered) \cup ToSet(told) = 1..a
    BY <2>2 DEF KeysInOrder, a
  <2>4. \A n \in DOMAIN answered : answered[n] \in 1..a
    BY <2>3 DEF ToSet
  <2>5. \A n \in DOMAIN told : told[n] \in 1..a
    BY <2>3 DEF ToSet
  <2>6. Before(answered, keys') /\ Before(told, keys')
    BY <1>2, <1>6, <2>4, <2>5 DEF Before
  <2>7. Ascending(keys')
    BY <1>2, <1>6 DEF Ascending
  <2>8. ToSet(keys') = a + 1..b
    <3>1. \A n \in 1..(b - a) : a + n \in a + 1..b
      BY <1>2
    <3>2. \A k \in a + 1..b : k - a \in 1..(b - a) /\ k = a + (k - a)
      BY <1>2
    <3>3. ASSUME NEW k \in a + 1..b PROVE k \in ToSet(keys')
      BY <1>6, <3>2 DEF ToSet
    <3> QED BY <1>6, <3>1, <3>3 DEF ToSet
  <2>9. 1..a \cup (a + 1..b) = 1..b
    BY <1>2
  <2>10. ToSet(answered) \cup ToSet(told) \cup ToSet(keys') = 1..b
    BY <2>3, <2>8, <2>9
  <2>11. answered' = answered /\ told' = told /\ phase' # "end" /\ polled'.typed = b
         /\ polled'.typed <= window'.typed
    BY <1>1, <1>2, <1>4
  <2> QED BY <2>6, <2>7, <2>10, <2>11 DEF KeysInOrder
<1> QED BY <1>8, <1>9, <1>10

\* What happens around the loop touches neither keys nor focus as it saw them.
LEMMA WorldKeeps ==
  ASSUME LoopInv,
         cmdq_push \/ FocusChanges \/ UserCloses \/ KeyIsPressed \/ er_subscribe \/ Sigint
  PROVE  LoopInv'
<1> USE DEF LoopInv
<1>1. /\ UNCHANGED <<phase, polled, lastFocused, announced, keyboard>>
      /\ known' \in {known, "unknown"}
  BY DEF cmdq_push, FocusChanges, UserCloses, KeyIsPressed, er_subscribe, Sigint, reports
<1>2. MaxKeys \in Nat /\ MaxPush \in Nat /\ QueueMax \in Nat
  BY BoundsAssumption
<1>3. /\ window' \in Status /\ window.typed <= window'.typed
      /\ queued' \in 0..QueueMax /\ pushes' \in 0..MaxPush /\ interrupted' \in BOOLEAN
  <2>0. /\ window \in Status /\ window.typed \in 0..MaxKeys
        /\ queued \in 0..QueueMax /\ pushes \in 0..MaxPush /\ interrupted \in BOOLEAN
    BY DEF LoopTypeOK, Status
  <2>1. CASE cmdq_push
    BY <1>2, <2>0, <2>1 DEF cmdq_push
  <2>2. CASE Sigint
    BY <2>0, <1>2, <2>2 DEF Sigint
  <2>3. CASE FocusChanges
    <3>1. PICK f \in Focus : window' = [window EXCEPT !.focus = f]
      BY <2>3 DEF FocusChanges
    <3>2. window' \in Status /\ window'.typed = window.typed
      BY <2>0, <3>1 DEF Status
    <3> QED BY <1>2, <2>0, <2>3, <3>2 DEF FocusChanges
  <2>4. CASE UserCloses
    <3>1. window' = [window EXCEPT !.close = TRUE]
      BY <2>4 DEF UserCloses
    <3>2. window' \in Status /\ window'.typed = window.typed
      BY <2>0, <3>1 DEF Status
    <3> QED BY <1>2, <2>0, <2>4, <3>2 DEF UserCloses
  <2>5. CASE KeyIsPressed
    <3>1. window.typed + 1 \in 0..MaxKeys /\ window.typed <= window.typed + 1
      BY <1>2, <2>0, <2>5 DEF KeyIsPressed
    <3> QED BY <2>0, <2>5, <3>1 DEF KeyIsPressed, Status
  <2>6. CASE er_subscribe
    BY <1>2, <2>0, <2>6 DEF er_subscribe, world
  <2> QED BY <2>1, <2>2, <2>3, <2>4, <2>5, <2>6
<1>4. LoopTypeOK'
  BY <1>1, <1>3 DEF LoopTypeOK, keyboard
<1>5. polled'.typed <= window'.typed
  BY <1>1, <1>3, KeysAreNumbers DEF KeysInOrder, Status
<1>6. KeysInOrder'
  BY <1>1, <1>5 DEF KeysInOrder, keyboard, Ascending, Before, ToSet
<1>7. FocusRemembered'
  BY <1>1 DEF FocusRemembered, Focus
<1> QED BY <1>4, <1>6, <1>7

LEMMA LoopInvKept == LoopInv /\ [LoopNext]_loopVars => LoopInv'
<1> SUFFICES ASSUME LoopInv, [LoopNext]_loopVars PROVE LoopInv'
  OBVIOUS
<1>1. ASSUME \/ Check \/ Drained \/ Replay \/ UNCHANGED loopVars
      PROVE  LoopInv'
  <2>1. UNCHANGED <<world, polled, reports, keyboard>> /\ phase' \in Phase
        /\ (phase' = "end" => phase = "end") /\ (phase' = "stopped" => polled.close)
        /\ (phase \in {"drain", "replay", "events"} => phase' \in {"drain", "replay", "events"})
    BY <1>1 DEF Check, Drained, Replay, loopVars, LoopInv, LoopTypeOK, Phase
  <2> QED BY <2>1 DEF LoopInv, LoopTypeOK, KeysInOrder, FocusRemembered, Ascending, Before,
                      ToSet, world, reports, keyboard
<1> QED BY <1>1, ExecuteKeeps, PushEventsKeeps, EndDrawingKeeps, WorldKeeps DEF LoopNext

\* The loop's invariant holds in every state.
THEOREM LoopInvariant == LoopSpec => []LoopInv
<1> QED BY LoopInitially, LoopInvKept, PTL DEF LoopSpec

\* However the keys fall between the polls, and whoever asks for them: each is
\* given out once, in order, and none is lost.
THEOREM EachKeyOnce == LoopSpec => []KeyGoesOnce
<1>1. LoopInv => KeyGoesOnce
  <2> SUFFICES ASSUME LoopInv PROVE KeyGoesOnce
    OBVIOUS
  <2>1. keys \in Seq(Nat) /\ answered \in Seq(Nat) /\ told \in Seq(Nat)
    BY KeysAreNumbers DEF LoopInv
  <2>2. Ascending(answered \o keys) /\ Ascending(told \o keys)
    BY <2>1, ConcatAscends DEF LoopInv, KeysInOrder
  <2>3. ToSet(answered) \cap ToSet(told) = {}
    BY DEF LoopInv, KeysInOrder, ToSet
  <2> QED BY <2>2, <2>3 DEF LoopInv, KeysInOrder, KeyGoesOnce, Ascending
<1> QED BY <1>1, LoopInvariant, PTL

\* Whatever the window did between two polls, and whenever the client subscribed
\* and asked: what it knows of the focus is what the loop's poll saw.
THEOREM FocusIsKnown == LoopSpec => []FocusIsReported
<1>1. LoopInv => FocusIsReported
  BY DEF LoopInv, FocusRemembered, FocusIsReported
<1> QED BY <1>1, LoopInvariant, PTL

(***************************************************************************)
(* ClientLib: answers, events and commands                                 *)
(***************************************************************************)

\* In a library that blocks there is at most one call, and until the program
\* subscribes nothing is on its way but that call or its answer.
OneAtATime ==
    library = "ruby" /\ ~subscribed =>
        /\ acking = "none"
        /\ \A c, d \in Waiting : c = d
        /\ Len(requests) + Len(queue) + Len(lines) <= 1
        /\ \A n \in DOMAIN requests : requests[n] \in Waiting
        /\ \A n \in DOMAIN queue : queue[n] \in Waiting
        /\ \A n \in DOMAIN lines : \E c \in Waiting : lines[n] = Answer(c)

\* What the server had is lost when it goes.
Lost == ~up => requests = <<>> /\ queue = <<>> /\ acking = "none"

\* The events under way, by their numbers.
Numbers(s) == {s[i].event : i \in {j \in DOMAIN s : s[j].event # 0}}
InTurn(s) ==
    \A i, j \in {k \in DOMAIN s : s[k].event # 0} : i < j => s[i].event < s[j].event

\* The inductive invariant.
ClientInv ==
    /\ ClientTypeOK
    /\ SettledByOwnAnswer
    /\ OneAtATime
    /\ Lost
    /\ EventsInOrder

\* A line is an answer, by its id, or an event, by its number.
LEMMA Lines ==
  /\ \A line \in Line :
       /\ line.event \in Nat
       /\ line.event = 0 => line.id \in Calls /\ line = Answer(line.id)
       /\ line.event # 0 => /\ line.id = "none" /\ line.event \in 1..MaxEvents
                            /\ line = Event(line.event)
       /\ line.id \in Calls => line.event = 0
  /\ \A c \in Calls : Answer(c) \in Line /\ Answer(c).event = 0 /\ Answer(c).id = c
  /\ \A n \in 1..MaxEvents : Event(n) \in Line /\ Event(n).event = n /\ Event(n).id = "none"
<1>1. MaxEvents \in Nat /\ "none" \notin Calls
  BY ClientBoundsAssumption, CallsAssumption
<1>2. ASSUME NEW c \in Calls
      PROVE  Answer(c) \in Line /\ Answer(c).event = 0 /\ Answer(c).id = c
  BY DEF Line, Answer
<1>3. ASSUME NEW n \in 1..MaxEvents
      PROVE  Event(n) \in Line /\ Event(n).event = n /\ Event(n).id = "none"
  BY DEF Line, Event
<1>4. ASSUME NEW line \in Line
      PROVE  /\ line.event \in Nat
             /\ line.event = 0 => line.id \in Calls /\ line = Answer(line.id)
             /\ line.event # 0 => /\ line.id = "none" /\ line.event \in 1..MaxEvents
                                  /\ line = Event(line.event)
             /\ line.id \in Calls => line.event = 0
  <2>1. CASE \E c \in Calls : line = Answer(c)
    BY <1>2, <2>1
  <2>2. CASE \E n \in 1..MaxEvents : line = Event(n)
    <3>1. PICK n \in 1..MaxEvents : line = Event(n)
      BY <2>2
    <3>2. n \in Nat /\ n # 0
      BY <1>1, <3>1
    <3> QED BY <1>1, <1>3, <3>1, <3>2
  <2> QED BY <2>1, <2>2 DEF Line
<1> QED BY <1>2, <1>3, <1>4

\* A sequence is one element shorter, or longer.
LEMMA Shorter ==
  ASSUME NEW S, NEW s \in Seq(S), s # <<>>
  PROVE  /\ Len(s) \in Nat /\ Len(s) > 0 /\ DOMAIN s = 1..Len(s) /\ 1 \in DOMAIN s
         /\ Head(s) = s[1] /\ s[1] \in S
         /\ Tail(s) \in Seq(S) /\ Len(Tail(s)) = Len(s) - 1
         /\ DOMAIN Tail(s) = 1..Len(s) - 1
         /\ \A n \in DOMAIN Tail(s) : n + 1 \in DOMAIN s /\ Tail(s)[n] = s[n + 1]
<1>1. Len(s) \in Nat /\ Len(s) > 0 /\ DOMAIN s = 1..Len(s)
  BY LenProperties, EmptySeq
<1>2. 1 \in 1..Len(s)
  BY <1>1
<1>3. s[1] \in S
  BY <1>2, ElementOfSeq
<1>4. /\ Tail(s) \in Seq(S) /\ Len(Tail(s)) = Len(s) - 1
      /\ \A i \in 1..Len(Tail(s)) : Tail(s)[i] = s[i + 1]
  BY HeadTailProperties
<1>5. DOMAIN Tail(s) = 1..Len(s) - 1
  BY <1>4, LenProperties
<1> QED BY <1>1, <1>2, <1>3, <1>4, <1>5

LEMMA Longer ==
  ASSUME NEW S, NEW s \in Seq(S), NEW e \in S
  PROVE  /\ Len(s) \in Nat /\ DOMAIN s = 1..Len(s)
         /\ Append(s, e) \in Seq(S) /\ Len(Append(s, e)) = Len(s) + 1
         /\ DOMAIN Append(s, e) = 1..Len(s) + 1
         /\ \A n \in 1..Len(s) : n \in DOMAIN Append(s, e) /\ Append(s, e)[n] = s[n]
         /\ Append(s, e)[Len(s) + 1] = e
<1>1. Len(s) \in Nat /\ DOMAIN s = 1..Len(s)
  BY LenProperties
<1>2. /\ Append(s, e) \in Seq(S) /\ Len(Append(s, e)) = Len(s) + 1
      /\ \A i \in 1..Len(s) : Append(s, e)[i] = s[i]
      /\ Append(s, e)[Len(s) + 1] = e
  BY AppendProperties
<1>3. DOMAIN Append(s, e) = 1..Len(s) + 1
  BY <1>2, LenProperties
<1> QED BY <1>1, <1>2, <1>3

\* The first line is an answer, or the first of the events under way.
LEMMA TailOfLines ==
  ASSUME NEW s \in Seq(Line), s # <<>>, InTurn(s)
  PROVE  /\ InTurn(Tail(s))
         /\ s[1].event = 0 => Numbers(Tail(s)) = Numbers(s)
         /\ s[1].event # 0 => /\ s[1].event \in Numbers(s)
                              /\ Numbers(Tail(s)) = Numbers(s) \ {s[1].event}
                              /\ \A n \in Numbers(s) : s[1].event <= n
<1> DEFINE t == Tail(s)
<1>1. /\ Len(s) \in Nat /\ Len(s) > 0 /\ DOMAIN s = 1..Len(s) /\ 1 \in DOMAIN s
      /\ DOMAIN t = 1..Len(s) - 1
      /\ \A n \in DOMAIN t : n + 1 \in DOMAIN s /\ t[n] = s[n + 1]
  BY Shorter
<1> HIDE DEF t
<1>2. \A n \in DOMAIN s : s[n].event \in Nat
  BY <1>1, ElementOfSeq, Lines
<1>3. InTurn(t)
  <2> SUFFICES ASSUME NEW i \in DOMAIN t, NEW j \in DOMAIN t, t[i].event # 0, t[j].event # 0, i < j
               PROVE  t[i].event < t[j].event
    BY DEF InTurn
  <2>1. i + 1 < j + 1
    BY <1>1
  <2> QED BY <1>1, <2>1 DEF InTurn
<1>4. \A n \in DOMAIN s : n # 1 => n - 1 \in DOMAIN t /\ s[n] = t[n - 1]
  BY <1>1
<1>5. Numbers(t) \subseteq Numbers(s)
  BY <1>1 DEF Numbers
<1>6. \A n \in Numbers(s) : n = s[1].event \/ n \in Numbers(t)
  BY <1>4 DEF Numbers
<1>7. s[1].event = 0 => Numbers(t) = Numbers(s)
  BY <1>5, <1>6 DEF Numbers
<1>8. ASSUME s[1].event # 0
      PROVE  /\ s[1].event \in Numbers(s)
             /\ \A n \in Numbers(t) : s[1].event < n
  <2>1. s[1].event \in Numbers(s)
    BY <1>1, <1>8 DEF Numbers
  <2>2. ASSUME NEW i \in DOMAIN t, t[i].event # 0 PROVE s[1].event < t[i].event
    <3>1. 1 < i + 1
      BY <1>1
    <3> QED BY <1>1, <1>8, <2>2, <3>1 DEF InTurn
  <2> QED BY <2>1, <2>2 DEF Numbers
<1>9. \A n \in Numbers(s) : n \in Nat
  BY <1>2 DEF Numbers
<1>10. s[1].event # 0 => /\ Numbers(t) = Numbers(s) \ {s[1].event}
                         /\ \A n \in Numbers(s) : s[1].event <= n
  <2>1. s[1].event \in Nat
    BY <1>1, <1>2
  <2> QED BY <1>5, <1>6, <1>8, <1>9, <2>1
<1> QED BY <1>3, <1>7, <1>8, <1>10 DEF t

\* The next event comes last.
LEMMA AppendToLines ==
  ASSUME NEW s \in Seq(Line), NEW line \in Line, InTurn(s),
         line.event # 0 => \A n \in Numbers(s) : n < line.event
  PROVE  /\ InTurn(Append(s, line))
         /\ line.event = 0 => Numbers(Append(s, line)) = Numbers(s)
         /\ line.event # 0 => Numbers(Append(s, line)) = Numbers(s) \cup {line.event}
<1> DEFINE t == Append(s, line)
<1>1. /\ Len(s) \in Nat /\ DOMAIN s = 1..Len(s) /\ DOMAIN t = 1..Len(s) + 1
      /\ \A n \in 1..Len(s) : n \in DOMAIN t /\ t[n] = s[n]
      /\ t[Len(s) + 1] = line
  BY Longer
<1> HIDE DEF t
<1>2. \A n \in DOMAIN t : n \in DOMAIN s \/ n = Len(s) + 1
  BY <1>1
<1>3. InTurn(t)
  <2> SUFFICES ASSUME NEW i \in DOMAIN t, NEW j \in DOMAIN t, t[i].event # 0, t[j].event # 0, i < j
               PROVE  t[i].event < t[j].event
    BY DEF InTurn
  <2>1. i \in DOMAIN s /\ t[i] = s[i]
    BY <1>1
  <2>2. CASE j \in DOMAIN s
    BY <1>1, <2>1, <2>2 DEF InTurn
  <2>3. CASE j = Len(s) + 1
    <3>1. s[i].event \in Numbers(s)
      BY <2>1 DEF Numbers
    <3> QED BY <1>1, <2>1, <2>3, <3>1
  <2> QED BY <1>2, <2>2, <2>3
<1>4. \A n \in Numbers(t) : n \notin Numbers(s) => n = line.event /\ line.event # 0
  <2> SUFFICES ASSUME NEW i \in DOMAIN t, t[i].event # 0
               PROVE  t[i].event \notin Numbers(s) => t[i].event = line.event /\ line.event # 0
    BY DEF Numbers
  <2> QED BY <1>1, <1>2 DEF Numbers
<1>5. Numbers(s) \subseteq Numbers(t)
  BY <1>1 DEF Numbers
<1>6. line.event # 0 => line.event \in Numbers(t)
  <2>1. Len(s) + 1 \in DOMAIN t
    BY <1>1
  <2> QED BY <1>1, <2>1 DEF Numbers
<1> QED BY <1>3, <1>4, <1>5, <1>6 DEF t

\* The property in these terms.
LEMMA EventsByNumber ==
  EventsInOrder <=> (library = "js" => /\ Len(events) <= pushed
                                       /\ \A n \in DOMAIN events : events[n] = Event(n)
                                       /\ Numbers(lines) = Len(events) + 1..pushed
                                       /\ InTurn(lines))
BY DEF EventsInOrder, Numbers, InTurn


LEMMA ClientInitially == ClientInit => ClientInv
<1> SUFFICES ASSUME ClientInit PROVE ClientInv
  OBVIOUS
<1>1. {Batches, MaxCmds, MaxEvents} \subseteq Nat
  BY ClientBoundsAssumption
<1>2. ClientTypeOK
  <2>1. /\ 0 \in 0..Batches /\ 0 \in 0..MaxCmds /\ 0 \in 0..MaxEvents
        /\ state \in [Calls -> {"unused", "waiting", "settled"}]
        /\ taken \in [Calls -> Line \cup {Nothing}]
    BY <1>1 DEF ClientInit
  <2>2. /\ Len(<<>>) <= 1 /\ <<>> \in Seq(Line) /\ <<>> \in Seq(Calls)
        /\ <<>> \in Seq(1..MaxCmds) /\ <<>> \in Seq(Seq(1..MaxCmds))
    OBVIOUS
  <2>3. /\ batch \in Seq(Seq(1..MaxCmds)) /\ Len(batch) <= 1 /\ written \in Seq(1..MaxCmds)
        /\ events \in Seq(Line) /\ lines \in Seq(Line)
        /\ requests \in Seq(Calls) /\ queue \in Seq(Calls)
    BY <2>2 DEF ClientInit
  <2>4. batches \in 0..Batches /\ issued \in 0..MaxCmds /\ pushed \in 0..MaxEvents
    BY <2>1 DEF ClientInit
  <2> QED BY <2>1, <2>3, <2>4 DEF ClientInit, ClientTypeOK
<1>3. PairedRight /\ Waiting = {}
  BY DEF ClientInit, PairedRight, Waiting
<1>4. OneAtATime
  <2>1. Len(<<>>) = 0 /\ DOMAIN <<>> = {}
    OBVIOUS
  <2> QED BY <1>3, <2>1 DEF ClientInit, OneAtATime
<1>5. EventsInOrder
  <2>1. events = <<>> /\ lines = <<>> /\ pushed = 0 /\ DOMAIN <<>> = {} /\ Len(<<>>) + 1..0 = {}
    BY DEF ClientInit
  <2> QED BY <2>1 DEF EventsInOrder
<1> QED BY <1>2, <1>3, <1>4, <1>5 DEF ClientInv, SettledByOwnAnswer, Lost, ClientInit

\* A call is made.
LEMMA SyncKeeps ==
  ASSUME ClientInv, NEW c \in Calls, sync(c)
  PROVE  ClientInv'
<1> USE DEF ClientInv
<1>1. /\ state[c] = "unused"
      /\ library = "ruby" => Waiting = {} /\ ~closed
      /\ state' = [state EXCEPT ![c] = "waiting"]
      /\ requests' = IF up THEN Append(requests, c) ELSE requests
      /\ UNCHANGED <<library, taken, events, closed, batching, acking, queue, subscribed,
                     pushed, lines, up>>
  BY DEF sync
<1>2. requests \in Seq(Calls) /\ queue \in Seq(Calls) /\ lines \in Seq(Line)
      /\ state \in [Calls -> {"unused", "waiting", "settled"}]
  BY DEF ClientTypeOK
<1>3. requests' \in Seq(Calls) /\ state' \in [Calls -> {"unused", "waiting", "settled"}]
  BY <1>1, <1>2, Longer
<1>4. ClientTypeOK'
  BY <1>1, <1>3 DEF ClientTypeOK, batching
<1>5. Waiting' = Waiting \cup {c}
  BY <1>1, <1>2 DEF Waiting
<1>6. OneAtATime'
  <2> SUFFICES ASSUME library = "ruby", ~subscribed
               PROVE  /\ acking = "none"
                      /\ \A a, d \in Waiting' : a = d
                      /\ Len(requests') + Len(queue) + Len(lines) <= 1
                      /\ \A n \in DOMAIN requests' : requests'[n] \in Waiting'
                      /\ \A n \in DOMAIN queue : queue[n] \in Waiting'
                      /\ \A n \in DOMAIN lines : \E a \in Waiting' : lines[n] = Answer(a)
    BY <1>1 DEF OneAtATime
  <2>1. Waiting = {} /\ Waiting' = {c}
    BY <1>1, <1>5
  <2>2. /\ DOMAIN requests = {} /\ DOMAIN queue = {} /\ DOMAIN lines = {} /\ acking = "none"
    BY <2>1 DEF OneAtATime
  <2>3. Len(requests) = 0 /\ Len(queue) = 0 /\ Len(lines) = 0
    <3>1. \A n \in Nat : 1..n = {} => n = 0
      OBVIOUS
    <3> QED BY <1>2, <2>2, <3>1, LenProperties
  <2>4. /\ Len(requests') + 0 + 0 <= 1
        /\ \A n \in DOMAIN requests' : requests'[n] = c
    <3>1. CASE up
      <4>1. /\ Len(requests') = 1 /\ DOMAIN requests' = 1..1 /\ requests'[1] = c
        BY <1>1, <1>2, <2>3, <3>1, Longer
      <4> QED BY <4>1
    <3>2. CASE ~up
      BY <1>1, <2>2, <2>3, <3>2
    <3> QED BY <3>1, <3>2
  <2> QED BY <2>1, <2>2, <2>3, <2>4
<1>7. SettledByOwnAnswer'
  BY <1>1 DEF SettledByOwnAnswer, PairedRight
<1>8. Lost'
  BY <1>1 DEF Lost
<1>9. EventsInOrder'
  BY <1>1 DEF EventsInOrder
<1> QED BY <1>4, <1>6, <1>7, <1>8, <1>9

\* A line is read: it settles the call that it answers, or is an event.
LEMMA OnLineKeeps ==
  ASSUME ClientInv, OnLine
  PROVE  ClientInv'
<1> USE DEF ClientInv
<1> DEFINE line == Head(lines)
<1>1. /\ library = "js" /\ lines # <<>> /\ lines' = Tail(lines)
      /\ UNCHANGED <<library, closed, batching, server, up>>
      /\ \/ /\ \E c \in Asked(line) : Settle(c, line)
            /\ UNCHANGED events
         \/ /\ Asked(line) = {}
            /\ events' = IF line.event # 0 THEN Append(events, line) ELSE events
            /\ UNCHANGED <<state, taken>>
  BY DEF OnLine
<1>2. /\ lines \in Seq(Line) /\ events \in Seq(Line) /\ pushed \in Nat
      /\ state \in [Calls -> {"unused", "waiting", "settled"}]
      /\ taken \in [Calls -> Line \cup {Nothing}]
  BY ClientBoundsAssumption DEF ClientTypeOK
<1>3. line \in Line /\ line = lines[1] /\ lines' \in Seq(Line)
  BY <1>1, <1>2, Shorter
<1> HIDE DEF line
<1>4. OneAtATime' /\ Lost'
  BY <1>1 DEF OneAtATime, Lost, server
<1>5. PairedRight
  BY <1>1 DEF SettledByOwnAnswer
<1>6. /\ Len(events) <= pushed
      /\ \A n \in DOMAIN events : events[n] = Event(n)
      /\ Numbers(lines) = Len(events) + 1..pushed
      /\ InTurn(lines)
  BY <1>1, EventsByNumber
<1>7. /\ InTurn(lines')
      /\ line.event = 0 => Numbers(lines') = Numbers(lines)
      /\ line.event # 0 => /\ line.event \in Numbers(lines)
                           /\ Numbers(lines') = Numbers(lines) \ {line.event}
                           /\ \A n \in Numbers(lines) : line.event <= n
  BY <1>1, <1>2, <1>3, <1>6, TailOfLines
<1>8. Len(events) \in Nat
  BY <1>2, LenProperties
<1>9. ASSUME NEW c \in Asked(line), Settle(c, line), UNCHANGED events
      PROVE  ClientInv'
  <2>1. c \in Calls /\ c = line.id /\ c \in Waiting
    BY <1>9 DEF Asked, Waiting
  <2>2. line = Answer(c) /\ line.event = 0
    BY <1>3, <2>1, Lines
  <2>3. /\ state' = [state EXCEPT ![c] = "settled"]
        /\ taken' = [taken EXCEPT ![c] = line]
    BY <1>9 DEF Settle
  <2>4. PairedRight'
    BY <1>2, <1>5, <2>1, <2>2, <2>3 DEF PairedRight
  <2>5. EventsInOrder'
    <3>1. /\ Numbers(lines') = Len(events') + 1..pushed' /\ InTurn(lines')
          /\ Len(events') <= pushed'
          /\ \A n \in DOMAIN events' : events'[n] = Event(n)
      BY <1>1, <1>6, <1>7, <1>9, <2>2 DEF server
    <3> QED BY <3>1, EventsByNumber DEF EventsInOrder, Numbers, InTurn
  <2>6. ClientTypeOK'
    <3>1. /\ state' \in [Calls -> {"unused", "waiting", "settled"}]
          /\ taken' \in [Calls -> Line \cup {Nothing}]
      BY <1>2, <1>3, <2>3
    <3> QED BY <1>1, <1>3, <1>9, <3>1 DEF ClientTypeOK, batching, server
  <2> QED BY <1>4, <2>4, <2>5, <2>6 DEF SettledByOwnAnswer
<1>10. ASSUME events' = IF line.event # 0 THEN Append(events, line) ELSE events,
              UNCHANGED <<state, taken>>
       PROVE  ClientInv'
  <2>1. PairedRight'
    BY <1>5, <1>10 DEF PairedRight
  <2>2. events' \in Seq(Line)
    BY <1>2, <1>3, <1>10, Longer
  <2>3. ClientTypeOK'
    BY <1>1, <1>3, <1>10, <2>2 DEF ClientTypeOK, batching, server
  <2>4. /\ Len(events') <= pushed
        /\ \A n \in DOMAIN events' : events'[n] = Event(n)
        /\ Numbers(lines') = Len(events') + 1..pushed
    <3>1. CASE line.event = 0
      BY <1>6, <1>7, <1>10, <3>1
    <3>2. CASE line.event # 0
      <4>1. events' = Append(events, line)
        BY <1>10, <3>2
      <4>2. /\ line.event \in Len(events) + 1..pushed
            /\ \A n \in Len(events) + 1..pushed : line.event <= n
        BY <1>6, <1>7, <3>2
      <4>3. line.event = Len(events) + 1 /\ Len(events) + 1 <= pushed
        BY <1>2, <1>8, <4>2
      <4>4. line = Event(Len(events) + 1)
        BY <1>3, <3>2, <4>3, Lines
      <4>5. /\ Len(events') = Len(events) + 1 /\ DOMAIN events' = 1..Len(events) + 1
            /\ DOMAIN events = 1..Len(events)
            /\ \A n \in 1..Len(events) : events'[n] = events[n]
            /\ events'[Len(events) + 1] = line
        BY <1>2, <1>3, <4>1, Longer
      <4>6. ASSUME NEW n \in DOMAIN events' PROVE events'[n] = Event(n)
        <5>1. n \in DOMAIN events \/ n = Len(events) + 1
          BY <1>8, <4>5
        <5> QED BY <1>6, <4>4, <4>5, <5>1
      <4>7. Numbers(lines') = (Len(events) + 1..pushed) \ {Len(events) + 1}
        BY <1>6, <1>7, <3>2, <4>3
      <4>8. (Len(events) + 1..pushed) \ {Len(events) + 1} = Len(events) + 1 + 1..pushed
        BY <1>2, <1>8
      <4> QED BY <4>3, <4>5, <4>6, <4>7, <4>8
    <3> QED BY <3>1, <3>2
  <2>5. EventsInOrder'
    <3>1. pushed' = pushed
      BY <1>1 DEF server
    <3> QED BY <1>7, <2>4, <3>1 DEF EventsInOrder, Numbers, InTurn
  <2> QED BY <1>4, <2>1, <2>3, <2>5 DEF SettledByOwnAnswer
<1> QED BY <1>1, <1>9, <1>10

\* The one call takes the one line.
LEMMA NextLineKeeps ==
  ASSUME ClientInv, NextLine
  PROVE  ClientInv'
<1> USE DEF ClientInv
<1>1. /\ library = "ruby" /\ lines # <<>> /\ lines' = Tail(lines)
      /\ UNCHANGED <<library, events, closed, batching, server, up>>
  BY DEF NextLine
<1>2. PICK c \in Waiting : Settle(c, Head(lines))
  BY DEF NextLine
<1>3. /\ state' = [state EXCEPT ![c] = "settled"]
      /\ taken' = [taken EXCEPT ![c] = Head(lines)]
      /\ c \in Calls
  BY <1>2 DEF Settle, Waiting
<1>4. /\ lines \in Seq(Line) /\ requests \in Seq(Calls) /\ queue \in Seq(Calls)
      /\ state \in [Calls -> {"unused", "waiting", "settled"}]
      /\ taken \in [Calls -> Line \cup {Nothing}]
  BY DEF ClientTypeOK
<1>5. /\ Len(lines) \in Nat /\ Len(lines) > 0 /\ 1 \in DOMAIN lines
      /\ Head(lines) = lines[1] /\ Head(lines) \in Line
      /\ lines' \in Seq(Line) /\ Len(lines') = Len(lines) - 1
      /\ DOMAIN lines' = 1..Len(lines) - 1
  BY <1>1, <1>4, Shorter
<1>6. ClientTypeOK'
  <2>1. /\ state' \in [Calls -> {"unused", "waiting", "settled"}]
        /\ taken' \in [Calls -> Line \cup {Nothing}]
    BY <1>3, <1>4, <1>5
  <2> QED BY <1>1, <1>5, <2>1 DEF ClientTypeOK, batching, server
<1>7. Waiting' = Waiting \ {c}
  BY <1>3, <1>4 DEF Waiting
<1>8. ASSUME ~subscribed
      PROVE  /\ PairedRight'
             /\ Waiting' = {} /\ acking = "none"
             /\ DOMAIN lines' = {} /\ DOMAIN requests = {} /\ DOMAIN queue = {}
             /\ Len(requests) + Len(queue) + Len(lines') <= 1
  <2>1. /\ \A a, d \in Waiting : a = d
        /\ Len(requests) + Len(queue) + Len(lines) <= 1
        /\ \E a \in Waiting : lines[1] = Answer(a)
        /\ acking = "none"
    BY <1>1, <1>5, <1>8 DEF OneAtATime
  <2>2. Head(lines) = Answer(c)
    BY <1>2, <1>5, <2>1
  <2>3. PairedRight'
    BY <1>3, <1>4, <1>8, <2>2 DEF PairedRight, SettledByOwnAnswer
  <2>4. Waiting' = {}
    BY <1>2, <1>7, <2>1
  <2>5. /\ Len(requests) \in Nat /\ Len(queue) \in Nat
        /\ DOMAIN requests = 1..Len(requests) /\ DOMAIN queue = 1..Len(queue)
    BY <1>4, LenProperties
  <2>6. Len(lines) = 1 /\ Len(requests) = 0 /\ Len(queue) = 0
    BY <1>5, <2>1, <2>5
  <2> QED BY <1>5, <2>1, <2>3, <2>4, <2>5, <2>6
<1>9. subscribed' = subscribed /\ library' = "ruby" /\ up' = up
      /\ UNCHANGED <<requests, acking, queue>>
  BY <1>1 DEF server
<1>10. OneAtATime'
  BY <1>8, <1>9 DEF OneAtATime
<1>11. SettledByOwnAnswer' /\ Lost' /\ EventsInOrder'
  BY <1>8, <1>9 DEF SettledByOwnAnswer, Lost, EventsInOrder
<1> QED BY <1>6, <1>10, <1>11

\* A library that blocks looks at what has arrived between two calls: nothing,
\* as long as the program has not subscribed.
LEMMA DrainKeeps ==
  ASSUME ClientInv, drain_events
  PROVE  ClientInv'
<1> USE DEF ClientInv
<1>1. /\ library = "ruby" /\ Waiting = {} /\ lines # <<>>
      /\ events' = events \o lines /\ lines' = <<>>
      /\ UNCHANGED <<library, state, taken, closed, batching, server, up>>
  BY DEF drain_events
<1>2. events \in Seq(Line) /\ lines \in Seq(Line)
  BY DEF ClientTypeOK
<1>3. events' \in Seq(Line) /\ lines' \in Seq(Line)
  BY <1>1, <1>2, ConcatProperties
<1>4. ClientTypeOK'
  BY <1>1, <1>3 DEF ClientTypeOK, batching, server
<1>5. subscribed
  <2>1. 1 \in DOMAIN lines
    BY <1>1, <1>2, Shorter
  <2> QED BY <1>1, <2>1 DEF OneAtATime
<1>6. subscribed' /\ library' = "ruby"
  BY <1>1, <1>5 DEF server
<1> QED BY <1>1, <1>4, <1>6 DEF SettledByOwnAnswer, OneAtATime, Lost, EventsInOrder, server

\* The connection has ended and everything that arrived was read.
LEMMA OnCloseKeeps ==
  ASSUME ClientInv, OnClose
  PROVE  ClientInv'
<1> USE DEF ClientInv
<1>1. /\ ~up /\ lines = <<>> /\ closed' = TRUE
      /\ state' = [c \in Calls |-> IF c \in Waiting THEN "settled" ELSE state[c]]
      /\ UNCHANGED <<library, taken, events, batching, server, lines, up>>
  BY DEF OnClose
<1>2. state \in [Calls -> {"unused", "waiting", "settled"}]
  BY DEF ClientTypeOK
<1>3. state' \in [Calls -> {"unused", "waiting", "settled"}] /\ Waiting' = {}
  BY <1>1, <1>2 DEF Waiting
<1>4. ClientTypeOK'
  BY <1>1, <1>3 DEF ClientTypeOK, batching, server
<1>5. requests = <<>> /\ queue = <<>> /\ acking = "none"
  BY <1>1 DEF Lost
<1>6. UNCHANGED <<requests, queue, acking, subscribed, pushed>>
  BY <1>1 DEF server
<1>7. OneAtATime'
  <2>1. Len(<<>>) = 0 /\ DOMAIN <<>> = {}
    OBVIOUS
  <2> QED BY <1>1, <1>3, <1>5, <1>6, <2>1 DEF OneAtATime
<1>8. SettledByOwnAnswer' /\ Lost' /\ EventsInOrder'
  BY <1>1, <1>5, <1>6 DEF SettledByOwnAnswer, PairedRight, Lost, EventsInOrder
<1> QED BY <1>4, <1>7, <1>8

\* The connection thread takes a call.
LEMMA ReceiveKeeps ==
  ASSUME ClientInv, Receive
  PROVE  ClientInv'
<1> USE DEF ClientInv
<1> DEFINE c == Head(requests)
<1>1. /\ up /\ acking = "none" /\ requests # <<>> /\ requests' = Tail(requests)
      /\ UNCHANGED <<client, batching, pushed, lines, up>>
      /\ \/ subscribed' = TRUE /\ acking' = c /\ queue' = queue
         \/ queue' = Append(queue, c) /\ subscribed' = subscribed /\ acking' = acking
  BY DEF Receive
<1>2. requests \in Seq(Calls) /\ queue \in Seq(Calls) /\ lines \in Seq(Line)
  BY DEF ClientTypeOK
<1>3. /\ Len(requests) \in Nat /\ Len(requests) > 0 /\ 1 \in DOMAIN requests
      /\ c = requests[1] /\ c \in Calls
      /\ requests' \in Seq(Calls) /\ Len(requests') = Len(requests) - 1
      /\ \A n \in DOMAIN requests' : n + 1 \in DOMAIN requests /\ requests'[n] = requests[n + 1]
  BY <1>1, <1>2, Shorter
<1> HIDE DEF c
<1>4. /\ Len(queue) \in Nat /\ Append(queue, c) \in Seq(Calls)
      /\ Len(Append(queue, c)) = Len(queue) + 1
      /\ DOMAIN queue = 1..Len(queue)
      /\ DOMAIN Append(queue, c) = 1..Len(queue) + 1
      /\ \A n \in 1..Len(queue) : Append(queue, c)[n] = queue[n]
      /\ Append(queue, c)[Len(queue) + 1] = c
  BY <1>2, <1>3, Longer
<1>5. queue' \in Seq(Calls) /\ acking' \in Calls \cup {"none"} /\ subscribed' \in BOOLEAN
  BY <1>1, <1>2, <1>3, <1>4 DEF ClientTypeOK
<1>6. ClientTypeOK'
  BY <1>1, <1>3, <1>5 DEF ClientTypeOK, batching, client
<1>7. UNCHANGED <<library, state, taken, events, Waiting>>
  BY <1>1 DEF client, Waiting
<1>8. OneAtATime'
  <2> SUFFICES ASSUME library = "ruby", ~subscribed'
               PROVE  /\ acking' = "none"
                      /\ \A a, d \in Waiting : a = d
                      /\ Len(requests') + Len(queue') + Len(lines') <= 1
                      /\ \A n \in DOMAIN requests' : requests'[n] \in Waiting
                      /\ \A n \in DOMAIN queue' : queue'[n] \in Waiting
                      /\ \A n \in DOMAIN lines' : \E a \in Waiting : lines'[n] = Answer(a)
    BY <1>7 DEF OneAtATime
  <2>1. queue' = Append(queue, c) /\ ~subscribed /\ acking' = acking /\ lines' = lines
    BY <1>1
  <2>2. Len(lines) \in Nat
    BY <1>2, LenProperties
  <2>3. Len(requests') + Len(queue') + Len(lines') <= 1
    BY <1>3, <1>4, <2>1, <2>2 DEF OneAtATime
  <2>4. \A n \in DOMAIN requests' : requests'[n] \in Waiting
    BY <1>3, <2>1 DEF OneAtATime
  <2>5. ASSUME NEW n \in DOMAIN queue' PROVE queue'[n] \in Waiting
    <3>1. n \in 1..Len(queue) \/ n = Len(queue) + 1
      BY <1>4, <2>1
    <3>2. c \in Waiting
      BY <1>3, <2>1 DEF OneAtATime
    <3> QED BY <1>4, <2>1, <3>1, <3>2 DEF OneAtATime
  <2> QED BY <1>1, <2>1, <2>3, <2>4, <2>5 DEF OneAtATime
<1>9. SettledByOwnAnswer'
  BY <1>1, <1>7 DEF SettledByOwnAnswer, PairedRight
<1>10. Lost' /\ EventsInOrder'
  BY <1>1, <1>7 DEF Lost, EventsInOrder
<1> QED BY <1>6, <1>8, <1>9, <1>10

\* What an answer or an event does to the lines.
LEMMA SendKeeps ==
  ASSUME ClientInv, NEW line \in Line, lines' = Append(lines, line),
         UNCHANGED <<client, up>>, pushed' \in Nat,
         \/ line.event = 0 /\ pushed' = pushed
         \/ line.event = pushed + 1 /\ pushed' = pushed + 1
  PROVE  /\ lines' \in Seq(Line) /\ Len(lines') = Len(lines) + 1
         /\ \A n \in DOMAIN lines' :
              lines'[n] # line => n \in DOMAIN lines /\ lines'[n] = lines[n]
         /\ EventsInOrder'
<1> USE DEF ClientInv
<1>1. lines \in Seq(Line) /\ pushed \in Nat /\ events \in Seq(Line) /\ UNCHANGED <<library, events>>
  BY ClientBoundsAssumption DEF ClientTypeOK, client
<1>2. /\ Len(lines) \in Nat /\ lines' \in Seq(Line) /\ Len(lines') = Len(lines) + 1
      /\ DOMAIN lines = 1..Len(lines) /\ DOMAIN lines' = 1..Len(lines) + 1
      /\ \A n \in 1..Len(lines) : lines'[n] = lines[n]
      /\ lines'[Len(lines) + 1] = line
  BY <1>1, Longer
<1>3. ASSUME NEW n \in DOMAIN lines'
      PROVE  lines'[n] # line => n \in DOMAIN lines /\ lines'[n] = lines[n]
  <2>1. n \in 1..Len(lines) \/ n = Len(lines) + 1
    BY <1>2
  <2> QED BY <1>2, <2>1
<1>4. ASSUME library = "js"
      PROVE  /\ Numbers(lines') = Len(events) + 1..pushed' /\ InTurn(lines')
             /\ Len(events) <= pushed'
             /\ \A n \in DOMAIN events : events[n] = Event(n)
  <2>1. /\ Numbers(lines) = Len(events) + 1..pushed /\ InTurn(lines)
        /\ Len(events) <= pushed
        /\ \A n \in DOMAIN events : events[n] = Event(n)
    BY <1>4, EventsByNumber
  <2>2. Len(events) \in Nat
    BY <1>1, LenProperties
  <2>3. CASE line.event = 0 /\ pushed' = pushed
    BY <1>1, <2>1, <2>3, AppendToLines
  <2>4. CASE line.event = pushed + 1 /\ pushed' = pushed + 1
    <3>1. line.event # 0 /\ \A n \in Numbers(lines) : n < line.event
      BY <1>1, <2>1, <2>2, <2>4
    <3>2. InTurn(lines') /\ Numbers(lines') = (Len(events) + 1..pushed) \cup {pushed + 1}
      BY <1>1, <2>1, <2>4, <3>1, AppendToLines
    <3>3. (Len(events) + 1..pushed) \cup {pushed + 1} = Len(events) + 1..pushed + 1
      BY <1>1, <2>1, <2>2
    <3>4. Len(events) <= pushed + 1
      BY <1>1, <2>1, <2>2
    <3> QED BY <2>1, <2>4, <3>2, <3>3, <3>4
  <2> QED BY <2>3, <2>4
<1>5. EventsInOrder'
  BY <1>1, <1>4, EventsByNumber DEF EventsInOrder, Numbers, InTurn
<1> QED BY <1>2, <1>3, <1>5

\* A thread of the server answers the call that it has in hand.
LEMMA AnswerKeeps ==
  ASSUME ClientInv, Acknowledge \/ (Execute /\ Head(queue) \notin Unknown)
  PROVE  ClientInv'
<1> USE DEF ClientInv
<1>1. PICK c \in Calls :
        /\ lines' = Append(lines, Answer(c))
        /\ UNCHANGED <<client, batching, requests, subscribed, pushed, up>>
        /\ \/ acking = c /\ acking' = "none" /\ queue' = queue
           \/ /\ queue # <<>> /\ c = queue[1] /\ queue' = Tail(queue) /\ acking' = acking
  <2>1. CASE Acknowledge
    BY <2>1 DEF Acknowledge, Send, ClientTypeOK
  <2>2. CASE Execute /\ Head(queue) \notin Unknown
    <3>1. queue # <<>> /\ Head(queue) \in Calls /\ Head(queue) = queue[1]
      BY <2>2, Shorter DEF Execute, ClientTypeOK
    <3> QED BY <2>2, <3>1 DEF Execute, Send
  <2> QED BY <2>1, <2>2
<1>2. /\ queue \in Seq(Calls) /\ pushed \in Nat /\ requests \in Seq(Calls)
      /\ lines \in Seq(Line) /\ acking \in Calls \cup {"none"}
      /\ "none" \notin Calls
  BY ClientBoundsAssumption, CallsAssumption DEF ClientTypeOK
<1>3. Answer(c) \in Line /\ Answer(c).event = 0
  BY Lines
<1>4. /\ lines' \in Seq(Line) /\ Len(lines') = Len(lines) + 1
      /\ \A n \in DOMAIN lines' :
           lines'[n] # Answer(c) => n \in DOMAIN lines /\ lines'[n] = lines[n]
      /\ EventsInOrder'
  BY <1>1, <1>2, <1>3, SendKeeps
<1>5. /\ queue' \in Seq(Calls) /\ acking' \in Calls \cup {"none"}
      /\ Len(requests) \in Nat /\ Len(queue) \in Nat /\ Len(lines) \in Nat
      /\ acking = "none" => /\ Len(queue') = Len(queue) - 1 /\ 1 \in DOMAIN queue
                            /\ \A n \in DOMAIN queue' :
                                 n + 1 \in DOMAIN queue /\ queue'[n] = queue[n + 1]
  <2>1. Len(requests) \in Nat /\ Len(queue) \in Nat /\ Len(lines) \in Nat
    BY <1>2, LenProperties
  <2>2. CASE acking = c /\ acking' = "none" /\ queue' = queue
    BY <1>2, <2>1, <2>2
  <2>3. CASE queue # <<>> /\ queue' = Tail(queue) /\ acking' = acking
    BY <1>2, <2>1, <2>3, Shorter
  <2> QED BY <1>1, <2>2, <2>3
<1>6. UNCHANGED <<library, state, taken, Waiting>>
  BY <1>1 DEF client, Waiting
<1>7. ClientTypeOK'
  BY <1>1, <1>4, <1>5 DEF ClientTypeOK, batching, client
<1>8. OneAtATime'
  <2> SUFFICES ASSUME library = "ruby", ~subscribed
               PROVE  /\ acking' = "none"
                      /\ \A a, d \in Waiting : a = d
                      /\ Len(requests) + Len(queue') + Len(lines') <= 1
                      /\ \A n \in DOMAIN requests : requests[n] \in Waiting
                      /\ \A n \in DOMAIN queue' : queue'[n] \in Waiting
                      /\ \A n \in DOMAIN lines' : \E a \in Waiting : lines'[n] = Answer(a)
    BY <1>1, <1>6 DEF OneAtATime
  <2>1. /\ acking = "none" /\ Len(requests) + Len(queue) + Len(lines) <= 1
        /\ \A a, d \in Waiting : a = d
        /\ \A n \in DOMAIN requests : requests[n] \in Waiting
        /\ \A n \in DOMAIN queue : queue[n] \in Waiting
        /\ \A n \in DOMAIN lines : \E a \in Waiting : lines[n] = Answer(a)
    BY DEF OneAtATime
  <2>2. c = queue[1] /\ acking' = acking
    BY <1>1, <1>2, <2>1
  <2>3. c \in Waiting
    BY <1>5, <2>1, <2>2
  <2>4. Len(requests) + Len(queue') + Len(lines') <= 1
    BY <1>4, <1>5, <2>1
  <2> QED BY <1>4, <1>5, <2>1, <2>2, <2>3, <2>4
<1>9. SettledByOwnAnswer'
  BY <1>1, <1>6 DEF SettledByOwnAnswer, PairedRight
<1>10. Lost'
  <2>1. up
    BY DEF Acknowledge, Execute
  <2> QED BY <1>1, <2>1 DEF Lost
<1> QED BY <1>4, <1>7, <1>8, <1>9, <1>10

\* A call that the server has no handler for is answered by nobody.
LEMMA UnansweredKeeps ==
  ASSUME ClientInv, Execute, UNCHANGED lines
  PROVE  ClientInv'
<1> USE DEF ClientInv
<1>1. /\ up /\ queue # <<>> /\ queue' = Tail(queue)
      /\ UNCHANGED <<client, batching, requests, acking, subscribed, pushed, up, lines>>
  BY DEF Execute
<1>2. /\ queue' \in Seq(Calls) /\ Len(queue') = Len(queue) - 1 /\ 1 \in DOMAIN queue
      /\ \A n \in DOMAIN queue' : n + 1 \in DOMAIN queue /\ queue'[n] = queue[n + 1]
      /\ Len(requests) \in Nat /\ Len(queue) \in Nat /\ Len(lines) \in Nat
  BY <1>1, Shorter, LenProperties DEF ClientTypeOK
<1>3. UNCHANGED <<library, state, taken, events, Waiting>>
  BY <1>1 DEF client, Waiting
<1>4. ClientTypeOK'
  BY <1>1, <1>2 DEF ClientTypeOK, batching, client
<1>5. OneAtATime'
  <2> SUFFICES ASSUME library = "ruby", ~subscribed
               PROVE  /\ Len(requests) + Len(queue') + Len(lines) <= 1
                      /\ \A n \in DOMAIN queue' : queue'[n] \in Waiting
    BY <1>1, <1>3 DEF OneAtATime
  <2>1. /\ Len(requests) + Len(queue) + Len(lines) <= 1
        /\ \A n \in DOMAIN queue : queue[n] \in Waiting
    BY DEF OneAtATime
  <2> QED BY <1>2, <2>1
<1> QED BY <1>1, <1>3, <1>4, <1>5
        DEF SettledByOwnAnswer, PairedRight, Lost, EventsInOrder

\* The main thread pushes an event.
LEMMA PushedKeeps ==
  ASSUME ClientInv, Push
  PROVE  ClientInv'
<1> USE DEF ClientInv
<1>1. /\ up /\ subscribed /\ pushed < MaxEvents
      /\ pushed' = pushed + 1 /\ lines' = Append(lines, Event(pushed + 1))
      /\ UNCHANGED <<client, batching, requests, acking, queue, subscribed, up>>
  BY DEF Push, Send
<1>2. pushed' \in Nat /\ pushed' \in 1..MaxEvents /\ pushed' \in 0..MaxEvents
  BY <1>1, ClientBoundsAssumption DEF ClientTypeOK
<1>3. Event(pushed + 1) \in Line /\ Event(pushed + 1).event = pushed + 1
  BY <1>1, <1>2, Lines
<1>4. lines' \in Seq(Line) /\ EventsInOrder'
  BY <1>1, <1>2, <1>3, SendKeeps
<1>5. ClientTypeOK'
  BY <1>1, <1>2, <1>4 DEF ClientTypeOK, batching, client
<1>6. subscribed' /\ up' /\ UNCHANGED <<library, taken>>
  BY <1>1 DEF client
<1> QED BY <1>4, <1>5, <1>6 DEF SettledByOwnAnswer, PairedRight, OneAtATime, Lost

\* What was not read by the server is lost; what it has sent arrives.
LEMMA DownKeeps ==
  ASSUME ClientInv, Down
  PROVE  ClientInv'
<1> USE DEF ClientInv
<1>1. /\ up' = FALSE /\ requests' = <<>> /\ acking' = "none" /\ queue' = <<>>
      /\ UNCHANGED <<client, batching, subscribed, pushed, lines>>
  BY DEF Down
<1>2. ClientTypeOK'
  <2>1. requests' \in Seq(Calls) /\ queue' \in Seq(Calls) /\ acking' \in Calls \cup {"none"}
    BY <1>1
  <2>2. {closed', subscribed', up'} \subseteq BOOLEAN
    BY <1>1 DEF ClientTypeOK, client
  <2> QED BY <1>1, <2>1, <2>2 DEF ClientTypeOK, batching, client
<1>3. UNCHANGED <<library, taken, events, Waiting>>
  BY <1>1 DEF client, Waiting
<1>4. OneAtATime'
  <2>1. Len(<<>>) = 0 /\ DOMAIN <<>> = {}
    OBVIOUS
  <2>2. Len(requests) \in Nat /\ Len(queue) \in Nat /\ Len(lines) \in Nat
    BY LenProperties DEF ClientTypeOK
  <2>3. library = "ruby" /\ ~subscribed => Len(lines) <= 1
    BY <2>2 DEF OneAtATime
  <2>4. library = "ruby" /\ ~subscribed => 0 + 0 + Len(lines) <= 1
    BY <2>2, <2>3
  <2> QED BY <1>1, <1>3, <2>1, <2>4 DEF OneAtATime
<1> QED BY <1>1, <1>2, <1>3, <1>4 DEF SettledByOwnAnswer, PairedRight, Lost, EventsInOrder

\* A command without an answer, in a batch or not.
LEMMA BatchingKeeps ==
  ASSUME ClientInv, cmd \/ BeginBatch \/ EndBatch
  PROVE  ClientInv'
<1> USE DEF ClientInv
<1>1. UNCHANGED <<client, server, lines, up>>
  BY DEF cmd, BeginBatch, EndBatch
<1>2. MaxCmds \in Nat /\ Batches \in Nat
  BY ClientBoundsAssumption
<1>3. /\ batch \in Seq(Seq(1..MaxCmds)) /\ written \in Seq(1..MaxCmds)
      /\ issued \in 0..MaxCmds /\ batches \in 0..Batches
  BY DEF ClientTypeOK
<1>4. Buffered \in Seq(1..MaxCmds)
  <2>1. CASE batch = <<>>
    BY <2>1 DEF Buffered
  <2>2. CASE batch # <<>>
    BY <1>3, <2>2, Shorter DEF Buffered
  <2> QED BY <2>1, <2>2
<1>5. \A b \in Seq(1..MaxCmds) : /\ <<b>> \in Seq(Seq(1..MaxCmds)) /\ Len(<<b>>) <= 1
                                 /\ <<>> \in Seq(1..MaxCmds)
                                 /\ <<>> \in Seq(Seq(1..MaxCmds)) /\ Len(<<>>) <= 1
  OBVIOUS
<1>6. ClientTypeOK'
  <2>1. ASSUME /\ batch' \in Seq(Seq(1..MaxCmds)) /\ Len(batch') <= 1
               /\ written' \in Seq(1..MaxCmds)
               /\ issued' \in 0..MaxCmds /\ batches' \in 0..Batches
        PROVE  ClientTypeOK'
    BY <1>1, <2>1 DEF ClientTypeOK, client, server
  <2>2. CASE cmd
    <3>1. /\ issued < MaxCmds /\ issued' = issued + 1 /\ batches' = batches
          /\ \/ batch = <<>> /\ written' = Append(written, issued + 1) /\ batch' = batch
             \/ batch' = <<Append(Buffered, issued + 1)>> /\ written' = written
      BY <2>2 DEF cmd
    <3>2. issued + 1 \in 1..MaxCmds /\ issued' \in 0..MaxCmds
      BY <1>2, <1>3, <3>1
    <3>3. /\ Append(written, issued + 1) \in Seq(1..MaxCmds)
          /\ Append(Buffered, issued + 1) \in Seq(1..MaxCmds)
      BY <1>3, <1>4, <3>2, Longer
    <3> QED BY <1>3, <1>5, <2>1, <3>1, <3>2, <3>3 DEF ClientTypeOK
  <2>3. CASE BeginBatch
    <3>1. /\ batches < Batches /\ batches' = batches + 1 /\ batch' = << <<>> >>
          /\ UNCHANGED <<issued, written>>
      BY <2>3 DEF BeginBatch
    <3>2. batches' \in 0..Batches
      BY <1>2, <1>3, <3>1
    <3> QED BY <1>3, <1>4, <1>5, <2>1, <3>1, <3>2
  <2>4. CASE EndBatch
    <3>1. /\ batches > 0 /\ batches' = batches - 1 /\ batch' = <<>>
          /\ written' = written \o Buffered /\ issued' = issued
      BY <2>4 DEF EndBatch
    <3>2. batches' \in 0..Batches
      BY <1>2, <1>3, <3>1
    <3>3. written' \in Seq(1..MaxCmds)
      BY <1>3, <1>4, <3>1, ConcatProperties
    <3> QED BY <1>3, <1>4, <1>5, <2>1, <3>1, <3>2, <3>3
  <2> QED BY <2>2, <2>3, <2>4
<1>7. UNCHANGED <<library, state, taken, events, Waiting, requests, acking, queue,
                  subscribed, pushed>>
  BY <1>1 DEF client, server, Waiting
<1> QED BY <1>1, <1>6, <1>7 DEF SettledByOwnAnswer, PairedRight, OneAtATime, Lost, EventsInOrder

LEMMA ClientInvKept == ClientInv /\ [ClientNext]_clientVars => ClientInv'
<1> SUFFICES ASSUME ClientInv, [ClientNext]_clientVars PROVE ClientInv'
  OBVIOUS
<1>1. CASE UNCHANGED clientVars
  <2>1. UNCHANGED <<client, batching, server, lines, up, Waiting>>
    BY <1>1 DEF clientVars, client, Waiting
  <2> QED BY <2>1 DEF ClientInv, ClientTypeOK, SettledByOwnAnswer, PairedRight, OneAtATime,
                      Lost, EventsInOrder, client, batching, server
<1>2. CASE Execute
  <2>1. Head(queue) \notin Unknown \/ UNCHANGED lines
    BY <1>2 DEF Execute
  <2> QED BY <1>2, <2>1, AnswerKeeps, UnansweredKeeps
<1> QED BY <1>1, <1>2, SyncKeeps, OnLineKeeps, NextLineKeeps, DrainKeeps, OnCloseKeeps,
           BatchingKeeps, ReceiveKeeps, AnswerKeeps, PushedKeeps, DownKeeps
        DEF ClientNext

\* The library's invariant holds in every state.
THEOREM ClientInvariant == ClientSpec => []ClientInv
<1> QED BY ClientInitially, ClientInvKept, PTL DEF ClientSpec

\* Whatever the calls, events and losses, and however many: a library that looks
\* answers up never gives a call what is not its own; one that takes the next
\* line does not either, as long as the program has not subscribed.
THEOREM OwnAnswers == ClientSpec => []SettledByOwnAnswer
<1>1. ClientInv => SettledByOwnAnswer
  BY DEF ClientInv
<1> QED BY <1>1, ClientInvariant, PTL

\* Whatever calls are under way, the events reach the program of raylib_client.js
\* in the order they were pushed in, each once.
THEOREM EventsArrive == ClientSpec => []EventsInOrder
<1>1. ClientInv => EventsInOrder
  BY DEF ClientInv
<1> QED BY <1>1, ClientInvariant, PTL

\* The commands of w ascend, up to the k-th.
CommandsAscend(w, k) ==
    /\ \A i \in DOMAIN w : w[i] <= k
    /\ \A i, j \in DOMAIN w : i < j => w[i] < w[j]

LEMMA OneMoreAscends ==
  ASSUME NEW w \in Seq(Nat), NEW k \in Nat, CommandsAscend(w, k)
  PROVE  CommandsAscend(Append(w, k + 1), k + 1)
<1> DEFINE longer == Append(w, k + 1)
<1>1. k + 1 \in Nat /\ Len(w) \in Nat /\ DOMAIN w = 1..Len(w)
  BY LenProperties
<1>2. /\ DOMAIN longer = 1..Len(w) + 1 /\ longer[Len(w) + 1] = k + 1
      /\ \A n \in 1..Len(w) : longer[n] = w[n]
  BY <1>1, Longer
<1>3. \A n \in 1..Len(w) : w[n] \in Nat /\ w[n] <= k
  BY <1>1, ElementOfSeq DEF CommandsAscend
<1>4. \A i, j \in 1..Len(w) : i < j => w[i] < w[j]
  BY <1>1 DEF CommandsAscend
<1>5. \A n \in 1..Len(w) + 1 : n \in 1..Len(w) \/ n = Len(w) + 1
  BY <1>1
<1> HIDE DEF longer
<1>6. \A n \in DOMAIN longer : longer[n] <= k + 1
  BY <1>1, <1>2, <1>3, <1>5
<1>7. ASSUME NEW i \in DOMAIN longer, NEW j \in DOMAIN longer, i < j
      PROVE  longer[i] < longer[j]
  <2>1. i \in 1..Len(w)
    BY <1>1, <1>2, <1>7
  <2>2. CASE j \in 1..Len(w)
    BY <1>2, <1>4, <1>7, <2>1, <2>2
  <2>3. CASE j = Len(w) + 1
    <3>1. longer[i] = w[i] /\ longer[j] = k + 1 /\ w[i] \in Nat /\ w[i] <= k
      BY <1>2, <1>3, <2>1, <2>3
    <3> QED BY <1>1, <3>1
  <2> QED BY <1>2, <1>5, <2>2, <2>3
<1> QED BY <1>6, <1>7 DEF CommandsAscend, longer

LEMMA StartAscends ==
  ASSUME NEW v \in Seq(Nat), NEW w \in Seq(Nat), NEW k \in Nat, CommandsAscend(v \o w, k)
  PROVE  CommandsAscend(v, k)
<1>1. /\ Len(v) \in Nat /\ Len(w) \in Nat
      /\ DOMAIN v = 1..Len(v) /\ DOMAIN (v \o w) = 1..Len(v) + Len(w)
      /\ \A i \in 1..Len(v) : (v \o w)[i] = v[i]
  BY LenProperties, ConcatProperties
<1>2. \A i \in 1..Len(v) : i \in DOMAIN (v \o w)
  BY <1>1
<1> QED BY <1>1, <1>2 DEF CommandsAscend

\* However many batches the program opens at once, and in whatever order they
\* end: no command is written twice, and none overtakes an earlier one.  That
\* each is written does not hold, see ClientLibBatches.cfg.
THEOREM BatchesKeepOrder == ClientSpec => []NoneOvertakes
<1>1. ClientInit => NoneOvertakes
  <2> SUFFICES ASSUME ClientInit PROVE NoneOvertakes
    OBVIOUS
  <2>1. written = <<>> /\ Buffered = <<>>
    BY DEF ClientInit, Buffered
  <2>2. <<>> \o <<>> = <<>> /\ DOMAIN <<>> = {}
    BY ConcatEmptySeq
  <2> QED BY <2>1, <2>2 DEF NoneOvertakes
<1>2. ClientInv /\ NoneOvertakes /\ [ClientNext]_clientVars => NoneOvertakes'
  <2> SUFFICES ASSUME ClientInv, NoneOvertakes, [ClientNext]_clientVars
               PROVE  NoneOvertakes'
    OBVIOUS
  <2>1. MaxCmds \in Nat /\ 1..MaxCmds \subseteq Nat
    BY ClientBoundsAssumption
  <2>2. /\ written \in Seq(1..MaxCmds) /\ batch \in Seq(Seq(1..MaxCmds))
        /\ issued \in Nat /\ Len(batch) <= 1
    BY <2>1 DEF ClientInv, ClientTypeOK
  <2>3. Buffered \in Seq(1..MaxCmds)
    <3>1. CASE batch = <<>>
      BY <3>1 DEF Buffered
    <3>2. CASE batch # <<>>
      BY <2>2, <3>2, Shorter DEF Buffered
    <3> QED BY <3>1, <3>2
  <2>4. written \in Seq(Nat) /\ Buffered \in Seq(Nat)
    BY <2>1, <2>2, <2>3, SeqDef
  <2> DEFINE all == written \o Buffered
  <2>5. all \in Seq(Nat) /\ CommandsAscend(all, issued)
    BY <2>4, ConcatProperties DEF NoneOvertakes, CommandsAscend
  <2>6. ASSUME CommandsAscend(written' \o Buffered', issued') PROVE NoneOvertakes'
    BY <2>6 DEF NoneOvertakes, CommandsAscend
  <2>7. CASE cmd
    <3>1. /\ issued' = issued + 1
          /\ \/ batch = <<>> /\ written' = Append(written, issued + 1) /\ batch' = batch
             \/ /\ batch # <<>> /\ batch' = <<Append(Buffered, issued + 1)>>
                /\ written' = written
      BY <2>7 DEF cmd
    <3>2. CommandsAscend(Append(all, issued + 1), issued + 1)
      BY <2>2, <2>5, OneMoreAscends
    <3>3. CASE batch = <<>>
      <4>1. Buffered = <<>> /\ Buffered' = <<>> /\ written' = Append(written, issued + 1)
        BY <3>1, <3>3 DEF Buffered
      <4>2. written \o <<>> = written
        BY <2>4, ConcatEmptySeq
      <4>3. Append(written, issued + 1) \in Seq(Nat)
        BY <2>2, <2>4, AppendProperties
      <4>4. Append(written, issued + 1) \o <<>> = Append(written, issued + 1)
        BY <4>3, ConcatEmptySeq
      <4> QED BY <2>6, <3>1, <3>2, <4>1, <4>2, <4>4
    <3>4. CASE batch # <<>>
      <4>1. Buffered' = Append(Buffered, issued + 1) /\ written' = written
        <5>1. batch' = <<Append(Buffered, issued + 1)>> /\ written' = written
          BY <3>1, <3>4
        <5>2. batch' # <<>> /\ batch'[1] = Append(Buffered, issued + 1)
          BY <5>1
        <5>3. Buffered' = IF batch' = <<>> THEN <<>> ELSE batch'[1]
          BY DEF Buffered
        <5> QED BY <5>1, <5>2, <5>3
      <4>2. written \o Append(Buffered, issued + 1) = Append(all, issued + 1)
        <5>1. issued + 1 \in Nat /\ <<issued + 1>> \in Seq(Nat)
          BY <2>2
        <5>2. /\ Append(Buffered, issued + 1) = Buffered \o <<issued + 1>>
              /\ Append(all, issued + 1) = all \o <<issued + 1>>
          BY <2>4, <2>5, <5>1, AppendIsConcat
        <5>3. (written \o Buffered) \o <<issued + 1>> = written \o (Buffered \o <<issued + 1>>)
          BY <2>4, <5>1, ConcatAssociative
        <5> QED BY <5>2, <5>3
      <4> QED BY <2>6, <3>1, <3>2, <4>1, <4>2
    <3> QED BY <3>3, <3>4
  <2>8. CASE BeginBatch
    <3>1. batch' = << <<>> >> /\ UNCHANGED <<issued, written>>
      BY <2>8 DEF BeginBatch
    <3>2. Buffered' = <<>> /\ written \o <<>> = written
      BY <2>4, <3>1, ConcatEmptySeq DEF Buffered
    <3>3. CommandsAscend(written, issued)
      BY <2>2, <2>4, <2>5, StartAscends
    <3> QED BY <2>6, <3>1, <3>2, <3>3
  <2>9. CASE EndBatch
    <3>1. batch' = <<>> /\ written' = all /\ issued' = issued
      BY <2>9 DEF EndBatch
    <3>2. Buffered' = <<>> /\ all \o <<>> = all
      BY <2>5, <3>1, ConcatEmptySeq DEF Buffered
    <3> QED BY <2>5, <2>6, <3>1, <3>2
  <2>10. CASE UNCHANGED batching
    BY <2>10 DEF batching, NoneOvertakes, Buffered
  <2>11. \/ cmd \/ BeginBatch \/ EndBatch \/ UNCHANGED batching
    BY DEF ClientNext, clientVars, sync, OnLine, NextLine, drain_events, OnClose, Receive,
           Acknowledge, Execute, Push, Down
  <2> QED BY <2>7, <2>8, <2>9, <2>10, <2>11
<1> QED BY <1>1, <1>2, ClientInvariant, PTL DEF ClientSpec
==============================================================================
